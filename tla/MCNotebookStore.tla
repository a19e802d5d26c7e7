-------------------------- MODULE MCNotebookStore --------------------------
(* Small instances of NotebookStore.  The chunks it stores in an index and  *)
(* the queries it answers are made by the algorithms that MCRetrieval       *)
(* checks over bounded inputs.                                             *)
EXTENDS NotebookStore, TLC, MCRetrieval

\* Notebooks are interchangeable, and so are revisions, contents and IDs.
StoreSymmetry ==
    Permutations(Notebooks) \cup Permutations(Revisions)
        \cup Permutations(Contents) \cup Permutations(ArtifactIds)

=============================================================================
