--------------------------- MODULE MCGatewaySync ---------------------------
(* Small instances of GatewaySync.  Users are not made symmetric: the run   *)
(* of the safety property also checks the liveness property.  How an export *)
(* is read and cut into the batches that GatewaySync ingests is checked     *)
(* here over bounded exports.                                              *)
EXTENDS GatewaySync, Export
LOCAL INSTANCE SequencesExt

\* Pages that are not refused are handed out whole and in order, in batches that
\* fit and could not take the page that follows; they are refused if one fits
\* into no batch, and what was handed out before is a part of them.
ASSUME BatchesPartitionThePages ==
    \A sizes \in BoundedSeq(1..4, 5), maxBytes \in 2..12 :
        LET pages == [i \in DOMAIN sizes |-> [id |-> i, bytes |-> sizes[i]]]
            r == Batches(pages, maxBytes)
            n == Len(r.sent)
        IN  /\ r.failed <=> \E i \in DOMAIN pages : 2 + sizes[i] > maxBytes
            /\ IF r.failed THEN IsPrefix(FlattenSeq(r.sent), pages) ELSE FlattenSeq(r.sent) = pages
            /\ \A i \in 1..n : r.sent[i] # <<>> /\ Bytes(r.sent[i]) <= maxBytes
            /\ \A i \in 1..(n - 1) : Bytes(r.sent[i]) + 1 + r.sent[i + 1][1].bytes > maxBytes

\* What Novo may answer: pages a and b in any number and order, any cursor.
Answers ==
    [pages : {[i \in DOMAIN ids |-> [id |-> ids[i], bytes |-> 3]] : ids \in BoundedSeq({"a", "b"}, 2)},
     cursor : {"", "x", "y"}, complete : BOOLEAN]

\* An export is complete only if every page was handed out once, and it ends
\* within its limit of requests whatever Novo answers.
ASSUME ExportsEnd ==
    \A answers \in BoundedSeq(Answers, 3), maxPages \in 1..2 :
        LET r == Exported(answers, 2, maxPages, 6)
            Handed == FlattenSeq(r.sent)
            Read == FlattenSeq([i \in 1..r.requests |-> answers[i].pages])
        IN  /\ r.requests <= 2 /\ (Len(answers) = 3 => r.end # "going")
            /\ Cardinality(Ids(Handed)) = Len(Handed) /\ Len(Handed) <= maxPages
            /\ r.end \in {"complete", "going"} => Handed = Read
            /\ r.end = "complete" => answers[r.requests].complete

=============================================================================
