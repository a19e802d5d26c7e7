------------------------------- MODULE Export -------------------------------
(***************************************************************************)
(* How the gateway reads the pages of a notebook from Novo and cuts them   *)
(* into ingest batches (_export_and_ingest and _partition_page_batches of  *)
(* novo_chat/gateway/sync.py), as a function of what Novo answers.  The    *)
(* jobs that ingest the batches are those of GatewaySync.                  *)
(*                                                                         *)
(* A page has its ID and the length of its canonical JSON; a batch is the  *)
(* JSON array of its pages: two brackets, and a comma between any two.     *)
(***************************************************************************)
EXTENDS Naturals, Sequences, FiniteSets
LOCAL INSTANCE SequencesExt

Ids(pages) == {page.id : page \in ToSet(pages)}

Bytes(batch) ==
    FoldLeft(LAMBDA sum, page : sum + page.bytes, 2, batch) + (IF batch = <<>> THEN 0 ELSE Len(batch) - 1)

\* _partition_page_batches: what it has handed out, and whether it raised.
Batches(pages, maxBytes) ==
    LET Put(r, page) ==
            LET candidate == r.bytes + page.bytes + (IF r.batch = <<>> THEN 0 ELSE 1)
            IN  IF r.failed THEN r
                ELSE IF candidate <= maxBytes
                THEN [r EXCEPT !.batch = Append(@, page), !.bytes = candidate]
                ELSE [sent |-> IF r.batch = <<>> THEN r.sent ELSE Append(r.sent, r.batch),
                      batch |-> IF 2 + page.bytes > maxBytes THEN <<>> ELSE <<page>>,
                      bytes |-> 2 + page.bytes,
                      failed |-> 2 + page.bytes > maxBytes]
        all == FoldLeft(Put, [sent |-> <<>>, batch |-> <<>>, bytes |-> 2, failed |-> FALSE], pages)
    IN  [sent |-> IF all.batch = <<>> THEN all.sent ELSE Append(all.sent, all.batch), failed |-> all.failed]

\* The loop of _export_and_ingest over the answers of Novo: the batches handed
\* to the worker, and how the loop ends.  It is "going" when it wants another
\* answer, and a repeated or missing cursor ends it.
Exported(answers, maxRequests, maxPages, maxBytes) ==
    LET Read(r, answer) ==
            LET batches == Batches(answer.pages, maxBytes)
            IN  CASE r.end # "going" -> r
                  [] r.requests = maxRequests -> [r EXCEPT !.end = "limit"]
                  [] \/ Cardinality(Ids(answer.pages)) # Len(answer.pages)
                     \/ Ids(answer.pages) \cap r.ids # {} -> [r EXCEPT !.end = "duplicate"]
                  [] r.count + Len(answer.pages) > maxPages -> [r EXCEPT !.end = "limit"]
                  [] OTHER ->
                     [sent |-> r.sent \o batches.sent,
                      ids |-> r.ids \cup Ids(answer.pages),
                      count |-> r.count + Len(answer.pages),
                      requests |-> r.requests + 1,
                      cursors |-> r.cursors \cup {answer.cursor},
                      end |-> IF batches.failed THEN "limit"
                              ELSE IF answer.complete THEN "complete"
                              ELSE IF answer.cursor \in r.cursors THEN "cursor"
                              ELSE "going"]
    IN  FoldLeft(Read, [sent |-> <<>>, ids |-> {}, count |-> 0, requests |-> 0, cursors |-> {""}, end |-> "going"],
                 answers)

=============================================================================
