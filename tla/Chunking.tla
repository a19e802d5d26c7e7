------------------------------ MODULE Chunking ------------------------------
(***************************************************************************)
(* How novo_chat cuts a page into chunks to be embedded and ranked         *)
(* (chunk_text of novo_chat/rag_core.py).  A word is its position in the   *)
(* page, from 0 on, and a chunk the set of the positions it holds.         *)
(***************************************************************************)
EXTENDS Integers

\* How far the loop advances: at least one word.
Step(words, overlap) == IF words - overlap > 1 THEN words - overlap ELSE 1

\* Where the loop is: at multiples of the step inside the page, up to and
\* including the first whose chunk reaches the end.  A page of at most `words`
\* words, which the code returns as it is, is the loop's first chunk.
Starts(n, words, overlap) ==
    LET step == Step(words, overlap)
    IN  {k * step : k \in {m \in 0..n : m * step < n /\ (m = 0 \/ (m - 1) * step + words < n)}}

\* tokens[start : start + words], which may be short at the end of the page.
Piece(start, n, words) == {i \in start..(start + words - 1) : i < n}

Chunks(n, words, overlap) == {Piece(start, n, words) : start \in Starts(n, words, overlap)}

=============================================================================
