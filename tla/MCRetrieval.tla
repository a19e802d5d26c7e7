---------------------------- MODULE MCRetrieval ----------------------------
(***************************************************************************)
(* The algorithms of Chunking and Retrieval, compared over bounded inputs  *)
(* with what they are meant to achieve.  TLC evaluates the assumptions     *)
(* before the run of the module that extends this one.                     *)
(***************************************************************************)
EXTENDS Chunking, Retrieval
LOCAL INSTANCE SequencesExt

\* The loop of chunk_text: `for start in range(0, n, step)`, with its break.
Loop(n, words, step) ==
    LET from[start \in 0..(n + step)] ==
            IF start >= n THEN {}
            ELSE {start} \cup (IF start + words >= n THEN {} ELSE from[start + step])
    IN  from[0]

\* Starts is where the loop is.
ASSUME StartsAreTheLoop ==
    \A n \in 0..9, words \in 1..4, overlap \in 0..5 :
        Starts(n, words, overlap) = Loop(n, words, Step(words, overlap))

\* Every passage of a page no longer than the overlap and a word is in one
\* chunk, and no chunk is part of another.
ASSUME ChunksCoverThePage ==
    \A n \in 0..9, words \in 1..4, overlap \in 0..5 :
        /\ \A i, j \in 0..(n - 1) :
              (i <= j /\ j - i <= words - Step(words, overlap)) =>
                  \E c \in Chunks(n, words, overlap) : i..j \subseteq c
        /\ \A b, c \in Chunks(n, words, overlap) : b \subseteq c => b = c

\* Terms with their keys: the third repeats the key of the second, the fourth
\* has only scaffolding, and the last two overlap.
Terms == {[key |-> "a", tokens |-> {"a"}], [key |-> "b", tokens |-> {"b"}], [key |-> "the", tokens |-> {}],
          [key |-> "ac", tokens |-> {"a", "c"}], [key |-> "bc", tokens |-> {"b", "c"}]}

\* A question with the token a: every term kept says something new, and nothing
\* that a term says is lost unless the limit is reached.
ASSUME SanitizedSayWhatIsNew ==
    \A terms \in BoundedSeq(Terms, 4), limit \in {2, 12} :
        LET kept == Sanitized(terms, {"a"}, {"a"}, limit)
            Says(s) == UNION {t.tokens : t \in ToSet(s)} \ {"a"}
        IN  /\ \A i \in DOMAIN kept : ~(kept[i].tokens \subseteq {"a"} \cup Says(SubSeq(kept, 1, i - 1)))
            /\ Len(kept) <= limit
            /\ Len(kept) < limit => Says(kept) = Says(terms)

\* What the question and the plan may find in three chunks: any order of the
\* vectors, and words that are missing, common (BM25 says nothing) or telling.
Dense == [1..3 -> 1..2]
Shared == {[shared |-> [c \in 1..3 |-> IF s[c] = "none" THEN 0 ELSE 1],
            score |-> [c \in 1..3 |-> IF s[c] = "telling" THEN 2 ELSE 0]] :
              s \in [1..3 -> {"none", "common", "telling"}]}
Few == {q \in Shared : q.score = [c \in 1..3 |-> 0]}

\* The plan never displaces the best chunk of the question itself, whatever the
\* planner proposes, and never hides a chunk that the question finds.
ASSUME PlanOnlyFillsGaps ==
    \A strategy \in {"hybrid", "semantic", "lexical"}, dense \in Dense, lexical \in Shared,
       more \in Dense \cup {<<>>}, words \in Few :
        LET evidence == Evidence(dense, lexical, strategy, 3)
            expansion == Expansion(more, words, strategy, 3)
            alone == Hits(evidence, Nothing(3), <<1, 2, 3>>, 3)
            hits == Hits(evidence, expansion, <<1, 2, 3>>, 3)
        IN  /\ alone # <<>> => hits[1] = alone[1]
            /\ ToSet(alone) \subseteq ToSet(hits)

\* diversify_by_page: as many chunks as asked for, best first, and a third one
\* of a page only when there is no other left.
ASSUME PagesShareTheAnswer ==
    \A page \in [1..5 -> 1..3], found \in SUBSET (1..5), count \in 1..5 :
        LET ranking == SetToSortSeq(found, <)
            chosen == Diversified(ranking, page, count, 2)
            Of(p, s) == Cardinality({c \in s : page[c] = p})
        IN  /\ Len(chosen) = Lesser(count, Len(ranking))
            /\ Cardinality(ToSet(chosen)) = Len(chosen)
            /\ (\E p \in 1..3 : Of(p, ToSet(chosen)) > 2) =>
                  \A c \in found \ ToSet(chosen) : Of(page[c], ToSet(chosen)) >= 2
            /\ chosen # <<>> => chosen[1] = ranking[1]

\* A server that answers what fits into its context and refuses the rest.
Served(budget, room, context) ==
    [k \in 1..Attempts |->
        IF budget[k] <= room
        THEN [kind |-> "answer", answer |-> [cited |-> {1}, noInformation |-> FALSE]]
        ELSE [kind |-> "overflow", maximum |-> context, output |-> budget[k],
              input |-> context - room, total |-> context - room + budget[k]]]

\* generate answers if one of its four budgets fits, and then gives away at most
\* half of what room there is; its prompt lists every source it may cite.
ASSUME BudgetFitsTheRoom ==
    \A maxTokens \in {1, 64, 65, 127, 128, 500, 512, 1024, 4096}, room \in {0, 1, 63, 64, 65, 250, 511, 512, 2048} :
        LET budget == Budget(maxTokens)
            replies == Served(budget, room, 8192)
            k == Deciding(replies, maxTokens, 8192)
            end == Outcome(<<1>>, 1, replies, maxTokens, 8192)
        IN  /\ end \in {"answer", "CONTEXT_LENGTH_EXCEEDED"}
            /\ end = "answer" <=> \E j \in 1..Attempts : budget[j] <= room
            /\ end = "answer" => k = 1 \/ budget[k] >= room \div 2

\* An answer that is released cites hits the model saw, or says that there is
\* nothing; no reply can make the query release another.
ASSUME CitedWasSeen ==
    \A n \in 0..3, maxSources \in 1..3, cited \in SUBSET (1..4), none \in BOOLEAN :
        LET hits == [i \in 1..n |-> 10 + i]
            replies == [k \in 1..Attempts |->
                           [kind |-> "answer", answer |-> [cited |-> cited, noInformation |-> none]]]
            seen == {i \in 1..n : Citations(hits, maxSources)[i].usedInContext}
        IN  Outcome(hits, maxSources, replies, 64, 8192) = "answer" =>
                n = 0 \/ (cited \subseteq seen /\ (cited # {} \/ none))

=============================================================================
