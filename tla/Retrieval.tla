----------------------------- MODULE Retrieval -----------------------------
(***************************************************************************)
(* The pure part of a query: what is searched for (rag_core.py, and        *)
(* plan_query of model_backend.py), how the chunks found are ranked        *)
(* (_retrieve of compute.py), and what is made of the model's replies      *)
(* (generate of model_backend.py, _validated_answer of compute.py).        *)
(*                                                                         *)
(* Chunks are the numbers 1..n.  The vectors, BM25 and the model are       *)
(* external: scores, and what they reply, are parameters.  Tokens, terms   *)
(* and the keys that tell terms apart are members of small sets.           *)
(***************************************************************************)
EXTENDS Integers, Sequences, FiniteSets
LOCAL INSTANCE SequencesExt

Lesser(a, b) == IF a < b THEN a ELSE b
Greater(a, b) == IF a < b THEN b ELSE a
Prefix(s, n) == SubSeq(s, 1, Lesser(n, Len(s)))

\* The members of s in the order in which they come first, without `seen`.
Distinct(s, seen) ==
    FoldLeft(LAMBDA r, x : IF x \in seen \cup ToSet(r) THEN r ELSE Append(r, x), <<>>, s)

-----------------------------------------------------------------------------
(* What is searched for. *)

\* fallback_retrieval_plan: the first distinct words of the question.
FallbackTerms(tokens, limit) == Prefix(Distinct(tokens, {}), limit)

\* sanitize_bm25_expansion_terms: a term has its key and its meaningful tokens,
\* and is kept when it says something that the question and the terms kept
\* before do not.  Empty terms have no key.
Sanitized(terms, questionTokens, questionKeys, limit) ==
    LET Keep(r, t) ==
            LET novel == t.tokens \ questionTokens
            IN  IF \/ Len(r.kept) >= limit
                   \/ t.key \in questionKeys \cup r.seen
                   \/ novel \subseteq r.contributed
                THEN r
                ELSE [kept |-> Append(r.kept, t), seen |-> r.seen \cup {t.key},
                      contributed |-> r.contributed \cup novel]
    IN  FoldLeft(Keep, [kept |-> <<>>, seen |-> {}, contributed |-> {}], terms).kept

\* retrieval_plan_adds_signal, and the four terms that plan_query asks for.
Useful(plan, questionTokens, questionKeys) ==
    LET terms == Sanitized(plan.terms, questionTokens, questionKeys, 12)
        said == plan.semanticTokens \cup UNION {t.tokens : t \in ToSet(terms)}
    IN  Len(terms) >= 4 /\ Cardinality(said \ questionTokens) >= 2

\* plan_query: the planner is corrected once; a reply that is not one of the
\* useful plans, a failure among them, leaves the fallback.
Planned(replies, useful, fallback, failed) ==
    LET chosen == IF replies[1] # failed /\ replies[1] \notin useful THEN replies[2] ELSE replies[1]
    IN  IF chosen \in useful THEN chosen ELSE fallback

-----------------------------------------------------------------------------
(* How the chunks are ranked.                                              *)

\* A score of one.  The reciprocals of the ranks below four, and the weights,
\* are whole fractions of it.
Unit == 238266000
PoolSize == 240

\* lexsort by descending score, then by chunk.
Ranked(score, found) ==
    SetToSortSeq(found, LAMBDA a, b : score[a] > score[b] \/ (score[a] = score[b] /\ a < b))

\* Reciprocal rank fusion: what the ranks of a list are worth at a weight of
\* `percent`, as a function of all chunks.  A chunk that is not listed gets none.
Fused(ranking, percent, n) ==
    [c \in 1..n |->
        LET ranks == {i \in 1..Lesser(PoolSize, Len(ranking)) : ranking[i] = c}
        IN  IF ranks = {} THEN 0
            ELSE ((Unit \div (59 + (CHOOSE i \in ranks : TRUE))) \div 100) * percent]

\* The chunks that share a token with the query, by BM25, or by the tokens
\* they share where BM25 tells nothing.
LexicalScore(q) ==
    LET matched == {c \in DOMAIN q.shared : q.shared[c] > 0}
        best == IF matched = {} THEN 0 ELSE CHOOSE b \in {q.score[c] : c \in matched} :
                                               \A c \in matched : q.score[c] <= b
    IN  IF best > 0 THEN q.score ELSE q.shared
LexicalRanking(q) ==
    Ranked(LexicalScore(q), {c \in DOMAIN q.shared : q.shared[c] > 0})

\* HYBRID only: up to 0.008 for the words of the question themselves.
Bonus(q, n) ==
    LET s == LexicalScore(q)
        best == CHOOSE b \in {s[c] : c \in 1..n} : \A c \in 1..n : s[c] <= b
    IN  [c \in 1..n |-> IF best <= 0 THEN 0 ELSE ((Unit \div 125) * Greater(s[c], 0)) \div best]

Nothing(n) == [c \in 1..n |-> 0]

\* What the question itself is worth to each chunk.  `dense` is the score of its
\* vector, `lexical` of its words; the strategy takes one of them or both.
Evidence(dense, lexical, strategy, n) ==
    LET byVector == IF strategy = "lexical" THEN Nothing(n) ELSE Fused(Ranked(dense, DOMAIN dense), 100, n)
        byWord == IF strategy = "semantic" THEN Nothing(n) ELSE Fused(LexicalRanking(lexical), 100, n)
        bonus == IF strategy # "hybrid" THEN Nothing(n) ELSE Bonus(lexical, n)
    IN  [c \in 1..n |-> byVector[c] + byWord[c] + bonus[c]]

\* What the plan adds: the better of its two views, never their sum.  There is
\* no `dense` (<<>>) when the plan repeats the question, which is not asked twice.
Expansion(dense, lexical, strategy, n) ==
    LET byVector == IF strategy = "lexical" THEN Nothing(n) ELSE Fused(Ranked(dense, DOMAIN dense), 85, n)
        byWord == IF strategy = "semantic" THEN Nothing(n) ELSE Fused(LexicalRanking(lexical), 90, n)
    IN  [c \in 1..n |-> Greater(byVector[c], byWord[c])]

\* diversify_by_page: at most `most` chunks of a page, unless there are too few.
Diversified(ranking, page, count, most) ==
    LET Take(r, c) ==
            IF Cardinality({i \in DOMAIN r.selected : page[r.selected[i]] = page[c]}) < most
            THEN [r EXCEPT !.selected = Append(@, c)]
            ELSE [r EXCEPT !.deferred = Append(@, c)]
        all == FoldLeft(Take, [selected |-> <<>>, deferred |-> <<>>], ranking)
    IN  Prefix(all.selected \o all.deferred, count)

\* _retrieve: the chunks found, best first.
Hits(evidence, expansion, page, count) ==
    LET n == Len(page)
        score == [c \in 1..n |-> Greater(evidence[c], expansion[c])]
    IN  Diversified(Ranked(score, {c \in 1..n : score[c] > 0}), page, Lesser(count, n), 2)

-----------------------------------------------------------------------------
(* What is made of the replies.                                            *)

Attempts == 4
LeastTokens == 64

\* The output budgets of generate: halved after each overflow, never below 64
\* unless configured so.
Budget(maxTokens) ==
    LET b[k \in 1..Attempts] == IF k = 1 THEN maxTokens ELSE Greater(LeastTokens, b[k - 1] \div 2)
    IN  b

\* A reply that vLLM's own numbers prove to be a context overflow.
Overflow(reply, requested, context) ==
    /\ reply.kind = "overflow"
    /\ reply.maximum = context
    /\ reply.output = requested
    /\ reply.total = reply.input + reply.output
    /\ reply.total > reply.maximum

\* generate: the attempt whose reply decides, and what becomes of it.
Deciding(replies, maxTokens, context) ==
    LET budget == Budget(maxTokens)
        Again(k) == /\ Overflow(replies[k], budget[k], context)
                    /\ k < Attempts
                    /\ Greater(LeastTokens, budget[k] \div 2) < budget[k]
    IN  CHOOSE k \in 1..Attempts : ~Again(k) /\ \A j \in 1..(k - 1) : Again(j)

Generated(replies, maxTokens, context) ==
    LET k == Deciding(replies, maxTokens, context)
    IN  IF Overflow(replies[k], Budget(maxTokens)[k], context) THEN "CONTEXT_LENGTH_EXCEEDED"
        ELSE IF replies[k].kind = "answer" THEN "answer"
        ELSE IF replies[k].kind = "empty" THEN "GENERATION_EMPTY"
        ELSE "GENERATION_UNAVAILABLE"

\* check_citations: `answer` has the sources it cites, and whether it is the
\* sentence that says there is no information.
CitesSources(answer, sources) ==
    /\ answer.cited # {} \/ answer.noInformation \/ sources = {}
    /\ answer.cited \subseteq sources

\* _validated_answer, where the glyphs of the citations are already plain.
Valid(answer, hits) ==
    /\ hits = <<>> => answer.noInformation
    /\ CitesSources(answer, DOMAIN hits)

NoInformation == [cited |-> {}, noInformation |-> TRUE]

\* query: the model sees the first maxSources hits, and is not asked without any.
Outcome(hits, maxSources, replies, maxTokens, context) ==
    LET prompt == Prefix(hits, maxSources)
        asked == prompt # <<>>
        end == IF asked THEN Generated(replies, maxTokens, context) ELSE "answer"
        answer == IF asked THEN replies[Deciding(replies, maxTokens, context)].answer ELSE NoInformation
    IN  IF end # "answer" THEN end
        ELSE IF Valid(answer, prompt) THEN "answer"
        ELSE "CITATION_VALIDATION_FAILED"

\* The citations list every hit, and say which the model saw.
Citations(hits, maxSources) ==
    [i \in DOMAIN hits |-> [source |-> i, chunk |-> hits[i], usedInContext |-> i <= maxSources]]

=============================================================================
