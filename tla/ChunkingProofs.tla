--------------------------- MODULE ChunkingProofs ---------------------------
(***************************************************************************)
(* Theorems about Chunking for pages, chunks and overlaps of any size.     *)
(***************************************************************************)
EXTENDS Chunking, TLAPS

LEMMA StepType ==
    ASSUME NEW words \in Nat \ {0}, NEW overlap \in Nat
    PROVE  Step(words, overlap) \in 1..words /\ Step(words, overlap) \in Nat \ {0}
BY DEF Step

\* Division with remainder, by a positive number.
LEMMA Division ==
    ASSUME NEW m \in Nat, NEW d \in Nat \ {0}
    PROVE  \E q \in Nat : q * d <= m /\ m < q * d + d
<1> DEFINE q == m \div d
<1>1. q \in Nat /\ m % d \in 0..(d - 1) /\ m = (q * d) + (m % d)
  OBVIOUS
<1>2. QED
  BY <1>1

LEMMA Multiples ==
    ASSUME NEW a \in Int, NEW b \in Int, NEW d \in Nat \ {0}
    PROVE  (a <= b <=> a * d <= b * d) /\ (a + 1) * d = a * d + d /\ (a - 1) * d = a * d - d
OBVIOUS

\* What it takes to be where the loop is.
LEMMA StartsAt ==
    ASSUME NEW n \in Nat, NEW words \in Nat \ {0}, NEW overlap \in Nat, NEW k \in Nat,
           k * Step(words, overlap) < n,
           k = 0 \/ (k - 1) * Step(words, overlap) + words < n
    PROVE  k * Step(words, overlap) \in Starts(n, words, overlap)
<1> DEFINE d == Step(words, overlap)
<1>1. d \in 1..words /\ d \in Nat \ {0}
  BY StepType
<1> HIDE DEF d
<1>2. k <= k * d
  BY <1>1
<1>3. k \in 0..n
  BY <1>1, <1>2 DEF d
<1>4. QED
  BY <1>3 DEF Starts

\* The loop stops only at a chunk that reaches the end of the page, and that
\* chunk starts before whatever the loop did not visit any more.
LEMMA LastChunk ==
    ASSUME NEW n \in Nat, NEW words \in Nat \ {0}, NEW overlap \in Nat, NEW q \in Nat,
           q > 0, (q - 1) * Step(words, overlap) + words >= n, n > 0
    PROVE  \E start \in Starts(n, words, overlap) :
              start \in Nat /\ start <= q * Step(words, overlap) /\ start + words >= n
<1> DEFINE d == Step(words, overlap)
<1>1. d \in 1..words /\ d \in Nat \ {0}
  BY StepType
<1> HIDE DEF d
<1>2. CASE n <= words
  <2>1. 0 * d = 0 /\ 0 <= q * d
    BY <1>1
  <2>2. 0 * d \in Starts(n, words, overlap)
    BY <2>1, StartsAt DEF d
  <2>3. QED
    BY <1>2, <2>1, <2>2 DEF d
<1>3. CASE n > words
  <2> DEFINE m == n - words - 1
  <2>1. m \in Nat
    BY <1>3
  <2>2. PICK p \in Nat : p * d <= m /\ m < p * d + d
    BY <1>1, <2>1, Division
  <2>3. (p + 1) * d = p * d + d /\ (p + 1 - 1) * d = p * d /\ p * d \in Nat
    BY <1>1, Multiples
  <2>4. (p + 1) * d < n /\ (p + 1 - 1) * d + words < n /\ (p + 1) * d + words >= n
    BY <1>1, <1>3, <2>2, <2>3
  <2>5. (p + 1) * d \in Starts(n, words, overlap)
    BY <2>4, StartsAt DEF d
  <2>6. p * d < (q - 1) * d
    <3>1. (q - 1) * d \in Int /\ (q - 1) * d + words >= n
      BY <1>1 DEF d
    <3>2. QED
      BY <1>3, <2>2, <2>3, <3>1
  <2>7. p < q - 1
    BY <1>1, <2>6, Multiples
  <2>8. (p + 1) * d <= q * d
    BY <1>1, <2>7, Multiples
  <2>9. QED
    BY <2>3, <2>4, <2>5, <2>8, <1>1 DEF d
<1>4. QED
  BY <1>2, <1>3

\* A passage of at most overlap + 1 words is in one chunk as a whole, wherever
\* in the page it is: no question about so few words depends on where the page
\* was cut.  (With an overlap as large as a chunk, the loop advances by one
\* word and the passage may be as long as a chunk.)
THEOREM PassageInOneChunk ==
    ASSUME NEW n \in Nat, NEW words \in Nat \ {0}, NEW overlap \in Nat,
           NEW i \in Nat, NEW j \in Nat, i <= j, j < n, j - i <= words - Step(words, overlap)
    PROVE  \E c \in Chunks(n, words, overlap) : i..j \subseteq c
<1> DEFINE d == Step(words, overlap)
<1>1. d \in 1..words /\ d \in Nat \ {0}
  BY StepType
<1> HIDE DEF d
<1>2. PICK q \in Nat : q * d <= i /\ i < q * d + d
  BY <1>1, Division
<1>3. q * d \in Nat
  BY <1>1
<1>4. SUFFICES \E start \in Starts(n, words, overlap) : start \in Nat /\ start <= i /\ j < start + words
  <2>1. ASSUME NEW start \in Starts(n, words, overlap), start \in Nat, start <= i, j < start + words
        PROVE  i..j \subseteq Piece(start, n, words) /\ Piece(start, n, words) \in Chunks(n, words, overlap)
    BY <2>1 DEF Piece, Chunks
  <2>2. QED
    BY <2>1
<1>5. CASE q = 0 \/ (q - 1) * d + words < n
  <2>1. q * d \in Starts(n, words, overlap)
    BY <1>2, <1>3, <1>5, StartsAt DEF d
  <2>2. j < q * d + words
    BY <1>1, <1>2, <1>3 DEF d
  <2>3. QED
    BY <1>2, <1>3, <2>1, <2>2
<1>6. CASE q > 0 /\ ~((q - 1) * d + words < n)
  <2>1. (q - 1) * d + words >= n
    BY <1>1, <1>6
  <2>2. PICK start \in Starts(n, words, overlap) : start \in Nat /\ start <= q * d /\ start + words >= n
    <3>1. n > 0 /\ q > 0
      BY <1>6
    <3>2. \E start \in Starts(n, words, overlap) : start \in Nat /\ start <= q * d /\ start + words >= n
      BY <2>1, <3>1, LastChunk DEF d
    <3>3. QED
      BY <3>2
  <2>3. QED
    BY <1>2, <1>3, <2>2
<1>7. QED
  BY <1>5, <1>6

\* No chunk is part of another: every chunk that is embedded and ranked says
\* something that no other does.
THEOREM NoChunkInAnother ==
    ASSUME NEW n \in Nat, NEW words \in Nat \ {0}, NEW overlap \in Nat,
           NEW b \in Chunks(n, words, overlap), NEW c \in Chunks(n, words, overlap), b \subseteq c
    PROVE  b = c
<1> DEFINE d == Step(words, overlap)
<1>1. d \in 1..words /\ d \in Nat \ {0}
  BY StepType
<1> HIDE DEF d
<1>2. PICK k \in 0..n : /\ k * d < n /\ (k = 0 \/ (k - 1) * d + words < n)
                        /\ b = Piece(k * d, n, words)
  BY DEF Chunks, Starts, d
<1>3. PICK l \in 0..n : /\ l * d < n /\ (l = 0 \/ (l - 1) * d + words < n)
                        /\ c = Piece(l * d, n, words)
  BY DEF Chunks, Starts, d
<1>4. k * d \in Nat /\ l * d \in Nat
  BY <1>1
<1>5. CASE k < l
  <2>1. k * d < l * d
    BY <1>1, <1>5, Multiples
  <2>2. k * d \in b
    BY <1>1, <1>2, <1>4 DEF Piece
  <2>3. k * d \notin c
    BY <1>3, <1>4, <2>1 DEF Piece
  <2>4. QED
    BY <2>2, <2>3
<1>6. CASE l < k
  <2> DEFINE w == (k - 1) * d + words
  <2>1. (k - 1) * d = k * d - d /\ l * d <= (k - 1) * d
    BY <1>1, <1>6, Multiples
  <2>2. w \in Nat /\ w < n /\ k * d <= w /\ w <= k * d + words - 1
    BY <1>1, <1>2, <1>4, <1>6, <2>1
  <2>3. w \in b
    BY <1>2, <1>4, <2>2 DEF Piece
  <2>4. \A x \in c : x \in Int /\ x <= l * d + words - 1
    BY <1>3, <1>4 DEF Piece
  <2>5. l * d + words - 1 < w
    BY <1>1, <1>4, <2>1
  <2>6. w \notin c
    BY <1>4, <2>2, <2>4, <2>5
  <2>7. QED
    BY <2>3, <2>6
<1>7. CASE k = l
  BY <1>2, <1>3, <1>7
<1>8. QED
  BY <1>5, <1>6, <1>7

=============================================================================
