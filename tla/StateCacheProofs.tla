---- MODULE StateCacheProofs ----
(***************************************************************************)
(* Proofs about StateCacheScheduler, for every number of rows, every set   *)
(* of requests and prompts, every window, ratio and cache length:          *)
(*                                                                         *)
(*   - each query of a decoding request attended to its own text, all of   *)
(*     it that it should, and nothing else;                                *)
(*   - a snapshot holds its own prompt.                                    *)
(*                                                                         *)
(* The caches are read as a function of the text they were fed: a window   *)
(* slot holds the token of the one position in the window that maps to it, *)
(* a history row the block of its number, an accumulator the tail of the   *)
(* text and the block before it.  The lemmas show this of a prefill, of a  *)
(* scalar and of a ragged step, of a snapshot and of a copy, and that what *)
(* a query gathers from such a cache is what it should attend to.  The     *)
(* inductive invariant says it of every row, snapshot and prefill underway.*)
(***************************************************************************)
EXTENDS StateCacheScheduler, SequenceTheorems, WellFoundedInduction, TLAPS

\* A text is a sequence of tokens; a size is that of a block or of the window.
Texts == Seq(Nat)
Sizes == Nat \ {0}

-----------------------------------------------------------------------------
(* Positions and blocks.                                                   *)

\* A position is a block and an offset in it.
LEMMA Split ==
    ASSUME NEW n \in Nat, NEW m \in Sizes
    PROVE  /\ n \div m \in Nat /\ n % m \in 0..(m - 1)
           /\ n = (n \div m) * m + (n % m)
  BY DEF Sizes

\* ... and only one block and offset give it.
LEMMA DivMod ==
    ASSUME NEW m \in Sizes, NEW k \in Nat, NEW j \in 0..(m - 1), NEW n, n = k * m + j
    PROVE  n \div m = k /\ n % m = j
  BY DEF Sizes

\* Multiples of a block size are numbers, a block apart.
LEMMA Times ==
    ASSUME NEW m \in Nat, NEW k \in Nat
    PROVE  k * m \in Nat /\ (k + 1) * m = k * m + m
  OBVIOUS

\* An earlier block ends before a later one starts.
LEMMA Earlier ==
    ASSUME NEW m \in Nat, NEW k \in Nat, NEW q \in Nat, k < q
    PROVE  k * m \in Nat /\ k * m + m <= q * m
  OBVIOUS

\* The next position is in the same block, or starts the next one.
LEMMA NextPosition ==
    ASSUME NEW n \in Nat, NEW m \in Sizes
    PROVE  IF Flushes(n, m) THEN (n + 1) \div m = (n \div m) + 1 /\ (n + 1) % m = 0 /\ n % m = m - 1
           ELSE (n + 1) \div m = n \div m /\ (n + 1) % m = (n % m) + 1
  <1>1. PICK k \in Nat, j \in 0..(m - 1) : k = n \div m /\ j = n % m /\ n = k * m + j
    BY Split
  <1>2. CASE j = m - 1
    <2>1. n + 1 = (k + 1) * m + 0 /\ 0 \in 0..(m - 1) /\ k + 1 \in Nat
      BY <1>1, <1>2, Times DEF Sizes
    <2>2. (n + 1) \div m = k + 1 /\ (n + 1) % m = 0
      BY <2>1, DivMod
    <2> QED BY <1>1, <1>2, <2>2 DEF Flushes
  <1>3. CASE j # m - 1
    <2>1. n + 1 = k * m + (j + 1) /\ j + 1 \in 0..(m - 1)
      BY <1>1, <1>3, Times DEF Sizes
    <2>2. (n + 1) \div m = k /\ (n + 1) % m = j + 1
      BY <2>1, DivMod
    <2> QED BY <1>1, <1>3, <2>1, <2>2 DEF Flushes
  <1> QED BY <1>2, <1>3

\* A shorter text has no more complete blocks.
LEMMA FewerBlocks ==
    ASSUME NEW m \in Sizes, NEW n \in Nat, NEW q \in Nat, n <= q
    PROVE  n \div m <= q \div m
  <1>1. PICK k \in Nat, i \in 0..(m - 1) : k = n \div m /\ n = k * m + i
    BY Split
  <1>2. PICK h \in Nat, j \in 0..(m - 1) : h = q \div m /\ q = h * m + j
    BY Split
  <1>3. ~ h < k
    BY <1>1, <1>2, Earlier DEF Sizes
  <1> QED BY <1>1, <1>2, <1>3

\* The history has room for the blocks of every text that fits the cache.
LEMMA RoomForBlocks ==
    ASSUME NEW m \in Sizes
    PROVE  /\ MaxBlocks(m) \in Nat \ {0} /\ MaxSeqLen <= MaxBlocks(m) * m
           /\ \A n \in Nat : n <= MaxSeqLen => n \div m <= MaxBlocks(m)
  <1>1. MaxSeqLen \in Nat \ {0}
    BY StateLayerAssumption
  <1>2. PICK q \in Nat : q = MaxSeqLen + m - 1 /\ q >= m
    BY <1>1 DEF Sizes
  <1>3. PICK h \in Nat, j \in 0..(m - 1) : h = q \div m /\ q = h * m + j
    BY Split
  <1>4. MaxBlocks(m) = h
    BY <1>2, <1>3 DEF MaxBlocks
  <1>5. h # 0
    BY <1>2, <1>3 DEF Sizes
  <1>6. MaxSeqLen <= h * m
    BY <1>1, <1>2, <1>3, Times DEF Sizes
  <1>7. ASSUME NEW n \in Nat, n <= MaxSeqLen PROVE n \div m <= h
    BY <1>1, <1>2, <1>3, <1>7, FewerBlocks DEF Sizes
  <1> QED BY <1>4, <1>5, <1>6, <1>7

-----------------------------------------------------------------------------
(* What a compressor holds of a text.                                      *)

Agree(x, y, n) == \A i \in 1..n : x[i] = y[i]

\* A block depends on the text up to its own end.
LEMMA BlockSame ==
    ASSUME NEW x, NEW y, NEW m \in Sizes, NEW b \in Nat, NEW n \in Nat, NEW overlap \in BOOLEAN,
           Agree(x, y, n), b * m + m <= n
    PROVE  Block(x, b, m, overlap) = Block(y, b, m, overlap)
  <1>1. ASSUME NEW k \in Nat, k <= b, NEW j \in 0..(m - 1) PROVE x[k * m + j + 1] = y[k * m + j + 1]
    <2>1. k * m \in Nat /\ b * m \in Nat /\ k * m <= b * m
      BY <1>1, Earlier, Times DEF Sizes
    <2>2. PICK i \in 1..n : i = k * m + j + 1
      BY <2>1 DEF Sizes
    <2> QED BY <2>2 DEF Agree
  <1>2. [j \in 0..(m - 1) |-> <<x[b * m + j + 1], j>>] = [j \in 0..(m - 1) |-> <<y[b * m + j + 1], j>>]
    BY <1>1
  <1>3. ASSUME ~(b - 1 < 0)
        PROVE  [j \in 0..(m - 1) |-> <<x[(b - 1) * m + j + 1], j>>]
                 = [j \in 0..(m - 1) |-> <<y[(b - 1) * m + j + 1], j>>]
    <2>1. b - 1 \in Nat /\ b - 1 <= b
      BY <1>3
    <2>2. \A j \in 0..(m - 1) : x[(b - 1) * m + j + 1] = y[(b - 1) * m + j + 1]
      BY <2>1, <1>1
    <2> QED BY <2>2
  <1>4. ~(b < 0)
    OBVIOUS
  <1> QED BY <1>2, <1>3, <1>4 DEF Block

Half(m, overlap) == IF overlap THEN m ELSE 0

\* The history of x has its complete blocks, the accumulator the rest and, when blocks
\* overlap, the block before it.
HistHolds(hist, x, m, overlap) ==
    /\ hist = [b \in 0..(MaxBlocks(m) - 1) |-> hist[b]]
    /\ \A b \in 0..((Len(x) \div m) - 1) : hist[b] = Block(x, b, m, overlap)

Loaded(acc, x, k, n, m, overlap) ==
    /\ acc = [j \in 0..(IF overlap THEN 2 * m - 1 ELSE m - 1) |-> acc[j]]
    /\ \A j \in 0..(m - 1) : j < n => acc[Half(m, overlap) + j] = <<x[k * m + j + 1], j>>
    /\ overlap => \A j \in 0..(m - 1) :
          acc[j] = IF k = 0 THEN Nothing ELSE <<x[(k - 1) * m + j + 1], j>>

AccHolds(acc, x, m, overlap) == Loaded(acc, x, Len(x) \div m, Len(x) % m, m, overlap)

CompressorHolds(c, x, m, overlap) ==
    /\ c = [hist |-> c.hist, acc |-> c.acc, n |-> c.n]
    /\ HistHolds(c.hist, x, m, overlap)
    /\ AccHolds(c.acc, x, m, overlap)

\* After a prefill.
LEMMA PrefillHolds ==
    ASSUME NEW x \in Texts, Len(x) <= MaxSeqLen, NEW m \in Sizes, NEW overlap \in BOOLEAN
    PROVE  LET c == CompressorPrefill(NewCompressor(m, overlap), x, m, overlap)
           IN CompressorHolds(c, x, m, overlap) /\ c.n = Len(x) \div m
  <1> DEFINE new == NewCompressor(m, overlap)
             c == CompressorPrefill(new, x, m, overlap)
  <1>1. PICK L \in Nat : L = Len(x) /\ L <= MaxSeqLen
    BY DEF Texts
  <1>2. PICK k \in Nat, rest \in 0..(m - 1) : k = L \div m /\ rest = L % m /\ L = k * m + rest
    BY Split
  <1>3. PICK cut \in Nat : cut = k * m /\ L - rest = cut
    BY <1>2, Times DEF Sizes
  <1>4. cut \div m = k
    <2>1. 0 \in 0..(m - 1) /\ cut = k * m + 0
      BY <1>3 DEF Sizes
    <2> QED BY <2>1, DivMod
  <1>5. k <= MaxBlocks(m) /\ MaxBlocks(m) \in Nat
    BY <1>1, <1>2, RoomForBlocks
  <1>6. PICK h : h = Half(m, overlap) /\ h \in Nat /\ h = (IF overlap THEN m ELSE 0)
    BY DEF Half, Sizes
  <1>7. DOMAIN new.hist = 0..(MaxBlocks(m) - 1)
        /\ DOMAIN new.acc = 0..(IF overlap THEN 2 * m - 1 ELSE m - 1)
        /\ \A j \in DOMAIN new.acc : new.acc[j] = Nothing
    BY DEF NewCompressor
  <1> HIDE DEF new
  <1>8. c = [hist |-> [b \in 0..(MaxBlocks(m) - 1) |->
                         IF b < k THEN Block(x, b, m, overlap) ELSE new.hist[b]],
             acc |-> [j \in 0..(IF overlap THEN 2 * m - 1 ELSE m - 1) |->
                         IF overlap /\ cut >= m /\ j < m THEN <<x[cut - m + j + 1], j>>
                         ELSE IF j \in h..(h + rest - 1) THEN <<x[cut + j - h + 1], j - h>>
                         ELSE new.acc[j]],
             n |-> k]
    BY <1>1, <1>2, <1>3, <1>4, <1>6, <1>7 DEF CompressorPrefill
  <1> HIDE DEF c
  <1>9. HistHolds(c.hist, x, m, overlap)
    <2>1. \A b \in 0..(k - 1) : b \in 0..(MaxBlocks(m) - 1) /\ b < k
      BY <1>5
    <2>2. c.hist = [b \in 0..(MaxBlocks(m) - 1) |->
                         IF b < k THEN Block(x, b, m, overlap) ELSE new.hist[b]]
      BY <1>8
    <2> QED BY <1>1, <1>2, <2>1, <2>2 DEF HistHolds
  <1>10. AccHolds(c.acc, x, m, overlap)
    <2>1. c.acc = [j \in 0..(IF overlap THEN 2 * m - 1 ELSE m - 1) |-> c.acc[j]]
      BY <1>8
    <2>2. ASSUME NEW j \in 0..(m - 1), j < rest
          PROVE  c.acc[h + j] = <<x[k * m + j + 1], j>>
      <3>1. PICK i \in Nat : i = h + j
        BY <1>6
      <3>3. /\ i \in 0..(IF overlap THEN 2 * m - 1 ELSE m - 1)
            /\ i \in h..(h + rest - 1) /\ ~(overlap /\ i < m) /\ i - h = j
            /\ cut + i - h + 1 = cut + j + 1
        BY <1>6, <2>2, <3>1 DEF Sizes
      <3>2. c.acc[i] = <<x[cut + i - h + 1], i - h>>
        BY <1>8, <3>3
      <3> QED BY <1>3, <3>1, <3>2, <3>3
    <2>3. ASSUME overlap, NEW j \in 0..(m - 1)
          PROVE  c.acc[j] = IF k = 0 THEN Nothing ELSE <<x[(k - 1) * m + j + 1], j>>
      <3>1. j \in 0..(2 * m - 1) /\ j < m /\ h = m /\ ~(j \in h..(h + rest - 1))
        BY <1>6, <2>3 DEF Sizes
      <3>2. CASE k = 0
        <4>1. cut = 0 /\ ~(cut >= m)
          BY <1>3, <3>2 DEF Sizes
        <4> QED BY <1>7, <1>8, <2>3, <3>1, <3>2, <4>1
      <3>3. CASE k # 0
        <4>1. PICK q \in Nat : q = k - 1 /\ k = q + 1
          BY <3>3
        <4>2. cut >= m /\ cut - m = q * m
          BY <1>3, <4>1, Times DEF Sizes
        <4> QED BY <1>8, <2>3, <3>1, <3>3, <4>1, <4>2
      <3> QED BY <3>2, <3>3
    <2> QED BY <1>1, <1>2, <1>6, <2>1, <2>2, <2>3 DEF AccHolds, Loaded
  <1>11. c = [hist |-> c.hist, acc |-> c.acc, n |-> c.n] /\ c.n = Len(x) \div m
    BY <1>1, <1>2, <1>8
  <1> QED BY <1>9, <1>10, <1>11 DEF CompressorHolds, new, c

\* One token more.
LEMMA Longer ==
    ASSUME NEW x \in Texts, NEW t \in Nat
    PROVE  /\ Append(x, t) \in Texts /\ Len(Append(x, t)) = Len(x) + 1 /\ Len(x) \in Nat
           /\ Append(x, t)[Len(x) + 1] = t /\ Agree(x, Append(x, t), Len(x))
  BY AppendProperties DEF Texts, Agree

\* The accumulator after position p = Len(x) was written, before it slides.
LEMMA AccumulatedFacts ==
    ASSUME NEW x \in Texts, NEW t \in Nat, NEW c, NEW m \in Sizes, NEW overlap \in BOOLEAN,
           AccHolds(c.acc, x, m, overlap)
    PROVE  Loaded(Accumulated(c, Len(x), t, m, overlap), Append(x, t), Len(x) \div m,
                  (Len(x) % m) + 1, m, overlap)
  <1>1. PICK L \in Nat : L = Len(x)
    BY DEF Texts
  <1>2. PICK k \in Nat, rest \in 0..(m - 1) : k = L \div m /\ rest = L % m /\ L = k * m + rest
    BY Split
  <1>3. PICK cut \in Nat : cut = k * m /\ L = cut + rest
    BY <1>2, Times DEF Sizes
  <1>4. PICK h \in Nat : h = Half(m, overlap) /\ h = (IF overlap THEN m ELSE 0)
    BY DEF Half, Sizes
  <1>5. PICK y \in Texts : y = Append(x, t) /\ y[L + 1] = t /\ Agree(x, y, L)
    BY <1>1, Longer
  <1>6. PICK d : d = 0..(IF overlap THEN 2 * m - 1 ELSE m - 1)
    OBVIOUS
  <1>7. PICK old : /\ old = c.acc /\ old = [j \in d |-> old[j]]
                   /\ \A j \in 0..(m - 1) : j < rest => old[h + j] = <<x[cut + j + 1], j>>
                   /\ overlap => \A j \in 0..(m - 1) :
                         old[j] = IF k = 0 THEN Nothing ELSE <<x[(k - 1) * m + j + 1], j>>
    <2>1. PICK old : old = c.acc /\ Loaded(old, x, k, rest, m, overlap)
      BY <1>1, <1>2 DEF AccHolds
    <2> QED BY <1>3, <1>4, <1>6, <2>1 DEF Loaded
  <1>8. PICK a : a = Accumulated(c, L, t, m, overlap)
    OBVIOUS
  <1>9. a = [old EXCEPT ![h + rest] = <<t, rest>>]
    BY <1>2, <1>4, <1>7, <1>8 DEF Accumulated
  <1>10. DOMAIN old = d /\ h + rest \in d
    BY <1>4, <1>6, <1>7 DEF Sizes
  <1>11. a = [j \in d |-> a[j]]
    BY <1>9, <1>10
  <1>12. ASSUME NEW j \in 0..(m - 1), j < rest + 1 PROVE a[h + j] = <<y[cut + j + 1], j>>
    <2>1. CASE j = rest
      BY <1>3, <1>5, <1>9, <1>10, <2>1
    <2>2. CASE j < rest
      <3>1. PICK i \in 1..L : i = cut + j + 1
        BY <1>3, <2>2 DEF Sizes
      <3>2. x[i] = y[i]
        BY <1>5, <3>1 DEF Agree
      <3>3. h + j # h + rest /\ h + j \in d
        BY <1>4, <1>6, <2>2 DEF Sizes
      <3>4. a[h + j] = old[h + j]
        BY <1>9, <1>10, <3>3
      <3> QED BY <1>7, <2>2, <3>1, <3>2, <3>4
    <2> QED BY <1>12, <2>1, <2>2 DEF Sizes
  <1>13. ASSUME overlap, NEW j \in 0..(m - 1)
         PROVE  a[j] = IF k = 0 THEN Nothing ELSE <<y[(k - 1) * m + j + 1], j>>
    <2>1. j # h + rest /\ j \in d
      BY <1>4, <1>6, <1>13 DEF Sizes
    <2>2. a[j] = old[j]
      BY <1>9, <1>10, <2>1
    <2>3. CASE k = 0
      BY <1>7, <1>13, <2>2, <2>3
    <2>4. CASE k # 0
      <3>1. PICK q \in Nat : q = k - 1 /\ k = q + 1
        BY <2>4
      <3>2. PICK i \in 1..L : i = q * m + j + 1
        BY <1>3, <3>1, Times DEF Sizes
      <3>3. x[i] = y[i]
        BY <1>5, <3>2 DEF Agree
      <3> QED BY <1>7, <1>13, <2>2, <2>4, <3>1, <3>2, <3>3
    <2> QED BY <2>3, <2>4
  <1>14. Loaded(a, y, k, rest + 1, m, overlap)
    BY <1>3, <1>4, <1>6, <1>11, <1>12, <1>13 DEF Loaded
  <1> QED BY <1>1, <1>2, <1>5, <1>8, <1>14

\* A full accumulator gives the block that the position ends.
LEMMA EntryIsBlock ==
    ASSUME NEW x \in Texts, NEW t \in Nat, NEW c, NEW m \in Sizes, NEW overlap \in BOOLEAN,
           AccHolds(c.acc, x, m, overlap), Flushes(Len(x), m)
    PROVE  Entry(Accumulated(c, Len(x), t, m, overlap), Len(x), m, overlap)
             = Block(Append(x, t), Len(x) \div m, m, overlap)
  <1>1. PICK L \in Nat : L = Len(x)
    BY DEF Texts
  <1>2. PICK k \in Nat : k = L \div m /\ L % m = m - 1
    BY <1>1, Split, NextPosition
  <1>3. PICK y : y = Append(x, t)
    OBVIOUS
  <1>4. PICK a : /\ a = Accumulated(c, L, t, m, overlap)
                 /\ \A j \in 0..(m - 1) : a[Half(m, overlap) + j] = <<y[k * m + j + 1], j>>
                 /\ overlap => \A j \in 0..(m - 1) :
                       a[j] = IF k = 0 THEN Nothing ELSE <<y[(k - 1) * m + j + 1], j>>
    <2>1. PICK a : a = Accumulated(c, L, t, m, overlap)
      OBVIOUS
    <2>2. Loaded(a, y, k, (m - 1) + 1, m, overlap)
      BY <1>1, <1>2, <1>3, <2>1, AccumulatedFacts
    <2>3. \A j \in 0..(m - 1) : j < (m - 1) + 1
      BY DEF Sizes
    <2> QED BY <2>1, <2>2, <2>3 DEF Loaded
  <1>5. Entry(a, L, m, overlap)
          = [prev |-> IF overlap THEN [j \in 0..(m - 1) |-> a[j]] ELSE Nothing,
             cur |-> [j \in 0..(m - 1) |-> a[IF overlap THEN m + j ELSE j]],
             pos |-> k * m]
    BY <1>2 DEF Entry
  <1>6. [j \in 0..(m - 1) |-> a[IF overlap THEN m + j ELSE j]]
          = [j \in 0..(m - 1) |-> <<y[k * m + j + 1], j>>]
    <2>1. ASSUME NEW j \in 0..(m - 1) PROVE a[IF overlap THEN m + j ELSE j] = <<y[k * m + j + 1], j>>
      <3>1. (IF overlap THEN m + j ELSE j) = Half(m, overlap) + j
        BY DEF Half, Sizes
      <3> QED BY <1>4, <3>1
    <2> QED BY <2>1
  <1>7. [j \in 0..(m - 1) |-> IF k < 0 THEN Nothing ELSE <<y[k * m + j + 1], j>>]
          = [j \in 0..(m - 1) |-> <<y[k * m + j + 1], j>>]
    <2>1. ~(k < 0)
      OBVIOUS
    <2> QED BY <2>1
  <1>8. Block(y, k, m, overlap)
          = [prev |-> IF overlap THEN [j \in 0..(m - 1) |-> IF k - 1 < 0 THEN Nothing
                                                           ELSE <<y[(k - 1) * m + j + 1], j>>]
                      ELSE Nothing,
             cur |-> [j \in 0..(m - 1) |-> <<y[k * m + j + 1], j>>],
             pos |-> k * m]
    BY <1>7 DEF Block
  <1>9. CASE overlap
    <2>1. [j \in 0..(m - 1) |-> a[j]]
            = [j \in 0..(m - 1) |-> IF k - 1 < 0 THEN Nothing ELSE <<y[(k - 1) * m + j + 1], j>>]
      <3>1. \A j \in 0..(m - 1) : a[j] = IF k - 1 < 0 THEN Nothing ELSE <<y[(k - 1) * m + j + 1], j>>
        <4>1. k = 0 <=> k - 1 < 0
          OBVIOUS
        <4> QED BY <1>4, <1>9, <4>1
      <3> QED BY <3>1
    <2> QED BY <1>1, <1>2, <1>3, <1>4, <1>5, <1>6, <1>8, <1>9, <2>1
  <1>10. CASE ~overlap
    BY <1>1, <1>2, <1>3, <1>4, <1>5, <1>6, <1>8, <1>10
  <1> QED BY <1>9, <1>10

\* The accumulator slides when a block is complete.
LEMMA AccStep ==
    ASSUME NEW x \in Texts, NEW t \in Nat, NEW c, NEW m \in Sizes, NEW overlap \in BOOLEAN,
           AccHolds(c.acc, x, m, overlap)
    PROVE  AccHolds(Slid(Accumulated(c, Len(x), t, m, overlap), Len(x), m, overlap),
                    Append(x, t), m, overlap)
  <1>1. PICK L \in Nat : L = Len(x)
    BY DEF Texts
  <1>2. PICK k \in Nat, rest \in 0..(m - 1) : k = L \div m /\ rest = L % m
    BY Split
  <1>3. PICK y : y = Append(x, t) /\ Len(y) = L + 1
    BY <1>1, Longer
  <1>4. PICK h \in Nat : h = Half(m, overlap) /\ h = (IF overlap THEN m ELSE 0)
    BY DEF Half, Sizes
  <1>5. PICK d : d = 0..(IF overlap THEN 2 * m - 1 ELSE m - 1)
    OBVIOUS
  <1>6. PICK a : /\ a = Accumulated(c, L, t, m, overlap)
                 /\ Loaded(a, y, k, rest + 1, m, overlap)
    BY <1>1, <1>2, <1>3, AccumulatedFacts
  <1>7. PICK s : s = Slid(a, L, m, overlap)
    OBVIOUS
  <1>8. s = [j \in d |-> IF overlap /\ Flushes(L, m) /\ j < m THEN a[m + j] ELSE a[j]]
    BY <1>5, <1>6, <1>7 DEF Slid, Loaded
  <1>9. s = [j \in d |-> s[j]]
    BY <1>8
  <1>10. CASE Flushes(L, m)
    <2>1. (L + 1) \div m = k + 1 /\ (L + 1) % m = 0 /\ rest = m - 1
      BY <1>2, <1>10, NextPosition
    <2>2. ASSUME overlap, NEW j \in 0..(m - 1)
          PROVE  s[j] = <<y[((k + 1) - 1) * m + j + 1], j>>
      <3>1. j \in d /\ j < m /\ j < rest + 1 /\ h = m /\ (k + 1) - 1 = k
        BY <1>4, <1>5, <2>1, <2>2 DEF Sizes
      <3>2. s[j] = a[h + j]
        BY <1>8, <1>10, <2>2, <3>1
      <3> QED BY <1>4, <1>6, <3>1, <3>2 DEF Loaded
    <2>3. k + 1 # 0 /\ \A j \in 0..(m - 1) : ~(j < 0)
      OBVIOUS
    <2>4. Loaded(s, y, k + 1, 0, m, overlap)
      BY <1>5, <1>9, <2>2, <2>3 DEF Loaded
    <2> QED BY <1>1, <1>3, <1>6, <1>7, <2>1, <2>4 DEF AccHolds
  <1>11. CASE ~Flushes(L, m)
    <2>1. (L + 1) \div m = k /\ (L + 1) % m = rest + 1
      BY <1>2, <1>11, NextPosition
    <2>2. a = [j \in d |-> a[j]]
      BY <1>5, <1>6 DEF Loaded
    <2>3. s = a
      BY <1>8, <1>11, <2>2
    <2> QED BY <1>1, <1>3, <1>6, <1>7, <2>1, <2>3 DEF AccHolds
  <1> QED BY <1>10, <1>11

\* The history with one entry more, or the same when no block is complete.
LEMMA HistStep ==
    ASSUME NEW x \in Texts, NEW t \in Nat, NEW c, NEW m \in Sizes, NEW overlap \in BOOLEAN,
           Len(x) < MaxSeqLen, HistHolds(c.hist, x, m, overlap)
    PROVE  LET y == Append(x, t)
               k == Len(x) \div m
           IN /\ ~Flushes(Len(x), m) => HistHolds(c.hist, y, m, overlap)
              /\ Flushes(Len(x), m) =>
                    /\ k \in 0..(MaxBlocks(m) - 1)
                    /\ HistHolds([c.hist EXCEPT ![k] = Block(y, k, m, overlap)], y, m, overlap)
  <1>1. PICK L \in Nat : L = Len(x) /\ L < MaxSeqLen
    BY DEF Texts
  <1>2. PICK k \in Nat, rest \in 0..(m - 1) : k = L \div m /\ rest = L % m /\ L = k * m + rest
    BY Split
  <1>3. PICK y : y = Append(x, t) /\ Len(y) = L + 1 /\ Agree(x, y, L)
    BY <1>1, Longer
  <1>4. PICK n \in Nat : n = MaxBlocks(m)
    BY RoomForBlocks
  <1>5. PICK old : old = c.hist /\ old = [b \in 0..(n - 1) |-> old[b]]
                   /\ \A b \in 0..(k - 1) : old[b] = Block(x, b, m, overlap)
    BY <1>1, <1>2, <1>4 DEF HistHolds
  <1>6. ASSUME NEW b \in 0..(k - 1) PROVE old[b] = Block(y, b, m, overlap)
    <2>1. b \in Nat /\ b * m + m <= L
      BY <1>2, Earlier, Times DEF Sizes
    <2>2. Block(x, b, m, overlap) = Block(y, b, m, overlap)
      BY <1>3, <2>1, BlockSame
    <2> QED BY <1>5, <2>2
  <1>7. CASE ~Flushes(L, m)
    <2>1. (L + 1) \div m = k
      BY <1>2, <1>7, NextPosition
    <2> QED BY <1>1, <1>3, <1>4, <1>5, <1>6, <1>7, <2>1 DEF HistHolds
  <1>8. CASE Flushes(L, m)
    <2>1. (L + 1) \div m = k + 1
      BY <1>2, <1>8, NextPosition
    <2>2. k + 1 <= n
      BY <1>1, <1>4, <2>1, RoomForBlocks, StateLayerAssumption
    <2>3. k \in 0..(n - 1)
      BY <2>2
    <2>4. PICK new : new = [old EXCEPT ![k] = Block(y, k, m, overlap)]
      OBVIOUS
    <2>5. new = [b \in 0..(n - 1) |-> new[b]]
      BY <1>5, <2>4
    <2>6. ASSUME NEW b \in 0..((k + 1) - 1) PROVE new[b] = Block(y, b, m, overlap)
      <3>1. CASE b = k
        BY <1>5, <2>3, <2>4, <3>1
      <3>2. CASE b # k
        <4>1. b \in 0..(k - 1) /\ b \in 0..(n - 1)
          BY <2>2, <3>2
        <4> QED BY <1>5, <1>6, <2>3, <2>4, <3>2, <4>1
      <3> QED BY <3>1, <3>2
    <2> QED BY <1>1, <1>2, <1>3, <1>4, <1>5, <1>8, <2>1, <2>3, <2>4, <2>5, <2>6 DEF HistHolds
  <1> QED BY <1>1, <1>2, <1>3, <1>4, <1>5, <1>7, <1>8

\* After a decode step, scalar or ragged.
LEMMA StepHolds ==
    ASSUME NEW x \in Texts, NEW t \in Nat, NEW c, NEW m \in Sizes, NEW overlap \in BOOLEAN,
           Len(x) < MaxSeqLen, CompressorHolds(c, x, m, overlap)
    PROVE  /\ CompressorHolds(CompressorStepRagged(c, Len(x), t, m, overlap), Append(x, t), m, overlap)
           /\ c.n = Len(x) \div m =>
                 /\ CompressorHolds(CompressorStep(c, Len(x), t, m, overlap), Append(x, t), m, overlap)
                 /\ CompressorStep(c, Len(x), t, m, overlap).n = Len(Append(x, t)) \div m
  <1>1. PICK L \in Nat : L = Len(x) /\ L < MaxSeqLen
    BY DEF Texts
  <1>2. PICK k \in Nat : k = L \div m
    BY Split
  <1>3. PICK y : y = Append(x, t) /\ Len(y) = L + 1
    BY <1>1, Longer
  <1>4. PICK a : a = Accumulated(c, L, t, m, overlap)
    OBVIOUS
  <1>5. HistHolds(c.hist, x, m, overlap) /\ AccHolds(c.acc, x, m, overlap)
    BY DEF CompressorHolds
  <1>6. AccHolds(Slid(a, L, m, overlap), y, m, overlap)
    BY <1>1, <1>3, <1>4, <1>5, AccStep
  <1>7. PICK e : e = Entry(a, L, m, overlap) /\ (Flushes(L, m) => e = Block(y, k, m, overlap))
    BY <1>1, <1>2, <1>3, <1>4, <1>5, EntryIsBlock
  <1>8. /\ ~Flushes(L, m) => HistHolds(c.hist, y, m, overlap)
        /\ Flushes(L, m) => k \in 0..(MaxBlocks(m) - 1)
                            /\ HistHolds([c.hist EXCEPT ![k] = e], y, m, overlap)
    BY <1>1, <1>2, <1>3, <1>5, <1>7, HistStep
  <1>9. Flushes(L, m) => Min({L \div m, MaxBlocks(m) - 1}) = k
    <2>1. ASSUME Flushes(L, m) PROVE Min({k, MaxBlocks(m) - 1}) = k
      <3>1. k \in 0..(MaxBlocks(m) - 1) /\ MaxBlocks(m) \in Nat
        BY <1>8, <2>1, RoomForBlocks
      <3> QED BY <3>1 DEF Min
    <2> QED BY <1>2, <2>1
  <1>10. PICK r : r = CompressorStepRagged(c, L, t, m, overlap)
    OBVIOUS
  <1>11. r = [hist |-> IF Flushes(L, m) THEN [c.hist EXCEPT ![k] = e] ELSE c.hist,
              acc |-> Slid(a, L, m, overlap), n |-> c.n]
    BY <1>4, <1>7, <1>9, <1>10 DEF CompressorStepRagged, Written
  <1>12. CompressorHolds(r, y, m, overlap)
    BY <1>6, <1>8, <1>11 DEF CompressorHolds
  <1>13. ASSUME c.n = k
         PROVE  /\ CompressorHolds(CompressorStep(c, L, t, m, overlap), y, m, overlap)
                /\ CompressorStep(c, L, t, m, overlap).n = (L + 1) \div m
    <2>1. PICK s : s = CompressorStep(c, L, t, m, overlap)
      OBVIOUS
    <2>2. s = [hist |-> IF Flushes(L, m) THEN [c.hist EXCEPT ![k] = e] ELSE c.hist,
               acc |-> Slid(a, L, m, overlap), n |-> IF Flushes(L, m) THEN k + 1 ELSE k]
      BY <1>4, <1>7, <1>13, <2>1 DEF CompressorStep
    <2>3. CompressorHolds(s, y, m, overlap)
      BY <1>6, <1>8, <2>2 DEF CompressorHolds
    <2>4. s.n = (L + 1) \div m
      BY <1>1, <1>2, <2>2, NextPosition
    <2> QED BY <2>1, <2>3, <2>4
  <1> QED BY <1>1, <1>2, <1>3, <1>10, <1>12, <1>13

-----------------------------------------------------------------------------
(* What a window holds of a text.                                          *)

\* Positions less than m apart have slots of their own.
LEMMA SlotsDiffer ==
    ASSUME NEW m \in Sizes, NEW p \in Nat, NEW q \in Nat, p < q, q < p + m
    PROVE  p % m # q % m
  <1>1. PICK a \in Nat, i \in 0..(m - 1) : i = p % m /\ p = a * m + i
    BY Split
  <1>2. PICK b \in Nat, j \in 0..(m - 1) : j = q % m /\ q = b * m + j
    BY Split
  <1>3. PICK am \in Nat, bm \in Nat : am = a * m /\ bm = b * m
    BY Times DEF Sizes
  <1>4. a < b => am + m <= bm
    BY <1>3, Earlier DEF Sizes
  <1>5. b < a => bm + m <= am
    BY <1>3, Earlier DEF Sizes
  <1>6. a = b => am = bm
    BY <1>3
  <1> QED BY <1>1, <1>2, <1>3, <1>4, <1>5, <1>6 DEF Sizes

\* The positions a query still sees in the window.
InWindow(x) == {p \in 0..(Len(x) - 1) : Len(x) <= p + Win}

WindowHolds(w, x) ==
    /\ w = [i \in 0..(Win - 1) |-> w[i]]
    /\ \A p \in InWindow(x) : w[p % Win] = <<x[p + 1], p>>

\* The window is a size too.
LEMMA WindowSize == Win \in Sizes
  BY StateLayerAssumption DEF Sizes

\* The slot of a position that a prompt longer than the window keeps.
LEMMA RotatedSlot ==
    ASSUME NEW n \in Sizes, NEW T \in Nat, ~(T <= n), NEW p \in 0..(T - 1), T <= p + n
    PROVE  \E i \in 0..(n - 1) :
              /\ p % n = i
              /\ i >= (T % n) => T - n + i - (T % n) = p
              /\ ~(i >= (T % n)) => T - (T % n) + i = p
  <1>1. PICK q \in Nat, wrap \in 0..(n - 1) : wrap = T % n /\ T = q * n + wrap
    BY Split
  <1>2. PICK all \in Nat : all = q * n /\ T = all + wrap
    BY <1>1, Times DEF Sizes
  <1>3. q # 0
    BY <1>1 DEF Sizes
  <1>4. PICK h \in Nat : h = q - 1 /\ q = h + 1
    BY <1>3
  <1>5. PICK low \in Nat : low = h * n /\ all = low + n
    BY <1>2, <1>4, Times DEF Sizes
  <1>6. CASE p < all
    <2>1. PICK i \in 0..(n - 1) : i = p - low
      BY <1>2, <1>5, <1>6 DEF Sizes
    <2>2. p % n = i
      <3>1. p = h * n + i
        BY <1>5, <2>1
      <3> QED BY <3>1, DivMod
    <2>3. i >= wrap /\ T - n + i - wrap = p
      BY <1>2, <1>5, <2>1 DEF Sizes
    <2> QED BY <1>1, <2>2, <2>3
  <1>7. CASE ~(p < all)
    <2>1. PICK i \in 0..(n - 1) : i = p - all /\ i < wrap
      BY <1>2, <1>7 DEF Sizes
    <2>2. p % n = i
      <3>1. p = q * n + i
        BY <1>2, <2>1
      <3> QED BY <3>1, DivMod
    <2>3. ~(i >= wrap) /\ T - wrap + i = p
      BY <1>2, <2>1 DEF Sizes
    <2> QED BY <1>1, <2>2, <2>3
  <1> QED BY <1>6, <1>7

\* A prefill leaves the last tokens of the prompt in the window, rotated when it is longer.
LEMMA WindowPrefillHolds ==
    ASSUME NEW x \in Texts, NEW w, w = [i \in 0..(Win - 1) |-> w[i]]
    PROVE  WindowHolds(WindowPrefill(w, x), x)
  <1>1. PICK T \in Nat : T = Len(x)
    BY DEF Texts
  <1>2. PICK n \in Sizes : n = Win
    BY WindowSize
  <1>3. PICK wrap \in 0..(n - 1) : wrap = T % n
    BY Split
  <1>4. PICK v : v = WindowPrefill(w, x)
    OBVIOUS
  <1>5. v = [i \in 0..(n - 1) |->
               IF T <= n THEN IF i < T THEN <<x[i + 1], i>> ELSE w[i]
               ELSE IF i >= wrap THEN <<x[(T - n + i - wrap) + 1], T - n + i - wrap>>
                    ELSE <<x[(T - wrap + i) + 1], T - wrap + i>>]
    BY <1>1, <1>2, <1>3, <1>4 DEF WindowPrefill
  <1>6. ASSUME NEW p \in 0..(T - 1), T <= p + n PROVE v[p % n] = <<x[p + 1], p>>
    <2>1. CASE T <= n
      <3>1. p \in 0..(n - 1) /\ p = 0 * n + p
        BY <2>1 DEF Sizes
      <3>2. p % n = p
        BY <3>1, DivMod
      <3> QED BY <1>5, <2>1, <3>1, <3>2
    <2>2. CASE ~(T <= n)
      <3>1. PICK i \in 0..(n - 1) : /\ p % n = i
                                    /\ i >= wrap => T - n + i - wrap = p
                                    /\ ~(i >= wrap) => T - wrap + i = p
        BY <1>3, <1>6, <2>2, RotatedSlot
      <3> QED BY <1>5, <2>2, <3>1
    <2> QED BY <2>1, <2>2
  <1>7. v = [i \in 0..(n - 1) |-> v[i]]
    BY <1>5
  <1> QED BY <1>1, <1>2, <1>4, <1>6, <1>7 DEF WindowHolds, InWindow

\* A decode step overwrites the one slot that falls out of the window.
LEMMA WindowStepHolds ==
    ASSUME NEW x \in Texts, NEW t \in Nat, NEW w, WindowHolds(w, x)
    PROVE  WindowHolds(WindowStep(w, Len(x), t), Append(x, t))
  <1>1. PICK L \in Nat : L = Len(x)
    BY DEF Texts
  <1>2. PICK n \in Sizes : n = Win
    BY WindowSize
  <1>3. PICK y : y = Append(x, t) /\ Len(y) = L + 1 /\ y[L + 1] = t /\ Agree(x, y, L)
    BY <1>1, Longer
  <1>4. PICK i \in 0..(n - 1) : i = L % n
    BY Split
  <1>5. PICK v : v = WindowStep(w, L, t)
    OBVIOUS
  <1>6. v = [w EXCEPT ![i] = <<t, L>>] /\ DOMAIN w = 0..(n - 1)
    BY <1>2, <1>4, <1>5 DEF WindowStep, WindowHolds
  <1>7. v = [j \in 0..(n - 1) |-> v[j]]
    BY <1>6
  <1>8. ASSUME NEW p \in 0..L, L + 1 <= p + n PROVE v[p % n] = <<y[p + 1], p>>
    <2>1. CASE p = L
      BY <1>3, <1>4, <1>6, <2>1
    <2>2. CASE p # L
      <3>1. p \in Nat /\ p < L /\ L < p + n /\ p \in 0..(L - 1) /\ L <= p + n /\ p + 1 \in 1..L
        BY <1>8, <2>2 DEF Sizes
      <3>2. p % n # i /\ p % n \in 0..(n - 1)
        BY <1>4, <3>1, SlotsDiffer, Split
      <3>3. w[p % n] = <<x[p + 1], p>>
        BY <1>1, <1>2, <3>1 DEF WindowHolds, InWindow
      <3>4. x[p + 1] = y[p + 1]
        BY <1>3, <3>1 DEF Agree
      <3> QED BY <1>6, <3>2, <3>3, <3>4
    <2> QED BY <2>1, <2>2
  <1>9. \A p \in InWindow(y) : v[p % n] = <<y[p + 1], p>>
    BY <1>2, <1>3, <1>8 DEF InWindow
  <1> QED BY <1>1, <1>2, <1>3, <1>5, <1>7, <1>9 DEF WindowHolds

Recent(x) == {<<x[i], i - 1>> : i \in Max({1, Len(x) - Win + 1})..Len(x)}

\* The recent tokens of a text are those of the positions in its window.
LEMMA RecentFacts ==
    ASSUME NEW x \in Texts
    PROVE  Recent(x) = {<<x[p + 1], p>> : p \in InWindow(x)}
  <1>1. PICK L \in Nat : L = Len(x)
    BY DEF Texts
  <1>2. PICK n \in Sizes : n = Win
    BY WindowSize
  <1>3. PICK low \in Nat : low = Max({1, L - n + 1}) /\ low = IF L < n THEN 1 ELSE L - n + 1
    <2>1. Max({1, L - n + 1}) = IF L < n THEN 1 ELSE L - n + 1
      BY DEF Max, Sizes
    <2> QED BY <2>1 DEF Sizes
  <1>4. ASSUME NEW i \in low..L
        PROVE  \E p \in InWindow(x) : <<x[i], i - 1>> = <<x[p + 1], p>>
    <2>1. PICK p \in 0..(L - 1) : p = i - 1 /\ i = p + 1 /\ L <= p + n
      BY <1>3, <1>4 DEF Sizes
    <2>2. p \in InWindow(x)
      BY <1>1, <1>2, <2>1 DEF InWindow
    <2> QED BY <2>1, <2>2
  <1>5. ASSUME NEW p \in InWindow(x)
        PROVE  \E i \in low..L : <<x[p + 1], p>> = <<x[i], i - 1>>
    <2>1. p \in 0..(L - 1) /\ L <= p + n
      BY <1>1, <1>2 DEF InWindow
    <2>2. PICK i \in low..L : i = p + 1 /\ p = i - 1
      BY <1>3, <2>1 DEF Sizes
    <2> QED BY <2>2
  <1>6. Recent(x) = {<<x[i], i - 1>> : i \in low..L}
    BY <1>1, <1>2, <1>3 DEF Recent
  <1> QED BY <1>4, <1>5, <1>6

\* Every slot of a full window is that of a position still in it.
LEMMA SlotHasPosition ==
    ASSUME NEW x \in Texts, Win <= Len(x), NEW i \in 0..(Win - 1)
    PROVE  \E p \in InWindow(x) : p % Win = i
  <1>1. PICK L \in Nat : L = Len(x)
    BY DEF Texts
  <1>2. PICK n \in Sizes : n = Win /\ n <= L
    BY WindowSize, <1>1
  <1>3. PICK q \in Nat, j \in 0..(n - 1) : L = q * n + j
    BY Split
  <1>4. q # 0
    BY <1>2, <1>3 DEF Sizes
  <1>5. PICK h \in Nat, low \in Nat : h = q - 1 /\ low = h * n /\ q * n = low + n
    BY <1>4, Times DEF Sizes
  <1>6. CASE i < j
    <2>1. PICK p \in Nat : p = q * n + i
      BY <1>5, <1>2 DEF Sizes
    <2>2. p % n = i
      BY <1>2, <2>1, DivMod
    <2>3. p \in 0..(L - 1) /\ L <= p + n
      BY <1>2, <1>3, <1>5, <1>6, <2>1 DEF Sizes
    <2> QED BY <1>1, <1>2, <2>2, <2>3 DEF InWindow
  <1>7. CASE ~(i < j)
    <2>1. PICK p \in Nat : p = h * n + i /\ p = low + i
      BY <1>5, <1>2 DEF Sizes
    <2>2. p % n = i
      BY <1>2, <2>1, DivMod
    <2>3. p \in 0..(L - 1) /\ L <= p + n
      BY <1>2, <1>3, <1>5, <1>7, <2>1 DEF Sizes
    <2> QED BY <1>1, <1>2, <2>2, <2>3 DEF InWindow
  <1> QED BY <1>6, <1>7

\* What a query gathers from a full window when it visits every slot.
LEMMA FullWindow ==
    ASSUME NEW x \in Texts, Win <= Len(x), NEW w, WindowHolds(w, x)
    PROVE  {w[i] : i \in 0..(Win - 1)} = Recent(x)
  <1>1. ASSUME NEW i \in 0..(Win - 1) PROVE \E p \in InWindow(x) : w[i] = <<x[p + 1], p>>
    <2>1. PICK p \in InWindow(x) : p % Win = i
      BY SlotHasPosition
    <2> QED BY <2>1 DEF WindowHolds
  <1>2. ASSUME NEW p \in InWindow(x) PROVE \E i \in 0..(Win - 1) : <<x[p + 1], p>> = w[i]
    <2>1. p % Win \in 0..(Win - 1)
      BY WindowSize, Split DEF InWindow
    <2> QED BY <2>1 DEF WindowHolds
  <1>3. {w[i] : i \in 0..(Win - 1)} = {<<x[p + 1], p>> : p \in InWindow(x)}
    BY <1>1, <1>2
  <1> QED BY <1>3, RecentFacts

\* The slots of a full window, each once, in the order of their positions.
LEMMA FullSlots ==
    ASSUME NEW p \in Nat, Win - 1 <= p
    PROVE  /\ WindowSlotsRagged(p) = WindowSlots(p)
           /\ DOMAIN WindowSlots(p) = 1..Win
           /\ \A j \in 1..Win : WindowSlots(p)[j] \in 0..(Win - 1)
           /\ \A i \in 0..(Win - 1) : \E j \in 1..Win : WindowSlots(p)[j] = i
  <1>1. PICK n \in Sizes : n = Win
    BY WindowSize
  <1>2. PICK r \in 0..(n - 1) : r = p % n
    BY Split
  <1>3. p >= n - 1
    BY <1>1
  <1>4. WindowSlots(p) = [j \in 1..n |-> IF j < n - r THEN r + j ELSE j - (n - r)]
    BY <1>1, <1>2, <1>3 DEF WindowSlots
  <1>5. WindowSlotsRagged(p) = [j \in 1..n |-> (r + j) % n]
    BY <1>1, <1>2, <1>3 DEF WindowSlotsRagged
  <1>6. ASSUME NEW j \in 1..n PROVE (r + j) % n = IF j < n - r THEN r + j ELSE j - (n - r)
    <2>1. CASE j < n - r
      <3>1. PICK i \in 0..(n - 1) : i = r + j /\ i = 0 * n + i
        BY <2>1 DEF Sizes
      <3>2. i % n = i
        BY <3>1, DivMod
      <3> QED BY <2>1, <3>1, <3>2
    <2>2. CASE ~(j < n - r)
      <3>1. PICK i \in 0..(n - 1) : i = j - (n - r) /\ r + j = 1 * n + i
        BY <2>2 DEF Sizes
      <3>2. (r + j) % n = i
        BY <3>1, DivMod
      <3> QED BY <2>2, <3>1, <3>2
    <2> QED BY <2>1, <2>2
  <1>7. \A j \in 1..n : (IF j < n - r THEN r + j ELSE j - (n - r)) \in 0..(n - 1)
    BY DEF Sizes
  <1>8. ASSUME NEW i \in 0..(n - 1)
        PROVE  \E j \in 1..n : (IF j < n - r THEN r + j ELSE j - (n - r)) = i
    <2>1. CASE i > r
      <3>1. i - r \in 1..n /\ i - r < n - r /\ r + (i - r) = i
        BY <2>1 DEF Sizes
      <3> QED BY <3>1
    <2>2. CASE ~(i > r)
      <3>1. i + (n - r) \in 1..n /\ ~(i + (n - r) < n - r) /\ (i + (n - r)) - (n - r) = i
        BY <2>2 DEF Sizes
      <3> QED BY <3>1
    <2> QED BY <2>1, <2>2
  <1>9. WindowSlotsRagged(p) = WindowSlots(p)
    BY <1>4, <1>5, <1>6
  <1> QED BY <1>1, <1>4, <1>7, <1>8, <1>9

\* What the query of the last token sees in the window, after a scalar and a ragged step.
LEMMA WindowSeen ==
    ASSUME NEW x \in Texts, x # <<>>, NEW w, WindowHolds(w, x)
    PROVE  /\ Gathered(w, WindowSlots(Len(x) - 1)) = Recent(x)
           /\ Gathered(w, WindowSlotsRagged(Len(x) - 1)) = Recent(x)
  <1>1. PICK L \in Nat \ {0} : L = Len(x)
    BY EmptySeq DEF Texts
  <1>2. PICK n \in Sizes : n = Win
    BY WindowSize
  <1>3. PICK p \in Nat : p = L - 1
    OBVIOUS
  <1>4. CASE n - 1 <= p
    <2>1. PICK s : s = WindowSlots(p)
      OBVIOUS
    <2>2. /\ WindowSlotsRagged(p) = s
          /\ DOMAIN s = 1..n /\ (\A j \in 1..n : s[j] \in 0..(n - 1))
          /\ \A i \in 0..(n - 1) : \E j \in 1..n : s[j] = i
      BY <1>2, <1>4, <2>1, FullSlots
    <2>3. {j \in DOMAIN s : s[j] # -1} = 1..n
      BY <2>2
    <2>4. Gathered(w, s) = {w[s[j]] : j \in 1..n}
      BY <2>3 DEF Gathered
    <2>5. {w[s[j]] : j \in 1..n} = {w[i] : i \in 0..(n - 1)}
      BY <2>2
    <2>6. Win <= Len(x)
      BY <1>1, <1>2, <1>3, <1>4 DEF Sizes
    <2>7. {w[i] : i \in 0..(Win - 1)} = Recent(x)
      BY <2>6, FullWindow
    <2>8. Gathered(w, s) = Recent(x)
      BY <1>2, <2>4, <2>5, <2>7
    <2> QED BY <1>1, <1>3, <2>1, <2>2, <2>8
  <1>5. CASE ~(n - 1 <= p)
    <2>1. WindowSlots(p) = [j \in 1..(p + 1) |-> j - 1]
      BY <1>2, <1>5 DEF WindowSlots, Sizes
    <2>2. WindowSlotsRagged(p) = [j \in 1..n |-> IF j - 1 <= p THEN j - 1 ELSE -1]
      BY <1>2, <1>5 DEF WindowSlotsRagged, Sizes
    <2>3. Gathered(w, WindowSlots(p)) = {w[i] : i \in 0..p}
      <3>1. PICK s : s = WindowSlots(p) /\ s = [j \in 1..(p + 1) |-> j - 1]
        BY <2>1
      <3>2. {j \in DOMAIN s : s[j] # -1} = 1..(p + 1)
        BY <3>1
      <3>3. Gathered(w, s) = {w[s[j]] : j \in 1..(p + 1)}
        BY <3>2 DEF Gathered
      <3>4. \A j \in 1..(p + 1) : s[j] \in 0..p
        BY <3>1
      <3>5. \A i \in 0..p : i + 1 \in 1..(p + 1) /\ s[i + 1] = i
        BY <3>1
      <3>6. {w[s[j]] : j \in 1..(p + 1)} = {w[i] : i \in 0..p}
        BY <3>4, <3>5
      <3> QED BY <3>1, <3>3, <3>6
    <2>4. Gathered(w, WindowSlotsRagged(p)) = {w[i] : i \in 0..p}
      <3>1. PICK s : s = WindowSlotsRagged(p) /\ s = [j \in 1..n |-> IF j - 1 <= p THEN j - 1 ELSE -1]
        BY <2>2
      <3>2. {j \in DOMAIN s : s[j] # -1} = 1..(p + 1)
        BY <1>5, <3>1 DEF Sizes
      <3>3. Gathered(w, s) = {w[s[j]] : j \in 1..(p + 1)}
        BY <3>2 DEF Gathered
      <3>4. \A j \in 1..(p + 1) : s[j] \in 0..p
        BY <1>5, <3>1 DEF Sizes
      <3>5. \A i \in 0..p : i + 1 \in 1..(p + 1) /\ s[i + 1] = i
        BY <1>5, <3>1 DEF Sizes
      <3>6. {w[s[j]] : j \in 1..(p + 1)} = {w[i] : i \in 0..p}
        BY <3>4, <3>5
      <3> QED BY <3>1, <3>3, <3>6
    <2>5. InWindow(x) = 0..p
      BY <1>1, <1>2, <1>3, <1>5 DEF InWindow, Sizes
    <2>6. \A i \in 0..p : w[i] = <<x[i + 1], i>>
      <3> SUFFICES ASSUME NEW i \in 0..p PROVE w[i] = <<x[i + 1], i>>
        OBVIOUS
      <3>1. i \in 0..(n - 1) /\ i = 0 * n + i
        BY <1>5 DEF Sizes
      <3>2. i % n = i
        BY <3>1, DivMod
      <3> QED BY <1>2, <2>5, <3>2 DEF WindowHolds
    <2>7. {w[i] : i \in 0..p} = Recent(x)
      BY <2>5, <2>6, RecentFacts
    <2> QED BY <1>1, <1>3, <2>3, <2>4, <2>7
  <1> QED BY <1>4, <1>5

-----------------------------------------------------------------------------
(* What a query attends to.                                                *)

Blocks(x, m, overlap) == {Block(x, b, m, overlap) : b \in 0..((Len(x) \div m) - 1)}
Picked(x, m) == {<<Block(x, b, m, TRUE), Block(x, b, m, TRUE)>> :
                    b \in TopBlocks(0..((Len(x) \div m) - 1))}

\* The scores leave a prefill's topk no choice that the decode steps would not make.
ScoresDiffer ==
    \/ PrefillTies = "lower"
    \/ \A a, b \in 0..(MaxBlocks(Ratio["csa"]) - 1) : Score[a] = Score[b] => a = b

\* Both ratios are block sizes.
LEMMA RatioSizes == Ratio["hca"] \in Sizes /\ Ratio["csa"] \in Sizes
  BY StateLayerAssumption DEF Sizes

\* What a query should attend to, in the words of the lemmas below.
LEMMA IdealFacts ==
    ASSUME NEW x
    PROVE  Ideal(x) = [swa |-> Recent(x),
                       hca |-> <<Recent(x), Blocks(x, Ratio["hca"], FALSE)>>,
                       csa |-> <<Recent(x), Picked(x, Ratio["csa"])>>]
  <1> DEFINE m == Ratio["csa"]
             B == TopBlocks(0..((Len(x) \div m) - 1))
  <1>1. {<<e, e>> : e \in {Block(x, b, m, TRUE) : b \in B}}
          = {<<Block(x, b, m, TRUE), Block(x, b, m, TRUE)>> : b \in B}
    <2> HIDE DEF B, m
    <2> QED OBVIOUS
  <1> QED BY <1>1 DEF Ideal, Recent, Blocks, Picked

\* Only blocks that are offered are picked.
LEMMA TopBlocksSubset ==
    ASSUME NEW B PROVE TopBlocks(B) \subseteq B
  BY DEF TopBlocks, Best

\* The blocks of an hca layer, by both decode steps.
LEMMA HcaSeen ==
    ASSUME NEW x \in Texts, x # <<>>, Len(x) <= MaxSeqLen, NEW r,
           CompressorHolds(r.main, x, Ratio["hca"], FALSE)
    PROVE  /\ HcaAttends(r, Len(x) - 1) = Blocks(x, Ratio["hca"], FALSE)
           /\ HcaAttendsRagged(r, Len(x) - 1) = Blocks(x, Ratio["hca"], FALSE)
  <1>1. PICK L \in Nat \ {0}, p \in Nat : L = Len(x) /\ p = L - 1 /\ p + 1 = L
    BY EmptySeq DEF Texts
  <1>2. PICK m \in Sizes : m = Ratio["hca"]
    BY RatioSizes
  <1>3. PICK k \in Nat : k = L \div m /\ k <= MaxBlocks(m)
    BY <1>1, <1>2, Split, RoomForBlocks
  <1>4. PICK M \in Nat : M = MaxBlocks(m)
    BY RoomForBlocks
  <1>5. PICK h : h = r.main.hist /\ \A b \in 0..(k - 1) : h[b] = Block(x, b, m, FALSE)
    BY <1>1, <1>2, <1>3 DEF CompressorHolds, HistHolds
  <1>6. {h[b] : b \in 0..(k - 1)} = Blocks(x, m, FALSE)
    BY <1>1, <1>3, <1>5 DEF Blocks
  <1>7. HcaAttends(r, p) = {h[b] : b \in 0..(k - 1)}
    <2>1. PICK s : s = [j \in 1..k |-> j - 1]
      OBVIOUS
    <2>2. HcaAttends(r, p) = Gathered(h, s)
      BY <1>1, <1>2, <1>3, <1>5, <2>1 DEF HcaAttends
    <2>3. {j \in DOMAIN s : s[j] # -1} = 1..k
      BY <2>1
    <2>4. (\A j \in 1..k : s[j] \in 0..(k - 1)) /\ \A b \in 0..(k - 1) : b + 1 \in 1..k /\ s[b + 1] = b
      BY <2>1
    <2>5. {h[s[j]] : j \in 1..k} = {h[b] : b \in 0..(k - 1)}
      BY <2>4
    <2> QED BY <2>2, <2>3, <2>5 DEF Gathered
  <1>8. HcaAttendsRagged(r, p) = {h[b] : b \in 0..(k - 1)}
    <2>1. PICK s : s = [j \in 1..M |-> IF j - 1 < k THEN j - 1 ELSE -1]
      OBVIOUS
    <2>2. HcaAttendsRagged(r, p) = Gathered(h, s)
      BY <1>1, <1>2, <1>3, <1>4, <1>5, <2>1 DEF HcaAttendsRagged
    <2>3. {j \in DOMAIN s : s[j] # -1} = 1..k
      BY <1>3, <1>4, <2>1
    <2>4. (\A j \in 1..k : s[j] \in 0..(k - 1)) /\ \A b \in 0..(k - 1) : b + 1 \in 1..k /\ s[b + 1] = b
      BY <1>3, <1>4, <2>1
    <2>5. {h[s[j]] : j \in 1..k} = {h[b] : b \in 0..(k - 1)}
      BY <2>4
    <2> QED BY <2>2, <2>3, <2>5 DEF Gathered
  <1> QED BY <1>1, <1>2, <1>6, <1>7, <1>8

\* The blocks of a csa layer; the scalar step reads the indexer's counter.
LEMMA CsaSeen ==
    ASSUME NEW x \in Texts, x # <<>>, Len(x) <= MaxSeqLen, NEW r,
           CompressorHolds(r.main, x, Ratio["csa"], TRUE),
           CompressorHolds(r.indexer, x, Ratio["csa"], TRUE)
    PROVE  /\ r.indexer.n = Len(x) \div Ratio["csa"]
                => CsaAttends(r, Len(x) - 1) = Picked(x, Ratio["csa"])
           /\ CsaAttendsRagged(r, Len(x) - 1) = Picked(x, Ratio["csa"])
  <1>1. PICK L \in Nat \ {0}, p \in Nat : L = Len(x) /\ p = L - 1 /\ p + 1 = L
    BY EmptySeq DEF Texts
  <1>2. PICK m \in Sizes : m = Ratio["csa"]
    BY RatioSizes
  <1>3. PICK k \in Nat : k = L \div m /\ k <= MaxBlocks(m)
    BY <1>1, <1>2, Split, RoomForBlocks
  <1>4. PICK M \in Nat : M = MaxBlocks(m)
    BY RoomForBlocks
  <1>5. PICK B : B = TopBlocks(0..(k - 1)) /\ B \subseteq 0..(k - 1)
    BY TopBlocksSubset
  <1>6. \A b \in B : r.main.hist[b] = Block(x, b, m, TRUE) /\ r.indexer.hist[b] = Block(x, b, m, TRUE)
    BY <1>1, <1>2, <1>3, <1>5 DEF CompressorHolds, HistHolds
  <1>7. {<<r.main.hist[b], r.indexer.hist[b]>> : b \in B} = Picked(x, m)
    <2>1. Picked(x, m) = {<<Block(x, b, m, TRUE), Block(x, b, m, TRUE)>> : b \in B}
      BY <1>1, <1>3, <1>5 DEF Picked
    <2> QED BY <1>6, <2>1
  <1>8. ASSUME r.indexer.n = k PROVE CsaAttends(r, p) = Picked(x, m)
    BY <1>5, <1>7, <1>8 DEF CsaAttends
  <1>9. CsaAttendsRagged(r, p) = Picked(x, m)
    <2>1. {b \in 0..(M - 1) : b < k} = 0..(k - 1)
      BY <1>3, <1>4
    <2>2. {b \in 0..(MaxBlocks(Ratio["csa"]) - 1) : b < (p + 1) \div Ratio["csa"]} = 0..(k - 1)
      BY <1>1, <1>2, <1>3, <1>4, <2>1
    <2> QED BY <1>5, <1>7, <2>2 DEF CsaAttendsRagged
  <1> QED BY <1>1, <1>2, <1>3, <1>8, <1>9

-----------------------------------------------------------------------------
(* What the queries of a prefill attend to.                                *)

\* The text up to a position.
LEMMA Beginning ==
    ASSUME NEW x \in Texts, NEW p \in 0..(Len(x) - 1)
    PROVE  /\ SubSeq(x, 1, p + 1) \in Texts /\ Len(SubSeq(x, 1, p + 1)) = p + 1
           /\ Agree(SubSeq(x, 1, p + 1), x, p + 1) /\ p \in Nat
  <1>1. PICK L \in Nat : L = Len(x)
    BY DEF Texts
  <1>2. p + 1 \in 1..L /\ p \in Nat
    BY <1>1
  <1>3. PICK y : y = SubSeq(x, 1, p + 1)
    OBVIOUS
  <1>4. y = [i \in 1..(p + 1) |-> x[i]]
    BY <1>2, <1>3
  <1>5. \A i \in 1..(p + 1) : x[i] \in Nat
    BY <1>1, <1>2 DEF Texts
  <1> QED BY <1>2, <1>3, <1>4, <1>5 DEF Texts, Agree

\* A query of a prefill sees the window of the text up to it, in every layer.
LEMMA WindowSeenPrefill ==
    ASSUME NEW x \in Texts, NEW p \in 0..(Len(x) - 1)
    PROVE  WindowAttendsPrefill(x, p) = Recent(SubSeq(x, 1, p + 1))
  <1>1. PICK L \in Nat : L = Len(x) /\ p \in 0..(L - 1) /\ p \in Nat
    BY DEF Texts
  <1>2. PICK n \in Sizes : n = Win
    BY WindowSize
  <1>3. PICK y : /\ y = SubSeq(x, 1, p + 1) /\ y \in Texts /\ Len(y) = p + 1
                 /\ \A i \in 1..(p + 1) : y[i] = x[i]
    BY Beginning DEF Agree
  <1>4. PICK low \in Nat : low = Max({p - n + 1, 0}) /\ low = IF p - n + 1 < 0 THEN 0 ELSE p - n + 1
    <2>1. Max({p - n + 1, 0}) = IF p - n + 1 < 0 THEN 0 ELSE p - n + 1
      BY <1>1 DEF Max, Sizes
    <2> QED BY <1>1, <2>1 DEF Sizes
  <1>5. PICK c \in Nat : c = Min({L, n}) /\ c = IF L < n THEN L ELSE n
    <2>1. Min({L, n}) = IF L < n THEN L ELSE n
      BY DEF Min, Sizes
    <2> QED BY <2>1 DEF Sizes
  <1>6. PICK f : f = [i \in 0..(L - 1) |-> <<x[i + 1], i>>]
    OBVIOUS
  <1>7. PICK s : s = [j \in 1..c |-> IF low + j - 1 > p THEN -1 ELSE low + j - 1]
    OBVIOUS
  <1>8. WindowAttendsPrefill(x, p) = Gathered(f, s)
    BY <1>1, <1>2, <1>4, <1>5, <1>6, <1>7 DEF WindowAttendsPrefill
  <1>9. PICK J : J = {j \in DOMAIN s : s[j] # -1} /\ J = {j \in 1..c : low + j - 1 <= p}
    <2>1. ASSUME NEW j \in 1..c PROVE s[j] # -1 <=> low + j - 1 <= p
      BY <1>7, <1>1
    <2>2. DOMAIN s = 1..c
      BY <1>7
    <2> QED BY <2>1, <2>2
  <1>10. ASSUME NEW j \in J PROVE s[j] \in low..p
    BY <1>7, <1>9, <1>1
  <1>11. ASSUME NEW i \in low..p PROVE \E j \in J : s[j] = i
    <2>1. PICK j \in 1..c : j = i - low + 1 /\ low + j - 1 = i
      BY <1>1, <1>4, <1>5, <1>11 DEF Sizes
    <2>2. j \in J /\ s[j] = i
      BY <1>1, <1>7, <1>9, <2>1, <1>11
    <2> QED BY <2>2
  <1>12. {f[s[j]] : j \in J} = {f[i] : i \in low..p}
    BY <1>10, <1>11
  <1>13. \A i \in low..p : f[i] = <<y[i + 1], i>>
    BY <1>1, <1>3, <1>6
  <1>14. low..p = InWindow(y)
    BY <1>1, <1>2, <1>3, <1>4 DEF InWindow, Sizes
  <1>15. {f[i] : i \in low..p} = {<<y[i + 1], i>> : i \in InWindow(y)}
    BY <1>13, <1>14
  <1>16. Recent(y) = {<<y[i + 1], i>> : i \in InWindow(y)}
    BY <1>3, RecentFacts
  <1> QED BY <1>3, <1>8, <1>9, <1>12, <1>15, <1>16 DEF Gathered

\* The blocks a query of the prefill sees are those of the text up to it.
LEMMA BlocksUpTo ==
    ASSUME NEW x \in Texts, NEW p \in 0..(Len(x) - 1), NEW m \in Sizes
    PROVE  /\ {b \in 0..((Len(x) \div m) - 1) : b < (p + 1) \div m} = 0..(((p + 1) \div m) - 1)
           /\ \A b \in 0..(((p + 1) \div m) - 1) :
                 /\ Block(SubSeq(x, 1, p + 1), b, m, TRUE) = Block(x, b, m, TRUE)
                 /\ Block(SubSeq(x, 1, p + 1), b, m, FALSE) = Block(x, b, m, FALSE)
  <1>1. PICK L \in Nat : L = Len(x) /\ p + 1 \in Nat /\ p + 1 <= L
    BY DEF Texts
  <1>2. PICK k \in Nat, rest \in 0..(m - 1) : k = (p + 1) \div m /\ p + 1 = k * m + rest
    BY <1>1, Split
  <1>3. PICK q \in Nat : q = L \div m /\ k <= q
    BY <1>1, <1>2, Split, FewerBlocks
  <1>4. {b \in 0..(q - 1) : b < k} = 0..(k - 1)
    BY <1>3
  <1>5. ASSUME NEW b \in 0..(k - 1), NEW overlap \in BOOLEAN
        PROVE  Block(SubSeq(x, 1, p + 1), b, m, overlap) = Block(x, b, m, overlap)
    <2>1. b \in Nat /\ b < k
      OBVIOUS
    <2>2. b * m \in Nat /\ k * m \in Nat /\ b * m + m <= k * m
      BY <2>1, Earlier, Times DEF Sizes
    <2>3. PICK n \in Nat : n = p + 1 /\ b * m + m <= n
      BY <1>1, <1>2, <2>2 DEF Sizes
    <2>4. Agree(SubSeq(x, 1, p + 1), x, n)
      BY <2>3, Beginning
    <2> QED BY <2>1, <2>3, <2>4, BlockSame
  <1>6. \A b \in 0..(k - 1) :
           /\ Block(SubSeq(x, 1, p + 1), b, m, TRUE) = Block(x, b, m, TRUE)
           /\ Block(SubSeq(x, 1, p + 1), b, m, FALSE) = Block(x, b, m, FALSE)
    BY <1>5
  <1> QED BY <1>1, <1>2, <1>3, <1>4, <1>6

\* ... every complete block of it in an hca layer,
LEMMA HcaSeenPrefill ==
    ASSUME NEW x \in Texts, NEW p \in 0..(Len(x) - 1)
    PROVE  HcaAttendsPrefill(x, p) = Blocks(SubSeq(x, 1, p + 1), Ratio["hca"], FALSE)
  <1>1. PICK m \in Sizes : m = Ratio["hca"]
    BY RatioSizes
  <1>2. PICK y : y = SubSeq(x, 1, p + 1) /\ Len(y) = p + 1
    BY Beginning
  <1>3. PICK B : /\ B = {b \in 0..((Len(x) \div m) - 1) : b < (p + 1) \div m}
                 /\ B = 0..(((p + 1) \div m) - 1)
                 /\ \A b \in B : Block(y, b, m, FALSE) = Block(x, b, m, FALSE)
    <2>1. PICK B : B = 0..(((p + 1) \div m) - 1)
      OBVIOUS
    <2>2. /\ B = {b \in 0..((Len(x) \div m) - 1) : b < (p + 1) \div m}
          /\ \A b \in B : Block(y, b, m, FALSE) = Block(x, b, m, FALSE)
      BY <1>2, <2>1, BlocksUpTo
    <2> QED BY <2>1, <2>2
  <1>4. HcaAttendsPrefill(x, p) = {Block(x, b, m, FALSE) : b \in B}
    BY <1>1, <1>3 DEF HcaAttendsPrefill
  <1>5. Blocks(y, m, FALSE) = {Block(y, b, m, FALSE) : b \in B}
    BY <1>2, <1>3 DEF Blocks
  <1>6. {Block(x, b, m, FALSE) : b \in B} = {Block(y, b, m, FALSE) : b \in B}
    BY <1>3
  <1> QED BY <1>1, <1>2, <1>4, <1>5, <1>6

\* Where the scores leave no choice, a prefill picks what a decode step would.
LEMMA TiesAgree ==
    ASSUME ScoresDiffer, NEW B, B \subseteq 0..(MaxBlocks(Ratio["csa"]) - 1)
    PROVE  TopBlocksPrefill(B) = TopBlocks(B)
  <1>1. CASE PrefillTies = "lower"
    BY <1>1 DEF TopBlocks, TopBlocksPrefill
  <1>2. CASE \A a, b \in 0..(MaxBlocks(Ratio["csa"]) - 1) : Score[a] = Score[b] => a = b
    <2>1. \A a, b \in B : a \in Int /\ b \in Int /\ (Score[a] = Score[b] => a = b)
      BY <1>2
    <2> DEFINE lower(a, b) == Score[a] > Score[b] \/ (Score[a] = Score[b] /\ a < b)
               higher(a, b) == Score[a] > Score[b] \/ (Score[a] = Score[b] /\ a > b)
    <2>2. ASSUME NEW a \in B, NEW b \in B PROVE lower(a, b) <=> higher(a, b)
      <3>1. CASE Score[a] = Score[b]
        <4>1. a = b /\ a \in Int /\ ~(a < a) /\ ~(a > a)
          BY <2>1, <3>1
        <4> QED BY <4>1
      <3>2. CASE Score[a] # Score[b]
        BY <3>2
      <3> QED BY <3>1, <3>2
    <2>3. ASSUME NEW b \in B
          PROVE  {a \in B : lower(a, b)} = {a \in B : higher(a, b)}
      <3> HIDE DEF lower, higher
      <3> QED BY <2>2
    <2>4. {b \in B : Cardinality({a \in B : lower(a, b)}) < TopK}
            = {b \in B : Cardinality({a \in B : higher(a, b)}) < TopK}
      <3> HIDE DEF lower, higher
      <3> QED BY <2>3
    <2>5. Best(B, "lower") = {b \in B : Cardinality({a \in B : lower(a, b)}) < TopK}
      BY DEF Best
    <2>6. Best(B, "higher") = {b \in B : Cardinality({a \in B : higher(a, b)}) < TopK}
      BY DEF Best
    <2> QED BY <2>4, <2>5, <2>6, StateLayerAssumption DEF TopBlocks, TopBlocksPrefill
  <1> QED BY <1>1, <1>2 DEF ScoresDiffer

\* ... and the best of them in a csa layer.
LEMMA CsaSeenPrefill ==
    ASSUME ScoresDiffer, NEW x \in Texts, Len(x) <= MaxSeqLen, NEW p \in 0..(Len(x) - 1)
    PROVE  CsaAttendsPrefill(x, p) = Picked(SubSeq(x, 1, p + 1), Ratio["csa"])
  <1>1. PICK m \in Sizes : m = Ratio["csa"]
    BY RatioSizes
  <1>2. PICK y : y = SubSeq(x, 1, p + 1) /\ Len(y) = p + 1
    BY Beginning
  <1>3. PICK B : /\ B = {b \in 0..((Len(x) \div m) - 1) : b < (p + 1) \div m}
                 /\ B = 0..(((p + 1) \div m) - 1)
                 /\ \A b \in B : Block(y, b, m, TRUE) = Block(x, b, m, TRUE)
    <2>1. PICK B : B = 0..(((p + 1) \div m) - 1)
      OBVIOUS
    <2>2. /\ B = {b \in 0..((Len(x) \div m) - 1) : b < (p + 1) \div m}
          /\ \A b \in B : Block(y, b, m, TRUE) = Block(x, b, m, TRUE)
      BY <1>2, <2>1, BlocksUpTo
    <2> QED BY <2>1, <2>2
  <1>4. B \subseteq 0..(MaxBlocks(m) - 1)
    <2>1. p + 1 \in Nat /\ p + 1 <= MaxSeqLen
      BY StateLayerAssumption DEF Texts
    <2>2. PICK k \in Nat : k = (p + 1) \div m /\ k <= MaxBlocks(m) /\ MaxBlocks(m) \in Nat
      BY <2>1, Split, RoomForBlocks
    <2> QED BY <1>3, <2>2
  <1>5. PICK T : T = TopBlocks(B) /\ T = TopBlocksPrefill(B) /\ T \subseteq B
    BY <1>1, <1>4, TiesAgree, TopBlocksSubset
  <1>6. CsaAttendsPrefill(x, p) = {<<Block(x, b, m, TRUE), Block(x, b, m, TRUE)>> : b \in T}
    BY <1>1, <1>3, <1>5 DEF CsaAttendsPrefill
  <1>7. Picked(y, m) = {<<Block(y, b, m, TRUE), Block(y, b, m, TRUE)>> : b \in T}
    BY <1>2, <1>3, <1>5 DEF Picked
  <1>8. \A b \in T : Block(y, b, m, TRUE) = Block(x, b, m, TRUE)
    BY <1>3, <1>5
  <1>9. {<<Block(x, b, m, TRUE), Block(x, b, m, TRUE)>> : b \in T}
          = {<<Block(y, b, m, TRUE), Block(y, b, m, TRUE)>> : b \in T}
    BY <1>8
  <1> QED BY <1>1, <1>2, <1>6, <1>7, <1>9

\* Every query of a prefill attends to what it should.
LEMMA PrefillSees ==
    ASSUME ScoresDiffer, NEW x \in Texts, Len(x) <= MaxSeqLen, NEW p \in 0..(Len(x) - 1)
    PROVE  AttendsPrefill(x, p) = Ideal(SubSeq(x, 1, p + 1))
  BY WindowSeenPrefill, HcaSeenPrefill, CsaSeenPrefill, IdealFacts DEF AttendsPrefill

-----------------------------------------------------------------------------
(* What a row holds of a text.                                             *)

HcaHolds(l, x) ==
    /\ l = [window |-> l.window, main |-> l.main]
    /\ WindowHolds(l.window, x)
    /\ CompressorHolds(l.main, x, Ratio["hca"], FALSE)

CsaHolds(l, x) ==
    /\ l = [window |-> l.window, main |-> l.main, indexer |-> l.indexer]
    /\ WindowHolds(l.window, x)
    /\ CompressorHolds(l.main, x, Ratio["csa"], TRUE)
    /\ CompressorHolds(l.indexer, x, Ratio["csa"], TRUE)

SwaHolds(l, x) == l = [window |-> l.window] /\ WindowHolds(l.window, x)

RowHolds(r, x) ==
    /\ r = [swa |-> r.swa, hca |-> r.hca, csa |-> r.csa]
    /\ SwaHolds(r.swa, x) /\ HcaHolds(r.hca, x) /\ CsaHolds(r.csa, x)

\* The block counters, which only the scalar steps read.
HcaCounted(l, x) == l.main.n = Len(x) \div Ratio["hca"]
CsaCounted(l, x) ==
    l.main.n = Len(x) \div Ratio["csa"] /\ l.indexer.n = Len(x) \div Ratio["csa"]
Counted(r, x) == HcaCounted(r.hca, x) /\ CsaCounted(r.csa, x)

\* The scalar step of a compressor with the right counter.
LEMMA StepCounted ==
    ASSUME NEW x \in Texts, NEW t \in Nat, NEW c, NEW m \in Sizes, NEW overlap \in BOOLEAN,
           Len(x) < MaxSeqLen, CompressorHolds(c, x, m, overlap), c.n = Len(x) \div m
    PROVE  /\ CompressorHolds(CompressorStep(c, Len(x), t, m, overlap), Append(x, t), m, overlap)
           /\ CompressorStep(c, Len(x), t, m, overlap).n = Len(Append(x, t)) \div m
  BY StepHolds

\* A layer whose fields are replaced.
LEMMA HcaFields ==
    ASSUME NEW w, NEW c, NEW l, l = [window |-> w, main |-> c], NEW v, NEW d
    PROVE  [l EXCEPT !.window = v, !.main = d] = [window |-> v, main |-> d]
  <1>1. PICK a : a = [l EXCEPT !.window = v]
    OBVIOUS
  <1>2. a = [window |-> v, main |-> c]
    BY <1>1
  <1>3. [a EXCEPT !.main = d] = [window |-> v, main |-> d]
    BY <1>2
  <1> QED BY <1>1, <1>3

\* The same for the layer that has an indexer.
LEMMA CsaFields ==
    ASSUME NEW w, NEW c, NEW i, NEW l, l = [window |-> w, main |-> c, indexer |-> i],
           NEW v, NEW d, NEW e
    PROVE  [l EXCEPT !.window = v, !.main = d, !.indexer = e]
                = [window |-> v, main |-> d, indexer |-> e]
  <1>1. PICK a : a = [l EXCEPT !.window = v]
    OBVIOUS
  <1>2. a = [window |-> v, main |-> c, indexer |-> i]
    BY <1>1
  <1>3. PICK b : b = [a EXCEPT !.main = d]
    OBVIOUS
  <1>4. b = [window |-> v, main |-> d, indexer |-> i]
    BY <1>2, <1>3
  <1>5. [b EXCEPT !.indexer = e] = [window |-> v, main |-> d, indexer |-> e]
    BY <1>4
  <1> QED BY <1>1, <1>3, <1>5

\* A prefill leaves a cache that holds the text and counts its blocks.
LEMMA RowPrefilled ==
    ASSUME NEW x \in Texts, Len(x) <= MaxSeqLen
    PROVE  RowHolds(Prefilled(x), x) /\ Counted(Prefilled(x), x)
  <1>1. PICK w : w = [i \in 0..(Win - 1) |-> Nothing] /\ w = [i \in 0..(Win - 1) |-> w[i]]
    <2>1. PICK w : w = [i \in 0..(Win - 1) |-> Nothing]
      OBVIOUS
    <2> QED BY <2>1
  <1>2. PICK v : v = WindowPrefill(w, x) /\ WindowHolds(v, x)
    BY <1>1, WindowPrefillHolds
  <1>3. PICK h : /\ h = CompressorPrefill(NewCompressor(Ratio["hca"], FALSE), x, Ratio["hca"], FALSE)
                 /\ CompressorHolds(h, x, Ratio["hca"], FALSE) /\ h.n = Len(x) \div Ratio["hca"]
    BY RatioSizes, PrefillHolds
  <1>4. PICK c : /\ c = CompressorPrefill(NewCompressor(Ratio["csa"], TRUE), x, Ratio["csa"], TRUE)
                 /\ CompressorHolds(c, x, Ratio["csa"], TRUE) /\ c.n = Len(x) \div Ratio["csa"]
    BY RatioSizes, PrefillHolds
  <1>5. /\ NewRow.swa = [window |-> w]
        /\ NewRow.hca = [window |-> w, main |-> NewCompressor(Ratio["hca"], FALSE)]
        /\ NewRow.csa = [window |-> w, main |-> NewCompressor(Ratio["csa"], TRUE),
                         indexer |-> NewCompressor(Ratio["csa"], TRUE)]
    BY <1>1 DEF NewRow
  <1>6. SwaPrefill(NewRow.swa, x) = [window |-> v]
    BY <1>2, <1>5 DEF SwaPrefill
  <1>7. HcaPrefill(NewRow.hca, x) = [window |-> v, main |-> h]
    <2>1. PICK l : l = NewRow.hca /\ l = [window |-> w, main |-> NewCompressor(Ratio["hca"], FALSE)]
      BY <1>5
    <2>2. l.window = w /\ l.main = NewCompressor(Ratio["hca"], FALSE)
      BY <2>1
    <2>3. HcaPrefill(l, x) = [l EXCEPT !.window = v, !.main = h]
      BY <1>2, <1>3, <2>2 DEF HcaPrefill
    <2> QED BY <2>1, <2>3, HcaFields
  <1>8. CsaPrefill(NewRow.csa, x) = [window |-> v, main |-> c, indexer |-> c]
    <2>1. PICK l : l = NewRow.csa /\ l = [window |-> w, main |-> NewCompressor(Ratio["csa"], TRUE),
                                          indexer |-> NewCompressor(Ratio["csa"], TRUE)]
      BY <1>5
    <2>2. /\ l.window = w /\ l.main = NewCompressor(Ratio["csa"], TRUE)
          /\ l.indexer = NewCompressor(Ratio["csa"], TRUE)
      BY <2>1
    <2>3. CsaPrefill(l, x) = [l EXCEPT !.window = v, !.main = c, !.indexer = c]
      BY <1>2, <1>4, <2>2 DEF CsaPrefill
    <2> QED BY <2>1, <2>3, CsaFields
  <1>9. PICK r : /\ r = Prefilled(x)
                 /\ r = [swa |-> [window |-> v], hca |-> [window |-> v, main |-> h],
                         csa |-> [window |-> v, main |-> c, indexer |-> c]]
    BY <1>6, <1>7, <1>8 DEF Prefilled
  <1>10. SwaHolds(r.swa, x)
    BY <1>2, <1>9 DEF SwaHolds
  <1>11. HcaHolds(r.hca, x) /\ HcaCounted(r.hca, x)
    <2>1. PICK l : l = r.hca /\ l = [window |-> v, main |-> h]
      BY <1>9
    <2>2. l.window = v /\ l.main = h
      BY <2>1
    <2>3. HcaHolds(l, x) /\ HcaCounted(l, x)
      BY <1>2, <1>3, <2>1, <2>2 DEF HcaHolds, HcaCounted
    <2> QED BY <2>1, <2>3
  <1>12. CsaHolds(r.csa, x) /\ CsaCounted(r.csa, x)
    <2>1. PICK l : l = r.csa /\ l = [window |-> v, main |-> c, indexer |-> c]
      BY <1>9
    <2>2. l.window = v /\ l.main = c /\ l.indexer = c
      BY <2>1
    <2>3. CsaHolds(l, x) /\ CsaCounted(l, x)
      BY <1>2, <1>4, <2>1, <2>2 DEF CsaHolds, CsaCounted
    <2> QED BY <2>1, <2>3
  <1> QED BY <1>9, <1>10, <1>11, <1>12 DEF RowHolds, Counted

\* One token more in an hca layer.
LEMMA HcaDecoded ==
    ASSUME NEW x \in Texts, Len(x) < MaxSeqLen, NEW t \in Nat, NEW l, HcaHolds(l, x)
    PROVE  /\ HcaHolds(HcaDecodeRagged(l, Len(x), t), Append(x, t))
           /\ HcaCounted(l, x) => /\ HcaHolds(HcaDecode(l, Len(x), t), Append(x, t))
                                  /\ HcaCounted(HcaDecode(l, Len(x), t), Append(x, t))
  <1>1. PICK y, L : y = Append(x, t) /\ L = Len(x)
    OBVIOUS
  <1>2. PICK w : w = WindowStep(l.window, L, t) /\ WindowHolds(w, y)
    BY <1>1, WindowStepHolds DEF HcaHolds
  <1>3. PICK c : /\ c = CompressorStepRagged(l.main, L, t, Ratio["hca"], FALSE)
                 /\ CompressorHolds(c, y, Ratio["hca"], FALSE)
    BY <1>1, RatioSizes, StepHolds DEF HcaHolds
  <1>4. HcaDecodeRagged(l, L, t) = [window |-> w, main |-> c]
    BY <1>2, <1>3, HcaFields DEF HcaDecodeRagged, HcaHolds
  <1>5. HcaHolds([window |-> w, main |-> c], y)
    BY <1>2, <1>3 DEF HcaHolds
  <1>6. ASSUME HcaCounted(l, x)
        PROVE  HcaHolds(HcaDecode(l, L, t), y) /\ HcaCounted(HcaDecode(l, L, t), y)
    <2>1. PICK d : /\ d = CompressorStep(l.main, L, t, Ratio["hca"], FALSE)
                   /\ CompressorHolds(d, y, Ratio["hca"], FALSE) /\ d.n = Len(y) \div Ratio["hca"]
      <3>1. CompressorHolds(l.main, x, Ratio["hca"], FALSE) /\ l.main.n = Len(x) \div Ratio["hca"]
        BY <1>6 DEF HcaHolds, HcaCounted
      <3>2. PICK d : d = CompressorStep(l.main, Len(x), t, Ratio["hca"], FALSE)
        OBVIOUS
      <3>3. CompressorHolds(d, Append(x, t), Ratio["hca"], FALSE)
        BY <3>1, <3>2, RatioSizes, StepCounted
      <3>4. d.n = Len(Append(x, t)) \div Ratio["hca"]
        BY <3>1, <3>2, RatioSizes, StepCounted
      <3> QED BY <1>1, <3>2, <3>3, <3>4
    <2>2. HcaDecode(l, L, t) = [window |-> w, main |-> d]
      <3>1. l = [window |-> l.window, main |-> l.main]
        BY DEF HcaHolds
      <3>2. HcaDecode(l, L, t) = [l EXCEPT !.window = w, !.main = d]
        BY <1>2, <2>1 DEF HcaDecode
      <3> QED BY <3>1, <3>2, HcaFields
    <2>3. PICK k : k = [window |-> w, main |-> d]
      OBVIOUS
    <2>4. k.window = w /\ k.main = d
      BY <2>3
    <2>5. HcaHolds(k, y) /\ HcaCounted(k, y)
      BY <1>2, <2>1, <2>3, <2>4 DEF HcaHolds, HcaCounted
    <2> QED BY <2>2, <2>3, <2>5
  <1> QED BY <1>1, <1>4, <1>5, <1>6

\* One token more in a csa layer, in the main compressor and in the indexer.
LEMMA CsaDecoded ==
    ASSUME NEW x \in Texts, Len(x) < MaxSeqLen, NEW t \in Nat, NEW l, CsaHolds(l, x)
    PROVE  /\ CsaHolds(CsaDecodeRagged(l, Len(x), t), Append(x, t))
           /\ CsaCounted(l, x) => /\ CsaHolds(CsaDecode(l, Len(x), t), Append(x, t))
                                  /\ CsaCounted(CsaDecode(l, Len(x), t), Append(x, t))
  <1>1. PICK y, L : y = Append(x, t) /\ L = Len(x)
    OBVIOUS
  <1>2. PICK w : w = WindowStep(l.window, L, t) /\ WindowHolds(w, y)
    BY <1>1, WindowStepHolds DEF CsaHolds
  <1>3. PICK c, i : /\ c = CompressorStepRagged(l.main, L, t, Ratio["csa"], TRUE)
                    /\ i = CompressorStepRagged(l.indexer, L, t, Ratio["csa"], TRUE)
                    /\ CompressorHolds(c, y, Ratio["csa"], TRUE)
                    /\ CompressorHolds(i, y, Ratio["csa"], TRUE)
    BY <1>1, RatioSizes, StepHolds DEF CsaHolds
  <1>4. CsaDecodeRagged(l, L, t) = [window |-> w, main |-> c, indexer |-> i]
    <2>1. l = [window |-> l.window, main |-> l.main, indexer |-> l.indexer]
      BY DEF CsaHolds
    <2>2. CsaDecodeRagged(l, L, t) = [l EXCEPT !.window = w, !.main = c, !.indexer = i]
      BY <1>2, <1>3 DEF CsaDecodeRagged
    <2> QED BY <2>1, <2>2, CsaFields
  <1>5. CsaHolds([window |-> w, main |-> c, indexer |-> i], y)
    BY <1>2, <1>3 DEF CsaHolds
  <1>6. ASSUME CsaCounted(l, x)
        PROVE  CsaHolds(CsaDecode(l, L, t), y) /\ CsaCounted(CsaDecode(l, L, t), y)
    <2>1. PICK d : /\ d = CompressorStep(l.main, L, t, Ratio["csa"], TRUE)
                   /\ CompressorHolds(d, y, Ratio["csa"], TRUE) /\ d.n = Len(y) \div Ratio["csa"]
      <3>1. CompressorHolds(l.main, x, Ratio["csa"], TRUE) /\ l.main.n = Len(x) \div Ratio["csa"]
        BY <1>6 DEF CsaHolds, CsaCounted
      <3>2. PICK d : d = CompressorStep(l.main, Len(x), t, Ratio["csa"], TRUE)
        OBVIOUS
      <3>3. CompressorHolds(d, Append(x, t), Ratio["csa"], TRUE)
        BY <3>1, <3>2, RatioSizes, StepCounted
      <3>4. d.n = Len(Append(x, t)) \div Ratio["csa"]
        BY <3>1, <3>2, RatioSizes, StepCounted
      <3> QED BY <1>1, <3>2, <3>3, <3>4
    <2>2. PICK e : /\ e = CompressorStep(l.indexer, L, t, Ratio["csa"], TRUE)
                   /\ CompressorHolds(e, y, Ratio["csa"], TRUE) /\ e.n = Len(y) \div Ratio["csa"]
      <3>1. CompressorHolds(l.indexer, x, Ratio["csa"], TRUE) /\ l.indexer.n = Len(x) \div Ratio["csa"]
        BY <1>6 DEF CsaHolds, CsaCounted
      <3>2. PICK f : f = CompressorStep(l.indexer, Len(x), t, Ratio["csa"], TRUE)
        OBVIOUS
      <3>3. CompressorHolds(f, Append(x, t), Ratio["csa"], TRUE)
        BY <3>1, <3>2, RatioSizes, StepCounted
      <3>4. f.n = Len(Append(x, t)) \div Ratio["csa"]
        BY <3>1, <3>2, RatioSizes, StepCounted
      <3> QED BY <1>1, <3>2, <3>3, <3>4
    <2>3. CsaDecode(l, L, t) = [window |-> w, main |-> d, indexer |-> e]
      <3>1. l = [window |-> l.window, main |-> l.main, indexer |-> l.indexer]
        BY DEF CsaHolds
      <3>2. CsaDecode(l, L, t) = [l EXCEPT !.window = w, !.main = d, !.indexer = e]
        BY <1>2, <2>1, <2>2 DEF CsaDecode
      <3> QED BY <3>1, <3>2, CsaFields
    <2>4. PICK k : k = [window |-> w, main |-> d, indexer |-> e]
      OBVIOUS
    <2>5. k.window = w /\ k.main = d /\ k.indexer = e
      BY <2>4
    <2>6. CsaHolds(k, y) /\ CsaCounted(k, y)
      BY <1>2, <2>1, <2>2, <2>4, <2>5 DEF CsaHolds, CsaCounted
    <2> QED BY <2>3, <2>4, <2>6
  <1> QED BY <1>1, <1>4, <1>5, <1>6

\* One token more, by the ragged step of the batch and, with its counters right, by the
\* scalar step of a replay.
LEMMA RowDecoded ==
    ASSUME NEW x \in Texts, Len(x) < MaxSeqLen, NEW t \in Nat, NEW r, RowHolds(r, x)
    PROVE  /\ RowHolds(DecodedRagged(r, Len(x), t), Append(x, t))
           /\ Counted(r, x) => /\ RowHolds(Decoded(r, Len(x), t), Append(x, t))
                               /\ Counted(Decoded(r, Len(x), t), Append(x, t))
  <1>1. PICK y, L : y = Append(x, t) /\ L = Len(x)
    OBVIOUS
  <1>2. SwaHolds(SwaDecodeRagged(r.swa, L, t), y) /\ SwaHolds(SwaDecode(r.swa, L, t), y)
    <2>1. PICK w : w = WindowStep(r.swa.window, L, t) /\ WindowHolds(w, y)
      BY <1>1, WindowStepHolds DEF RowHolds, SwaHolds
    <2>2. SwaDecodeRagged(r.swa, L, t) = [window |-> w] /\ SwaDecode(r.swa, L, t) = [window |-> w]
      BY <2>1 DEF SwaDecodeRagged, SwaDecode, RowHolds, SwaHolds
    <2> QED BY <2>1, <2>2 DEF SwaHolds
  <1>3. HcaHolds(r.hca, x) /\ CsaHolds(r.csa, x)
    BY DEF RowHolds
  <1>4. RowHolds(DecodedRagged(r, L, t), y)
    BY <1>1, <1>2, <1>3, HcaDecoded, CsaDecoded DEF RowHolds, DecodedRagged
  <1>5. ASSUME Counted(r, x) PROVE RowHolds(Decoded(r, L, t), y) /\ Counted(Decoded(r, L, t), y)
    BY <1>1, <1>2, <1>3, <1>5, HcaDecoded, CsaDecoded DEF RowHolds, Decoded, Counted
  <1> QED BY <1>1, <1>4, <1>5

\* The query of the last token attends to what it should.
LEMMA RowSees ==
    ASSUME NEW x \in Texts, x # <<>>, Len(x) <= MaxSeqLen, NEW r, RowHolds(r, x)
    PROVE  /\ AttendsRagged(r, Len(x) - 1) = Ideal(x)
           /\ Counted(r, x) => Attends(r, Len(x) - 1) = Ideal(x)
  <1>1. PICK p : p = Len(x) - 1
    OBVIOUS
  <1>2. ASSUME NEW w, WindowHolds(w, x)
        PROVE  Gathered(w, WindowSlots(p)) = Recent(x) /\ Gathered(w, WindowSlotsRagged(p)) = Recent(x)
    BY <1>1, <1>2, WindowSeen
  <1>3. WindowHolds(r.swa.window, x) /\ WindowHolds(r.hca.window, x) /\ WindowHolds(r.csa.window, x)
    BY DEF RowHolds, SwaHolds, HcaHolds, CsaHolds
  <1>4. /\ HcaAttends(r.hca, p) = Blocks(x, Ratio["hca"], FALSE)
        /\ HcaAttendsRagged(r.hca, p) = Blocks(x, Ratio["hca"], FALSE)
    BY <1>1, HcaSeen DEF RowHolds, HcaHolds
  <1>5. /\ CsaCounted(r.csa, x) => CsaAttends(r.csa, p) = Picked(x, Ratio["csa"])
        /\ CsaAttendsRagged(r.csa, p) = Picked(x, Ratio["csa"])
    BY <1>1, CsaSeen DEF RowHolds, CsaHolds, CsaCounted
  <1>6. AttendsRagged(r, p) = Ideal(x)
    BY <1>2, <1>3, <1>4, <1>5, IdealFacts DEF AttendsRagged
  <1>7. Counted(r, x) => Attends(r, p) = Ideal(x)
    BY <1>2, <1>3, <1>4, <1>5, IdealFacts DEF Attends, Counted
  <1> QED BY <1>1, <1>6, <1>7

-----------------------------------------------------------------------------
(* What a snapshot and a copy keep.                                        *)

\* A snapshot keeps a compressor: the rows it drops are beyond the blocks of the text.
LEMMA CompressorKept ==
    ASSUME NEW x \in Texts, Len(x) <= MaxSeqLen, NEW m \in Sizes, NEW overlap \in BOOLEAN,
           NEW c, CompressorHolds(c, x, m, overlap), c.n = Len(x) \div m
    PROVE  CompressorHolds(Kept(c), x, m, overlap) /\ Kept(c).n = Len(x) \div m
  <1>1. PICK k \in Nat : k = Len(x) \div m /\ k <= MaxBlocks(m) /\ MaxBlocks(m) \in Nat
    BY Split, RoomForBlocks DEF Texts
  <1>2. PICK d : d = Kept(c)
    OBVIOUS
  <1>3. PICK h : h = [b \in 0..(MaxBlocks(m) - 1) |-> IF b < k THEN c.hist[b] ELSE Nothing]
    OBVIOUS
  <1>4. d = [hist |-> h, acc |-> c.acc, n |-> c.n]
    BY <1>1, <1>2, <1>3 DEF Kept, CompressorHolds, HistHolds
  <1>5. HistHolds(h, x, m, overlap)
    <2>1. h = [b \in 0..(MaxBlocks(m) - 1) |-> h[b]]
      BY <1>3
    <2>2. ASSUME NEW b \in 0..(k - 1) PROVE h[b] = Block(x, b, m, overlap)
      <3>1. c.hist[b] = Block(x, b, m, overlap)
        BY <1>1 DEF CompressorHolds, HistHolds
      <3>2. b \in 0..(MaxBlocks(m) - 1) /\ b < k
        BY <1>1
      <3> QED BY <1>3, <3>1, <3>2
    <2> QED BY <1>1, <2>1, <2>2 DEF HistHolds
  <1> QED BY <1>1, <1>2, <1>4, <1>5 DEF CompressorHolds

\* A restored snapshot holds and counts what the row it was taken of did.
LEMMA RowRestored ==
    ASSUME NEW x \in Texts, Len(x) <= MaxSeqLen, NEW r, RowHolds(r, x), Counted(r, x)
    PROVE  RowHolds(Restored(r), x) /\ Counted(Restored(r), x)
  <1>1. HcaHolds(r.hca, x) /\ CsaHolds(r.csa, x) /\ SwaHolds(r.swa, x)
    BY DEF RowHolds
  <1>2. PICK h : h = [r.hca EXCEPT !.main = Kept(@)] /\ HcaHolds(h, x) /\ HcaCounted(h, x)
    <2>1. PICK c : /\ c = Kept(r.hca.main) /\ CompressorHolds(c, x, Ratio["hca"], FALSE)
                   /\ c.n = Len(x) \div Ratio["hca"]
      <3>1. PICK c : c = r.hca.main /\ CompressorHolds(c, x, Ratio["hca"], FALSE)
                     /\ c.n = Len(x) \div Ratio["hca"]
        BY <1>1 DEF HcaHolds, Counted, HcaCounted
      <3>2. CompressorHolds(Kept(c), x, Ratio["hca"], FALSE)
        BY <3>1, RatioSizes, CompressorKept
      <3>3. Kept(c).n = Len(x) \div Ratio["hca"]
        BY <3>1, RatioSizes, CompressorKept
      <3> QED BY <3>1, <3>2, <3>3
    <2>2. PICK h : h = [window |-> r.hca.window, main |-> c]
      OBVIOUS
    <2>3. h = [r.hca EXCEPT !.main = Kept(@)]
      BY <1>1, <2>1, <2>2 DEF HcaHolds
    <2>4. HcaHolds(h, x) /\ HcaCounted(h, x)
      BY <1>1, <2>1, <2>2 DEF HcaHolds, HcaCounted
    <2> QED BY <2>3, <2>4
  <1>3. PICK c : c = [r.csa EXCEPT !.main = Kept(@), !.indexer = Kept(@)] /\ CsaHolds(c, x) /\ CsaCounted(c, x)
    <2>1. PICK a, b : /\ a = Kept(r.csa.main) /\ CompressorHolds(a, x, Ratio["csa"], TRUE)
                      /\ a.n = Len(x) \div Ratio["csa"]
                      /\ b = Kept(r.csa.indexer) /\ CompressorHolds(b, x, Ratio["csa"], TRUE)
                      /\ b.n = Len(x) \div Ratio["csa"]
      <3>1. ASSUME NEW c, CompressorHolds(c, x, Ratio["csa"], TRUE), c.n = Len(x) \div Ratio["csa"]
            PROVE  CompressorHolds(Kept(c), x, Ratio["csa"], TRUE) /\ Kept(c).n = Len(x) \div Ratio["csa"]
        <4>1. CompressorHolds(Kept(c), x, Ratio["csa"], TRUE)
          BY <3>1, RatioSizes, CompressorKept
        <4>2. Kept(c).n = Len(x) \div Ratio["csa"]
          BY <3>1, RatioSizes, CompressorKept
        <4> QED BY <4>1, <4>2
      <3>2. PICK c, d : /\ c = r.csa.main /\ d = r.csa.indexer
                        /\ CompressorHolds(c, x, Ratio["csa"], TRUE)
                        /\ CompressorHolds(d, x, Ratio["csa"], TRUE)
                        /\ c.n = Len(x) \div Ratio["csa"] /\ d.n = Len(x) \div Ratio["csa"]
        BY <1>1 DEF CsaHolds, Counted, CsaCounted
      <3> QED BY <3>1, <3>2
    <2>2. PICK c : c = [window |-> r.csa.window, main |-> a, indexer |-> b]
      OBVIOUS
    <2>3. c = [r.csa EXCEPT !.main = Kept(@), !.indexer = Kept(@)]
      <3>1. PICK l : l = r.csa /\ l = [window |-> l.window, main |-> l.main, indexer |-> l.indexer]
        BY <1>1 DEF CsaHolds
      <3>2. c = [l EXCEPT !.main = a, !.indexer = b]
        <4>1. PICK k : k = [l EXCEPT !.main = a]
          OBVIOUS
        <4>2. k = [window |-> l.window, main |-> a, indexer |-> l.indexer]
          BY <3>1, <4>1
        <4>3. [k EXCEPT !.indexer = b] = c
          BY <2>2, <3>1, <4>2
        <4> QED BY <4>1, <4>3
      <3> QED BY <2>1, <3>1, <3>2
    <2>4. CsaHolds(c, x) /\ CsaCounted(c, x)
      BY <1>1, <2>1, <2>2 DEF CsaHolds, CsaCounted
    <2> QED BY <2>3, <2>4
  <1>4. PICK s : s = r.swa /\ SwaHolds(s, x)
    BY <1>1
  <1>5. Restored(r) = [swa |-> s, hca |-> h, csa |-> c]
    BY <1>2, <1>3, <1>4 DEF Restored
  <1> QED BY <1>2, <1>3, <1>4, <1>5 DEF RowHolds, Counted

\* A counter that a copy leaves behind is one that the ragged steps do not read.
LEMMA CounterFree ==
    ASSUME NEW x, NEW m, NEW overlap, NEW c, CompressorHolds(c, x, m, overlap), NEW n
    PROVE  CompressorHolds([c EXCEPT !.n = n], x, m, overlap)
  <1>1. PICK d : d = [hist |-> c.hist, acc |-> c.acc, n |-> n]
    OBVIOUS
  <1>2. d = [c EXCEPT !.n = n]
    BY <1>1 DEF CompressorHolds
  <1>3. CompressorHolds(d, x, m, overlap)
    BY <1>1 DEF CompressorHolds
  <1> QED BY <1>2, <1>3

\* A slot that a row was copied into holds what the row did, counters aside.
LEMMA RowCopied ==
    ASSUME NEW x, NEW r, RowHolds(r, x), NEW dst
    PROVE  RowHolds(Copied(dst, r), x)
  <1>1. HcaHolds(r.hca, x) /\ CsaHolds(r.csa, x) /\ SwaHolds(r.swa, x)
    BY DEF RowHolds
  <1>2. PICK h : h = [r.hca EXCEPT !.main = [@ EXCEPT !.n = dst.hca.main.n]] /\ HcaHolds(h, x)
    <2>1. PICK c : /\ c = [r.hca.main EXCEPT !.n = dst.hca.main.n]
                   /\ CompressorHolds(c, x, Ratio["hca"], FALSE)
      BY <1>1, CounterFree DEF HcaHolds
    <2>2. PICK h : h = [window |-> r.hca.window, main |-> c]
      OBVIOUS
    <2>3. h = [r.hca EXCEPT !.main = [@ EXCEPT !.n = dst.hca.main.n]]
      BY <1>1, <2>1, <2>2 DEF HcaHolds
    <2>4. HcaHolds(h, x)
      BY <1>1, <2>1, <2>2 DEF HcaHolds
    <2> QED BY <2>3, <2>4
  <1>3. PICK c : /\ c = [r.csa EXCEPT !.main = [@ EXCEPT !.n = dst.csa.main.n],
                                      !.indexer = [@ EXCEPT !.n = dst.csa.indexer.n]]
                 /\ CsaHolds(c, x)
    <2>1. PICK a, b : /\ a = [r.csa.main EXCEPT !.n = dst.csa.main.n]
                      /\ b = [r.csa.indexer EXCEPT !.n = dst.csa.indexer.n]
                      /\ CompressorHolds(a, x, Ratio["csa"], TRUE)
                      /\ CompressorHolds(b, x, Ratio["csa"], TRUE)
      BY <1>1, CounterFree DEF CsaHolds
    <2>2. PICK c : c = [window |-> r.csa.window, main |-> a, indexer |-> b]
      OBVIOUS
    <2>3. c = [r.csa EXCEPT !.main = [@ EXCEPT !.n = dst.csa.main.n],
                            !.indexer = [@ EXCEPT !.n = dst.csa.indexer.n]]
      <3>1. PICK l : l = r.csa /\ l = [window |-> l.window, main |-> l.main, indexer |-> l.indexer]
        BY <1>1 DEF CsaHolds
      <3>2. c = [l EXCEPT !.main = a, !.indexer = b]
        <4>1. PICK k : k = [l EXCEPT !.main = a]
          OBVIOUS
        <4>2. k = [window |-> l.window, main |-> a, indexer |-> l.indexer]
          BY <3>1, <4>1
        <4>3. [k EXCEPT !.indexer = b] = c
          BY <2>2, <3>1, <4>2
        <4> QED BY <4>1, <4>3
      <3> QED BY <2>1, <3>1, <3>2
    <2>4. CsaHolds(c, x)
      BY <1>1, <2>1, <2>2 DEF CsaHolds
    <2> QED BY <2>3, <2>4
  <1>4. PICK s : s = r.swa /\ SwaHolds(s, x)
    BY <1>1
  <1>5. Copied(dst, r) = [swa |-> s, hca |-> h, csa |-> c]
    BY <1>2, <1>3, <1>4 DEF Copied
  <1> QED BY <1>2, <1>3, <1>4, <1>5 DEF RowHolds

-----------------------------------------------------------------------------
(* The inductive invariant.                                                *)

Distinct(q) == \A i, j \in 1..Len(q) : q[i] = q[j] => i = j

\* The queries of the tokens of x attended to what they should.
Seen(l, x) == l = [n \in 1..Len(x) |-> Ideal(SubSeq(x, 1, n))]

\* A prompt, or a part of one, that admission prefills.
Servable(x) == x \in Texts /\ x # <<>> /\ Len(x) <= MaxSeqLen

\* A single-row cache that was fed x and no more.
Fresh(r, l, x) == Servable(x) /\ RowHolds(r, x) /\ Counted(r, x) /\ Seen(l, x)

Admissible(r) == Servable(Prompt[r]) /\ Fits(r)

EntriesHold ==
    /\ entries \in Seq(ToSet(entries))
    /\ \A e \in ToSet(entries) : Fresh(e.row, e.logits, e.prompt)

FillingHolds ==
    pc = "prefill" =>
        /\ filling = [req |-> filling.req, fed |-> filling.fed, row |-> filling.row,
                      logits |-> filling.logits]
        /\ filling.req \in submitted /\ Admissible(filling.req)
        /\ filling.fed \in 1..Len(Prompt[filling.req])
        /\ Fresh(filling.row, filling.logits, SubSeq(Prompt[filling.req], 1, filling.fed))
        /\ row \in Row /\ slots[row] = None

\* A row that decodes.
LaneHolds(i) ==
    /\ slots[i] \in submitted /\ Admissible(slots[i])
    /\ generated[slots[i]] \in Texts /\ Len(generated[slots[i]]) < MaxTokens[slots[i]]
    /\ position[i] = Len(Fed(i)) /\ next_token[i] \in Nat
    /\ RowHolds(cache[i], Fed(i)) /\ Seen(logits[i], Fed(i))

\* A request that has no row yet.
Ahead(r) ==
    \/ r \notin submitted \/ r \in ToSet(waiting) \/ r = hand
    \/ pc = "prefill" /\ r = filling.req

QueueHolds ==
    /\ submitted \subseteq Request
    /\ waiting \in Seq(submitted) /\ Distinct(waiting)
    /\ hand # None <=> pc = "put back"
    /\ hand # None => hand \in submitted /\ hand \notin ToSet(waiting)
    /\ pc = "prefill" => filling.req \notin ToSet(waiting)
    /\ \A r \in Request : Ahead(r) => generated[r] = <<>> /\ \A i \in Row : slots[i] # r

TypeOK ==
    /\ slots \in [Row -> Request \cup {None}]
    /\ \A i, j \in Active : slots[i] = slots[j] => i = j
    /\ position = [i \in Row |-> position[i]] /\ next_token = [i \in Row |-> next_token[i]]
    /\ cache = [i \in Row |-> cache[i]] /\ logits = [i \in Row |-> logits[i]]
    /\ generated = [r \in Request |-> generated[r]]
    /\ pc \in {"top", "admit", "idle", "put back", "prefill", "decode", "exit"}
    /\ row \in 1..(Rows + 1)

IInv ==
    /\ TypeOK /\ QueueHolds /\ EntriesHold /\ FillingHolds
    /\ \A i \in Active : LaneHolds(i)

-----------------------------------------------------------------------------
(* Sequences.                                                              *)

\* A set of numbers with an element has a least one.
LEMMA Least ==
    ASSUME NEW S \in SUBSET Nat, S # {}
    PROVE  \E x \in S : \A y \in S : x <= y
  <1>1. PICK x \in S : \A y \in S : ~(<<y, x>> \in OpToRel(<, Nat))
    BY NatLessThanWellFounded, WFMin
  <1>2. \A y \in S : ~(y < x)
    BY <1>1 DEF OpToRel
  <1>3. \A y \in S : x <= y
    BY <1>2
  <1> QED BY <1>3

\* The waiting requests are known ones.
LEMMA QueueFacts ==
    ASSUME NEW S, NEW q \in Seq(S)
    PROVE  /\ Len(q) \in Nat /\ DOMAIN q = 1..Len(q) /\ ToSet(q) = {q[i] : i \in 1..Len(q)}
           /\ ToSet(q) \subseteq S /\ q \in Seq(ToSet(q))
  <1>1. Len(q) \in Nat /\ DOMAIN q = 1..Len(q) /\ q \in [1..Len(q) -> S]
    BY LenProperties
  <1>2. ToSet(q) = {q[i] : i \in 1..Len(q)}
    BY <1>1 DEF ToSet
  <1>3. PICK T : T = ToSet(q)
    OBVIOUS
  <1>4. q \in [1..Len(q) -> T]
    BY <1>1, <1>2, <1>3
  <1>5. q \in Seq(T)
    BY <1>1, <1>4
  <1> QED BY <1>1, <1>2, <1>3, <1>5

\* An empty queue.
LEMMA EmptyFacts == \A S : <<>> \in Seq(S) /\ Len(<<>>) = 0 /\ ToSet(<<>>) = {} /\ Distinct(<<>>)
  <1>1. \A S : <<>> \in Seq(S) /\ Len(<<>>) = 0
    BY EmptySeq
  <1>2. ToSet(<<>>) = {}
    <2>1. Len(<<>>) = 0 /\ DOMAIN <<>> = 1..0
      BY EmptySeq
    <2> QED BY <2>1 DEF ToSet
  <1> QED BY <1>1, <1>2 DEF Distinct

\* The first of a queue leaves it.
LEMMA TailFacts ==
    ASSUME NEW S, NEW q \in Seq(S), q # <<>>
    PROVE  /\ Head(q) \in S /\ Head(q) \in ToSet(q)
           /\ Tail(q) \in Seq(S) /\ ToSet(Tail(q)) \subseteq ToSet(q)
           /\ Distinct(q) => Distinct(Tail(q)) /\ Head(q) \notin ToSet(Tail(q))
  <1>1. Len(q) \in Nat \ {0} /\ ToSet(q) = {q[i] : i \in 1..Len(q)}
    BY EmptySeq, QueueFacts
  <1>2. /\ Head(q) = q[1] /\ Head(q) \in S
        /\ Tail(q) \in Seq(S) /\ Len(Tail(q)) = Len(q) - 1
        /\ \A i \in 1..Len(q) - 1 : Tail(q)[i] = q[i + 1]
    BY HeadTailProperties
  <1>3. ToSet(Tail(q)) = {Tail(q)[i] : i \in 1..Len(q) - 1}
    BY <1>2, QueueFacts
  <1>4. Distinct(q) => Distinct(Tail(q))
    BY <1>1, <1>2 DEF Distinct
  <1>5. Head(q) \in ToSet(q)
    BY <1>1, <1>2
  <1>6. \A x \in ToSet(Tail(q)) : x \in ToSet(q) /\ (Distinct(q) => x # Head(q))
    BY <1>1, <1>2, <1>3 DEF Distinct
  <1> QED BY <1>2, <1>4, <1>5, <1>6

\* Another joins the queue.
LEMMA AppendFacts ==
    ASSUME NEW S, NEW q \in Seq(S), NEW x \in S
    PROVE  /\ Append(q, x) \in Seq(S)
           /\ ToSet(Append(q, x)) = ToSet(q) \cup {x}
           /\ Distinct(q) /\ x \notin ToSet(q) => Distinct(Append(q, x))
  <1>1. Len(q) \in Nat /\ ToSet(q) = {q[i] : i \in 1..Len(q)}
    BY QueueFacts
  <1>2. /\ Append(q, x) \in Seq(S)
        /\ Len(Append(q, x)) = Len(q) + 1
        /\ \A i \in 1..Len(q) : Append(q, x)[i] = q[i]
        /\ Append(q, x)[Len(q) + 1] = x
    BY AppendProperties
  <1>3. ToSet(Append(q, x)) = {Append(q, x)[i] : i \in 1..Len(q) + 1}
    BY <1>2, QueueFacts
  <1>4. 1..Len(q) + 1 = (1..Len(q)) \cup {Len(q) + 1}
    BY <1>1
  <1>5. ToSet(Append(q, x)) = ToSet(q) \cup {x}
    BY <1>1, <1>2, <1>3, <1>4
  <1>6. ASSUME Distinct(q), x \notin ToSet(q) PROVE Distinct(Append(q, x))
    BY <1>1, <1>2, <1>4, <1>6 DEF Distinct
  <1> QED BY <1>2, <1>5, <1>6

\* The text grows and its new query attended to what it should.
LEMMA SeenLonger ==
    ASSUME NEW x \in Texts, NEW t \in Nat, NEW l, Seen(l, x)
    PROVE  Seen(Append(l, Ideal(Append(x, t))), Append(x, t))
  <1>1. PICK L \in Nat : L = Len(x)
    BY DEF Texts
  <1>2. PICK y \in Texts : y = Append(x, t) /\ Len(y) = L + 1 /\ Agree(x, y, L)
    BY <1>1, Longer
  <1>3. SubSeq(y, 1, L + 1) = y
    BY <1>2, SubSeqFull DEF Texts
  <1>4. \A n \in 1..L : SubSeq(y, 1, n) = SubSeq(x, 1, n)
    <2> TAKE n \in 1..L
    <2>1. SubSeq(y, 1, n) = [i \in 1..n |-> y[i]] /\ SubSeq(x, 1, n) = [i \in 1..n |-> x[i]]
      BY <1>1, <1>2 DEF Texts
    <2>2. \A i \in 1..n : x[i] = y[i]
      BY <1>2 DEF Agree
    <2> QED BY <2>1, <2>2
  <1>5. PICK T : T = {Ideal(SubSeq(y, 1, n)) : n \in 1..(L + 1)}
    OBVIOUS
  <1>6. l = [n \in 1..L |-> Ideal(SubSeq(y, 1, n))]
    BY <1>1, <1>4 DEF Seen
  <1>7. l \in Seq(T) /\ Len(l) = L
    <2>1. l \in [1..L -> T]
      BY <1>5, <1>6
    <2> QED BY <2>1
  <1>8. Ideal(y) \in T
    <2>1. L + 1 \in 1..(L + 1)
      OBVIOUS
    <2> QED BY <1>3, <1>5, <2>1
  <1>9. PICK k : k = Append(l, Ideal(y))
    OBVIOUS
  <1>10. /\ k \in Seq(T) /\ Len(k) = L + 1 /\ k[L + 1] = Ideal(y)
         /\ \A i \in 1..L : k[i] = l[i]
    BY <1>7, <1>8, <1>9, AppendProperties
  <1>11. \A n \in 1..(L + 1) : k[n] = Ideal(SubSeq(y, 1, n))
    <2> TAKE n \in 1..(L + 1)
    <2>1. n \in 1..L \/ n = L + 1
      BY <1>1
    <2> QED BY <1>3, <1>6, <1>10, <2>1
  <1>12. k = [n \in 1..(L + 1) |-> k[n]]
    BY <1>10
  <1>13. k = [n \in 1..(L + 1) |-> Ideal(SubSeq(y, 1, n))]
    BY <1>11, <1>12
  <1> QED BY <1>1, <1>2, <1>9, <1>13 DEF Seen

-----------------------------------------------------------------------------
(* The prefix cache.                                                       *)

\* A hit is a cached prompt that starts the text.
LEMMA MatchFacts ==
    ASSUME NEW x \in Texts, EntriesHold, Matches(x) # {}
    PROVE  Match(x) \in Matches(x)
  <1>1. \A e \in Matches(x) : Len(e.prompt) \in Nat
    BY DEF Matches, EntriesHold, Fresh, Servable, Texts
  <1>2. \A e \in Matches(x) : Len(e.prompt) <= Len(x)
    BY DEF Matches, IsPrefix
  <1>3. PICK L \in Nat : L = Len(x)
    BY DEF Texts
  <1>4. PICK S : S = {L - Len(e.prompt) : e \in Matches(x)}
    OBVIOUS
  <1>5. S \in SUBSET Nat /\ S # {}
    BY <1>1, <1>2, <1>3, <1>4
  <1>6. PICK s \in S : \A y \in S : s <= y
    BY <1>5, Least
  <1>7. PICK e \in Matches(x) : s = L - Len(e.prompt)
    BY <1>4, <1>6
  <1>8. \A d \in Matches(x) : Len(d.prompt) <= Len(e.prompt)
    <2> TAKE d \in Matches(x)
    <2>1. s <= L - Len(d.prompt)
      BY <1>4, <1>6
    <2> QED BY <1>1, <1>7, <2>1
  <1>9. \E d \in Matches(x) : \A c \in Matches(x) : Len(c.prompt) <= Len(d.prompt)
    BY <1>8
  <1> QED BY <1>9 DEF Match

\* The temporary cache that admission starts a prefill with.
LEMMA TemporaryFacts ==
    ASSUME ScoresDiffer, EntriesHold, NEW r, Admissible(r)
    PROVE  LET t == Temporary(r)
           IN /\ t = [req |-> t.req, fed |-> t.fed, row |-> t.row, logits |-> t.logits]
              /\ t.req = r /\ t.fed \in 1..Len(Prompt[r])
              /\ Fresh(t.row, t.logits, SubSeq(Prompt[r], 1, t.fed))
  <1>1. PICK x : x = Prompt[r] /\ Servable(x)
    BY DEF Admissible
  <1>2. PICK L \in Nat \ {0} : L = Len(x)
    BY <1>1, EmptySeq DEF Servable, Texts
  <1>3. PICK t : t = Temporary(r)
    OBVIOUS
  <1>4. CASE Matches(x) = {}
    <2>1. t = [req |-> r, fed |-> L, row |-> Prefilled(x),
               logits |-> [n \in 1..L |-> AttendsPrefill(x, n - 1)]]
      BY <1>1, <1>2, <1>3, <1>4 DEF Temporary
    <2>2. SubSeq(x, 1, L) = x
      BY <1>1, <1>2, SubSeqFull DEF Servable, Texts
    <2>3. [n \in 1..L |-> AttendsPrefill(x, n - 1)] = [n \in 1..L |-> Ideal(SubSeq(x, 1, n))]
      <3>1. ASSUME NEW n \in 1..L PROVE AttendsPrefill(x, n - 1) = Ideal(SubSeq(x, 1, n))
        <4>1. n - 1 \in 0..(Len(x) - 1) /\ (n - 1) + 1 = n
          BY <1>2
        <4> QED BY <1>1, <4>1, PrefillSees DEF Servable
      <3> QED BY <3>1
    <2>4. Seen(t.logits, x)
      BY <1>2, <2>1, <2>3 DEF Seen
    <2>5. RowHolds(t.row, x) /\ Counted(t.row, x)
      BY <1>1, <2>1, RowPrefilled DEF Servable
    <2>6. Fresh(t.row, t.logits, SubSeq(x, 1, t.fed))
      BY <1>1, <2>1, <2>2, <2>4, <2>5 DEF Fresh
    <2> QED BY <1>1, <1>2, <1>3, <2>1, <2>6
  <1>5. CASE Matches(x) # {}
    <2>1. PICK e : e = Match(x) /\ e \in Matches(x)
      BY <1>1, <1>5, MatchFacts DEF Servable
    <2>2. Fresh(e.row, e.logits, e.prompt) /\ Len(e.prompt) <= Len(x)
          /\ SubSeq(e.prompt, 1, Len(e.prompt)) = SubSeq(x, 1, Len(e.prompt))
      BY <2>1 DEF Matches, IsPrefix, EntriesHold
    <2>3. PICK n \in Nat \ {0} : n = Len(e.prompt) /\ e.prompt \in Texts
      BY <2>2, EmptySeq DEF Fresh, Servable, Texts
    <2>4. e.prompt = SubSeq(x, 1, n)
      BY <2>2, <2>3, SubSeqFull DEF Texts
    <2>5. t = [req |-> r, fed |-> n, row |-> Restored(e.row), logits |-> e.logits]
      BY <1>1, <1>3, <1>5, <2>1, <2>3 DEF Temporary
    <2>6. RowHolds(t.row, e.prompt) /\ Counted(t.row, e.prompt)
      BY <2>2, <2>3, <2>5, RowRestored DEF Fresh, Servable
    <2>7. Fresh(t.row, t.logits, SubSeq(x, 1, t.fed))
      BY <2>2, <2>4, <2>5, <2>6 DEF Fresh
    <2> QED BY <1>1, <1>2, <1>3, <2>2, <2>3, <2>5, <2>7
  <1> QED BY <1>4, <1>5

\* The next token of the prompt is replayed.
LEMMA ReplayedFacts ==
    ASSUME NEW x, Servable(x), NEW t, NEW k \in 1..Len(x), k < Len(x), t.fed = k,
           t = [req |-> t.req, fed |-> t.fed, row |-> t.row, logits |-> t.logits],
           Fresh(t.row, t.logits, SubSeq(x, 1, k))
    PROVE  LET s == Replayed(t, x)
           IN /\ s = [req |-> s.req, fed |-> s.fed, row |-> s.row, logits |-> s.logits]
              /\ s.req = t.req /\ s.fed = k + 1
              /\ Fresh(s.row, s.logits, SubSeq(x, 1, s.fed))
  <1>1. PICK L \in Nat : /\ L = Len(x) /\ L <= MaxSeqLen /\ x \in Texts /\ k \in Nat /\ k < MaxSeqLen
                         /\ k + 1 <= MaxSeqLen /\ MaxSeqLen \in Nat
    <2>1. PICK L \in Nat : L = Len(x) /\ L <= MaxSeqLen /\ x \in Texts
      BY DEF Servable, Texts
    <2>2. k \in 1..L /\ k < L /\ MaxSeqLen \in Nat
      BY <2>1, StateLayerAssumption
    <2>3. k \in Nat /\ k < MaxSeqLen /\ k + 1 <= MaxSeqLen
      BY <2>1, <2>2
    <2> QED BY <2>1, <2>2, <2>3
  <1>2. PICK y \in Texts : y = SubSeq(x, 1, k) /\ Len(y) = k
    <2>1. k - 1 \in 0..(Len(x) - 1) /\ (k - 1) + 1 = k
      BY <1>1
    <2> QED BY <1>1, <2>1, Beginning
  <1>3. PICK c : c = x[k + 1] /\ c \in Nat
    <2>1. k + 1 \in 1..Len(x)
      BY <1>1
    <2> QED BY <1>1, <2>1 DEF Texts
  <1>4. PICK z \in Texts : z = SubSeq(x, 1, k + 1) /\ Len(z) = k + 1
    <2>1. k \in 0..(Len(x) - 1)
      BY <1>1
    <2> QED BY <1>1, <2>1, Beginning
  <1>5. z = Append(y, c)
    <2>1. Append(y, c) \in Texts /\ Len(Append(y, c)) = k + 1
          /\ Append(y, c)[k + 1] = c /\ Agree(y, Append(y, c), k)
      <3>1. PICK w : w = Append(y, c)
        OBVIOUS
      <3>2. w \in Texts /\ Len(w) = Len(y) + 1 /\ w[Len(y) + 1] = c /\ Agree(y, w, Len(y))
        BY <1>3, <3>1, Longer
      <3> QED BY <1>2, <3>1, <3>2
    <2>2. \A i \in 1..(k + 1) : z[i] = x[i]
      <3>1. k \in 0..(Len(x) - 1)
        BY <1>1
      <3> QED BY <1>1, <1>4, <3>1, Beginning DEF Agree
    <2>3. \A i \in 1..k : y[i] = x[i]
      <3>1. k - 1 \in 0..(Len(x) - 1) /\ (k - 1) + 1 = k
        BY <1>1
      <3> QED BY <1>1, <1>2, <3>1, Beginning DEF Agree
    <2>4. \A i \in 1..(k + 1) : z[i] = Append(y, c)[i]
      <3> TAKE i \in 1..(k + 1)
      <3>1. i \in 1..k \/ i = k + 1
        OBVIOUS
      <3> QED BY <1>3, <2>1, <2>2, <2>3, <3>1 DEF Agree
    <2> QED BY <1>4, <2>1, <2>4, SeqEqual DEF Texts
  <1>6. RowHolds(t.row, y) /\ Counted(t.row, y) /\ Seen(t.logits, y)
    BY <1>2 DEF Fresh
  <1>7. PICK r : r = Decoded(t.row, k, c) /\ RowHolds(r, z) /\ Counted(r, z)
    BY <1>1, <1>2, <1>3, <1>5, <1>6, RowDecoded
  <1>8. z # <<>> /\ Servable(z)
    BY <1>1, <1>4, EmptySeq DEF Servable
  <1>9. Attends(r, k) = Ideal(z)
    <2>1. Len(z) - 1 = k /\ Len(z) <= MaxSeqLen
      BY <1>1, <1>4
    <2> QED BY <1>7, <1>8, <2>1, RowSees
  <1>10. PICK l : l = Append(t.logits, Attends(r, k)) /\ Seen(l, z)
    BY <1>2, <1>3, <1>5, <1>6, <1>9, SeenLonger
  <1>11. PICK s : s = Replayed(t, x)
    OBVIOUS
  <1>12. s = [t EXCEPT !.row = r, !.fed = k + 1, !.logits = l]
    BY <1>3, <1>7, <1>10, <1>11 DEF Replayed
  <1>13. s = [req |-> t.req, fed |-> k + 1, row |-> r, logits |-> l]
    <2>1. PICK a : a = [t EXCEPT !.row = r]
      OBVIOUS
    <2>2. a = [req |-> t.req, fed |-> t.fed, row |-> r, logits |-> t.logits]
      BY <2>1
    <2>3. PICK b : b = [a EXCEPT !.fed = k + 1]
      OBVIOUS
    <2>4. b = [req |-> t.req, fed |-> k + 1, row |-> r, logits |-> t.logits]
      BY <2>2, <2>3
    <2>5. [b EXCEPT !.logits = l] = [req |-> t.req, fed |-> k + 1, row |-> r, logits |-> l]
      BY <2>4
    <2> QED BY <1>12, <2>1, <2>3, <2>5
  <1>14. Fresh(s.row, s.logits, SubSeq(x, 1, s.fed))
    BY <1>4, <1>7, <1>8, <1>10, <1>13 DEF Fresh
  <1> QED BY <1>11, <1>13, <1>14

\* What the prefix cache holds after an insert.
LEMMA InsertedFacts ==
    ASSUME EntriesHold, NEW e, Fresh(e.row, e.logits, e.prompt)
    PROVE  /\ Inserted(e) \in Seq(ToSet(Inserted(e)))
           /\ \A d \in ToSet(Inserted(e)) : Fresh(d.row, d.logits, d.prompt)
  <1>1. PICK S : S = ToSet(entries) \cup {e}
    OBVIOUS
  <1>2. \A d \in S : Fresh(d.row, d.logits, d.prompt)
    BY <1>1 DEF EntriesHold
  <1>3. entries \in Seq(S)
    BY <1>1, SeqMonotonic DEF EntriesHold
  <1>4. Inserted(e) \in Seq(S)
    <2>1. CASE \E d \in ToSet(entries) : d.prompt = e.prompt
      BY <1>3, <2>1 DEF Inserted
    <2>2. CASE ~\E d \in ToSet(entries) : d.prompt = e.prompt
      <3>1. PICK q : q = IF Len(entries) >= MaxEntries THEN Tail(entries) ELSE entries
        OBVIOUS
      <3>2. q \in Seq(S)
        <4>1. CASE Len(entries) >= MaxEntries
          <5>1. Len(entries) # 0
            BY <4>1, SchedulerAssumption
          <5>2. entries # <<>>
            BY <5>1, EmptyFacts
          <5> QED BY <1>3, <3>1, <4>1, <5>2, TailFacts
        <4>2. CASE ~(Len(entries) >= MaxEntries)
          BY <1>3, <3>1, <4>2
        <4> QED BY <4>1, <4>2
      <3>3. Inserted(e) = Append(q, e)
        BY <2>2, <3>1 DEF Inserted
      <3> QED BY <1>1, <3>2, <3>3, AppendFacts
    <2> QED BY <2>1, <2>2
  <1> QED BY <1>2, <1>4, QueueFacts

-----------------------------------------------------------------------------
(* The invariant is inductive.                                             *)

\* There is a row.
LEMMA RowsFacts == Rows \in Nat \ {0} /\ 1 \in 1..(Rows + 1) /\ 1 \in Row
  BY SchedulerAssumption DEF Row

\* It holds at the start.
LEMMA InitInv == ASSUME Init PROVE IInv
  <1>1. Active = {}
    BY DEF Init, Active
  <1>2. TypeOK
    <2>1. row \in 1..(Rows + 1)
      BY RowsFacts DEF Init
    <2> QED BY <1>1, <2>1 DEF Init, TypeOK
  <1>3. QueueHolds
    <2>1. waiting \in Seq(submitted) /\ Distinct(waiting)
      BY EmptyFacts DEF Init
    <2>2. \A r \in Request, i \in Row : slots[i] # r
      BY SchedulerAssumption DEF Init
    <2> QED BY <2>1, <2>2 DEF Init, QueueHolds
  <1>4. EntriesHold
    BY EmptyFacts DEF Init, EntriesHold
  <1>5. FillingHolds
    BY DEF Init, FillingHolds
  <1> QED BY <1>1, <1>2, <1>3, <1>4, <1>5 DEF IInv

\* The rows and requests that a step leaves alone.
LEMMA LanesKept ==
    ASSUME IInv, UNCHANGED <<batch, generated>>, submitted \subseteq submitted'
    PROVE  /\ Active' = Active /\ \A i \in Active' : LaneHolds(i)'
  <1>1. Active' = Active
    BY DEF batch, Active
  <1>2. ASSUME NEW i \in Active PROVE LaneHolds(i)'
    BY <1>2 DEF IInv, LaneHolds, Fed, batch
  <1> QED BY <1>1, <1>2

\* Steps of the thread outside admission and the idle loop, and steps of others.
LEMMA QuietInv ==
    ASSUME IInv, UNCHANGED <<waiting, hand, batch, filling, entries, generated, submitted>>,
           \/ UNCHANGED <<pc, row>>
           \/ /\ pc \notin {"prefill", "put back"} /\ row' \in 1..(Rows + 1)
              /\ pc' \in {"top", "admit", "idle", "decode", "exit"}
    PROVE  IInv'
  <1>1. Active' = Active /\ \A i \in Active' : LaneHolds(i)'
    BY LanesKept
  <1>2. TypeOK'
    BY <1>1 DEF IInv, TypeOK, batch
  <1>3. QueueHolds'
    <2>1. \A r \in Request : Ahead(r)' => Ahead(r)
      BY DEF Ahead
    <2> QED BY <2>1 DEF IInv, QueueHolds, batch
  <1>4. EntriesHold'
    BY DEF IInv, EntriesHold
  <1>5. FillingHolds'
    BY DEF IInv, FillingHolds, batch
  <1> QED BY <1>1, <1>2, <1>3, <1>4, <1>5 DEF IInv

\* The steps that leave the rows, the texts and the snapshots alone.
LEMMA LoopInv == ASSUME IInv, Loop PROVE IInv'
  BY QuietInv, RowsFacts DEF Loop, output, clients, lifecycle

\* Admission ends: no request waits or no row is free.
LEMMA AdmitDoneInv == ASSUME IInv, AdmitDone PROVE IInv'
  <1>1. row' \in 1..(Rows + 1)
    BY DEF AdmitDone, IInv, TypeOK
  <1> QED BY <1>1, QuietInv DEF AdmitDone, output, clients, lifecycle

\* Admission goes past a row that is taken.
LEMMA AdmitSkipInv == ASSUME IInv, AdmitSkip PROVE IInv'
  <1>1. row' \in 1..(Rows + 1)
    BY RowsFacts DEF AdmitSkip, IInv, TypeOK
  <1> QED BY <1>1, QuietInv DEF AdmitSkip, output, clients, lifecycle

\* The calls of other threads.
LEMMA CancelInv == ASSUME IInv, NEW r \in Request, Cancel(r) PROVE IInv'
  BY QuietInv DEF Cancel, output, engine, lifecycle

\* The engine is told to stop.
LEMMA StopInv == ASSUME IInv, Stop PROVE IInv'
  BY QuietInv DEF Stop, output, engine, clients

\* Nothing happens.
LEMMA StutterInv == ASSUME IInv, UNCHANGED vars PROVE IInv'
  BY QuietInv DEF vars, output, engine, clients, lifecycle

\* A new request waits.
LEMMA SubmitInv == ASSUME IInv, NEW r \in Request, Submit(r) PROVE IInv'
  <1>1. Active' = Active /\ \A i \in Active' : LaneHolds(i)'
    BY LanesKept DEF Submit, output
  <1>2. TypeOK'
    BY <1>1 DEF Submit, IInv, TypeOK, batch, output, engine
  <1>3. QueueHolds'
    <2>1. waiting \in Seq(submitted') /\ r \in submitted'
      BY SeqMonotonic DEF Submit, IInv, QueueHolds
    <2>2. /\ r \notin ToSet(waiting) /\ r # hand
          /\ pc = "prefill" => r # filling.req
      <3>1. ToSet(waiting) \subseteq submitted
        BY QueueFacts DEF IInv, QueueHolds
      <3>2. r # hand
        BY SchedulerAssumption DEF Submit, IInv, QueueHolds
      <3> QED BY <3>1, <3>2 DEF Submit, IInv, FillingHolds
    <2>3. /\ waiting' \in Seq(submitted') /\ Distinct(waiting')
          /\ ToSet(waiting') = ToSet(waiting) \cup {r}
      <3>1. waiting' = Append(waiting, r) /\ Distinct(waiting)
        BY DEF Submit, IInv, QueueHolds
      <3>2. Append(waiting, r) \in Seq(submitted') /\ ToSet(Append(waiting, r)) = ToSet(waiting) \cup {r}
        BY <2>1, AppendFacts
      <3>3. Distinct(Append(waiting, r))
        BY <2>1, <2>2, <3>1, AppendFacts
      <3> QED BY <3>1, <3>2, <3>3
    <2>4. \A q \in Request : Ahead(q)' => Ahead(q)
      BY <2>3 DEF Submit, Ahead, engine
    <2> QED BY <2>2, <2>3, <2>4 DEF Submit, IInv, QueueHolds, batch, output, engine
  <1>4. EntriesHold'
    BY DEF Submit, IInv, EntriesHold
  <1>5. FillingHolds'
    BY DEF Submit, IInv, FillingHolds, batch, engine
  <1> QED BY <1>1, <1>2, <1>3, <1>4, <1>5 DEF IInv

\* stop() ends what is left.
LEMMA JoinInv == ASSUME IInv, Join PROVE IInv'
  <1>1. pc = "exit"
    BY DEF Join, ThreadAlive, IInv, TypeOK
  <1>2. hand = None
    BY <1>1 DEF IInv, QueueHolds
  <1>3. Active' = {} /\ slots' \in [Row -> Request \cup {None}] /\ \A i \in Row : slots'[i] = None
    BY DEF Join, Active
  <1>4. TypeOK'
    BY <1>3 DEF Join, IInv, TypeOK, engine
  <1>5. QueueHolds'
    <2>1. waiting' \in Seq(submitted') /\ Distinct(waiting') /\ ToSet(waiting') = {}
      BY EmptyFacts DEF Join
    <2>2. \A r \in Request : Ahead(r)' => Ahead(r)
      BY <1>1, <1>2, <2>1 DEF Join, Ahead, clients, engine
    <2>3. \A r \in Request, i \in Row : slots'[i] # r
      BY <1>3, SchedulerAssumption
    <2> QED BY <1>1, <1>2, <2>1, <2>2, <2>3 DEF Join, IInv, QueueHolds, clients, engine
  <1>6. EntriesHold'
    BY DEF Join, IInv, EntriesHold
  <1>7. FillingHolds'
    BY <1>1 DEF Join, FillingHolds, engine
  <1> QED BY <1>3, <1>4, <1>5, <1>6, <1>7 DEF IInv

\* The idle loop takes a request.
LEMMA IdleTakeInv == ASSUME IInv, IdleTake PROVE IInv'
  <1>1. CASE waiting = <<>>
    <2>1. row' \in 1..(Rows + 1)
      BY DEF IdleTake, IInv, TypeOK
    <2> QED BY <1>1, <2>1, QuietInv DEF IdleTake, output, clients, lifecycle
  <1>2. CASE waiting # <<>>
    <2>1. Active' = Active /\ \A i \in Active' : LaneHolds(i)'
      BY LanesKept DEF IdleTake, output, clients
    <2>2. TypeOK'
      BY <1>2, <2>1 DEF IdleTake, IInv, TypeOK, batch, output
    <2>3. hand = None /\ pc # "prefill" /\ pc' = "put back"
      BY <1>2 DEF IdleTake, IInv, QueueHolds
    <2>4. /\ waiting' \in Seq(submitted) /\ Distinct(waiting') /\ hand' \in submitted
          /\ hand' \in ToSet(waiting) /\ hand' \notin ToSet(waiting')
          /\ ToSet(waiting') \subseteq ToSet(waiting)
      <3>1. /\ hand' = Head(waiting) /\ waiting' = Tail(waiting)
            /\ waiting \in Seq(submitted) /\ Distinct(waiting)
        BY <1>2 DEF IdleTake, IInv, QueueHolds
      <3>2. /\ Head(waiting) \in submitted /\ Head(waiting) \in ToSet(waiting)
            /\ Tail(waiting) \in Seq(submitted) /\ ToSet(Tail(waiting)) \subseteq ToSet(waiting)
            /\ Distinct(Tail(waiting)) /\ Head(waiting) \notin ToSet(Tail(waiting))
        BY <1>2, <3>1, TailFacts
      <3> QED BY <3>1, <3>2
    <2>5. \A r \in Request : Ahead(r)' => Ahead(r)
      BY <2>3, <2>4 DEF IdleTake, Ahead, clients
    <2>6. hand' # None
      BY <2>4, SchedulerAssumption DEF IInv, QueueHolds
    <2>7. QueueHolds'
      BY <1>2, <2>3, <2>4, <2>5, <2>6 DEF IdleTake, IInv, QueueHolds, batch, output, clients
    <2>8. EntriesHold'
      BY DEF IdleTake, IInv, EntriesHold
    <2>9. FillingHolds'
      BY <1>2, <2>3 DEF IdleTake, FillingHolds
    <2> QED BY <2>1, <2>2, <2>7, <2>8, <2>9 DEF IInv
  <1> QED BY <1>1, <1>2

\* ... and puts it back.
LEMMA IdlePutBackInv == ASSUME IInv, IdlePutBack PROVE IInv'
  <1>1. Active' = Active /\ \A i \in Active' : LaneHolds(i)'
    BY LanesKept DEF IdlePutBack, output, clients
  <1>2. TypeOK'
    BY <1>1 DEF IdlePutBack, IInv, TypeOK, batch, output
  <1>3. hand \in submitted /\ hand \notin ToSet(waiting) /\ pc # "prefill" /\ pc' = "top"
    BY DEF IdlePutBack, IInv, QueueHolds
  <1>4. /\ waiting' \in Seq(submitted) /\ Distinct(waiting')
        /\ ToSet(waiting') = ToSet(waiting) \cup {hand}
    <2>1. waiting' = Append(waiting, hand) /\ waiting \in Seq(submitted) /\ Distinct(waiting)
      BY DEF IdlePutBack, IInv, QueueHolds
    <2>2. Append(waiting, hand) \in Seq(submitted) /\ ToSet(Append(waiting, hand)) = ToSet(waiting) \cup {hand}
      BY <1>3, <2>1, AppendFacts
    <2>3. Distinct(Append(waiting, hand))
      BY <1>3, <2>1, AppendFacts
    <2> QED BY <2>1, <2>2, <2>3
  <1>5. \A r \in Request : Ahead(r)' => Ahead(r)
    BY <1>3, <1>4, SchedulerAssumption DEF IdlePutBack, Ahead, clients
  <1>6. QueueHolds'
    BY <1>3, <1>4, <1>5 DEF IdlePutBack, IInv, QueueHolds, batch, output, clients
  <1>7. EntriesHold'
    BY DEF IdlePutBack, IInv, EntriesHold
  <1>8. FillingHolds'
    BY <1>3 DEF IdlePutBack, FillingHolds
  <1> QED BY <1>1, <1>2, <1>6, <1>7, <1>8 DEF IInv

\* What admission does not refuse can be served to its last token.
LEMMA AdmittedFits ==
    ASSUME NEW r \in Request, Refusal(r) = "none"
    PROVE  Admissible(r)
  <1>1. Prompt[r] # <<>> /\ Fits(r)
    BY DEF Refusal
  <1>2. Prompt[r] \in Texts /\ MaxTokens[r] \in Nat
    BY SchedulerAssumption DEF Texts
  <1>3. Len(Prompt[r]) <= MaxSeqLen
    BY <1>1, <1>2, StateLayerAssumption DEF Fits, Texts
  <1> QED BY <1>1, <1>2, <1>3 DEF Admissible, Servable

\* Admission refuses the head of the queue or starts to prefill it.
LEMMA AdmitInv == ASSUME ScoresDiffer, IInv, Admit PROVE IInv'
  <1>1. PICK r : r = Head(waiting) /\ r \in submitted /\ r \in Request
    BY TailFacts DEF Admit, IInv, QueueHolds
  <1>2. /\ waiting' \in Seq(submitted) /\ Distinct(waiting') /\ r \in ToSet(waiting)
        /\ r \notin ToSet(waiting') /\ ToSet(waiting') \subseteq ToSet(waiting)
    BY <1>1, TailFacts DEF Admit, IInv, QueueHolds
  <1>3. hand = None /\ pc = "admit"
    BY DEF Admit, IInv, QueueHolds
  <1>4. Active' = Active /\ \A i \in Active' : LaneHolds(i)'
    BY LanesKept DEF Admit, clients
  <1>5. EntriesHold'
    BY DEF Admit, IInv, EntriesHold
  <1>6. CASE Refusal(r) # "none"
    <2>1. row' = row + 1 /\ UNCHANGED <<pc, filling>>
      BY <1>1, <1>6 DEF Admit
    <2>2. TypeOK'
      BY <1>4, <2>1, RowsFacts DEF Admit, IInv, TypeOK, batch
    <2>3. \A q \in Request : Ahead(q)' => Ahead(q)
      BY <1>2, <2>1 DEF Admit, Ahead, clients
    <2>4. QueueHolds'
      BY <1>2, <1>3, <2>1, <2>3 DEF Admit, IInv, QueueHolds, batch, clients
    <2>5. FillingHolds'
      BY <1>3, <2>1 DEF Admit, IInv, FillingHolds
    <2> QED BY <1>4, <1>5, <2>2, <2>4, <2>5 DEF IInv
  <1>7. CASE Refusal(r) = "none"
    <2>1. filling' = Temporary(r) /\ pc' = "prefill" /\ row' = row
      BY <1>1, <1>7 DEF Admit
    <2>2. Admissible(r)
      BY <1>1, <1>7, AdmittedFits
    <2>3. PICK t : /\ t = Temporary(r)
                   /\ t = [req |-> t.req, fed |-> t.fed, row |-> t.row, logits |-> t.logits]
                   /\ t.req = r /\ t.fed \in 1..Len(Prompt[r])
                   /\ Fresh(t.row, t.logits, SubSeq(Prompt[r], 1, t.fed))
      BY <2>2, TemporaryFacts DEF IInv
    <2>4. TypeOK'
      BY <1>4, <2>1 DEF Admit, IInv, TypeOK, batch
    <2>5. \A q \in Request : Ahead(q)' => Ahead(q)
      BY <1>2, <1>3, <2>1, <2>3 DEF Admit, Ahead, clients
    <2>6. QueueHolds'
      BY <1>2, <1>3, <2>1, <2>3, <2>5 DEF Admit, IInv, QueueHolds, batch, clients
    <2>7. row \in Row /\ slots[row] = None
      BY RowsFacts DEF Admit, IInv, TypeOK, Row
    <2>8. FillingHolds'
      BY <1>1, <2>1, <2>2, <2>3, <2>7 DEF Admit, FillingHolds, batch, clients
    <2> QED BY <1>4, <1>5, <2>4, <2>6, <2>8 DEF IInv
  <1> QED BY <1>6, <1>7

\* A replay feeds one more token of the prompt.
LEMMA ReplayInv == ASSUME IInv, Replay PROVE IInv'
  <1>1. PICK r : r = filling.req /\ r \in submitted /\ r \in Request /\ Admissible(r)
    BY DEF Replay, IInv, FillingHolds, QueueHolds
  <1>2. PICK s : /\ s = Replayed(filling, Prompt[r])
                 /\ s = [req |-> s.req, fed |-> s.fed, row |-> s.row, logits |-> s.logits]
                 /\ s.req = r /\ s.fed = filling.fed + 1
                 /\ Fresh(s.row, s.logits, SubSeq(Prompt[r], 1, s.fed))
    BY <1>1, ReplayedFacts DEF Replay, IInv, FillingHolds, Admissible
  <1>3. filling' = s
    BY <1>1, <1>2 DEF Replay
  <1>4. s.fed \in 1..Len(Prompt[r])
    BY <1>1, <1>2 DEF Replay, IInv, FillingHolds, Admissible, Servable, Texts
  <1>5. Active' = Active /\ \A i \in Active' : LaneHolds(i)'
    BY LanesKept DEF Replay, output, clients
  <1>6. TypeOK'
    BY <1>5 DEF Replay, IInv, TypeOK, batch, output, engine
  <1>7. \A q \in Request : Ahead(q)' => Ahead(q)
    BY <1>1, <1>2, <1>3 DEF Replay, IInv, FillingHolds, Ahead, clients
  <1>8. QueueHolds'
    BY <1>1, <1>2, <1>3, <1>7 DEF Replay, IInv, FillingHolds, QueueHolds, batch, output, clients, engine
  <1>9. EntriesHold'
    BY DEF Replay, IInv, EntriesHold
  <1>10. FillingHolds'
    <2>1. row' \in Row /\ slots'[row'] = None /\ submitted' = submitted
      BY DEF Replay, IInv, FillingHolds, batch, clients, engine
    <2> QED BY <1>1, <1>2, <1>3, <1>4, <2>1 DEF FillingHolds
  <1> QED BY <1>5, <1>6, <1>8, <1>9, <1>10 DEF IInv

\* The prefill is done: the snapshot is kept and the row decodes.
LEMMA FillInv == ASSUME IInv, Fill PROVE IInv'
  <1>1. PICK r : /\ r = filling.req /\ r \in submitted /\ r \in Request /\ Admissible(r)
                 /\ r \notin ToSet(waiting) /\ hand = None /\ generated[r] = <<>>
                 /\ \A i \in Row : slots[i] # r
    <2>1. filling.req \in submitted /\ filling.req \in Request /\ Ahead(filling.req) /\ pc = "prefill"
      BY DEF Fill, IInv, FillingHolds, QueueHolds, Ahead
    <2> QED BY <2>1 DEF IInv, FillingHolds, QueueHolds
  <1>2. PICK x : x = Prompt[r] /\ Servable(x)
    BY <1>1 DEF Admissible
  <1>3. PICK k : k = filling.row /\ Fresh(k, filling.logits, x)
    <2>1. SubSeq(x, 1, Len(x)) = x
      BY <1>2, SubSeqFull DEF Servable, Texts
    <2> QED BY <1>1, <1>2, <2>1 DEF Fill, IInv, FillingHolds
  <1>4. PICK i \in Row : i = row /\ slots[i] = None
    BY DEF Fill, IInv, FillingHolds
  <1>5. PICK l : l = filling.logits /\ Seen(l, x)
    BY <1>3 DEF Fresh
  <1>6. PICK t \in Nat : next_token' = [next_token EXCEPT ![i] = t]
    <2>1. Sampled[r] \subseteq Nat
      BY <1>1, SchedulerAssumption
    <2>2. \E t \in Sampled[r] : next_token' = [next_token EXCEPT ![i] = t]
      BY <1>1, <1>4 DEF Fill
    <2> QED BY <2>1, <2>2
  <1>7. PICK c : c = Copied(cache[i], k) /\ RowHolds(c, x)
    BY <1>3, RowCopied DEF Fresh
  <1>8. /\ cache' = [cache EXCEPT ![i] = c] /\ logits' = [logits EXCEPT ![i] = l]
        /\ slots' = [slots EXCEPT ![i] = r] /\ position' = [position EXCEPT ![i] = Len(x)]
        /\ row' = row + 1 /\ pc' = "admit"
        /\ UNCHANGED <<waiting, hand, submitted, generated>>
    <2>1. cache' = [cache EXCEPT ![row] = Copied(@, filling.row)]
      BY DEF Fill
    <2>2. cache' = [cache EXCEPT ![i] = c]
      BY <1>3, <1>4, <1>7, <2>1
    <2> QED BY <1>1, <1>2, <1>4, <1>5, <2>2 DEF Fill, output, clients
  <1>9. /\ DOMAIN cache = Row /\ DOMAIN logits = Row /\ DOMAIN slots = Row /\ DOMAIN position = Row
        /\ DOMAIN next_token = Row
    BY DEF IInv, TypeOK
  <1>10. /\ slots'[i] = r /\ position'[i] = Len(x) /\ next_token'[i] = t
         /\ cache'[i] = c /\ logits'[i] = l
         /\ \A j \in Row : j # i => /\ slots'[j] = slots[j] /\ position'[j] = position[j]
                                    /\ next_token'[j] = next_token[j] /\ cache'[j] = cache[j]
                                    /\ logits'[j] = logits[j]
    BY <1>6, <1>8, <1>9
  <1>11. Active' = Active \cup {i} /\ i \notin Active
    BY <1>1, <1>4, <1>10, SchedulerAssumption DEF Active
  <1>12. LaneHolds(i)'
    <2>1. Fed(i)' = x
      <3>1. Fed(i)' = Prompt[r] \o <<>>
        BY <1>1, <1>8, <1>10 DEF Fed
      <3> QED BY <1>2, <3>1, ConcatEmptySeq DEF Servable, Texts
    <2>2. generated'[r] = <<>> /\ <<>> \in Texts /\ Len(<<>>) = 0 /\ 0 < MaxTokens[r]
      BY <1>1, <1>8, EmptySeq, SchedulerAssumption DEF Texts
    <2> QED BY <1>1, <1>5, <1>7, <1>8, <1>10, <2>1, <2>2 DEF LaneHolds
  <1>13. ASSUME NEW j \in Active PROVE LaneHolds(j)'
    <2>1. j \in Row /\ j # i /\ LaneHolds(j)
      BY <1>4, <1>11, <1>13 DEF IInv, Active
    <2>2. Fed(j)' = Fed(j)
      BY <1>8, <1>10, <2>1 DEF Fed
    <2> QED BY <1>8, <1>10, <2>1, <2>2 DEF LaneHolds
  <1>14. TypeOK'
    <2>1. slots' \in [Row -> Request \cup {None}]
      BY <1>1, <1>8 DEF IInv, TypeOK
    <2>2. \A a, b \in Active' : slots'[a] = slots'[b] => a = b
      <3>1. \A a \in Active : a \in Row /\ a # i /\ slots'[a] = slots[a] /\ slots[a] # r
        BY <1>1, <1>10, <1>11 DEF Active
      <3>2. \A a, b \in Active : slots[a] = slots[b] => a = b
        BY DEF IInv, TypeOK
      <3>3. \A a \in Active' : a \in Active \/ a = i
        BY <1>11
      <3> QED BY <1>10, <3>1, <3>2, <3>3
    <2>3. /\ position' = [j \in Row |-> position'[j]] /\ next_token' = [j \in Row |-> next_token'[j]]
          /\ cache' = [j \in Row |-> cache'[j]] /\ logits' = [j \in Row |-> logits'[j]]
      BY <1>6, <1>8, <1>9
    <2>4. row' \in 1..(Rows + 1)
      BY <1>4, <1>8, RowsFacts DEF Row
    <2> QED BY <1>8, <2>1, <2>2, <2>3, <2>4 DEF IInv, TypeOK
  <1>15. QueueHolds'
    <2>1. ASSUME NEW q \in Request, Ahead(q)' PROVE Ahead(q) /\ q # r
      BY <1>1, <1>8, <2>1, SchedulerAssumption DEF Ahead
    <2>2. \A q \in Request : Ahead(q)' => generated'[q] = <<>> /\ \A j \in Row : slots'[j] # q
      <3> SUFFICES ASSUME NEW q \in Request, Ahead(q)'
                   PROVE  generated'[q] = <<>> /\ \A j \in Row : slots'[j] # q
        OBVIOUS
      <3>1. Ahead(q) /\ q # r
        BY <2>1
      <3>2. generated[q] = <<>> /\ \A j \in Row : slots[j] # q
        BY <3>1 DEF IInv, QueueHolds
      <3> QED BY <1>8, <1>10, <3>1, <3>2
    <2>3. pc = "prefill"
      BY DEF Fill
    <2> QED BY <1>8, <2>2, <2>3 DEF IInv, QueueHolds
  <1>16. EntriesHold'
    <2>1. PICK e : e = [prompt |-> x, row |-> k, logits |-> l]
      OBVIOUS
    <2>2. Fresh(e.row, e.logits, e.prompt)
      BY <1>3, <1>5, <2>1
    <2>3. entries' = Inserted(e)
      BY <1>1, <1>2, <1>3, <1>5, <2>1 DEF Fill
    <2>4. EntriesHold
      BY DEF IInv
    <2> QED BY <2>2, <2>3, <2>4, InsertedFacts DEF EntriesHold
  <1>17. FillingHolds'
    BY <1>8 DEF FillingHolds
  <1> QED BY <1>11, <1>12, <1>13, <1>14, <1>15, <1>16, <1>17 DEF IInv

-----------------------------------------------------------------------------
(* A decode step.                                                          *)

\* The smaller of two ratios' room.
LEMMA SmallerOfTwo ==
    ASSUME NEW a \in Nat, NEW b \in Nat
    PROVE  Min({a, b}) \in {a, b}
  <1>1. Min({a, b}) = IF a < b THEN a ELSE b
    BY DEF Min
  <1> QED BY <1>1

\* The cache has room for every position the requests may reach.
LEMMA LimitFacts ==
    LET limit == Min({MaxBlocks(m) * m : m \in {Ratio["hca"], Ratio["csa"]}})
    IN limit \in Nat /\ MaxSeqLen <= limit
  <1>1. PICK a \in Sizes, b \in Sizes : a = Ratio["hca"] /\ b = Ratio["csa"]
    BY RatioSizes
  <1>2. PICK A \in Nat, B \in Nat : /\ A = MaxBlocks(a) * a /\ B = MaxBlocks(b) * b
                                    /\ MaxSeqLen <= A /\ MaxSeqLen <= B
    BY RoomForBlocks, Times DEF Sizes
  <1>3. {MaxBlocks(m) * m : m \in {a, b}} = {A, B}
    BY <1>2
  <1>4. Min({A, B}) \in {A, B}
    BY <1>2, SmallerOfTwo
  <1> QED BY <1>1, <1>2, <1>3, <1>4

\* A row that decodes one token more.
LEMMA LaneDecoded ==
    ASSUME NEW p \in Texts, NEW g \in Texts, NEW t \in Nat, NEW x, x = p \o g,
           Len(x) < MaxSeqLen, NEW c, NEW l, RowHolds(c, x), Seen(l, x)
    PROVE  LET d == DecodedRagged(c, Len(x), t)
               y == p \o Append(g, t)
           IN /\ Len(y) = Len(x) + 1
              /\ RowHolds(d, y) /\ Seen(Append(l, AttendsRagged(d, Len(x))), y)
  <1>1. x \in Texts
    BY ConcatProperties DEF Texts
  <1>2. PICK L \in Nat : L = Len(x) /\ L + 1 <= MaxSeqLen
    BY <1>1, StateLayerAssumption DEF Texts
  <1>3. PICK y \in Texts : y = Append(x, t) /\ Len(y) = L + 1
    BY <1>1, <1>2, Longer
  <1>4. y = p \o Append(g, t)
    <2>1. Append(g, t) = g \o <<t>> /\ Append(x, t) = x \o <<t>>
      BY <1>1, AppendIsConcat DEF Texts
    <2>2. <<t>> \in Texts
      BY DEF Texts
    <2>3. (p \o g) \o <<t>> = p \o (g \o <<t>>)
      BY <2>2, ConcatAssociative DEF Texts
    <2> QED BY <1>3, <2>1, <2>3
  <1>5. PICK d : d = DecodedRagged(c, L, t) /\ RowHolds(d, y)
    BY <1>1, <1>2, <1>3, RowDecoded
  <1>6. y # <<>> /\ Len(y) <= MaxSeqLen /\ Len(y) - 1 = L
    BY <1>2, <1>3, EmptySeq
  <1>7. AttendsRagged(d, L) = Ideal(y)
    BY <1>5, <1>6, RowSees
  <1>8. Seen(Append(l, AttendsRagged(d, L)), y)
    BY <1>1, <1>3, <1>7, SeenLonger
  <1> QED BY <1>2, <1>3, <1>4, <1>5, <1>8

\* The rows of a decode step: those that end, those that go on.
LEMMA DecodeStepInv == ASSUME IInv, DecodeStep PROVE IInv'
  <1> DEFINE gone == {i \in Active : slots[i] \in cancelled}
             stop == {i \in Active \ gone : next_token[i] = Eos}
             emit == Active \ (gone \cup stop)
             decode == emit \ {i \in emit : Full(i)}
  <1>1. /\ emit \subseteq Active /\ decode = {i \in emit : ~Full(i)}
           /\ generated' = [r \in Request |-> IF \E i \in emit : slots[i] = r
                                             THEN Append(generated[r], next_token[CHOOSE i \in Active : slots[i] = r])
                                             ELSE generated[r]]
           /\ slots' = [i \in Row |-> IF i \in decode THEN slots[i] ELSE None]
           /\ IF decode = {}
              THEN pc' = "top" /\ UNCHANGED <<position, next_token, cache, logits>>
              ELSE Forward(decode)
    BY DEF DecodeStep
  <1> HIDE DEF gone, stop, emit, decode
  <1>2. pc = "decode" /\ UNCHANGED <<waiting, hand, filling, entries, submitted, row>>
    BY DEF DecodeStep, clients
  <1>3. decode \subseteq emit /\ emit \subseteq Active /\ Active \subseteq Row
    BY <1>1 DEF Active
  <1>14. MaxSeqLen \in Nat \ {0}
    BY StateLayerAssumption
  <1>4. ASSUME NEW i \in decode
        PROVE  /\ slots[i] \in Request /\ slots[i] # None /\ Len(generated[slots[i]]) + 1 < MaxTokens[slots[i]]
               /\ generated'[slots[i]] = Append(generated[slots[i]], next_token[i])
    <2>1. slots[i] \in Request /\ slots[i] # None /\ i \in emit /\ i \in Active /\ ~Full(i)
      BY <1>1, <1>3 DEF IInv, TypeOK, Active
    <2>2. (CHOOSE j \in Active : slots[j] = slots[i]) = i
      <3>1. \A j \in Active : slots[j] = slots[i] => j = i
        BY <2>1 DEF IInv, TypeOK
      <3> QED BY <2>1, <3>1
    <2>3. generated'[slots[i]] = Append(generated[slots[i]], next_token[CHOOSE j \in Active : slots[j] = slots[i]])
      BY <1>1, <2>1
    <2>4. Len(generated[slots[i]]) \in Nat /\ MaxTokens[slots[i]] \in Nat
      BY <2>1, SchedulerAssumption DEF IInv, LaneHolds, Texts
    <2>5. Len(generated[slots[i]]) + 1 < MaxTokens[slots[i]]
      BY <2>1, <2>4 DEF Full
    <2> QED BY <2>1, <2>2, <2>3, <2>5
  <1>5. ASSUME NEW i \in decode
        PROVE  /\ Prompt[slots[i]] \in Texts /\ generated[slots[i]] \in Texts /\ next_token[i] \in Nat
               /\ Fed(i) = Prompt[slots[i]] \o generated[slots[i]]
               /\ Len(Fed(i)) \in Nat /\ Len(Fed(i)) + 1 <= MaxSeqLen /\ position[i] = Len(Fed(i))
               /\ RowHolds(cache[i], Fed(i)) /\ Seen(logits[i], Fed(i))
    <2>1. LaneHolds(i) /\ Admissible(slots[i]) /\ slots[i] \in Request
      BY <1>3, <1>4 DEF IInv, LaneHolds
    <2>2. PICK p, g : /\ p = Prompt[slots[i]] /\ g = generated[slots[i]] /\ p \in Texts /\ g \in Texts
                      /\ Len(p) + MaxTokens[slots[i]] <= MaxSeqLen
      BY <2>1 DEF LaneHolds, Admissible, Servable, Fits
    <2>3. Fed(i) = p \o g
      BY <2>2 DEF Fed
    <2>4. Len(p \o g) = Len(p) + Len(g) /\ Len(p) \in Nat /\ Len(g) \in Nat
      BY <2>2, ConcatProperties, LenProperties DEF Texts
    <2>5. PICK n \in Nat : n = MaxTokens[slots[i]] /\ Len(g) + 1 < n /\ Len(p) + n <= MaxSeqLen
      BY <1>4, <2>1, <2>2, SchedulerAssumption
    <2>6. Len(p \o g) \in Nat /\ Len(p \o g) + 1 <= MaxSeqLen
      BY <1>14, <2>4, <2>5
    <2> QED BY <2>1, <2>2, <2>3, <2>6 DEF LaneHolds
  <1>6. Active' = decode /\ \A i \in decode : slots'[i] = slots[i]
    BY <1>1, <1>3, <1>4 DEF Active
  <1>7. slots' \in [Row -> Request \cup {None}] /\ \A i, j \in Active' : slots'[i] = slots'[j] => i = j
    <2>1. slots' \in [Row -> Request \cup {None}]
      BY <1>1, <1>4
    <2>2. \A i, j \in Active : slots[i] = slots[j] => i = j
      BY DEF IInv, TypeOK
    <2> QED BY <1>3, <1>6, <2>1, <2>2
  <1>8. generated' = [r \in Request |-> generated'[r]]
    BY <1>1
  <1>9. /\ pc' = "top"
        /\ position' = [i \in Row |-> position'[i]] /\ next_token' = [i \in Row |-> next_token'[i]]
        /\ cache' = [i \in Row |-> cache'[i]] /\ logits' = [i \in Row |-> logits'[i]]
        /\ \A i \in decode :
              /\ position'[i] = position[i] + 1 /\ next_token'[i] \in Nat
              /\ cache'[i] = DecodedRagged(cache[i], position[i], next_token[i])
              /\ logits'[i] = Append(logits[i], AttendsRagged(cache'[i], position[i]))
    <2>1. CASE decode = {}
      <3>1. pc' = "top" /\ UNCHANGED <<position, next_token, cache, logits>>
        BY <1>1, <2>1
      <3>2. /\ position = [i \in Row |-> position[i]] /\ next_token = [i \in Row |-> next_token[i]]
            /\ cache = [i \in Row |-> cache[i]] /\ logits = [i \in Row |-> logits[i]]
        BY DEF IInv, TypeOK
      <3> QED BY <2>1, <3>1, <3>2
    <2>2. CASE decode # {}
      <3>1. PICK limit : /\ limit = Min({MaxBlocks(m) * m : m \in {Ratio["hca"], Ratio["csa"]}})
                         /\ limit \in Nat /\ MaxSeqLen \in Nat \ {0} /\ MaxSeqLen <= limit
        BY LimitFacts, StateLayerAssumption
      <3>2. ASSUME NEW i \in Row PROVE ~(Feed(i, decode)[2] + 1 > limit)
        <4>1. CASE i \in decode
          <5>1. PICK n \in Nat : n = position[i] /\ n + 1 <= MaxSeqLen
            BY <1>5, <4>1
          <5>2. Feed(i, decode)[2] = n
            BY <4>1, <5>1 DEF Feed
          <5> QED BY <3>1, <5>1, <5>2
        <4>2. CASE i \notin decode
          <5>1. Feed(i, decode)[2] = 0
            BY <4>2 DEF Feed
          <5> QED BY <3>1, <5>1
        <4> QED BY <4>1, <4>2
      <3>3. Forward(decode)
        BY <1>1, <2>2
      <3>4. ~ \E i \in Row : Feed(i, decode)[2] + 1 > limit
        BY <3>2
      <3>5. PICK after : after = [i \in Row |-> DecodedRagged(cache[i], Feed(i, decode)[2], Feed(i, decode)[1])]
        OBVIOUS
      <3>6. /\ pc' = "top" /\ cache' = after
            /\ logits' = [i \in Row |-> IF i \in decode
                                        THEN Append(logits[i], AttendsRagged(after[i], position[i]))
                                        ELSE logits[i]]
            /\ position' = [i \in Row |-> IF i \in decode THEN position[i] + 1 ELSE position[i]]
            /\ \E s \in [decode -> UNION {Sampled[slots[i]] : i \in decode}] :
                /\ \A i \in decode : s[i] \in Sampled[slots[i]]
                /\ next_token' = [i \in Row |-> IF i \in decode THEN s[i] ELSE next_token[i]]
        BY <3>1, <3>3, <3>4, <3>5 DEF Forward
      <3>7. PICK s : /\ \A i \in decode : s[i] \in Sampled[slots[i]]
                     /\ next_token' = [i \in Row |-> IF i \in decode THEN s[i] ELSE next_token[i]]
        BY <3>6
      <3>8. ASSUME NEW i \in decode
            PROVE  /\ position'[i] = position[i] + 1 /\ next_token'[i] \in Nat
                   /\ cache'[i] = DecodedRagged(cache[i], position[i], next_token[i])
                   /\ logits'[i] = Append(logits[i], AttendsRagged(cache'[i], position[i]))
        <4>1. i \in Row /\ slots[i] \in Request
          BY <1>3, <1>4
        <4>2. next_token'[i] \in Nat
          <5>1. s[i] \in Sampled[slots[i]] /\ Sampled[slots[i]] \subseteq Nat
            BY <3>7, <4>1, SchedulerAssumption
          <5> QED BY <3>7, <4>1, <5>1
        <4>3. after[i] = DecodedRagged(cache[i], position[i], next_token[i])
          <5>1. Feed(i, decode) = <<next_token[i], position[i]>>
            BY DEF Feed
          <5>2. Feed(i, decode)[1] = next_token[i] /\ Feed(i, decode)[2] = position[i]
            BY <5>1
          <5> QED BY <3>5, <4>1, <5>2
        <4> QED BY <3>6, <4>1, <4>2, <4>3
      <3>9. /\ position' = [i \in Row |-> position'[i]] /\ next_token' = [i \in Row |-> next_token'[i]]
            /\ cache' = [i \in Row |-> cache'[i]] /\ logits' = [i \in Row |-> logits'[i]]
        BY <3>5, <3>6, <3>7
      <3> QED BY <3>6, <3>8, <3>9
    <2> QED BY <2>1, <2>2
  <1>10. ASSUME NEW i \in decode PROVE LaneHolds(i)'
    <2>1. PICK r : r = slots[i] /\ r = slots'[i] /\ r \in Request
      BY <1>4, <1>6
    <2>2. PICK p \in Texts, g \in Texts, t \in Nat :
             p = Prompt[r] /\ g = generated[r] /\ t = next_token[i] /\ Fed(i) = p \o g
      BY <1>5, <2>1
    <2>11. PICK x :
             /\ x = Fed(i)
             /\ Len(x) \in Nat /\ Len(x) + 1 <= MaxSeqLen /\ position[i] = Len(x)
             /\ RowHolds(cache[i], x) /\ Seen(logits[i], x)
      BY <1>5
    <2>10. x = p \o g
      BY <2>2, <2>11
    <2>3. PICK h : h = generated'[r] /\ h = Append(g, t) /\ h \in Texts /\ Len(h) = Len(g) + 1
      <3>1. generated'[r] = Append(g, t)
        BY <1>4, <2>1, <2>2
      <3>2. Append(g, t) \in Texts /\ Len(Append(g, t)) = Len(g) + 1
        BY Longer
      <3> QED BY <3>1, <3>2
    <2>4. PICK y : y = Fed(i)' /\ y = p \o h
      BY <2>1, <2>2, <2>3 DEF Fed
    <2>5. Len(x) < MaxSeqLen
      BY <1>14, <2>11
    <2>6. PICK d : /\ d = DecodedRagged(cache[i], Len(x), t) /\ Len(y) = Len(x) + 1
                   /\ RowHolds(d, y) /\ Seen(Append(logits[i], AttendsRagged(d, Len(x))), y)
      <3>1. PICK c, l : c = cache[i] /\ l = logits[i] /\ RowHolds(c, x) /\ Seen(l, x)
        BY <2>11
      <3>2. PICK d : d = DecodedRagged(c, Len(x), t)
        OBVIOUS
      <3>3. /\ Len(p \o Append(g, t)) = Len(x) + 1 /\ RowHolds(d, p \o Append(g, t))
            /\ Seen(Append(l, AttendsRagged(d, Len(x))), p \o Append(g, t))
        BY <2>5, <2>10, <3>1, <3>2, LaneDecoded
      <3> QED BY <2>3, <2>4, <3>1, <3>2, <3>3
    <2>7. cache'[i] = d /\ position'[i] = Len(y) /\ next_token'[i] \in Nat /\ Seen(logits'[i], y)
      BY <1>9, <2>2, <2>6, <2>11
    <2>8. Len(h) < MaxTokens[r]
      BY <1>4, <2>1, <2>2, <2>3
    <2>9. r \in submitted' /\ Admissible(r)
      BY <1>2, <1>3, <2>1 DEF IInv, LaneHolds
    <2> QED BY <2>1, <2>3, <2>4, <2>6, <2>7, <2>8, <2>9 DEF LaneHolds
  <1>11. TypeOK'
    BY <1>2, <1>7, <1>8, <1>9 DEF IInv, TypeOK
  <1>12. QueueHolds'
    <2>1. ASSUME NEW q \in Request, Ahead(q)'
          PROVE  generated'[q] = <<>> /\ \A i \in Row : slots'[i] # q
      <3>1. Ahead(q)
        BY <1>2, <1>9, <2>1 DEF Ahead
      <3>2. generated[q] = <<>> /\ \A i \in Row : slots[i] # q
        BY <3>1 DEF IInv, QueueHolds
      <3>3. ~ \E i \in emit : slots[i] = q
        BY <1>3, <3>2
      <3>4. generated'[q] = <<>>
        BY <1>1, <3>2, <3>3
      <3>5. \A i \in Row : slots'[i] # q
        BY <1>1, <3>2, SchedulerAssumption
      <3> QED BY <3>4, <3>5
    <2> QED BY <1>2, <1>9, <2>1 DEF IInv, QueueHolds
  <1>13. EntriesHold' /\ FillingHolds'
    BY <1>2, <1>9 DEF IInv, EntriesHold, FillingHolds
  <1> QED BY <1>6, <1>10, <1>11, <1>12, <1>13 DEF IInv

-----------------------------------------------------------------------------
(* The theorems.                                                           *)

\* The invariant holds in every behaviour.
THEOREM Invariance == ASSUME ScoresDiffer PROVE Spec => []IInv
  <1>1. Init => IInv
    BY InitInv
  <1>2. IInv /\ [Next]_vars => IInv'
    BY LoopInv, AdmitDoneInv, AdmitSkipInv, AdmitInv, ReplayInv, FillInv, IdleTakeInv, IdlePutBackInv,
       DecodeStepInv, SubmitInv, CancelInv, StopInv, JoinInv, StutterInv DEF Next, Engine
  <1> QED BY <1>1, <1>2, PTL DEF Spec

\* What the invariant says of the queries of a row that decodes.
LEMMA QueriesInv == ASSUME IInv PROVE QueriesSeeTheirText
  <1>1. ASSUME NEW i \in Active
        PROVE  /\ Len(logits[i]) = Len(Fed(i))
               /\ \A n \in 1..Len(logits[i]) : logits[i][n] = Ideal(SubSeq(Fed(i), 1, n))
    <2>1. PICK x, l : x = Fed(i) /\ l = logits[i] /\ Seen(l, x)
      BY <1>1 DEF IInv, LaneHolds
    <2>2. PICK n \in Nat : n = Len(x)
      <3>1. x \in Texts
        BY <1>1, <2>1, ConcatProperties DEF IInv, LaneHolds, Fed, Admissible, Servable, Texts
      <3> QED BY <3>1 DEF Texts
    <2>3. l = [k \in 1..n |-> Ideal(SubSeq(x, 1, k))]
      BY <2>1, <2>2 DEF Seen
    <2>4. Len(l) = n
      BY <2>3
    <2> QED BY <2>1, <2>2, <2>3, <2>4
  <1> QED BY <1>1 DEF QueriesSeeTheirText

\* ... of the snapshots,
LEMMA SnapshotsInv == ASSUME IInv PROVE SnapshotsHoldTheirPrompt
  <1>1. ASSUME NEW e \in ToSet(entries)
        PROVE  /\ e.logits[Len(e.prompt)] = Ideal(e.prompt)
               /\ Len(e.logits) = Len(e.prompt)
               /\ e.row.hca.main.n = Len(e.prompt) \div Ratio["hca"]
               /\ e.row.csa.main.n = Len(e.prompt) \div Ratio["csa"]
               /\ e.row.csa.indexer.n = e.row.csa.main.n
    <2>1. PICK x, l : /\ x = e.prompt /\ l = e.logits /\ Seen(l, x) /\ x \in Texts /\ x # <<>>
                      /\ Counted(e.row, x)
      BY <1>1 DEF IInv, EntriesHold, Fresh, Servable
    <2>2. PICK n \in Nat \ {0} : n = Len(x)
      BY <2>1, EmptySeq DEF Texts
    <2>3. l = [k \in 1..n |-> Ideal(SubSeq(x, 1, k))]
      BY <2>1, <2>2 DEF Seen
    <2>4. Len(l) = n /\ l[n] = Ideal(SubSeq(x, 1, n))
      BY <2>3
    <2>5. SubSeq(x, 1, n) = x
      BY <2>1, <2>2, SubSeqFull DEF Texts
    <2> QED BY <2>1, <2>2, <2>4, <2>5 DEF Counted, HcaCounted, CsaCounted
  <1> QED BY <1>1 DEF SnapshotsHoldTheirPrompt

\* Every query of a decoding request attended to the last tokens of its own text and to each
\* complete block of it (the best ones in a csa layer) and to nothing of another request or of an
\* earlier tenant of the row, whichever of prefill, replay, snapshot and ragged steps fed it
\* (state_cache_continuous_scheduler.py, state_cache_generator.py, deepseek_v4.py).
THEOREM QueriesAlwaysSeeTheirText == ASSUME ScoresDiffer PROVE Spec => []QueriesSeeTheirText
  BY Invariance, QueriesInv, PTL

\* A snapshot holds the blocks of its own prompt, with the counters a replay starts from, however
\* long the row it was copied from has decoded since (state_cache_generator.py, _maybe_snapshot).
THEOREM SnapshotsAlwaysHoldTheirPrompt == ASSUME ScoresDiffer PROVE Spec => []SnapshotsHoldTheirPrompt
  BY Invariance, SnapshotsInv, PTL
====
