--------------------------- MODULE PagedKVProofs ---------------------------
(***************************************************************************)
(* Proofs about PagedKV for every number of slots and blocks, every block   *)
(* size and every set of prompts.                                          *)
(***************************************************************************)
EXTENDS PagedKV, SequenceTheorems, FiniteSetTheorems, TLAPS

-----------------------------------------------------------------------------
(* Sequences without repetition.                                           *)

LEMMA AppendFacts ==
    ASSUME NEW S, NEW q \in Seq(S), NEW b \in S
    PROVE  /\ Append(q, b) \in Seq(S)
           /\ Len(Append(q, b)) = Len(q) + 1
           /\ \A i \in 1..Len(q) : Append(q, b)[i] = q[i]
           /\ Append(q, b)[Len(q) + 1] = b
           /\ \A x : In(Append(q, b), x) <=> In(q, x) \/ x = b
           /\ Distinct(q) /\ ~In(q, b) => Distinct(Append(q, b))
<1>1. /\ Append(q, b) \in Seq(S)
      /\ Len(Append(q, b)) = Len(q) + 1
      /\ \A i \in 1..Len(q) : Append(q, b)[i] = q[i]
      /\ Append(q, b)[Len(q) + 1] = b
  BY AppendProperties
<1> DEFINE r == Append(q, b)
<1> HIDE DEF r
<1>2. Len(q) \in Nat
  OBVIOUS
<1>3. \A x : In(r, x) <=> In(q, x) \/ x = b
  BY <1>1, <1>2 DEF In, r
<1>4. Distinct(q) /\ ~In(q, b) => Distinct(r)
  BY <1>1, <1>2 DEF Distinct, In, r
<1> QED
  BY <1>1, <1>3, <1>4 DEF r

LEMMA RemoveAtFacts ==
    ASSUME NEW S, NEW q \in Seq(S), NEW i \in 1..Len(q)
    PROVE  /\ RemoveAt(q, i) \in Seq(S)
           /\ Len(RemoveAt(q, i)) = Len(q) - 1
           /\ \A j \in 1..(Len(q) - 1) :
                RemoveAt(q, i)[j] = IF j < i THEN q[j] ELSE q[j + 1]
           /\ Distinct(q) => Distinct(RemoveAt(q, i))
           /\ Distinct(q) => \A x : In(RemoveAt(q, i), x) <=> In(q, x) /\ x # q[i]
<1> DEFINE l == SubSeq(q, 1, i - 1)
           r == SubSeq(q, i + 1, Len(q))
           t == RemoveAt(q, i)
<1>0. Len(q) \in Nat /\ \A j \in 1..Len(q) : q[j] \in S
  BY LenProperties, ElementOfSeq
<1>1. /\ l \in Seq(S) /\ Len(l) = i - 1
      /\ \A j \in 1..(i - 1) : l[j] = q[j]
  BY <1>0, SubSeqProperties
<1>2. /\ r \in Seq(S) /\ Len(r) = Len(q) - i
      /\ \A j \in 1..(Len(q) - i) : r[j] = q[i + j]
  BY <1>0, SubSeqProperties
<1>3. t = l \o r
  BY DEF RemoveAt
<1> HIDE DEF l, r, t
<1>4. /\ t \in Seq(S) /\ Len(t) = Len(q) - 1
      /\ \A j \in 1..(Len(q) - 1) : t[j] = IF j <= Len(l) THEN l[j] ELSE r[j - Len(l)]
  <2>1. /\ t \in Seq(S)
        /\ Len(t) = Len(l) + Len(r)
        /\ \A j \in 1..(Len(l) + Len(r)) : t[j] = IF j <= Len(l) THEN l[j] ELSE r[j - Len(l)]
    BY <1>1, <1>2, <1>3, ConcatProperties
  <2>2. Len(l) + Len(r) = Len(q) - 1
    BY <1>0, <1>1, <1>2
  <2> QED BY <2>1, <2>2
<1>5. ASSUME NEW j \in 1..(Len(q) - 1)
      PROVE  t[j] = IF j < i THEN q[j] ELSE q[j + 1]
  <2>1. CASE j < i
    BY <1>0, <1>1, <1>4, <2>1
  <2>2. CASE ~(j < i)
    <3>1. /\ j - Len(l) \in 1..(Len(q) - i)
          /\ i + (j - Len(l)) = j + 1
          /\ ~(j <= Len(l))
      BY <1>0, <1>1, <2>2
    <3> QED BY <1>2, <1>4, <2>2, <3>1
  <2> QED BY <2>1, <2>2
<1>6. Distinct(q) => Distinct(t)
  BY <1>0, <1>4, <1>5 DEF Distinct
<1>7. ASSUME Distinct(q), NEW x
      PROVE  In(t, x) <=> In(q, x) /\ x # q[i]
  <2>1. ASSUME In(t, x) PROVE In(q, x) /\ x # q[i]
    BY <1>0, <1>4, <1>5, <1>7, <2>1 DEF In, Distinct
  <2>2. ASSUME In(q, x), x # q[i] PROVE In(t, x)
    <3>1. PICK j \in 1..Len(q) : q[j] = x
      BY <2>2 DEF In
    <3>2. CASE j < i
      <4>1. j \in 1..(Len(q) - 1) /\ t[j] = x
        BY <1>5, <3>1, <3>2
      <4> QED BY <1>4, <4>1 DEF In
    <3>3. CASE j > i
      <4>1. j - 1 \in 1..(Len(q) - 1) /\ ~(j - 1 < i) /\ (j - 1) + 1 = j
        BY <3>3
      <4>2. t[j - 1] = x
        BY <1>5, <3>1, <4>1
      <4> QED BY <1>4, <4>1, <4>2 DEF In
    <3> QED BY <2>2, <3>1, <3>2, <3>3
  <2> QED BY <2>1, <2>2
<1> QED
  BY <1>4, <1>5, <1>6, <1>7 DEF t

\* Removing the head (the oldest evictable block) or the end (the last freed
\* block) of a sequence.
LEMMA TailFacts ==
    ASSUME NEW S, NEW q \in Seq(S), q # <<>>, Distinct(q)
    PROVE  /\ Tail(q) \in Seq(S)
           /\ Distinct(Tail(q))
           /\ Head(q) \in S
           /\ In(q, Head(q))
           /\ \A x : In(Tail(q), x) <=> In(q, x) /\ x # Head(q)
<1>1. /\ Tail(q) \in Seq(S) /\ Len(Tail(q)) = Len(q) - 1 /\ Len(q) \in Nat \ {0}
      /\ Head(q) = q[1]
      /\ \A j \in 1..(Len(q) - 1) : Tail(q)[j] = q[j + 1]
  BY HeadTailProperties, EmptySeq, LenProperties
<1> DEFINE t == Tail(q)
<1> HIDE DEF t
<1>2. Distinct(t)
  BY <1>1 DEF Distinct, t
<1>3. ASSUME NEW x PROVE In(t, x) <=> In(q, x) /\ x # q[1]
  <2>1. ASSUME In(t, x) PROVE In(q, x) /\ x # q[1]
    BY <1>1, <2>1 DEF In, Distinct, t
  <2>2. ASSUME In(q, x), x # q[1] PROVE In(t, x)
    <3>1. PICK j \in 1..Len(q) : q[j] = x
      BY <2>2 DEF In
    <3>2. j - 1 \in 1..(Len(q) - 1) /\ (j - 1) + 1 = j
      BY <1>1, <2>2, <3>1
    <3> QED BY <1>1, <3>1, <3>2 DEF In, t
  <2> QED BY <2>1, <2>2
<1> QED
  BY <1>1, <1>2, <1>3 DEF In, t

LEMMA FrontFacts ==
    ASSUME NEW S, NEW q \in Seq(S), q # <<>>, Distinct(q)
    PROVE  /\ Front(q) \in Seq(S)
           /\ Distinct(Front(q))
           /\ q[Len(q)] \in S
           /\ In(q, q[Len(q)])
           /\ \A x : In(Front(q), x) <=> In(q, x) /\ x # q[Len(q)]
<1>1. Len(q) \in Nat /\ Len(q) # 0
  BY EmptySeq, LenProperties
<1>2. Len(q) \in 1..Len(q)
  BY <1>1
<1>3. q[Len(q)] \in S /\ In(q, q[Len(q)])
  BY <1>2, ElementOfSeq DEF In
<1>4. SubSeq(q, 1, Len(q) - 1) \in Seq(S)
  <2>1. \A j \in 1..(Len(q) - 1) : q[j] \in S
    BY <1>1, ElementOfSeq
  <2>2. Len(q) - 1 \in Int
    BY <1>1
  <2> QED BY <2>1, <2>2, SubSeqProperties
<1>5. SubSeq(q, Len(q) + 1, Len(q)) = <<>>
  BY <1>1, SubSeqEmpty
<1>6. Front(q) = RemoveAt(q, Len(q))
  BY <1>4, <1>5, ConcatEmptySeq DEF Front, RemoveAt
<1> QED
  BY <1>2, <1>3, <1>6, RemoveAtFacts

\* Replacing one element by one that is not there.
LEMMA SwapFacts ==
    ASSUME NEW S, NEW q \in Seq(S), NEW k \in 1..Len(q), NEW c \in S,
           Distinct(q), ~In(q, c)
    PROVE  /\ [q EXCEPT ![k] = c] \in Seq(S)
           /\ Len([q EXCEPT ![k] = c]) = Len(q)
           /\ Distinct([q EXCEPT ![k] = c])
           /\ \A x : In([q EXCEPT ![k] = c], x) <=> (In(q, x) /\ x # q[k]) \/ x = c
<1> DEFINE t == [q EXCEPT ![k] = c]
<1>1. /\ t \in Seq(S) /\ Len(t) = Len(q)
      /\ \A j \in 1..Len(q) : t[j] = IF j = k THEN c ELSE q[j]
  BY ExceptSeq
<1> HIDE DEF t
<1>2. Distinct(t)
  BY <1>1 DEF Distinct, In
<1>3. \A x : In(t, x) <=> (In(q, x) /\ x # q[k]) \/ x = c
  BY <1>1 DEF Distinct, In
<1> QED
  BY <1>1, <1>2, <1>3 DEF t

-----------------------------------------------------------------------------
(* Blocks and positions.                                                   *)

\* k full blocks fit in n positions exactly when n \div BlockSize reaches k.
LEMMA FullBlocks ==
    ASSUME NEW n \in Nat, NEW k \in Nat
    PROVE  /\ n \div BlockSize \in Nat
           /\ k <= n \div BlockSize <=> k * BlockSize <= n
<1> DEFINE d == n \div BlockSize
           m == n % BlockSize
<1>1. BlockSize \in Nat /\ BlockSize > 0
  BY PagedKVAssumption
<1>2. d \in Nat /\ m \in Nat /\ n = BlockSize * d + m /\ m < BlockSize
  BY <1>1
<1> HIDE DEF d, m
<1>3. CASE k <= d
  <2>1. k * BlockSize <= BlockSize * d
    BY <1>1, <1>2, <1>3
  <2> QED BY <1>1, <1>2, <1>3, <2>1
<1>4. CASE ~(k <= d)
  <2>1. k >= d + 1
    BY <1>2, <1>4
  <2>2. k * BlockSize >= (d + 1) * BlockSize
    BY <1>1, <1>2, <2>1
  <2>3. (d + 1) * BlockSize = BlockSize * d + BlockSize
    BY <1>1, <1>2
  <2>4. k * BlockSize \in Nat /\ BlockSize * d \in Nat
    BY <1>1, <1>2
  <2> QED BY <1>1, <1>2, <1>4, <2>2, <2>3, <2>4
<1> QED
  BY <1>2, <1>3, <1>4 DEF d

\* BlocksFor(n) is the least number of blocks that holds n positions.
LEMMA BlocksForIsLeast ==
    ASSUME NEW n \in Nat, NEW k \in Nat
    PROVE  /\ BlocksFor(n) \in Nat
           /\ BlocksFor(n) <= k <=> n <= k * BlockSize
<1> DEFINE N == n + BlockSize - 1
           d == N \div BlockSize
<1>1. BlockSize \in Nat /\ BlockSize > 0 /\ N \in Nat /\ k + 1 \in Nat
  BY PagedKVAssumption
<1>2. d \in Nat /\ (k + 1 <= d <=> (k + 1) * BlockSize <= N)
  BY <1>1, FullBlocks
<1>3. (k + 1) * BlockSize = k * BlockSize + BlockSize /\ k * BlockSize \in Nat
  BY <1>1
<1>4. (k + 1) * BlockSize <= N <=> k * BlockSize + 1 <= n
  BY <1>1, <1>3
<1>5. d <= k <=> n <= k * BlockSize
  BY <1>1, <1>2, <1>3, <1>4
<1> QED
  BY <1>2, <1>5 DEF BlocksFor

\* Blocks that hold at least k full ones are at least k.
LEMMA FullBlocksBound ==
    ASSUME NEW n \in Nat, NEW k \in Nat, k * BlockSize <= n
    PROVE  k <= BlocksFor(n)
<1>1. BlockSize \in Nat /\ BlockSize > 0 /\ BlocksFor(n) \in Nat
      /\ n <= BlocksFor(n) * BlockSize
  BY PagedKVAssumption, BlocksForIsLeast
<1> DEFINE m == BlocksFor(n)
<1> HIDE DEF m
<1>2. m \in Nat /\ k * BlockSize <= m * BlockSize
  BY <1>1 DEF m
<1>3. SUFFICES ASSUME m + 1 <= k PROVE FALSE
  BY <1>2 DEF m
<1>4. (m + 1) * BlockSize <= k * BlockSize
  BY <1>1, <1>2, <1>3
<1>5. (m + 1) * BlockSize = m * BlockSize + BlockSize /\ m * BlockSize \in Nat
      /\ k * BlockSize \in Nat
  BY <1>1, <1>2
<1> QED
  BY <1>1, <1>2, <1>4, <1>5

-----------------------------------------------------------------------------
(* Facts about a state that satisfies the invariant.                       *)

LEMMA Elements ==
    ASSUME NEW S, NEW q \in Seq(S)
    PROVE  /\ \A x : x \in ToSet(q) <=> In(q, x)
           /\ ToSet(q) \subseteq S
           /\ \A i \in 1..Len(q) : q[i] \in ToSet(q) /\ q[i] \in S
<1>1. Len(q) \in Nat /\ DOMAIN q = 1..Len(q)
      /\ \A i \in 1..Len(q) : q[i] \in S
  BY LenProperties, ElementOfSeq
<1> QED
  BY <1>1 DEF ToSet, In

\* Chain keys of different lengths differ.
LEMMA ChainKeyFacts ==
    ASSUME NEW p \in Seq(Token), NEW k \in Nat, k * BlockSize <= Len(p)
    PROVE  /\ ChainKey(p, k) \in Seq(Token)
           /\ Len(ChainKey(p, k)) = k * BlockSize
           /\ ChainKey(p, k) # None
<1> DEFINE n == k * BlockSize
<1>1. n \in Nat /\ Len(p) \in Nat /\ n <= Len(p)
  BY PagedKVAssumption
<1> HIDE DEF n
<1>2. 1 \in Int /\ n \in Int /\ \A i \in 1..n : p[i] \in Token
  BY <1>1, ElementOfSeq
<1>3. /\ SubSeq(p, 1, n) \in Seq(Token)
      /\ Len(SubSeq(p, 1, n)) = IF 1 <= n THEN n - 1 + 1 ELSE 0
  BY <1>2, SubSeqProperties
<1>4. Len(SubSeq(p, 1, n)) = n
  BY <1>1, <1>3
<1> QED
  BY <1>3, <1>4, PagedKVAssumption DEF ChainKey, n

LEMMA ChainKeyInjective ==
    ASSUME NEW p \in Seq(Token), NEW j \in Nat, NEW k \in Nat, j < k,
           k * BlockSize <= Len(p)
    PROVE  ChainKey(p, j) # ChainKey(p, k)
<1>1. BlockSize \in Nat /\ BlockSize > 0 /\ Len(p) \in Nat
  BY PagedKVAssumption
<1>2. j * BlockSize < k * BlockSize /\ j * BlockSize \in Nat /\ k * BlockSize \in Nat
  BY <1>1
<1>3. j * BlockSize <= Len(p)
  BY <1>1, <1>2
<1>4. Len(ChainKey(p, j)) = j * BlockSize /\ Len(ChainKey(p, k)) = k * BlockSize
  BY <1>3, ChainKeyFacts
<1> QED
  BY <1>2, <1>4

\* The key a publication computes is the chain key of the next block.
LEMMA NextKeyIsChainKey ==
    ASSUME NEW s \in Slot, prompt[s] \in Seq(Token), published[s] \in Nat,
           parent[s] = ChainKey(prompt[s], published[s]),
           (published[s] + 1) * BlockSize <= Len(prompt[s])
    PROVE  NextKey(s) = ChainKey(prompt[s], published[s] + 1)
<1> DEFINE n == published[s] * BlockSize
           m == (published[s] + 1) * BlockSize
<1>1. n \in Nat /\ m \in Nat /\ n <= m /\ m <= Len(prompt[s]) /\ Len(prompt[s]) \in Nat
  BY PagedKVAssumption
<1> HIDE DEF n, m
<1>2. 1 \in 1..Len(prompt[s]) + 1 /\ n \in (1 - 1)..Len(prompt[s]) /\ m \in n..Len(prompt[s])
  BY <1>1
<1>3. SubSeq(prompt[s], 1, n) \o SubSeq(prompt[s], n + 1, m) = SubSeq(prompt[s], 1, m)
  BY <1>2, ConcatAdjacentSubSeq
<1> QED
  BY <1>3 DEF NextKey, ChainKey, n, m

\* The holders of a block are finitely many; one more or one less counts one.
LEMMA HolderCounts ==
    ASSUME NEW b \in Block, NEW s \in Slot
    PROVE  /\ IsFiniteSet(Holders(b)) /\ Cardinality(Holders(b)) \in Nat
           /\ s \notin Holders(b) =>
                Cardinality(Holders(b) \cup {s}) = Cardinality(Holders(b)) + 1
           /\ s \in Holders(b) =>
                /\ Cardinality(Holders(b)) >= 1
                /\ Cardinality(Holders(b) \ {s}) = Cardinality(Holders(b)) - 1
           /\ Cardinality(Holders(b)) = 0 <=> Holders(b) = {}
<1>1. IsFiniteSet(Holders(b))
  BY PagedKVAssumption, FS_Subset DEF Holders
<1> DEFINE H == Holders(b)
<1> HIDE DEF H
<1>2. IsFiniteSet(H) /\ Cardinality(H) \in Nat
  BY <1>1, FS_CardinalityType DEF H
<1>3. ASSUME s \notin H PROVE Cardinality(H \cup {s}) = Cardinality(H) + 1
  BY <1>2, <1>3, FS_AddElement
<1>4. Cardinality(H) = 0 <=> H = {}
  BY <1>2, FS_EmptySet
<1>5. ASSUME s \in H
      PROVE  Cardinality(H) >= 1 /\ Cardinality(H \ {s}) = Cardinality(H) - 1
  <2>1. Cardinality(H \ {s}) = Cardinality(H) - 1
    BY <1>2, <1>5, FS_RemoveElement
  <2>2. H # {}
    BY <1>5
  <2> QED BY <1>2, <1>4, <2>1, <2>2
<1> QED
  BY <1>2, <1>3, <1>4, <1>5 DEF H

\* Steps that touch neither the pool nor a table keep every block in its place.
LEMMA SamePlaces ==
    ASSUME BlockOwnership, RefCountsExact, UNCHANGED <<pool, blocks>>
    PROVE  BlockOwnership' /\ RefCountsExact'
<1>1. \A b : Holders(b)' = Holders(b) /\ IsCached(b)' = IsCached(b)
  BY DEF Holders, In, IsCached, pool
<1> QED
  BY <1>1 DEF BlockOwnership, RefCountsExact, Distinct, In, pool

-----------------------------------------------------------------------------
(* Every action preserves the invariant.  First the actions that move no     *)
(* block.                                                                  *)

LEMMA AddRequestSlotInv ==
    ASSUME IInv, NEW s \in Slot, NEW p \in Prompt, AddRequestSlot(s, p)
    PROVE  IInv'
<1> USE DEF IInv
<1>1. p \in Seq(Token) /\ Len(p) \in Nat
  BY PagedKVAssumption
<1>2. PICK n \in Matches(p) : goal' = UsableMatches(p, n)
  BY DEF AddRequestSlot
<1>3. n \in Nat /\ n * BlockSize <= Len(p)
  <2>1. Len(p) \div BlockSize \in Nat /\ n \in 0..(Len(p) \div BlockSize)
    BY <1>1, FullBlocks DEF Matches
  <2> QED BY <1>1, <2>1, FullBlocks
<1>4. goal' \in Nat /\ goal' * BlockSize <= Len(p)
  <2>1. CASE goal' = n
    BY <1>3, <2>1
  <2>2. CASE goal' = n - 1 /\ n > 0
    BY <1>1, <1>3, <2>2, PagedKVAssumption
  <2> QED BY <1>2, <1>3, <2>1, <2>2 DEF UsableMatches
<1>5. s \notin ToSet(batch) /\ ~In(batch, s)
  BY Elements DEF TypeOK, AddRequestSlot, Live
<1>6. batch' \in Seq(Slot) /\ Distinct(batch') /\ ToSet(batch') = ToSet(batch) \cup {s}
  <2>1. batch' = Append(batch, s)
    BY DEF AddRequestSlot
  <2>2. /\ batch' \in Seq(Slot) /\ Distinct(batch')
        /\ \A x : In(batch', x) <=> In(batch, x) \/ x = s
    BY <1>5, <2>1, AppendFacts DEF TypeOK
  <2> QED BY <2>2, Elements DEF TypeOK
<1>7. Live' = Live \cup {s} /\ s \notin Live
  BY <1>5, <1>6 DEF Live
<1>8. /\ blocks[s] = <<>> /\ published[s] = 0 /\ len[s] = 0 /\ snapshot[s] = 0
      /\ parent[s] = <<>> /\ Len(blocks[s]) = 0 /\ 0 * BlockSize = 0
  BY <1>7, PagedKVAssumption DEF ClosedSlots, AddRequestSlot
<1>9. ChainKey(p, 0) = <<>>
  BY PagedKVAssumption, SubSeqEmpty DEF ChainKey
<1>10. TypeOK'
  BY <1>1, <1>4, <1>6 DEF TypeOK, AddRequestSlot, pool
<1>11. BlockOwnership' /\ RefCountsExact'
  BY SamePlaces DEF AddRequestSlot
<1>12. PublishedPrefix'
  <2> SUFFICES ASSUME NEW x \in Live'
               PROVE  /\ published'[x] * BlockSize <= snapshot'[x]
                      /\ parent'[x] = ChainKey(prompt'[x], published'[x])
                      /\ \A k \in 1..Len(blocks'[x]) :
                           key'[blocks'[x][k]] = IF k <= published'[x]
                                                 THEN ChainKey(prompt'[x], k) ELSE None
    BY DEF PublishedPrefix, ChainKey
  <2>1. UNCHANGED <<key, blocks, published, snapshot, parent>>
    BY DEF AddRequestSlot, pool
  <2>2. CASE x = s
    <3>1. prompt'[x] = p
      BY <2>2 DEF AddRequestSlot, TypeOK
    <3> QED BY <1>8, <1>9, <2>1, <2>2, <3>1
  <2>3. CASE x # s
    <3>1. x \in Live /\ prompt'[x] = prompt[x]
      BY <1>7, <2>3 DEF AddRequestSlot, TypeOK
    <3> QED BY <2>1, <3>1 DEF PublishedPrefix
  <2> QED BY <2>2, <2>3
<1>13. ClosedSlots'
  BY <1>7 DEF ClosedSlots, AddRequestSlot
<1>14. Filled'
  BY <1>1, <1>7, <1>8 DEF Filled, AddRequestSlot, TypeOK
<1>15. Cursors'
  BY <1>4, <1>7, <1>8 DEF Cursors, AddRequestSlot, TypeOK
<1> QED
  BY <1>6, <1>10, <1>11, <1>12, <1>13, <1>14, <1>15
\* Steps that leave pool, batch and tables alone and do not shorten a snapshot
\* below the published blocks.

LEMMA SameTables ==
    ASSUME IInv, UNCHANGED <<pool, batch, prompt, blocks, published, parent>>,
           \A s \in Live : published[s] * BlockSize <= snapshot'[s]
    PROVE  /\ BlockOwnership' /\ RefCountsExact' /\ PublishedPrefix' /\ Distinct(batch)'
           /\ Live' = Live
<1>1. Live' = Live /\ Distinct(batch)'
  BY DEF IInv, Live, Distinct
<1>2. BlockOwnership' /\ RefCountsExact'
  BY SamePlaces DEF IInv
<1>3. PublishedPrefix'
  BY <1>1 DEF IInv, PublishedPrefix, ChainKey, pool
<1> QED
  BY <1>1, <1>2, <1>3

\* The typing of such a step is that of its counters and its control state.
LEMMA TypeStep ==
    ASSUME TypeOK, UNCHANGED <<pool, content, batch, prompt, blocks, published, parent>>,
           len' \in [Slot -> Nat], snapshot' \in [Slot -> Nat], need' \in [Slot -> Nat],
           pc' \in {"idle", "hit", "reserve", "write", "publish", "free", "rollback"},
           cur' \in Nat \ {0}, busy' \in {None} \cup Slot, goal' \in Nat
    PROVE  TypeOK'
  BY DEF TypeOK, pool

LEMMA SlotReadyInv == ASSUME IInv, SlotReady PROVE IInv'
<1> USE DEF IInv
<1>1. \A s \in Live : published[s] * BlockSize <= snapshot'[s]
  BY DEF Filled, SlotReady
<1>2. /\ BlockOwnership' /\ RefCountsExact' /\ PublishedPrefix' /\ Distinct(batch)'
      /\ Live' = Live
  BY <1>1, SameTables DEF SlotReady, tables
<1>3. TypeOK'
  BY DEF TypeOK, SlotReady, pool, tables
<1>4. ClosedSlots' /\ Filled' /\ Cursors'
  BY <1>2 DEF ClosedSlots, Filled, Cursors, SlotReady, tables
<1> QED
  BY <1>2, <1>3, <1>4

LEMMA BeginStepInv == ASSUME IInv, BeginStep PROVE IInv'
<1> USE DEF IInv
<1>1. \A s \in Live : published[s] * BlockSize <= snapshot'[s]
  BY DEF Filled, BeginStep
<1>2. /\ BlockOwnership' /\ RefCountsExact' /\ PublishedPrefix' /\ Distinct(batch)'
      /\ Live' = Live
  BY <1>1, SameTables DEF BeginStep, tables
<1>3. TypeOK'
  <2>1. PICK n \in [Slot -> 0..MaxChunk] : need' = n
    BY DEF BeginStep
  <2>2. need' \in [Slot -> Nat]
    BY <2>1, PagedKVAssumption
  <2>3. /\ pc' = "reserve" /\ cur' = 1
        /\ UNCHANGED <<free_list, key, ref, evictable, content, batch, prompt, blocks, len,
                       published, parent, busy, goal, snapshot>>
    BY DEF BeginStep, pool, tables
  <2> QED BY <2>2, <2>3 DEF TypeOK
<1>4. 1 \in 1..Len(batch)
  <2>1. PICK n \in [Slot -> 0..MaxChunk], s \in Slot : n[s] \in ChunkSizes(s) /\ n[s] > 0
    BY DEF BeginStep
  <2>2. s \in Live
    BY <2>1 DEF ChunkSizes
  <2>3. In(batch, s) /\ Len(batch) \in Nat
    BY <2>2, Elements, LenProperties DEF Live, TypeOK
  <2> QED BY <2>3 DEF In
<1>5. ClosedSlots' /\ Filled' /\ Cursors'
  BY <1>2, <1>4 DEF ClosedSlots, Filled, Cursors, BeginStep, tables
<1> QED
  BY <1>2, <1>3, <1>5

LEMMA AdvanceSlotInv == ASSUME IInv, AdvanceSlot PROVE IInv'
<1> USE DEF IInv
<1> DEFINE c == batch[cur]
<1>1. \A s \in Live : published[s] * BlockSize <= snapshot'[s]
  BY DEF Filled, AdvanceSlot
<1>2. /\ BlockOwnership' /\ RefCountsExact' /\ PublishedPrefix' /\ Distinct(batch)'
      /\ Live' = Live
  BY <1>1, SameTables DEF AdvanceSlot
<1>3. c \in Slot /\ c \in Live
  BY Elements DEF AdvanceSlot, Cursors, TypeOK, Live
<1>4. /\ len[c] \in Nat /\ need[c] \in Nat /\ NewTotal(c) \in Nat
      /\ len' = [len EXCEPT ![c] = NewTotal(c)] /\ Len(blocks[c]) \in Nat
  <2>1. len[c] \in Nat /\ need[c] \in Nat /\ blocks[c] \in Seq(Block)
    BY <1>3 DEF TypeOK
  <2>2. len' = [len EXCEPT ![c] = NewTotal(c)]
    BY DEF AdvanceSlot
  <2> HIDE DEF c
  <2> QED BY <2>1, <2>2, LenProperties DEF NewTotal
<1>5. TypeOK'
  <2>1. len' \in [Slot -> Nat]
    BY <1>3, <1>4 DEF TypeOK
  <2>2. /\ cur' \in Nat \ {0}
        /\ pc' \in {"idle", "hit", "reserve", "write", "publish", "free", "rollback"}
    <3>1. (cur' = cur + 1 /\ pc' = pc) \/ (cur' = 1 /\ pc' = "write")
      BY Zenon DEF AdvanceSlot
    <3> QED BY <3>1 DEF TypeOK
  <2>3. /\ UNCHANGED <<pool, content, batch, prompt, blocks, published, parent>>
        /\ UNCHANGED <<busy, goal, need, snapshot>>
    BY DEF AdvanceSlot
  <2> QED BY <2>1, <2>2, <2>3, TypeStep DEF TypeOK
<1>6. NewTotal(c) <= Len(blocks[c]) * BlockSize
  <2>1. CASE need[c] = 0
    BY <1>3, <1>4, <2>1 DEF NewTotal, Filled
  <2>2. CASE need[c] # 0
    <3>1. ~(Len(blocks[c]) < BlocksFor(NewTotal(c)))
      BY <1>4, <2>2 DEF AdvanceSlot, NeedsBlock
    <3> QED BY <1>4, <3>1, BlocksForIsLeast
  <2> QED BY <2>1, <2>2
<1>7. \A s \in Slot : len'[s] = IF s = c THEN NewTotal(c) ELSE len[s]
  BY <1>4 DEF TypeOK
<1>8. Filled'
  <2> SUFFICES ASSUME NEW s \in Live
               PROVE  /\ published[s] <= Len(blocks[s])
                      /\ published[s] * BlockSize <= snapshot[s]
                      /\ published[s] * BlockSize <= Len(prompt[s])
                      /\ snapshot[s] <= len'[s]
                      /\ len'[s] <= Len(blocks[s]) * BlockSize
    BY <1>2 DEF Filled, AdvanceSlot
  <2>1. s \in Slot /\ snapshot[s] \in Nat /\ len[s] \in Nat
    BY Elements DEF Live, TypeOK
  <2>2. snapshot[s] <= len'[s]
    BY <1>4, <1>7, <2>1 DEF Filled, NewTotal
  <2>3. len'[s] <= Len(blocks[s]) * BlockSize
    BY <1>6, <1>7, <2>1 DEF Filled
  <2> QED BY <2>2, <2>3 DEF Filled
<1>9. ClosedSlots'
  BY <1>2, <1>3, <1>7 DEF ClosedSlots, AdvanceSlot
<1>10. Cursors'
  <2>1. Len(batch) \in Nat /\ cur \in 1..Len(batch)
    BY DEF TypeOK, Cursors, AdvanceSlot
  <2> QED BY <1>2, <2>1 DEF Cursors, AdvanceSlot
<1> QED
  BY <1>2, <1>5, <1>8, <1>9, <1>10

LEMMA ReserveFailsInv == ASSUME IInv, ReserveFails PROVE IInv'
<1> USE DEF IInv
<1>1. \A s \in Live : published[s] * BlockSize <= snapshot'[s]
  BY DEF Filled, ReserveFails
<1>2. /\ BlockOwnership' /\ RefCountsExact' /\ PublishedPrefix' /\ Distinct(batch)'
      /\ Live' = Live
  BY <1>1, SameTables DEF ReserveFails, tables
<1>3. TypeOK'
  <2>1. /\ cur' \in Nat \ {0}
        /\ pc' \in {"idle", "hit", "reserve", "write", "publish", "free", "rollback"}
    BY DEF TypeOK, ReserveFails
  <2>2. /\ UNCHANGED <<pool, content, batch, prompt, blocks, len, published, parent>>
        /\ UNCHANGED <<busy, goal, need, snapshot>>
    BY DEF ReserveFails, tables
  <2> QED BY <2>1, <2>2, TypeStep DEF TypeOK
<1>4. 1 \in 1..Len(batch)
  BY DEF TypeOK, Cursors, ReserveFails
<1>5. ClosedSlots'
  BY <1>2 DEF ClosedSlots, ReserveFails, tables
<1>6. Filled'
  BY <1>2 DEF Filled, ReserveFails, tables
<1>7. Cursors'
  BY <1>2, <1>4 DEF Cursors, ReserveFails, tables
<1> QED
  BY <1>2, <1>3, <1>5, <1>6, <1>7

LEMMA PublishSlotDoneInv == ASSUME IInv, PublishSlotDone PROVE IInv'
<1> USE DEF IInv
<1>1. \A s \in Live : published[s] * BlockSize <= snapshot'[s]
  BY DEF Filled, PublishSlotDone
<1>2. /\ BlockOwnership' /\ RefCountsExact' /\ PublishedPrefix' /\ Distinct(batch)'
      /\ Live' = Live
  BY <1>1, SameTables DEF PublishSlotDone, tables
<1>3. TypeOK'
  <2>1. /\ cur' \in Nat \ {0}
        /\ pc' \in {"idle", "hit", "reserve", "write", "publish", "free", "rollback"}
    <3>1. (cur' = cur + 1 /\ pc' = pc) \/ (cur' = 1 /\ pc' = "idle")
      BY Zenon DEF PublishSlotDone
    <3> QED BY <3>1 DEF TypeOK
  <2>2. /\ UNCHANGED <<pool, content, batch, prompt, blocks, len, published, parent>>
        /\ UNCHANGED <<busy, goal, need, snapshot>>
    BY DEF PublishSlotDone, tables
  <2> QED BY <2>1, <2>2, TypeStep DEF TypeOK
<1>4. cur \in 1..Len(batch) /\ Len(batch) \in Nat
  BY DEF TypeOK, Cursors, PublishSlotDone
<1>5. ClosedSlots'
  BY <1>2 DEF ClosedSlots, PublishSlotDone, tables
<1>6. Filled'
  BY <1>2 DEF Filled, PublishSlotDone, tables
<1>7. Cursors'
  BY <1>2, <1>4 DEF Cursors, PublishSlotDone, tables
<1> QED
  BY <1>2, <1>3, <1>5, <1>6, <1>7
\* What the forward writes is a sequence of tokens: it extends the K/V a slot
\* reads through its own table.
LEMMA ComputedType ==
    ASSUME IInv, NEW s \in Live, NEW i \in Nat, snapshot[s] < i,
           NEW gen \in [Slot -> Sampled]
    PROVE  Computed(s, i, gen) \in Seq(Token)
<1> DEFINE n == snapshot[s]
           base == IF n = 0 THEN <<>> ELSE content[Address(s, n)]
           token(j) == IF j <= Len(prompt[s]) THEN prompt[s][j] ELSE gen[s]
           tail == [j \in 1..(i - n) |-> token(n + j)]
<1>1. /\ s \in Slot /\ n \in Nat /\ len[s] \in Nat /\ prompt[s] \in Seq(Token)
      /\ blocks[s] \in Seq(Block) /\ Len(blocks[s]) \in Nat /\ Len(prompt[s]) \in Nat
  BY Elements, LenProperties DEF Live, TypeOK, IInv
<1>2. base \in Seq(Token)
  <2>1. CASE n = 0
    BY <2>1, EmptySeq
  <2>2. CASE n # 0
    <3> DEFINE q == (n - 1) \div BlockSize
               r == (n - 1) % BlockSize
    <3>1. n - 1 \in Nat /\ BlockSize \in Nat /\ BlockSize > 0
      BY <1>1, <2>2, PagedKVAssumption
    <3>2. q \in Nat /\ r \in 0..BlockSize - 1
      BY <3>1
    <3>4. n <= Len(blocks[s]) * BlockSize
      <4>1. n <= len[s] /\ len[s] <= Len(blocks[s]) * BlockSize
        BY DEF IInv, Filled
      <4>2. Len(blocks[s]) * BlockSize \in Nat
        BY <1>1, <3>1
      <4> QED BY <1>1, <4>1, <4>2
    <3>5. q < Len(blocks[s])
      <4> DEFINE L == Len(blocks[s])
      <4>1. L \in Nat /\ L * BlockSize \in Nat /\ n <= L * BlockSize
        BY <1>1, <3>1, <3>4
      <4> HIDE DEF L, n
      <4>2. L <= q <=> L * BlockSize <= n - 1
        BY <3>1, <4>1, FullBlocks
      <4>3. ~(L * BlockSize <= n - 1)
        BY <1>1, <4>1
      <4> HIDE DEF q
      <4> QED BY <3>2, <4>1, <4>2, <4>3 DEF L
    <3>6. blocks[s][q + 1] \in Block
      <4> HIDE DEF q
      <4>1. q + 1 \in 1..Len(blocks[s])
        BY <1>1, <3>2, <3>5
      <4> QED BY <1>1, <4>1, ElementOfSeq
    <3>7. Address(s, n) = <<blocks[s][q + 1], r>>
      BY DEF Address
    <3> HIDE DEF q, r
    <3>8. content[Address(s, n)] \in Seq(Token)
      BY <3>2, <3>6, <3>7 DEF IInv, TypeOK
    <3> QED BY <2>2, <3>8
  <2> QED BY <2>1, <2>2
<1>3. tail \in Seq(Token)
  <2>1. \A j \in 1..(i - n) : token(n + j) \in Token
    <3> TAKE j \in 1..(i - n)
    <3>1. gen[s] \in Token
      BY <1>1, PagedKVAssumption
    <3>2. n + j <= Len(prompt[s]) => prompt[s][n + j] \in Token
      BY <1>1, ElementOfSeq
    <3> QED BY <3>1, <3>2
  <2>2. i - n \in Nat
    BY <1>1
  <2> HIDE DEF token
  <2> QED BY <2>1, <2>2, IsASeq
<1>4. Computed(s, i, gen) = base \o tail
  BY DEF Computed
<1> HIDE DEF base, tail
<1> QED
  BY <1>2, <1>3, <1>4, ConcatProperties
LEMMA WriteKVInv == ASSUME IInv, WriteKV PROVE IInv'
<1> USE DEF IInv
<1>1. \A s \in Live : s \in Slot /\ snapshot[s] \in Nat /\ len[s] \in Nat
                      /\ published[s] * BlockSize \in Nat
  BY Elements, PagedKVAssumption DEF Live, TypeOK
<1>2. /\ snapshot' = len /\ len' = len /\ need' = NoTokens /\ pc = "write" /\ pc' = "publish"
      /\ UNCHANGED <<pool, batch, prompt, blocks, published, parent, cur, busy, goal>>
  BY DEF WriteKV, tables
<1>3. \A s \in Live : published[s] * BlockSize <= snapshot'[s]
  BY <1>1, <1>2 DEF Filled
<1>4. /\ BlockOwnership' /\ RefCountsExact' /\ PublishedPrefix' /\ Distinct(batch)'
      /\ Live' = Live
  BY <1>2, <1>3, SameTables
<1>5. content' \in [Block \X (0..BlockSize - 1) -> Seq(Token)]
  <2>1. PICK gen \in [Slot -> Sampled] :
           LET written == UNION {{s} \X (snapshot[s] + 1..len[s]) : s \in Live}
               at(x) == {w \in written : Address(w[1], w[2]) = x}
           IN content' = [x \in DOMAIN content |->
                             IF at(x) = {} THEN content[x]
                             ELSE LET w == CHOOSE w \in at(x) : TRUE
                                  IN Computed(w[1], w[2], gen)]
    BY DEF WriteKV
  <2> DEFINE written == UNION {{s} \X (snapshot[s] + 1..len[s]) : s \in Live}
             at(x) == {w \in written : Address(w[1], w[2]) = x}
             w(x) == CHOOSE v \in at(x) : TRUE
             new(x) == IF at(x) = {} THEN content[x] ELSE Computed(w(x)[1], w(x)[2], gen)
  <2>2. content' = [x \in DOMAIN content |-> new(x)]
    BY <2>1
  <2>3. \A x \in DOMAIN content : new(x) \in Seq(Token)
    <3> TAKE x \in DOMAIN content
    <3>1. CASE at(x) = {}
      BY <3>1 DEF TypeOK
    <3>2. CASE at(x) # {}
      <4>1. w(x) \in at(x)
        BY <3>2
      <4>2. w(x)[1] \in Live /\ w(x)[2] \in Nat /\ snapshot[w(x)[1]] < w(x)[2]
        <5>1. w(x) \in written
          BY <4>1
        <5> HIDE DEF w
        <5>2. PICK s \in Live : w(x) \in {s} \X (snapshot[s] + 1..len[s])
          BY <5>1
        <5>3. w(x)[1] = s /\ w(x)[2] \in snapshot[s] + 1..len[s]
          BY <5>2
        <5> QED BY <1>1, <5>3
      <4>3. Computed(w(x)[1], w(x)[2], gen) \in Seq(Token)
        BY <4>2, ComputedType
      <4> QED BY <3>2, <4>3
    <3> QED BY <3>1, <3>2
  <2>4. DOMAIN content = Block \X (0..BlockSize - 1)
    BY DEF TypeOK
  <2> HIDE DEF new
  <2> QED BY <2>2, <2>3, <2>4
<1>6. TypeOK'
  BY <1>2, <1>5 DEF TypeOK, NoTokens, pool
<1>7. ClosedSlots'
  BY <1>2, <1>4 DEF ClosedSlots
<1>8. Filled'
  BY <1>1, <1>2, <1>3, <1>4 DEF Filled
<1>9. Cursors'
  BY <1>2, <1>4 DEF Cursors
<1> QED
  BY <1>4, <1>6, <1>7, <1>8, <1>9

LEMMA TruncateToInv ==
    ASSUME IInv, NEW s \in Live, NEW n \in 0..MaxLen, TruncateTo(s, n)
    PROVE  IInv'
<1> USE DEF IInv
<1>1. /\ s \in Slot /\ n \in Nat /\ len[s] \in Nat /\ published[s] \in Nat
      /\ Len(blocks[s]) \in Nat
  BY Elements, LenProperties, PagedKVAssumption DEF Live, TypeOK
<1>2. /\ pc' = "free" /\ busy' = s /\ goal' = BlocksFor(n) /\ n < len[s]
      /\ published[s] * BlockSize <= n /\ pc = "idle"
      /\ UNCHANGED <<pool, content, batch, prompt, blocks, published, parent, cur, need>>
  BY <1>1, PagedKVAssumption DEF TruncateTo
<1>3. /\ \A x \in Slot : len'[x] = IF x = s THEN n ELSE len[x]
      /\ \A x \in Slot : snapshot'[x] = IF x = s THEN n ELSE snapshot[x]
      /\ len' \in [Slot -> Nat] /\ snapshot' \in [Slot -> Nat]
  BY <1>1 DEF TruncateTo, TypeOK
<1>4. \A x \in Live : published[x] * BlockSize <= snapshot'[x]
  BY <1>2, <1>3, Elements DEF Filled, Live, TypeOK
<1>5. /\ BlockOwnership' /\ RefCountsExact' /\ PublishedPrefix' /\ Distinct(batch)'
      /\ Live' = Live
  BY <1>2, <1>4, SameTables
<1>6. /\ BlocksFor(n) \in Nat
      /\ published[s] <= BlocksFor(n)
      /\ n <= BlocksFor(n) * BlockSize
  <2>1. BlocksFor(n) \in Nat
    BY <1>1, BlocksForIsLeast
  <2>2. n <= BlocksFor(n) * BlockSize
    BY <1>1, <2>1, BlocksForIsLeast
  <2>3. published[s] <= BlocksFor(n)
    BY <1>1, <1>2, <2>1, <2>2, FullBlocksBound
  <2> QED BY <2>1, <2>2, <2>3
<1>7. TypeOK'
  BY <1>1, <1>2, <1>3, <1>6, TypeStep DEF TypeOK
<1>8. ClosedSlots'
  BY <1>2, <1>3, <1>5 DEF ClosedSlots
<1>9. Filled'
  <2> SUFFICES ASSUME NEW x \in Live
               PROVE  /\ published[x] <= Len(blocks[x])
                      /\ published[x] * BlockSize <= snapshot'[x]
                      /\ published[x] * BlockSize <= Len(prompt[x])
                      /\ snapshot'[x] <= len'[x]
                      /\ len'[x] <= Len(blocks[x]) * BlockSize
    BY <1>2, <1>5 DEF Filled
  <2>1. x \in Slot
    BY Elements DEF Live, TypeOK
  <2>2. CASE x = s
    <3>1. len[s] <= Len(blocks[s]) * BlockSize /\ Len(blocks[s]) * BlockSize \in Nat
      BY <1>1, PagedKVAssumption DEF Filled
    <3> QED BY <1>1, <1>2, <1>3, <2>2, <3>1 DEF Filled
  <2>3. CASE x # s
    BY <1>3, <2>1, <2>3 DEF Filled
  <2> QED BY <2>2, <2>3
<1>10. Cursors'
  BY <1>1, <1>2, <1>3, <1>5, <1>6 DEF Cursors
<1> QED
  BY <1>5, <1>7, <1>8, <1>9, <1>10
LEMMA RollbackSlotInv == ASSUME IInv, RollbackSlot PROVE IInv'
<1> USE DEF IInv
<1> DEFINE s == batch[cur]
<1>1. s \in Live /\ s \in Slot
  BY Elements DEF RollbackSlot, Cursors, TypeOK, Live
<1>2. /\ len[s] \in Nat /\ snapshot[s] \in Nat /\ published[s] \in Nat
      /\ Len(blocks[s]) \in Nat
  BY <1>1, LenProperties DEF TypeOK
<1>3. /\ pc = "rollback" /\ pc' = pc /\ busy' = s /\ goal' = BlocksFor(snapshot[s])
      /\ published[s] * BlockSize <= snapshot[s] /\ snapshot[s] < len[s]
      /\ len' = [len EXCEPT ![s] = snapshot[s]]
      /\ UNCHANGED <<pool, content, batch, prompt, blocks, published, parent, cur, need, snapshot>>
  BY <1>1, <1>2, PagedKVAssumption DEF RollbackSlot
<1> HIDE DEF s
<1>4. /\ \A x \in Slot : len'[x] = IF x = s THEN snapshot[s] ELSE len[x]
      /\ len' \in [Slot -> Nat]
  BY <1>1, <1>2, <1>3 DEF TypeOK
<1>5. /\ BlockOwnership' /\ RefCountsExact' /\ PublishedPrefix' /\ Distinct(batch)'
      /\ Live' = Live
  BY <1>3, SameTables DEF Filled
<1>6. /\ BlocksFor(snapshot[s]) \in Nat
      /\ published[s] <= BlocksFor(snapshot[s])
      /\ snapshot[s] <= BlocksFor(snapshot[s]) * BlockSize
  <2>1. BlocksFor(snapshot[s]) \in Nat
    BY <1>2, BlocksForIsLeast
  <2> QED BY <1>2, <1>3, <2>1, BlocksForIsLeast, FullBlocksBound
<1>7. TypeOK'
  BY <1>1, <1>3, <1>4, <1>6, TypeStep DEF TypeOK
<1>8. ClosedSlots'
  BY <1>1, <1>3, <1>4, <1>5 DEF ClosedSlots
<1>9. Filled'
  <2> SUFFICES ASSUME NEW x \in Live
               PROVE  /\ snapshot[x] <= len'[x]
                      /\ len'[x] <= Len(blocks[x]) * BlockSize
    BY <1>3, <1>5 DEF Filled
  <2>1. x \in Slot
    BY Elements DEF Live, TypeOK
  <2>2. CASE x = s
    <3>1. len[s] <= Len(blocks[s]) * BlockSize /\ Len(blocks[s]) * BlockSize \in Nat
      BY <1>1, <1>2, PagedKVAssumption DEF Filled
    <3> QED BY <1>1, <1>2, <1>3, <1>4, <2>2, <3>1
  <2>3. CASE x # s
    BY <1>4, <2>1, <2>3 DEF Filled
  <2> QED BY <2>2, <2>3
<1>10. Cursors'
  <2>1. len'[s] <= goal' * BlockSize /\ published[s] <= goal'
    BY <1>1, <1>3, <1>4, <1>6
  <2> QED BY <1>1, <1>3, <1>5, <2>1 DEF Cursors
<1> QED
  BY <1>5, <1>7, <1>8, <1>9, <1>10

LEMMA RollbackSkipInv == ASSUME IInv, RollbackSkip PROVE IInv'
<1> USE DEF IInv
<1>1. \A s \in Live : published[s] * BlockSize <= snapshot'[s]
  BY DEF Filled, RollbackSkip
<1>2. /\ BlockOwnership' /\ RefCountsExact' /\ PublishedPrefix' /\ Distinct(batch)'
      /\ Live' = Live
  BY <1>1, SameTables DEF RollbackSkip, tables
<1>3. /\ \/ cur < Len(batch) /\ cur' = cur + 1 /\ pc' = pc /\ need' = need
         \/ cur' = 1 /\ pc' = "idle" /\ need' = NoTokens
      /\ pc = "rollback" /\ busy = None
      /\ UNCHANGED <<pool, content, tables, busy, goal, snapshot>>
  BY Zenon DEF RollbackSkip
<1>4. cur \in 1..Len(batch) /\ Len(batch) \in Nat
  BY <1>3 DEF TypeOK, Cursors
<1>5. TypeOK'
  <2>1. cur' \in Nat \ {0}
    BY <1>3, <1>4
  <2>2. need' \in [Slot -> Nat]
    <3>1. NoTokens \in [Slot -> Nat]
      BY DEF NoTokens
    <3>2. need \in [Slot -> Nat] /\ (need' = need \/ need' = NoTokens)
      BY <1>3 DEF TypeOK
    <3> QED BY <3>1, <3>2
  <2>3. pc' \in {"idle", "hit", "reserve", "write", "publish", "free", "rollback"}
    BY <1>3
  <2> QED BY <1>3, <2>1, <2>2, <2>3, TypeStep DEF TypeOK, tables
<1>6. ClosedSlots'
  BY <1>2, <1>3 DEF ClosedSlots, tables
<1>7. Filled'
  BY <1>2, <1>3 DEF Filled, tables
<1>8. Cursors'
  BY <1>2, <1>3, <1>4 DEF Cursors, tables
<1> QED
  BY <1>2, <1>5, <1>6, <1>7, <1>8

LEMMA FreeTailDoneInv == ASSUME IInv, FreeTailDone PROVE IInv'
<1> USE DEF IInv
<1>1. \A s \in Live : published[s] * BlockSize <= snapshot'[s]
  BY DEF Filled, FreeTailDone
<1>2. /\ BlockOwnership' /\ RefCountsExact' /\ PublishedPrefix' /\ Distinct(batch)'
      /\ Live' = Live
  BY <1>1, SameTables DEF FreeTailDone, tables
<1>3. /\ busy' = None /\ goal' = 0 /\ busy # None /\ Len(blocks[busy]) <= goal
      /\ \/ pc = "free" /\ pc' = "idle"
         \/ pc = "rollback" /\ pc' = "rollback"
      /\ UNCHANGED <<pool, content, tables, cur, need, snapshot>>
  BY DEF FreeTailDone
<1>4. TypeOK'
  BY <1>3, TypeStep DEF TypeOK, tables
<1>5. ClosedSlots'
  <2> SUFFICES ASSUME NEW s \in Slot \ Live, pc = "free", busy = s
               PROVE  blocks[s] = <<>>
    BY <1>2, <1>3 DEF ClosedSlots, tables
  <2>1. goal = 0
    BY DEF Cursors
  <2>2. blocks[s] \in Seq(Block) /\ Len(blocks[s]) \in Nat /\ Len(blocks[s]) <= 0
    BY <1>3, <2>1, LenProperties DEF TypeOK
  <2> QED BY <2>2, EmptySeq
<1>6. Filled'
  BY <1>2, <1>3 DEF Filled, tables
<1>7. Cursors'
  BY <1>2, <1>3 DEF Cursors, tables
<1> QED
  BY <1>2, <1>4, <1>5, <1>6, <1>7

LEMMA RemoveRequestInv ==
    ASSUME IInv, NEW s \in Live, RemoveRequest(s)
    PROVE  IInv'
<1> USE DEF IInv
<1>1. s \in Slot /\ <<>> \in Seq(Token)
  BY Elements, EmptySeq DEF Live, TypeOK
<1>2. PICK i \in 1..Len(batch) : batch[i] = s /\ batch' = RemoveAt(batch, i)
  BY DEF RemoveRequest
<1>3. /\ pc = "idle" /\ pc' = "free" /\ busy' = s /\ goal' = 0
      /\ UNCHANGED <<pool, content, blocks, cur, need>>
      /\ prompt' = [prompt EXCEPT ![s] = <<>>] /\ parent' = [parent EXCEPT ![s] = <<>>]
      /\ len' = [len EXCEPT ![s] = 0] /\ snapshot' = [snapshot EXCEPT ![s] = 0]
      /\ published' = [published EXCEPT ![s] = 0]
  BY DEF RemoveRequest
<1>4. batch' \in Seq(Slot) /\ Distinct(batch') /\ ToSet(batch') = ToSet(batch) \ {s}
  <2>1. /\ batch' \in Seq(Slot) /\ Distinct(batch')
        /\ \A x : In(batch', x) <=> In(batch, x) /\ x # s
    <3>1. batch \in Seq(Slot) /\ Distinct(batch)
      BY DEF TypeOK
    <3> HIDE DEF IInv
    <3> QED BY <1>2, <3>1, RemoveAtFacts
  <2>2. \A x : x \in ToSet(batch') <=> In(batch', x)
    BY <2>1, Elements
  <2>3. \A x : x \in ToSet(batch) <=> In(batch, x)
    BY Elements DEF TypeOK
  <2> QED BY <2>1, <2>2, <2>3
<1>5. Live' = Live \ {s}
  BY <1>4 DEF Live
<1>6. TypeOK'
  BY <1>1, <1>3, <1>4 DEF TypeOK, pool
<1>7. BlockOwnership' /\ RefCountsExact'
  BY <1>3, SamePlaces
<1>8. \A x \in Slot : x # s =>
        /\ prompt'[x] = prompt[x] /\ parent'[x] = parent[x] /\ len'[x] = len[x]
        /\ snapshot'[x] = snapshot[x] /\ published'[x] = published[x]
  BY <1>3 DEF TypeOK
<1>9. /\ prompt'[s] = <<>> /\ parent'[s] = <<>> /\ len'[s] = 0
      /\ snapshot'[s] = 0 /\ published'[s] = 0
  BY <1>1, <1>3 DEF TypeOK
<1>10. Live \subseteq Slot
  BY Elements DEF Live, TypeOK
<1>11. PublishedPrefix'
  BY <1>3, <1>5, <1>8, <1>10 DEF PublishedPrefix, ChainKey, pool
<1>12. ClosedSlots'
  BY <1>3, <1>5, <1>8, <1>9 DEF ClosedSlots
<1>13. Filled'
  BY <1>3, <1>5, <1>8, <1>10 DEF Filled
<1>14. Cursors'
  BY <1>1, <1>3, <1>5, <1>9 DEF Cursors
<1> QED
  BY <1>4, <1>6, <1>7, <1>11, <1>12, <1>13, <1>14

-----------------------------------------------------------------------------
(* The actions that move blocks between the pool, the cache and the tables.  *)

\* What a new table of one slot does to the holders of a block.
LEMMA HoldersAfter ==
    ASSUME TypeOK, NEW s \in Slot, NEW q, blocks' = [blocks EXCEPT ![s] = q], NEW b
    PROVE  Holders(b)' = IF In(q, b) THEN Holders(b) \cup {s} ELSE Holders(b) \ {s}
<1>1. \A x \in Slot : blocks'[x] = IF x = s THEN q ELSE blocks[x]
  BY DEF TypeOK
<1>2. Holders(b)' = {x \in Slot : In(blocks'[x], b)}
  BY DEF Holders, In
<1>3. \A x \in Slot : In(blocks'[x], b) <=> IF x = s THEN In(q, b) ELSE In(blocks[x], b)
  BY <1>1
<1> QED
  BY <1>2, <1>3 DEF Holders

\* Pinning a cached block counts one reference and takes it out of the LRU order.
LEMMA IncrefFacts ==
    ASSUME IInv, NEW b \in Block, IsCached(b), Incref(b)
    PROVE  /\ ref' \in [Block -> Nat]
           /\ \A c \in Block : ref'[c] = IF c = b THEN ref[b] + 1 ELSE ref[c]
           /\ evictable' \in Seq(Block)
           /\ Distinct(evictable')
           /\ \A c : In(evictable', c) <=> In(evictable, c) /\ c # b
<1> USE DEF IInv
<1>1. /\ ref' = [ref EXCEPT ![b] = ref[b] + 1] /\ ref[b] \in Nat /\ ref \in [Block -> Nat]
      /\ evictable \in Seq(Block) /\ Distinct(evictable)
      /\ In(evictable, b) <=> ref[b] = 0
  BY DEF Incref, TypeOK, RefCountsExact
<1>2. CASE ref[b] = 0
  <2>1. PICK i \in 1..Len(evictable) : evictable[i] = b /\ evictable' = RemoveAt(evictable, i)
    BY <1>2 DEF Incref
  <2>2. /\ RemoveAt(evictable, i) \in Seq(Block)
        /\ Distinct(RemoveAt(evictable, i))
        /\ \A c : In(RemoveAt(evictable, i), c) <=> In(evictable, c) /\ c # evictable[i]
    <3> HIDE DEF IInv
    <3> QED BY <1>1, RemoveAtFacts
  <2> QED BY <1>1, <2>1, <2>2
<1>3. CASE ref[b] # 0
  <2>1. evictable' = evictable
    BY <1>3 DEF Incref
  <2>2. \A c : In(evictable, c) => c # b
    BY <1>1, <1>3
  <2> QED BY <1>1, <2>1, <2>2
<1> QED
  BY <1>2, <1>3

LEMMA PinMatchInv == ASSUME IInv, PinMatch PROVE IInv'
<1> USE DEF IInv
<1> DEFINE s == busy
           k == published[busy] + 1
           h == ChainKey(prompt[busy], k)
<1>1. PICK b \in Block : /\ key[b] = h
                         /\ Incref(b)
                         /\ blocks' = [blocks EXCEPT ![s] = Append(@, b)]
                         /\ len' = [len EXCEPT ![s] = k * BlockSize]
                         /\ snapshot' = [snapshot EXCEPT ![s] = k * BlockSize]
                         /\ published' = [published EXCEPT ![s] = k]
                         /\ parent' = [parent EXCEPT ![s] = h]
  BY DEF PinMatch
<1>2. /\ pc = "hit" /\ published[s] < goal
      /\ UNCHANGED <<free_list, key, content, batch, prompt, pc, cur, busy, goal, need>>
  BY DEF PinMatch
<1>3. /\ s \in Live /\ s \in Slot /\ prompt[s] \in Seq(Token) /\ blocks[s] \in Seq(Block)
      /\ published[s] \in Nat /\ k \in Nat /\ goal \in Nat /\ Len(prompt[s]) \in Nat
      /\ Len(blocks[s]) = published[s] /\ goal * BlockSize <= Len(prompt[s])
  BY <1>2, Elements, LenProperties DEF Cursors, Live, TypeOK
<1>4. k * BlockSize \in Nat /\ k * BlockSize <= Len(prompt[s])
  <2>1. BlockSize \in Nat /\ BlockSize > 0 /\ k <= goal /\ published[s] + 1 = k
    BY <1>2, <1>3, PagedKVAssumption
  <2> HIDE DEF k, s
  <2>2. k * BlockSize <= goal * BlockSize /\ k * BlockSize \in Nat /\ goal * BlockSize \in Nat
    BY <1>3, <2>1
  <2> QED BY <1>3, <2>2
<1>5. h \in Seq(Token) /\ h # None
  BY <1>3, <1>4, ChainKeyFacts
<1>6. ~In(blocks[s], b)
  <2> SUFFICES ASSUME NEW j \in 1..Len(blocks[s]), blocks[s][j] = b PROVE FALSE
    BY DEF In
  <2>1. j \in Nat /\ j < k /\ j <= published[s]
    BY <1>3
  <2>2. key[b] = ChainKey(prompt[s], j)
    BY <1>3, <2>1 DEF PublishedPrefix
  <2>3. ChainKey(prompt[s], j) # ChainKey(prompt[s], k)
    BY <1>3, <1>4, <2>1, ChainKeyInjective
  <2> QED BY <1>1, <2>2, <2>3
<1> DEFINE q == Append(blocks[s], b)
<1>7. blocks' = [blocks EXCEPT ![s] = q]
  BY <1>1
<1>8. /\ q \in Seq(Block) /\ Len(q) = k /\ Distinct(q) /\ q[k] = b
      /\ \A j \in 1..published[s] : q[j] = blocks[s][j]
      /\ \A x : In(q, x) <=> In(blocks[s], x) \/ x = b
  <2>1. Distinct(blocks[s])
    BY <1>3 DEF BlockOwnership
  <2> QED BY <1>3, <1>6, <2>1, AppendFacts
<1>9. /\ ref' \in [Block -> Nat]
      /\ \A c \in Block : ref'[c] = IF c = b THEN ref[b] + 1 ELSE ref[c]
      /\ evictable' \in Seq(Block)
      /\ Distinct(evictable')
      /\ \A c : In(evictable', c) <=> In(evictable, c) /\ c # b
  BY <1>1, <1>5, IncrefFacts DEF IsCached
<1> HIDE DEF s, k, h, q
<1>10. /\ \A x \in Slot : /\ blocks'[x] = IF x = s THEN q ELSE blocks[x]
                          /\ len'[x] = IF x = s THEN k * BlockSize ELSE len[x]
                          /\ snapshot'[x] = IF x = s THEN k * BlockSize ELSE snapshot[x]
                          /\ published'[x] = IF x = s THEN k ELSE published[x]
                          /\ parent'[x] = IF x = s THEN h ELSE parent[x]
       /\ Live' = Live /\ Live \subseteq Slot
  <2>1. \A x \in Slot : blocks'[x] = IF x = s THEN q ELSE blocks[x]
    BY <1>7 DEF TypeOK
  <2>2. \A x \in Slot : /\ len'[x] = IF x = s THEN k * BlockSize ELSE len[x]
                        /\ snapshot'[x] = IF x = s THEN k * BlockSize ELSE snapshot[x]
                        /\ published'[x] = IF x = s THEN k ELSE published[x]
    BY <1>1 DEF TypeOK
  <2>3. \A x \in Slot : parent'[x] = IF x = s THEN h ELSE parent[x]
    BY <1>1 DEF TypeOK
  <2>4. Live' = Live /\ Live \subseteq Slot
    BY <1>2, Elements DEF TypeOK, Live
  <2> QED BY <2>1, <2>2, <2>3, <2>4
<1>11. TypeOK'
  <2>1. blocks' \in [Slot -> Seq(Block)]
    BY <1>3, <1>7, <1>8 DEF TypeOK
  <2>2. len' \in [Slot -> Nat] /\ snapshot' \in [Slot -> Nat] /\ published' \in [Slot -> Nat]
    BY <1>1, <1>3, <1>4 DEF TypeOK
  <2>3. parent' \in [Slot -> Seq(Token)]
    BY <1>1, <1>3, <1>5 DEF TypeOK
  <2> QED BY <1>2, <1>9, <2>1, <2>2, <2>3 DEF TypeOK
<1>12. /\ Holders(b)' = Holders(b) \cup {s} /\ s \notin Holders(b)
       /\ \A c \in Block : c # b => Holders(c)' = Holders(c)
       /\ \A c \in Block : IsCached(c)' = IsCached(c)
       /\ IsCached(b)
  <2>1. \A c : Holders(c)' = IF In(q, c) THEN Holders(c) \cup {s} ELSE Holders(c) \ {s}
    BY <1>3, <1>7, HoldersAfter
  <2>2. \A c : In(blocks[s], c) <=> s \in Holders(c)
    BY <1>3 DEF Holders
  <2>3. s \notin Holders(b) /\ Holders(b)' = Holders(b) \cup {s}
    BY <1>6, <1>8, <2>1, <2>2
  <2>4. \A c \in Block : c # b => Holders(c)' = Holders(c)
    BY <1>8, <2>1, <2>2
  <2> QED BY <1>1, <1>2, <1>5, <2>3, <2>4 DEF IsCached
<1>13. BlockOwnership'
  <2>1. Distinct(free_list)'
    BY <1>2 DEF BlockOwnership, Distinct
  <2>2. \A x \in Slot : Distinct(blocks'[x])
    BY <1>8, <1>10 DEF BlockOwnership
  <2>3. ASSUME NEW c \in Block
        PROVE  /\ In(free_list', c) => ~IsCached(c)' /\ Holders(c)' = {}
               /\ ~IsCached(c)' /\ ~In(free_list', c) => \E x \in Slot : Holders(c)' = {x}
    BY <1>2, <1>12 DEF BlockOwnership
  <2> QED BY <2>1, <2>2, <2>3 DEF BlockOwnership, Distinct, In
<1>14. RefCountsExact'
  <2>1. ASSUME NEW c \in Block, IsCached(c)' PROVE ref'[c] = Cardinality(Holders(c)')
    <3>1. CASE c = b
      <4>1. Cardinality(Holders(b) \cup {s}) = Cardinality(Holders(b)) + 1
        BY <1>3, <1>12, HolderCounts
      <4>2. ref[b] = Cardinality(Holders(b))
        BY <1>12 DEF RefCountsExact
      <4> QED BY <1>9, <1>12, <3>1, <4>1, <4>2
    <3>2. CASE c # b
      BY <1>9, <1>12, <2>1, <3>2 DEF RefCountsExact
    <3> QED BY <3>1, <3>2
  <2>2. ASSUME NEW c \in Block PROVE In(evictable', c) <=> IsCached(c)' /\ ref'[c] = 0
    <3>1. CASE c = b
      BY <1>9, <3>1 DEF TypeOK
    <3>2. CASE c # b
      BY <1>9, <1>12, <3>2 DEF RefCountsExact
    <3> QED BY <3>1, <3>2
  <2>3. \A c, d \in Block : IsCached(c)' /\ key'[c] = key'[d] => c = d
    BY <1>2, <1>12 DEF RefCountsExact
  <2> QED BY <1>9, <2>1, <2>2, <2>3 DEF RefCountsExact, Distinct, In
<1>15. PublishedPrefix'
  <2> SUFFICES ASSUME NEW x \in Live
               PROVE  /\ published'[x] * BlockSize <= snapshot'[x]
                      /\ parent'[x] = ChainKey(prompt[x], published'[x])
                      /\ \A j \in 1..Len(blocks'[x]) :
                           key[blocks'[x][j]] = IF j <= published'[x]
                                                THEN ChainKey(prompt[x], j) ELSE None
    BY <1>2, <1>10 DEF PublishedPrefix, ChainKey
  <2>1. CASE x # s
    BY <1>10, <2>1 DEF PublishedPrefix
  <2>2. CASE x = s
    <3>1. ASSUME NEW j \in 1..k
          PROVE  key[q[j]] = ChainKey(prompt[s], j) /\ j <= k
      <4>1. CASE j = k
        BY <1>1, <1>8, <4>1 DEF h, s
      <4>2. CASE j # k
        <5>1. j \in 1..published[s]
          BY <1>3, <4>2 DEF k, s
        <5> QED BY <1>3, <1>8, <5>1 DEF PublishedPrefix
      <4> QED BY <1>3, <4>1, <4>2
    <3>2. blocks'[x] = q /\ published'[x] = k /\ parent'[x] = h /\ snapshot'[x] = k * BlockSize
      BY <1>3, <1>10, <2>2
    <3>3. h = ChainKey(prompt[s], k)
      BY DEF h, s
    <3> QED BY <1>4, <1>8, <2>2, <3>1, <3>2, <3>3
  <2> QED BY <2>1, <2>2
<1>16. ClosedSlots'
  BY <1>2, <1>3, <1>10 DEF ClosedSlots
<1>17. Filled'
  BY <1>2, <1>3, <1>4, <1>8, <1>10 DEF Filled
<1>18. Cursors'
  BY <1>2, <1>3, <1>8, <1>10 DEF Cursors, s
<1>19. Distinct(batch)'
  BY <1>2 DEF Distinct
<1> QED
  BY <1>11, <1>13, <1>14, <1>15, <1>16, <1>17, <1>18, <1>19

\* A block that was allocated was in no table: it is now in no list, and not cached.
LEMMA AllocateFacts ==
    ASSUME IInv, NEW b \in Block, Allocate(b)
    PROVE  /\ Holders(b) = {}
           /\ free_list' \in Seq(Block) /\ Distinct(free_list')
           /\ \A c : In(free_list', c) <=> In(free_list, c) /\ c # b
           /\ evictable' \in Seq(Block) /\ Distinct(evictable')
           /\ \A c : In(evictable', c) <=> In(evictable, c) /\ c # b
           /\ key' \in [Block -> {None} \cup Seq(Token)]
           /\ \A c \in Block : key'[c] = IF c = b THEN None ELSE key[c]
           /\ ref' = ref
<1> USE DEF IInv
<1>1. /\ free_list \in Seq(Block) /\ Distinct(free_list)
      /\ evictable \in Seq(Block) /\ Distinct(evictable)
      /\ key \in [Block -> {None} \cup Seq(Token)]
  BY DEF TypeOK, BlockOwnership, RefCountsExact
<1>2. CASE AllocateFree(b)
  <2>1. /\ free_list # <<>> /\ b = free_list[Len(free_list)] /\ free_list' = Front(free_list)
        /\ UNCHANGED <<key, ref, evictable>>
    BY <1>2 DEF AllocateFree
  <2>2. /\ free_list' \in Seq(Block) /\ Distinct(free_list') /\ In(free_list, b)
        /\ \A c : In(free_list', c) <=> In(free_list, c) /\ c # b
    BY <1>1, <2>1, FrontFacts
  <2>3. key[b] = None /\ Holders(b) = {}
    BY <2>2 DEF BlockOwnership, IsCached
  <2>4. ~In(evictable, b)
    BY <2>3 DEF RefCountsExact, IsCached
  <2>5. \A c : In(evictable, c) => c # b
    BY <2>4
  <2> QED BY <1>1, <2>1, <2>2, <2>3, <2>5
<1>3. CASE AllocateEvict(b)
  <2>1. /\ free_list = <<>> /\ evictable # <<>> /\ b = Head(evictable)
        /\ evictable' = Tail(evictable) /\ key' = [key EXCEPT ![b] = None]
        /\ UNCHANGED <<free_list, ref>>
    BY <1>3 DEF AllocateEvict
  <2>2. /\ evictable' \in Seq(Block) /\ Distinct(evictable') /\ In(evictable, b)
        /\ \A c : In(evictable', c) <=> In(evictable, c) /\ c # b
    BY <1>1, <2>1, TailFacts
  <2>3. IsCached(b) /\ ref[b] = 0
    BY <2>2 DEF RefCountsExact
  <2>4. Cardinality(Holders(b)) = 0
    BY <2>3 DEF RefCountsExact
  <2>5. IsFiniteSet(Holders(b))
    BY PagedKVAssumption, FS_Subset DEF Holders
  <2>6. Holders(b) = {}
    BY <2>4, <2>5, FS_EmptySet
  <2>7. \A c : ~In(free_list, c)
    BY <2>1 DEF In
  <2> QED BY <1>1, <2>1, <2>2, <2>6, <2>7
<1> QED
  BY <1>2, <1>3 DEF Allocate

LEMMA ReserveBlockInv == ASSUME IInv, ReserveBlock PROVE IInv'
<1> USE DEF IInv
<1> DEFINE s == batch[cur]
<1>1. PICK b \in Block : Allocate(b) /\ blocks' = [blocks EXCEPT ![s] = Append(@, b)]
  BY DEF ReserveBlock
<1>2. /\ pc = "reserve"
      /\ UNCHANGED <<content, batch, prompt, len, published, parent, control>>
  BY DEF ReserveBlock
<1>3. /\ s \in Live /\ s \in Slot /\ blocks[s] \in Seq(Block) /\ Len(blocks[s]) \in Nat
      /\ len[s] \in Nat /\ published[s] \in Nat
  BY <1>2, Elements, LenProperties DEF Cursors, Live, TypeOK
<1>4. /\ Holders(b) = {}
      /\ free_list' \in Seq(Block) /\ Distinct(free_list')
      /\ \A c : In(free_list', c) <=> In(free_list, c) /\ c # b
      /\ evictable' \in Seq(Block) /\ Distinct(evictable')
      /\ \A c : In(evictable', c) <=> In(evictable, c) /\ c # b
      /\ key' \in [Block -> {None} \cup Seq(Token)]
      /\ \A c \in Block : key'[c] = IF c = b THEN None ELSE key[c]
      /\ ref' = ref
  BY <1>1, AllocateFacts
<1> DEFINE q == Append(blocks[s], b)
<1>5. \A x \in Slot : ~In(blocks[x], b)
  BY <1>4 DEF Holders
<1>6. /\ q \in Seq(Block) /\ Len(q) = Len(blocks[s]) + 1 /\ Distinct(q)
      /\ \A j \in 1..Len(blocks[s]) : q[j] = blocks[s][j]
      /\ q[Len(blocks[s]) + 1] = b
      /\ \A x : In(q, x) <=> In(blocks[s], x) \/ x = b
  <2>1. Distinct(blocks[s]) /\ ~In(blocks[s], b)
    BY <1>3, <1>5 DEF BlockOwnership
  <2> QED BY <1>3, <2>1, AppendFacts
<1>7. blocks' = [blocks EXCEPT ![s] = q]
  BY <1>1
<1> HIDE DEF s, q
<1>8. /\ \A x \in Slot : blocks'[x] = IF x = s THEN q ELSE blocks[x]
      /\ Live' = Live /\ Live \subseteq Slot
  BY <1>2, <1>7, Elements DEF TypeOK, Live
<1>9. TypeOK'
  BY <1>2, <1>3, <1>4, <1>6, <1>7 DEF TypeOK, control
<1>10. Holders(b)' = {s} /\ \A c \in Block : c # b => Holders(c)' = Holders(c)
  <2>1. \A c : Holders(c)' = IF In(q, c) THEN Holders(c) \cup {s} ELSE Holders(c) \ {s}
    BY <1>3, <1>7, HoldersAfter
  <2>2. \A c : In(blocks[s], c) <=> s \in Holders(c)
    BY <1>3 DEF Holders
  <2>3. Holders(b)' = {s}
    BY <1>4, <1>6, <2>1
  <2>4. \A c \in Block : c # b => Holders(c)' = Holders(c)
    BY <1>6, <2>1, <2>2
  <2> QED BY <2>3, <2>4
<1>11. IsCached(b)' = FALSE /\ \A c \in Block : c # b => IsCached(c)' = IsCached(c)
  BY <1>4 DEF IsCached
<1>12. BlockOwnership'
  <2>1. \A x \in Slot : Distinct(blocks'[x])
    BY <1>6, <1>8 DEF BlockOwnership
  <2>2. ASSUME NEW c \in Block
        PROVE  /\ In(free_list', c) => ~IsCached(c)' /\ Holders(c)' = {}
               /\ ~IsCached(c)' /\ ~In(free_list', c) => \E x \in Slot : Holders(c)' = {x}
    BY <1>3, <1>4, <1>10, <1>11 DEF BlockOwnership
  <2> QED BY <1>4, <2>1, <2>2 DEF BlockOwnership, Distinct, In
<1>13. RefCountsExact'
  <2>1. ASSUME NEW c \in Block, IsCached(c)' PROVE ref'[c] = Cardinality(Holders(c)')
    BY <1>4, <1>10, <1>11, <2>1 DEF RefCountsExact
  <2>2. ASSUME NEW c \in Block PROVE In(evictable', c) <=> IsCached(c)' /\ ref'[c] = 0
    BY <1>4, <1>11 DEF RefCountsExact
  <2>3. \A c, d \in Block : IsCached(c)' /\ key'[c] = key'[d] => c = d
    BY <1>4, <1>11 DEF RefCountsExact, IsCached
  <2> QED BY <1>4, <2>1, <2>2, <2>3 DEF RefCountsExact, Distinct, In
<1>14. PublishedPrefix'
  <2> SUFFICES ASSUME NEW x \in Live, NEW j \in 1..Len(blocks'[x])
               PROVE  key'[blocks'[x][j]] = IF j <= published[x]
                                            THEN ChainKey(prompt[x], j) ELSE None
    BY <1>2, <1>8 DEF PublishedPrefix, ChainKey, control
  <2>1. x \in Slot /\ blocks[x] \in Seq(Block) /\ Len(blocks[x]) \in Nat
    BY <1>8, LenProperties DEF TypeOK
  <2>2. ASSUME j \in 1..Len(blocks[x]), blocks'[x][j] = blocks[x][j]
        PROVE  key'[blocks'[x][j]] = IF j <= published[x]
                                     THEN ChainKey(prompt[x], j) ELSE None
    <3>1. blocks[x][j] # b /\ blocks[x][j] \in Block
      BY <1>5, <2>1, <2>2, ElementOfSeq DEF In
    <3> QED BY <1>4, <2>2, <3>1 DEF PublishedPrefix
  <2>3. CASE x # s
    BY <1>8, <2>1, <2>2, <2>3
  <2>4. CASE x = s /\ j \in 1..Len(blocks[s])
    BY <1>6, <1>8, <2>1, <2>2, <2>4
  <2>5. CASE x = s /\ j = Len(blocks[s]) + 1
    <3>1. blocks'[x][j] = b
      BY <1>6, <1>8, <2>1, <2>5
    <3>2. published[s] <= Len(blocks[s])
      BY <1>3 DEF Filled
    <3>3. ~(j <= published[x])
      BY <1>3, <2>5, <3>2
    <3> QED BY <1>4, <3>1, <3>3
  <2>6. x = s => j \in 1..Len(blocks[s]) \/ j = Len(blocks[s]) + 1
    BY <1>3, <1>6, <1>8
  <2> QED BY <2>3, <2>4, <2>5, <2>6
<1>15. ClosedSlots'
  BY <1>2, <1>3, <1>8 DEF ClosedSlots, control
<1>16. Filled'
  <2> SUFFICES ASSUME NEW x \in Live
               PROVE  /\ published[x] <= Len(blocks'[x])
                      /\ len[x] <= Len(blocks'[x]) * BlockSize
    BY <1>2, <1>8 DEF Filled, control
  <2>1. CASE x # s
    BY <1>8, <2>1 DEF Filled
  <2>2. CASE x = s
    <3> DEFINE n == Len(blocks[s])
    <3>1. published[s] <= n /\ len[s] <= n * BlockSize
      BY <1>3 DEF Filled
    <3>2. n \in Nat /\ Len(blocks'[x]) = n + 1
      BY <1>3, <1>6, <1>8, <2>2
    <3> HIDE DEF n
    <3>3. BlockSize \in Nat /\ n * BlockSize \in Nat /\ (n + 1) * BlockSize = n * BlockSize + BlockSize
      BY <3>2, PagedKVAssumption
    <3> QED BY <1>3, <2>2, <3>1, <3>2, <3>3
  <2> QED BY <2>1, <2>2
<1>17. Cursors'
  BY <1>2, <1>8 DEF Cursors, control
<1>18. Distinct(batch)'
  BY <1>2 DEF Distinct
<1> QED
  BY <1>9, <1>12, <1>13, <1>14, <1>15, <1>16, <1>17, <1>18

\* The block a publication works on is full, lies inside the prompt, and is
\* private to its slot.
LEMMA PublishFacts ==
    ASSUME IInv, pc = "publish", published[batch[cur]] < PublishTarget(batch[cur])
    PROVE  LET s == batch[cur]
               k == published[s] + 1
           IN /\ s \in Live /\ s \in Slot /\ blocks[s] \in Seq(Block)
              /\ published[s] \in Nat /\ Len(blocks[s]) \in Nat
              /\ k \in 1..Len(blocks[s])
              /\ blocks[s][k] \in Block
              /\ key[blocks[s][k]] = None
              /\ k * BlockSize \in Nat
              /\ k * BlockSize <= snapshot[s]
              /\ k * BlockSize <= Len(prompt[s])
              /\ NextKey(s) = ChainKey(prompt[s], k)
              /\ NextKey(s) \in Seq(Token)
              /\ NextKey(s) # None
<1> USE DEF IInv
<1> DEFINE s == batch[cur]
           k == published[s] + 1
<1>1. /\ s \in Live /\ s \in Slot /\ blocks[s] \in Seq(Block) /\ Len(blocks[s]) \in Nat
      /\ published[s] \in Nat /\ len[s] \in Nat /\ prompt[s] \in Seq(Token)
      /\ Len(prompt[s]) \in Nat /\ k \in Nat
  BY Elements, LenProperties DEF Cursors, Live, TypeOK
<1>2. /\ parent[s] = ChainKey(prompt[s], published[s])
      /\ snapshot[s] = len[s] /\ len[s] <= Len(blocks[s]) * BlockSize
  BY <1>1 DEF PublishedPrefix, Filled
<1>3. published[s] < PublishTarget(s)
  OBVIOUS
<1>4. k * BlockSize <= len[s] /\ k * BlockSize <= Len(prompt[s])
  <2> DEFINE a == len[s] \div BlockSize
             c == Len(prompt[s]) \div BlockSize
  <2>1. a \in Nat /\ c \in Nat
    BY <1>1, FullBlocks
  <2> HIDE DEF a, c
  <2>2. PublishTarget(s) = Min({a, c})
    BY DEF PublishTarget, a, c
  <2>3. Min({a, c}) <= a /\ Min({a, c}) <= c /\ Min({a, c}) \in Nat
    <3>1. \E x \in {a, c} : \A y \in {a, c} : x <= y
      BY <2>1
    <3> QED BY <2>1, <3>1 DEF Min
  <2> HIDE DEF s
  <2>4. k <= a /\ k <= c
    BY <1>1, <1>3, <2>1, <2>2, <2>3
  <2> HIDE DEF k
  <2> QED BY <1>1, <2>4, FullBlocks DEF a, c
<1> HIDE DEF s
<1>5. k * BlockSize \in Nat /\ Len(blocks[s]) * BlockSize \in Nat /\ k * BlockSize <= Len(blocks[s]) * BlockSize
  BY <1>1, <1>2, <1>4, PagedKVAssumption
<1>6. k <= Len(blocks[s])
  <2> SUFFICES ASSUME Len(blocks[s]) + 1 <= k PROVE FALSE
    BY <1>1
  <2> DEFINE n == Len(blocks[s])
  <2>1. n \in Nat
    BY <1>1
  <2>2. k \in Nat /\ BlockSize \in Nat /\ BlockSize > 0 /\ n + 1 <= k
    BY <1>1, PagedKVAssumption
  <2> HIDE DEF n, k
  <2>3. (n + 1) * BlockSize <= k * BlockSize
    BY <2>1, <2>2
  <2>4. (n + 1) * BlockSize = n * BlockSize + BlockSize /\ n * BlockSize \in Nat
    BY <2>1, <2>2
  <2> QED BY <1>5, <2>2, <2>3, <2>4 DEF n
<1>7. k \in 1..Len(blocks[s]) /\ ~(k <= published[s])
  BY <1>1, <1>6
<1>8. blocks[s][k] \in Block /\ key[blocks[s][k]] = None
  BY <1>1, <1>7, ElementOfSeq DEF PublishedPrefix
<1>9. NextKey(s) = ChainKey(prompt[s], k)
  BY <1>1, <1>2, <1>4, NextKeyIsChainKey
<1>10. NextKey(s) \in Seq(Token) /\ NextKey(s) # None
  BY <1>1, <1>4, <1>9, ChainKeyFacts
<1> QED
  BY <1>1, <1>2, <1>4, <1>5, <1>7, <1>8, <1>9, <1>10 DEF s

LEMMA PublishFreshInv == ASSUME IInv, PublishFresh PROVE IInv'
<1> USE DEF IInv
<1> DEFINE s == batch[cur]
           k == published[s] + 1
           b == blocks[s][k]
           h == NextKey(s)
<1>1. /\ pc = "publish" /\ published[s] < PublishTarget(s)
      /\ \A c \in Block : key[c] # h
      /\ key' = [key EXCEPT ![b] = h]
      /\ ref' = [ref EXCEPT ![b] = 1]
      /\ published' = [published EXCEPT ![s] = k]
      /\ parent' = [parent EXCEPT ![s] = h]
      /\ UNCHANGED <<free_list, evictable, content, batch, prompt, blocks, len, control>>
  BY DEF PublishFresh
<1>2. /\ s \in Live /\ s \in Slot /\ blocks[s] \in Seq(Block)
      /\ published[s] \in Nat /\ Len(blocks[s]) \in Nat /\ k \in 1..Len(blocks[s])
      /\ b \in Block /\ key[b] = None
      /\ k * BlockSize \in Nat /\ k * BlockSize <= snapshot[s] /\ k * BlockSize <= Len(prompt[s])
      /\ h = ChainKey(prompt[s], k) /\ h \in Seq(Token) /\ h # None
  BY <1>1, PublishFacts
<1>3. b = blocks[s][k] /\ k = published[s] + 1 /\ k \in Nat
  BY <1>2
<1> HIDE DEF s, k, b, h
<1>4. /\ \A x \in Slot : /\ published'[x] = IF x = s THEN k ELSE published[x]
                         /\ parent'[x] = IF x = s THEN h ELSE parent[x]
      /\ \A c \in Block : /\ key'[c] = IF c = b THEN h ELSE key[c]
                          /\ ref'[c] = IF c = b THEN 1 ELSE ref[c]
      /\ Live' = Live /\ Live \subseteq Slot
  BY <1>1, Elements DEF TypeOK, Live
<1>5. TypeOK'
  BY <1>1, <1>2, <1>3 DEF TypeOK, control
<1>6. In(blocks[s], b) /\ s \in Holders(b)
  BY <1>2, <1>3 DEF In, Holders
<1>7. Holders(b) = {s}
  <2>1. ~IsCached(b) /\ ~In(free_list, b)
    BY <1>2, <1>6 DEF IsCached, BlockOwnership
  <2>2. PICK x \in Slot : Holders(b) = {x}
    BY <1>2, <2>1 DEF BlockOwnership
  <2> QED BY <1>6, <2>2
<1>8. /\ \A c : Holders(c)' = Holders(c)
      /\ \A c \in Block : IsCached(c)' <=> (c = b \/ IsCached(c))
  BY <1>1, <1>2, <1>4 DEF Holders, In, IsCached
<1>9. BlockOwnership'
  <2>1. ASSUME NEW c \in Block
        PROVE  /\ In(free_list, c) => ~IsCached(c)' /\ Holders(c)' = {}
               /\ ~IsCached(c)' /\ ~In(free_list, c) => \E x \in Slot : Holders(c)' = {x}
    BY <1>6, <1>8 DEF BlockOwnership
  <2> QED BY <1>1, <2>1 DEF BlockOwnership, Distinct, In
<1>10. RefCountsExact'
  <2>1. ASSUME NEW c \in Block, IsCached(c)' PROVE ref'[c] = Cardinality(Holders(c)')
    <3>1. Cardinality({s}) = 1
      BY FS_Singleton
    <3> QED BY <1>4, <1>7, <1>8, <2>1, <3>1 DEF RefCountsExact
  <2>2. ASSUME NEW c \in Block PROVE In(evictable, c) <=> IsCached(c)' /\ ref'[c] = 0
    BY <1>2, <1>4, <1>8 DEF RefCountsExact, IsCached
  <2>3. \A c, d \in Block : IsCached(c)' /\ key'[c] = key'[d] => c = d
    BY <1>1, <1>4, <1>8 DEF RefCountsExact
  <2> QED BY <1>1, <2>1, <2>2, <2>3 DEF RefCountsExact, Distinct, In
<1>11. PublishedPrefix'
  <2> SUFFICES ASSUME NEW x \in Live
               PROVE  /\ published'[x] * BlockSize <= snapshot[x]
                      /\ parent'[x] = ChainKey(prompt[x], published'[x])
                      /\ \A j \in 1..Len(blocks[x]) :
                           key'[blocks[x][j]] = IF j <= published'[x]
                                                THEN ChainKey(prompt[x], j) ELSE None
    BY <1>1, <1>4 DEF PublishedPrefix, ChainKey, control
  <2>0. x \in Slot /\ blocks[x] \in Seq(Block) /\ \A j \in 1..Len(blocks[x]) : blocks[x][j] \in Block
    BY <1>4, ElementOfSeq DEF TypeOK
  <2>1. CASE x # s
    <3>1. \A j \in 1..Len(blocks[x]) : blocks[x][j] # b
      BY <1>7, <2>0, <2>1 DEF Holders, In
    <3>2. \A j \in 1..Len(blocks[x]) : key'[blocks[x][j]] = key[blocks[x][j]]
      BY <1>4, <2>0, <3>1
    <3> QED BY <1>4, <2>0, <2>1, <3>2 DEF PublishedPrefix
  <2>2. CASE x = s
    <3>1. published'[x] = k /\ parent'[x] = h
      BY <1>2, <1>4, <2>2
    <3>2. ASSUME NEW j \in 1..Len(blocks[s])
          PROVE  key'[blocks[s][j]] = IF j <= k THEN ChainKey(prompt[s], j) ELSE None
      <4>1. CASE j = k
        BY <1>2, <1>3, <1>4, <4>1
      <4>2. CASE j # k
        <5>1. blocks[s][j] # b
          BY <1>2, <1>3, <4>2 DEF BlockOwnership, Distinct
        <5>2. j <= k <=> j <= published[s]
          BY <1>2, <1>3, <4>2
        <5>3. key'[blocks[s][j]] = key[blocks[s][j]]
          BY <1>4, <2>0, <2>2, <5>1
        <5> QED BY <1>2, <5>2, <5>3 DEF PublishedPrefix
      <4> QED BY <4>1, <4>2
    <3> QED BY <1>2, <2>2, <3>1, <3>2
  <2> QED BY <2>1, <2>2
<1>12. ClosedSlots'
  BY <1>1, <1>2, <1>4 DEF ClosedSlots, control
<1>13. Filled'
  BY <1>1, <1>2, <1>3, <1>4 DEF Filled, control
<1>14. Cursors'
  BY <1>1, <1>4 DEF Cursors, control
<1>15. Distinct(batch)'
  BY <1>1 DEF Distinct
<1> QED
  BY <1>5, <1>9, <1>10, <1>11, <1>12, <1>13, <1>14, <1>15

LEMMA PublishDuplicateInv == ASSUME IInv, PublishDuplicate PROVE IInv'
<1> USE DEF IInv
<1> DEFINE s == batch[cur]
           k == published[s] + 1
           h == NextKey(s)
<1>1. PICK c \in Block : key[c] = h /\ Incref(c) /\ blocks' = [blocks EXCEPT ![s][k] = c]
  BY DEF PublishDuplicate
<1>2. /\ pc = "publish" /\ published[s] < PublishTarget(s)
      /\ free_list' = Append(free_list, blocks[s][k])
      /\ published' = [published EXCEPT ![s] = k]
      /\ parent' = [parent EXCEPT ![s] = h]
      /\ UNCHANGED <<key, content, batch, prompt, len, control>>
  BY DEF PublishDuplicate
<1>3. /\ s \in Live /\ s \in Slot /\ blocks[s] \in Seq(Block)
      /\ published[s] \in Nat /\ Len(blocks[s]) \in Nat /\ k \in 1..Len(blocks[s])
      /\ blocks[s][k] \in Block /\ key[blocks[s][k]] = None
      /\ k * BlockSize \in Nat /\ k * BlockSize <= snapshot[s] /\ k * BlockSize <= Len(prompt[s])
      /\ h = ChainKey(prompt[s], k) /\ h \in Seq(Token) /\ h # None
  BY <1>2, PublishFacts
<1> PICK own \in Block : own = blocks[s][k]
  BY <1>3
<1>4. /\ own = blocks[s][k] /\ key[own] = None /\ free_list' = Append(free_list, own)
      /\ k = published[s] + 1 /\ k \in Nat /\ prompt[s] \in Seq(Token)
  <2>1. prompt[s] \in Seq(Token)
    BY <1>3 DEF TypeOK
  <2> HIDE DEF IInv
  <2>2. k \in Nat
    BY <1>3
  <2> QED BY <1>2, <1>3, <2>1, <2>2
<1> DEFINE q == [blocks[s] EXCEPT ![k] = c]
<1>5. blocks' = [blocks EXCEPT ![s] = q]
  BY <1>1
<1> HIDE DEF s, k, h
<1>6. c # own /\ ~In(blocks[s], c)
  <2> SUFFICES ASSUME NEW j \in 1..Len(blocks[s]), blocks[s][j] = c PROVE FALSE
    BY <1>1, <1>3 DEF In
  <2>1. key[c] = IF j <= published[s] THEN ChainKey(prompt[s], j) ELSE None
    BY <1>3 DEF PublishedPrefix
  <2>2. j \in Nat /\ j < k /\ key[c] = ChainKey(prompt[s], j)
    BY <1>1, <1>3, <1>4, <2>1
  <2> QED BY <1>1, <1>3, <1>4, <2>2, ChainKeyInjective
<1>7. /\ q \in Seq(Block) /\ Len(q) = Len(blocks[s]) /\ Distinct(q)
      /\ \A x : In(q, x) <=> (In(blocks[s], x) /\ x # own) \/ x = c
      /\ \A j \in 1..Len(blocks[s]) : q[j] = IF j = k THEN c ELSE blocks[s][j]
  <2>1. Distinct(blocks[s])
    BY <1>3 DEF BlockOwnership
  <2>2. /\ q \in Seq(Block) /\ Len(q) = Len(blocks[s]) /\ Distinct(q)
        /\ \A x : In(q, x) <=> (In(blocks[s], x) /\ x # own) \/ x = c
    <3>1. /\ q \in Seq(Block) /\ Len(q) = Len(blocks[s]) /\ Distinct(q)
          /\ \A x : In(q, x) <=> (In(blocks[s], x) /\ x # blocks[s][k]) \/ x = c
      BY <1>3, <1>6, <2>1, SwapFacts
    <3> QED BY <1>4, <3>1
  <2>3. \A j \in 1..Len(blocks[s]) : q[j] = IF j = k THEN c ELSE blocks[s][j]
    BY <1>3, ExceptSeq
  <2> QED BY <2>2, <2>3
<1> HIDE DEF q
<1>8. /\ ref' \in [Block -> Nat]
      /\ \A x \in Block : ref'[x] = IF x = c THEN ref[c] + 1 ELSE ref[x]
      /\ evictable' \in Seq(Block)
      /\ Distinct(evictable')
      /\ \A x : In(evictable', x) <=> In(evictable, x) /\ x # c
  BY <1>1, <1>3, IncrefFacts DEF IsCached
<1>9. /\ \A x \in Slot : /\ blocks'[x] = IF x = s THEN q ELSE blocks[x]
                         /\ published'[x] = IF x = s THEN k ELSE published[x]
                         /\ parent'[x] = IF x = s THEN h ELSE parent[x]
      /\ Live' = Live /\ Live \subseteq Slot
  BY <1>2, <1>5, Elements DEF TypeOK, Live
<1>10. In(blocks[s], own) /\ s \in Holders(own) /\ Holders(own) = {s} /\ ~In(free_list, own)
  <2>1. In(blocks[s], own) /\ s \in Holders(own)
    BY <1>3, <1>4 DEF In, Holders
  <2>2. ~IsCached(own) /\ ~In(free_list, own)
    BY <1>3, <1>4, <2>1 DEF IsCached, BlockOwnership
  <2>3. PICK x \in Slot : Holders(own) = {x}
    BY <1>3, <2>2 DEF BlockOwnership
  <2> QED BY <2>1, <2>2, <2>3
<1>11. /\ free_list' \in Seq(Block) /\ Distinct(free_list')
       /\ \A x : In(free_list', x) <=> In(free_list, x) \/ x = own
  <2>1. free_list \in Seq(Block) /\ Distinct(free_list)
    BY DEF TypeOK, BlockOwnership
  <2> HIDE DEF IInv
  <2> QED BY <1>4, <1>10, <2>1, AppendFacts
<1>12. TypeOK'
  BY <1>2, <1>3, <1>4, <1>5, <1>7, <1>8, <1>11 DEF TypeOK, control
<1>13. /\ Holders(c)' = Holders(c) \cup {s} /\ s \notin Holders(c)
       /\ Holders(own)' = {}
       /\ \A x \in Block : x # c /\ x # own => Holders(x)' = Holders(x)
       /\ \A x \in Block : IsCached(x)' = IsCached(x)
       /\ IsCached(c) /\ ~IsCached(own)
  <2>1. \A x : Holders(x)' = IF In(q, x) THEN Holders(x) \cup {s} ELSE Holders(x) \ {s}
    BY <1>3, <1>5, HoldersAfter
  <2>2. \A x : In(blocks[s], x) <=> s \in Holders(x)
    BY <1>3 DEF Holders
  <2>3. s \notin Holders(c) /\ Holders(c)' = Holders(c) \cup {s}
    BY <1>6, <1>7, <2>1, <2>2
  <2>4. Holders(own)' = {}
    BY <1>6, <1>7, <1>10, <2>1
  <2>5. \A x \in Block : x # c /\ x # own => Holders(x)' = Holders(x)
    BY <1>7, <2>1, <2>2
  <2>6. /\ \A x \in Block : IsCached(x)' = IsCached(x)
        /\ IsCached(c) /\ ~IsCached(own)
    BY <1>1, <1>2, <1>3, <1>4 DEF IsCached
  <2> QED BY <2>3, <2>4, <2>5, <2>6
<1>14. BlockOwnership'
  <2>1. \A x \in Slot : Distinct(blocks'[x])
    BY <1>7, <1>9 DEF BlockOwnership
  <2>2. ASSUME NEW x \in Block
        PROVE  /\ In(free_list', x) => ~IsCached(x)' /\ Holders(x)' = {}
               /\ ~IsCached(x)' /\ ~In(free_list', x) => \E y \in Slot : Holders(x)' = {y}
    <3>1. CASE x = own
      BY <1>11, <1>13, <3>1
    <3>2. CASE x # own
      BY <1>11, <1>13, <3>2 DEF BlockOwnership
    <3> QED BY <3>1, <3>2
  <2> QED BY <1>11, <2>1, <2>2 DEF BlockOwnership, Distinct, In
<1>15. RefCountsExact'
  <2>1. ASSUME NEW x \in Block, IsCached(x)' PROVE ref'[x] = Cardinality(Holders(x)')
    <3>1. CASE x = c
      <4>1. ref[c] = Cardinality(Holders(c))
        BY <1>13 DEF RefCountsExact
      <4>2. Cardinality(Holders(c) \cup {s}) = Cardinality(Holders(c)) + 1
        BY <1>3, <1>13, HolderCounts
      <4> QED BY <1>8, <1>13, <3>1, <4>1, <4>2
    <3>2. CASE x # c
      BY <1>8, <1>13, <2>1, <3>2 DEF RefCountsExact
    <3> QED BY <3>1, <3>2
  <2>2. ASSUME NEW x \in Block PROVE In(evictable', x) <=> IsCached(x)' /\ ref'[x] = 0
    <3>1. CASE x = c
      BY <1>8, <3>1 DEF TypeOK
    <3>2. CASE x # c
      BY <1>8, <1>13, <3>2 DEF RefCountsExact
    <3> QED BY <3>1, <3>2
  <2>3. \A x, y \in Block : IsCached(x)' /\ key'[x] = key'[y] => x = y
    BY <1>2, <1>13 DEF RefCountsExact
  <2> QED BY <1>8, <2>1, <2>2, <2>3 DEF RefCountsExact, Distinct, In
<1>16. PublishedPrefix'
  <2> SUFFICES ASSUME NEW x \in Live
               PROVE  /\ published'[x] * BlockSize <= snapshot[x]
                      /\ parent'[x] = ChainKey(prompt[x], published'[x])
                      /\ \A j \in 1..Len(blocks'[x]) :
                           key[blocks'[x][j]] = IF j <= published'[x]
                                                THEN ChainKey(prompt[x], j) ELSE None
    BY <1>2, <1>9 DEF PublishedPrefix, ChainKey, control
  <2>1. CASE x # s
    BY <1>9, <2>1 DEF PublishedPrefix
  <2>2. CASE x = s
    <3>1. published'[x] = k /\ parent'[x] = h /\ blocks'[x] = q
      BY <1>3, <1>9, <2>2
    <3>2. ASSUME NEW j \in 1..Len(blocks[s])
          PROVE  key[q[j]] = IF j <= k THEN ChainKey(prompt[s], j) ELSE None
      <4>1. CASE j = k
        BY <1>1, <1>3, <1>4, <1>7, <4>1
      <4>2. CASE j # k
        <5>1. j <= k <=> j <= published[s]
          BY <1>3, <1>4, <4>2
        <5>2. q[j] = blocks[s][j]
          BY <1>7, <4>2
        <5> QED BY <1>3, <5>1, <5>2 DEF PublishedPrefix
      <4> QED BY <4>1, <4>2
    <3> QED BY <1>3, <1>7, <2>2, <3>1, <3>2
  <2> QED BY <2>1, <2>2
<1>17. ClosedSlots'
  BY <1>2, <1>3, <1>9 DEF ClosedSlots, control
<1>18. Filled'
  BY <1>2, <1>3, <1>4, <1>7, <1>9 DEF Filled, control
<1>19. Cursors'
  BY <1>2, <1>9 DEF Cursors, control
<1>20. Distinct(batch)'
  BY <1>2 DEF Distinct
<1> QED
  BY <1>12, <1>14, <1>15, <1>16, <1>17, <1>18, <1>19, <1>20

LEMMA FreeTailInv == ASSUME IInv, FreeTail PROVE IInv'
<1> USE DEF IInv
<1> DEFINE s == busy
           i == goal + 1
<1>1. /\ pc \in {"free", "rollback"} /\ s # None /\ goal < Len(blocks[s])
      /\ Free(blocks[s][i])
      /\ blocks' = [blocks EXCEPT ![s] = RemoveAt(@, i)]
      /\ UNCHANGED <<content, batch, prompt, len, published, parent, control>>
  BY DEF FreeTail
<1>2. /\ s \in Slot /\ blocks[s] \in Seq(Block) /\ Len(blocks[s]) \in Nat /\ goal \in Nat
      /\ published[s] \in Nat /\ len[s] \in Nat /\ published[s] <= goal
      /\ s \in Live => len[s] <= goal * BlockSize
      /\ s \notin Live => pc = "free"
  BY <1>1, LenProperties DEF Cursors, TypeOK
<1>3. i \in 1..Len(blocks[s]) /\ i \in Nat
  BY <1>1, <1>2
<1> PICK b \in Block : b = blocks[s][i]
  BY <1>2, <1>3, ElementOfSeq
<1>4. b = blocks[s][i] /\ Free(b)
  BY <1>1
<1> DEFINE q == RemoveAt(blocks[s], i)
<1>5. blocks' = [blocks EXCEPT ![s] = q]
  BY <1>1
<1>6. /\ q \in Seq(Block) /\ Len(q) = Len(blocks[s]) - 1 /\ Distinct(q)
      /\ \A j \in 1..(Len(blocks[s]) - 1) :
            q[j] = IF j < i THEN blocks[s][j] ELSE blocks[s][j + 1]
      /\ \A x : In(q, x) <=> In(blocks[s], x) /\ x # blocks[s][i]
  <2>1. Distinct(blocks[s])
    BY <1>2 DEF BlockOwnership
  <2> HIDE DEF s, i
  <2>2. Distinct(blocks[s]) => \A x : In(q, x) <=> In(blocks[s], x) /\ x # blocks[s][i]
    BY <1>2, <1>3, RemoveAtFacts
  <2>3. /\ q \in Seq(Block) /\ Len(q) = Len(blocks[s]) - 1
        /\ Distinct(blocks[s]) => Distinct(q)
    BY <1>2, <1>3, RemoveAtFacts
  <2>4. \A j \in 1..(Len(blocks[s]) - 1) :
           q[j] = IF j < i THEN blocks[s][j] ELSE blocks[s][j + 1]
    <3>1. PICK t \in Seq(Block) : t = blocks[s]
      BY <1>2
    <3>2. i \in 1..Len(t)
      BY <1>3, <3>1
    <3>3. \A j \in 1..(Len(t) - 1) :
             RemoveAt(t, i)[j] = IF j < i THEN t[j] ELSE t[j + 1]
      BY <3>2, RemoveAtFacts
    <3> QED BY <3>1, <3>3
  <2> QED BY <2>1, <2>2, <2>3, <2>4
<1>7. \A x : In(q, x) <=> In(blocks[s], x) /\ x # b
  BY <1>4, <1>6
<1>8. i = goal + 1
  OBVIOUS
<1> HIDE DEF s, i, q
<1>9. /\ \A x \in Slot : blocks'[x] = IF x = s THEN q ELSE blocks[x]
      /\ Live' = Live /\ Live \subseteq Slot
  BY <1>1, <1>5, Elements DEF TypeOK, Live
<1>10. s \in Holders(b) /\ ~In(free_list, b)
  <2>1. In(blocks[s], b)
    BY <1>3, <1>4 DEF In
  <2>2. s \in Holders(b)
    BY <1>2, <2>1 DEF Holders
  <2> QED BY <2>2 DEF BlockOwnership
<1>11. Holders(b)' = Holders(b) \ {s} /\ \A c \in Block : c # b => Holders(c)' = Holders(c)
  <2>1. \A c : Holders(c)' = IF In(q, c) THEN Holders(c) \cup {s} ELSE Holders(c) \ {s}
    BY <1>2, <1>5, HoldersAfter
  <2>2. \A c : In(blocks[s], c) <=> s \in Holders(c)
    BY <1>2 DEF Holders
  <2>3. ~In(q, b)
    BY <1>7
  <2>4. \A c \in Block : c # b => Holders(c)' = Holders(c)
    BY <1>7, <2>1, <2>2
  <2> QED BY <2>1, <2>3, <2>4
<1>12. key' = key /\ \A c : IsCached(c)' = IsCached(c)
  BY <1>4 DEF Free, IsCached
<1>13. \A x \in Slot : Distinct(blocks'[x])
  BY <1>6, <1>9 DEF BlockOwnership
<1>14. /\ ref \in [Block -> Nat] /\ evictable \in Seq(Block) /\ free_list \in Seq(Block)
       /\ Distinct(evictable) /\ Distinct(free_list)
  BY DEF TypeOK, BlockOwnership, RefCountsExact
<1>15. /\ ref' \in [Block -> Nat] /\ evictable' \in Seq(Block) /\ free_list' \in Seq(Block)
       /\ BlockOwnership' /\ RefCountsExact'
  <2>1. CASE IsCached(b)
    <3>1. /\ ref' = [ref EXCEPT ![b] = ref[b] - 1]
          /\ evictable' = IF ref[b] = 1 THEN Append(evictable, b) ELSE evictable
          /\ free_list' = free_list
      BY <1>4, <2>1 DEF Free
    <3>2. /\ ref[b] = Cardinality(Holders(b)) /\ Cardinality(Holders(b)) >= 1
          /\ Cardinality(Holders(b) \ {s}) = Cardinality(Holders(b)) - 1
          /\ Cardinality(Holders(b)) \in Nat
      BY <1>2, <1>10, <2>1, HolderCounts DEF RefCountsExact
    <3>3. /\ ref' \in [Block -> Nat]
          /\ \A c \in Block : ref'[c] = IF c = b THEN ref[b] - 1 ELSE ref[c]
      BY <1>14, <3>1, <3>2
    <3>4. ~In(evictable, b)
      BY <3>2 DEF RefCountsExact
    <3>5. /\ evictable' \in Seq(Block) /\ Distinct(evictable')
          /\ \A c : In(evictable', c) <=> In(evictable, c) \/ (c = b /\ ref[b] = 1)
      <4>1. CASE ref[b] = 1
        BY <1>14, <3>1, <3>4, <4>1, AppendFacts
      <4>2. CASE ref[b] # 1
        BY <1>14, <3>1, <4>2
      <4> QED BY <4>1, <4>2
    <3>6. BlockOwnership'
      <4>1. ASSUME NEW c \in Block
            PROVE  /\ In(free_list, c) => ~IsCached(c)' /\ Holders(c)' = {}
                   /\ ~IsCached(c)' /\ ~In(free_list, c) => \E x \in Slot : Holders(c)' = {x}
        BY <1>10, <1>11, <1>12, <2>1 DEF BlockOwnership
      <4> QED BY <1>13, <1>14, <3>1, <4>1 DEF BlockOwnership, Distinct, In
    <3>7. RefCountsExact'
      <4>1. ASSUME NEW c \in Block, IsCached(c)' PROVE ref'[c] = Cardinality(Holders(c)')
        <5>1. CASE c = b
          BY <1>11, <3>2, <3>3, <5>1
        <5>2. CASE c # b
          BY <1>11, <1>12, <3>3, <4>1, <5>2 DEF RefCountsExact
        <5> QED BY <5>1, <5>2
      <4>2. ASSUME NEW c \in Block PROVE In(evictable', c) <=> IsCached(c)' /\ ref'[c] = 0
        <5>1. CASE c = b
          BY <1>12, <2>1, <3>2, <3>3, <3>4, <3>5, <5>1
        <5>2. CASE c # b
          BY <1>12, <3>3, <3>5, <5>2 DEF RefCountsExact
        <5> QED BY <5>1, <5>2
      <4>3. \A c, d \in Block : IsCached(c)' /\ key'[c] = key'[d] => c = d
        BY <1>12 DEF RefCountsExact
      <4> QED BY <3>5, <4>1, <4>2, <4>3 DEF RefCountsExact, Distinct, In
    <3> QED BY <1>14, <3>1, <3>3, <3>5, <3>6, <3>7
  <2>2. CASE ~IsCached(b)
    <3>1. free_list' = Append(free_list, b) /\ ref' = ref /\ evictable' = evictable
      BY <1>4, <2>2 DEF Free
    <3>2. /\ free_list' \in Seq(Block) /\ Distinct(free_list')
          /\ \A c : In(free_list', c) <=> In(free_list, c) \/ c = b
      BY <1>10, <1>14, <3>1, AppendFacts
    <3>3. Holders(b)' = {}
      <4>1. PICK x \in Slot : Holders(b) = {x}
        BY <1>10, <2>2 DEF BlockOwnership
      <4> QED BY <1>10, <1>11, <4>1
    <3>4. BlockOwnership'
      <4>1. ASSUME NEW c \in Block
            PROVE  /\ In(free_list', c) => ~IsCached(c)' /\ Holders(c)' = {}
                   /\ ~IsCached(c)' /\ ~In(free_list', c) => \E x \in Slot : Holders(c)' = {x}
        <5>1. CASE c = b
          BY <1>12, <2>2, <3>2, <3>3, <5>1
        <5>2. CASE c # b
          BY <1>11, <1>12, <3>2, <5>2 DEF BlockOwnership
        <5> QED BY <5>1, <5>2
      <4> QED BY <1>13, <3>2, <4>1 DEF BlockOwnership, Distinct, In
    <3>5. RefCountsExact'
      <4>1. ASSUME NEW c \in Block, IsCached(c)' PROVE ref'[c] = Cardinality(Holders(c)')
        BY <1>11, <1>12, <2>2, <3>1, <4>1 DEF RefCountsExact
      <4>2. \A c \in Block : In(evictable', c) <=> IsCached(c)' /\ ref'[c] = 0
        BY <1>12, <3>1 DEF RefCountsExact, In
      <4>3. \A c, d \in Block : IsCached(c)' /\ key'[c] = key'[d] => c = d
        BY <1>12 DEF RefCountsExact
      <4>4. Distinct(evictable')
        BY <1>14, <3>1
      <4> HIDE DEF IInv
      <4> QED BY <4>1, <4>2, <4>3, <4>4 DEF RefCountsExact, Distinct, In
    <3> QED BY <1>14, <3>1, <3>2, <3>4, <3>5
  <2> QED BY <2>1, <2>2
<1>16. TypeOK'
  <2>1. blocks' \in [Slot -> Seq(Block)]
    <3>1. blocks \in [Slot -> Seq(Block)]
      BY DEF TypeOK
    <3> HIDE DEF IInv
    <3> QED BY <1>5, <1>6, <3>1
  <2>2. UNCHANGED <<key, content, batch, prompt, len, published, parent, pc, cur, busy, goal,
                    need, snapshot>>
    BY <1>1, <1>12 DEF control
  <2> QED BY <1>15, <2>1, <2>2 DEF TypeOK
<1>17. PublishedPrefix'
  <2> SUFFICES ASSUME NEW x \in Live, NEW j \in 1..Len(blocks'[x])
               PROVE  key[blocks'[x][j]] = IF j <= published[x]
                                           THEN ChainKey(prompt[x], j) ELSE None
    BY <1>1, <1>9, <1>12 DEF PublishedPrefix, ChainKey, control
  <2>1. CASE x # s
    BY <1>9, <2>1 DEF PublishedPrefix
  <2>2. CASE x = s
    <3>1. j \in 1..(Len(blocks[s]) - 1) /\ blocks'[x] = q /\ j \in Nat
      BY <1>2, <1>6, <1>9, <2>2
    <3>2. CASE j < i
      BY <1>6, <2>2, <3>1, <3>2 DEF PublishedPrefix
    <3>3. CASE ~(j < i)
      <4>1. j + 1 \in 1..Len(blocks[s]) /\ ~(j + 1 <= published[s]) /\ ~(j <= published[s])
        BY <1>2, <1>8, <3>1, <3>3
      <4>2. key[blocks[s][j + 1]] = None
        BY <2>2, <4>1 DEF PublishedPrefix
      <4> QED BY <1>6, <2>2, <3>1, <3>3, <4>1, <4>2
    <3> QED BY <3>2, <3>3
  <2> QED BY <2>1, <2>2
<1>18. ClosedSlots'
  BY <1>1, <1>2, <1>9 DEF ClosedSlots, control, s
<1>19. Filled'
  <2> SUFFICES ASSUME NEW x \in Live
               PROVE  /\ published[x] <= Len(blocks'[x])
                      /\ len[x] <= Len(blocks'[x]) * BlockSize
    BY <1>1, <1>9 DEF Filled, control
  <2>1. CASE x # s
    BY <1>9, <2>1 DEF Filled
  <2>2. CASE x = s
    <3> DEFINE n == Len(blocks'[x])
    <3>1. n \in Nat /\ goal <= n
      BY <1>1, <1>2, <1>6, <1>9, <2>2
    <3> HIDE DEF n
    <3>2. goal * BlockSize <= n * BlockSize /\ n * BlockSize \in Nat /\ goal * BlockSize \in Nat
      BY <1>2, <3>1, PagedKVAssumption
    <3>3. published[x] <= n /\ len[x] <= n * BlockSize
      BY <1>2, <2>2, <3>1, <3>2
    <3> QED BY <3>3 DEF n
  <2> QED BY <2>1, <2>2
<1>20. Cursors'
  BY <1>1, <1>9 DEF Cursors, control
<1>21. Distinct(batch)'
  BY <1>1 DEF Distinct
<1> QED
  BY <1>15, <1>16, <1>17, <1>18, <1>19, <1>20, <1>21

-----------------------------------------------------------------------------
(* The invariant holds initially and every step preserves it.               *)

LEMMA InitInv == Init => IInv
<1> SUFFICES ASSUME Init PROVE IInv
  OBVIOUS
<1> USE DEF Init
<1>1. NumBlocks \in Nat /\ BlockSize \in Nat /\ BlockSize > 0
  BY PagedKVAssumption
<1>2. /\ free_list \in Seq(Block) /\ Len(free_list) = NumBlocks
      /\ \A i \in 1..NumBlocks : free_list[i] = i
  BY <1>1, IsASeq, LenProperties DEF Block
<1>3. Live = {} /\ Distinct(batch)
  BY DEF Live, ToSet, Distinct
<1>4. \A s \in Slot : blocks[s] = <<>> /\ \A x : ~In(blocks[s], x)
  BY DEF In
<1>5. TypeOK
  <2>1. /\ content \in [Block \X (0..BlockSize - 1) -> Seq(Token)]
        /\ evictable \in Seq(Block) /\ batch \in Seq(Slot)
        /\ prompt \in [Slot -> Seq(Token)] /\ parent \in [Slot -> Seq(Token)]
        /\ blocks \in [Slot -> Seq(Block)]
    BY EmptySeq DEF Garbage
  <2>2. key \in [Block -> {None} \cup Seq(Token)] /\ ref \in [Block -> Nat]
    OBVIOUS
  <2>3. /\ len \in [Slot -> Nat] /\ published \in [Slot -> Nat]
        /\ need \in [Slot -> Nat] /\ snapshot \in [Slot -> Nat]
    BY DEF NoTokens
  <2> QED BY <1>2, <2>1, <2>2, <2>3 DEF TypeOK
<1>6. BlockOwnership
  <2>1. Distinct(free_list)
    BY <1>2 DEF Distinct
  <2>2. \A s \in Slot : Distinct(blocks[s])
    BY <1>4 DEF Distinct
  <2>3. \A b \in Block : In(free_list, b)
    BY <1>2 DEF In, Block
  <2>4. \A b \in Block : ~IsCached(b) /\ Holders(b) = {}
    BY <1>4 DEF IsCached, Holders
  <2> QED BY <2>1, <2>2, <2>3, <2>4 DEF BlockOwnership
<1>7. RefCountsExact
  BY DEF RefCountsExact, IsCached, Distinct, In
<1>8. PublishedPrefix /\ Filled
  BY <1>3 DEF PublishedPrefix, Filled
<1>9. ClosedSlots
  BY DEF ClosedSlots, NoTokens
<1>10. Cursors
  BY DEF Cursors
<1> QED
  BY <1>3, <1>5, <1>6, <1>7, <1>8, <1>9, <1>10 DEF IInv

LEMMA NextInv == IInv /\ [Next]_vars => IInv'
<1> SUFFICES ASSUME IInv, [Next]_vars PROVE IInv'
  OBVIOUS
<1>1. ASSUME NEW s \in Slot, NEW p \in Prompt, AddRequestSlot(s, p) PROVE IInv'
  BY <1>1, AddRequestSlotInv
<1>2. CASE PinMatch
  BY <1>2, PinMatchInv
<1>3. CASE SlotReady
  BY <1>3, SlotReadyInv
<1>4. CASE Step
  <2>1. CASE BeginStep
    BY <2>1, BeginStepInv
  <2>2. CASE ReserveBlock
    BY <2>2, ReserveBlockInv
  <2>3. CASE AdvanceSlot
    BY <2>3, AdvanceSlotInv
  <2>4. CASE ReserveFails
    BY <2>4, ReserveFailsInv
  <2>5. CASE WriteKV
    BY <2>5, WriteKVInv
  <2>6. CASE PublishFresh
    BY <2>6, PublishFreshInv
  <2>7. CASE PublishDuplicate
    BY <2>7, PublishDuplicateInv
  <2>8. CASE PublishSlotDone
    BY <2>8, PublishSlotDoneInv
  <2> QED BY <1>4, <2>1, <2>2, <2>3, <2>4, <2>5, <2>6, <2>7, <2>8 DEF Step
<1>5. ASSUME NEW s \in Live, NEW n \in 0..MaxLen, TruncateTo(s, n) PROVE IInv'
  BY <1>5, TruncateToInv
<1>6. ASSUME NEW s \in Live, RemoveRequest(s) PROVE IInv'
  BY <1>6, RemoveRequestInv
<1>7. CASE RollbackSlot
  BY <1>7, RollbackSlotInv
<1>8. CASE RollbackSkip
  BY <1>8, RollbackSkipInv
<1>9. CASE FreeTail
  BY <1>9, FreeTailInv
<1>10. CASE FreeTailDone
  BY <1>10, FreeTailDoneInv
<1>11. CASE UNCHANGED vars
  <2>1. \A s \in Live : published[s] * BlockSize <= snapshot'[s]
    BY <1>11 DEF IInv, Filled, vars, control
  <2>2. /\ UNCHANGED <<pool, content, batch, prompt, blocks, len, published, parent>>
        /\ UNCHANGED <<pc, cur, busy, goal, need, snapshot>>
    BY <1>11 DEF vars, tables, control
  <2>3. /\ BlockOwnership' /\ RefCountsExact' /\ PublishedPrefix' /\ Distinct(batch)'
        /\ Live' = Live
    BY <2>1, <2>2, SameTables
  <2>4. TypeOK'
    BY <2>2, TypeStep DEF IInv, TypeOK
  <2>5. ClosedSlots' /\ Filled' /\ Cursors'
    BY <2>2, <2>3 DEF IInv, ClosedSlots, Filled, Cursors
  <2> QED BY <2>3, <2>4, <2>5 DEF IInv
<1> QED
  BY <1>1, <1>2, <1>3, <1>4, <1>5, <1>6, <1>7, <1>8, <1>9, <1>10, <1>11 DEF Next

\* IInv is an inductive invariant of the pool, the prefix cache and the block tables.
THEOREM Invariance == Spec => []IInv
  BY InitInv, NextInv, PTL DEF Spec

\* Every variable of the cache keeps its type.
THEOREM TypeCorrect == Spec => []TypeOK
<1>1. IInv => TypeOK
  BY DEF IInv
<1> QED
  BY <1>1, Invariance, PTL

\* No block of the pool is ever lost or handed out twice.
THEOREM BlocksOwnedOnce == Spec => []BlockOwnership
<1>1. IInv => BlockOwnership
  BY DEF IInv
<1> QED
  BY <1>1, Invariance, PTL

\* The reference count of a cached block is always the number of tables that name
\* it, and the LRU order is exactly the blocks no table names.
THEOREM RefCountsAreExact == Spec => []RefCountsExact
<1>1. IInv => RefCountsExact
  BY DEF IInv
<1> QED
  BY <1>1, Invariance, PTL

\* A slot's table starts with the cached blocks of its own prompt and continues
\* with private blocks.
THEOREM TablesStartWithThePrefix == Spec => []PublishedPrefix
<1>1. IInv => PublishedPrefix
  BY DEF IInv
<1> QED
  BY <1>1, Invariance, PTL

\* The roll back after an allocation that failed never cuts into a published block.
THEOREM RollbackIsNeverRefused == Spec => []RollbackNeverRefused
<1>1. IInv => RollbackNeverRefused
  BY DEF IInv, Filled, RollbackNeverRefused
<1> QED
  BY <1>1, Invariance, PTL

-----------------------------------------------------------------------------
(* What a forward writes.                                                  *)

\* A position a slot has not committed lies in a block that is not cached.
LEMMA NewPositionIsPrivate ==
    ASSUME IInv, NEW s \in Live, NEW i \in Nat, snapshot[s] < i, i <= len[s]
    PROVE  ~IsCached(Address(s, i)[1])
<1> USE DEF IInv
<1> DEFINE q == (i - 1) \div BlockSize
           p == published[s]
           L == Len(blocks[s])
<1>1. /\ s \in Slot /\ snapshot[s] \in Nat /\ len[s] \in Nat /\ p \in Nat /\ L \in Nat
      /\ BlockSize \in Nat /\ BlockSize > 0 /\ i - 1 \in Nat
      /\ p * BlockSize \in Nat /\ L * BlockSize \in Nat
  BY Elements, LenProperties, PagedKVAssumption DEF Live, TypeOK
<1>2. p * BlockSize <= snapshot[s] /\ len[s] <= L * BlockSize
  BY DEF Filled
<1> HIDE DEF p, L
<1>3. p * BlockSize <= i - 1 /\ ~(L * BlockSize <= i - 1)
  BY <1>1, <1>2
<1>4. q \in Nat /\ p <= q /\ ~(L <= q)
  BY <1>1, <1>3, FullBlocks
<1>5. Address(s, i)[1] = blocks[s][q + 1]
  BY DEF Address
<1> HIDE DEF q
<1>6. q + 1 \in 1..L /\ ~(q + 1 <= p)
  BY <1>1, <1>4
<1>7. key[blocks[s][q + 1]] = None
  BY <1>6 DEF PublishedPrefix, p, L
<1> QED
  BY <1>5, <1>7 DEF IsCached

LEMMA WriteSparesCachedBlocks ==
    ASSUME IInv, WriteKV, NEW b \in Block, IsCached(b), NEW off \in 0..BlockSize - 1
    PROVE  content'[<<b, off>>] = content[<<b, off>>]
<1> DEFINE written == UNION {{s} \X (snapshot[s] + 1..len[s]) : s \in Live}
           at(x) == {w \in written : Address(w[1], w[2]) = x}
           x == <<b, off>>
<1>1. PICK gen \in [Slot -> Sampled] :
         content' = [y \in DOMAIN content |->
                        IF at(y) = {} THEN content[y]
                        ELSE LET w == CHOOSE w \in at(y) : TRUE
                             IN Computed(w[1], w[2], gen)]
  BY DEF WriteKV
<1>2. at(x) = {}
  <2> SUFFICES ASSUME NEW w \in at(x) PROVE FALSE
    OBVIOUS
  <2>1. /\ w[1] \in Live /\ w[2] \in Nat /\ snapshot[w[1]] < w[2] /\ w[2] <= len[w[1]]
        /\ Address(w[1], w[2]) = x
    <3>1. PICK s \in Live : w \in {s} \X (snapshot[s] + 1..len[s])
      OBVIOUS
    <3>2. w[1] = s /\ w[2] \in snapshot[s] + 1..len[s] /\ Address(w[1], w[2]) = x
      BY <3>1
    <3>3. s \in Slot /\ snapshot[s] \in Nat /\ len[s] \in Nat
      BY Elements DEF IInv, Live, TypeOK
    <3> QED BY <3>2, <3>3
  <2>2. ~IsCached(Address(w[1], w[2])[1])
    BY <2>1, NewPositionIsPrivate
  <2>3. Address(w[1], w[2])[1] = b
    BY <2>1
  <2> QED BY <2>2, <2>3
<1>3. x \in DOMAIN content
  BY DEF IInv, TypeOK
<1> HIDE DEF at, x
<1>4. content'[x] = content[x]
  BY <1>1, <1>2, <1>3
<1> QED
  BY <1>4 DEF x

\* The K/V of a block never changes while it stays cached under one key.
THEOREM CachedBlocksStay == Spec => CachedBlocksImmutable
<1> DEFINE A == \A b \in Block : IsCached(b) /\ key'[b] = key[b] =>
                  \A off \in 0..BlockSize - 1 : content'[<<b, off>>] = content[<<b, off>>]
<1>1. IInv /\ [Next]_vars => [A]_vars
  <2> SUFFICES ASSUME IInv, Next PROVE A
    OBVIOUS
  <2>1. CASE WriteKV
    BY <2>1, WriteSparesCachedBlocks
  <2>2. CASE ~WriteKV
    <3>1. UNCHANGED content
      BY <2>2 DEF Next, Step, AddRequestSlot, PinMatch, SlotReady, BeginStep, ReserveBlock,
                  AdvanceSlot, ReserveFails, PublishFresh, PublishDuplicate, PublishSlotDone,
                  TruncateTo, RemoveRequest, RollbackSlot, RollbackSkip, FreeTail, FreeTailDone
    <3> QED BY <3>1
  <2> QED BY <2>1, <2>2
<1> HIDE DEF A
<1>2. Spec => [][A]_vars
  BY <1>1, Invariance, PTL DEF Spec
<1> QED
  BY <1>2 DEF CachedBlocksImmutable, A

-----------------------------------------------------------------------------
(* What the slots read.                                                    *)

\* The place of a position in its slot's table, and in its block.
Place(i) == ((i - 1) \div BlockSize) + 1
Offset(i) == (i - 1) % BlockSize

\* A position is where its place and its offset say.
LEMMA Places ==
    ASSUME NEW i \in Nat \ {0}
    PROVE  /\ Place(i) \in Nat \ {0}
           /\ Offset(i) \in 0..BlockSize - 1
           /\ i = (Place(i) - 1) * BlockSize + Offset(i) + 1
           /\ \A n \in Nat : i <= n * BlockSize <=> Place(i) <= n
<1> DEFINE d == (i - 1) \div BlockSize
           m == (i - 1) % BlockSize
<1>1. BlockSize \in Nat /\ BlockSize > 0 /\ i - 1 \in Nat
  BY PagedKVAssumption
<1>2. d \in Nat /\ m \in 0..BlockSize - 1 /\ i - 1 = BlockSize * d + m
  BY <1>1
<1>3. Place(i) = d + 1 /\ Offset(i) = m
  BY DEF Place, Offset
<1>4. ASSUME NEW n \in Nat PROVE i <= n * BlockSize <=> d + 1 <= n
  <2>1. n <= d <=> n * BlockSize <= i - 1
    BY <1>1, FullBlocks
  <2>2. n * BlockSize \in Nat
    BY <1>1
  <2> HIDE DEF d
  <2> QED BY <1>1, <1>2, <2>1, <2>2
<1> HIDE DEF d, m
<1>5. (d + 1 - 1) * BlockSize = BlockSize * d
  <2>1. d + 1 - 1 = d
    BY <1>2
  <2>2. d * BlockSize = BlockSize * d
    BY <1>1, <1>2
  <2> QED BY <2>1, <2>2
<1>6. i = (d + 1 - 1) * BlockSize + m + 1
  <2>1. BlockSize * d \in Nat
    BY <1>1, <1>2
  <2> QED BY <1>1, <1>2, <1>5, <2>1
<1> QED
  BY <1>2, <1>3, <1>4, <1>6

\* The positions of a table's block.
LEMMA BlockPositions ==
    ASSUME NEW n \in Nat, NEW off \in 0..BlockSize - 1
    PROVE  LET i == n * BlockSize + off + 1
           IN i \in 1..(n + 1) * BlockSize /\ Place(i) = n + 1 /\ Offset(i) = off
<1> DEFINE m == n * BlockSize
           i == m + off + 1
<1>1. BlockSize \in Nat /\ BlockSize > 0 /\ m \in Nat /\ (n + 1) * BlockSize = m + BlockSize
  BY PagedKVAssumption
<1> HIDE DEF m
<1>2. i \in Nat \ {0} /\ i \in 1..m + BlockSize /\ ~(i <= m)
  BY <1>1
<1> DEFINE p == Place(i)
           o == Offset(i)
<1>3. /\ p \in Nat \ {0} /\ o \in 0..BlockSize - 1
      /\ i = (p - 1) * BlockSize + o + 1
      /\ i <= (n + 1) * BlockSize <=> p <= n + 1
      /\ i <= n * BlockSize <=> p <= n
  <2> HIDE DEF i
  <2>1. n + 1 \in Nat
    OBVIOUS
  <2> QED BY <1>2, <2>1, Places
<1> HIDE DEF p, o
<1>4. i <= (n + 1) * BlockSize
  BY <1>1, <1>2
<1>5. ~(i <= n * BlockSize)
  BY <1>2 DEF m
<1> HIDE DEF i
<1>6. p = n + 1
  BY <1>3, <1>4, <1>5
<1>7. (p - 1) * BlockSize = m
  <2>1. p - 1 = n
    BY <1>6
  <2> QED BY <2>1 DEF m
<1>8. o = off
  BY <1>1, <1>3, <1>7 DEF i
<1> QED
  BY <1>1, <1>2, <1>6, <1>8 DEF i, m, p, o

\* The elements of a chain key are those of the prompt.
LEMMA ChainKeyElements ==
    ASSUME NEW p \in Seq(Token), NEW k \in Nat, k * BlockSize <= Len(p)
    PROVE  \A j \in 1..k * BlockSize : ChainKey(p, k)[j] = p[j]
<1> DEFINE n == k * BlockSize
<1>1. n \in Nat /\ Len(p) \in Nat /\ n <= Len(p)
  BY PagedKVAssumption
<1> HIDE DEF n
<1>2. 1 \in Int /\ n \in Int /\ \A i \in 1..n : p[i] \in Token
  BY <1>1, ElementOfSeq
<1>3. \A j \in 1..n : SubSeq(p, 1, n)[j] = p[1 + j - 1]
  <2>1. \A j \in 1..(n - 1 + 1) : SubSeq(p, 1, n)[j] = p[1 + j - 1]
    BY <1>2, SubSeqProperties
  <2> QED BY <1>1, <2>1
<1>4. \A j \in 1..n : 1 + j - 1 = j
  BY <1>1
<1> QED
  BY <1>3, <1>4 DEF ChainKey, n

\* Where a slot's position is stored, before and after a step.
LEMMA AddressIs ==
    ASSUME NEW s, NEW i
    PROVE  /\ Address(s, i) = <<blocks[s][Place(i)], Offset(i)>>
           /\ Address(s, i)' = <<blocks'[s][Place(i)], Offset(i)>>
  BY DEF Address, Place, Offset

\* The fields of a live slot.
LEMMA LiveFacts ==
    ASSUME IInv, NEW s \in Live
    PROVE  /\ s \in Slot /\ snapshot[s] \in Nat /\ len[s] \in Nat /\ published[s] \in Nat
           /\ prompt[s] \in Seq(Token) /\ Len(prompt[s]) \in Nat
           /\ blocks[s] \in Seq(Block) /\ Len(blocks[s]) \in Nat
           /\ snapshot[s] <= len[s] /\ len[s] <= Len(blocks[s]) * BlockSize
           /\ published[s] * BlockSize \in Nat /\ published[s] * BlockSize <= snapshot[s]
<1>1. /\ s \in Slot /\ snapshot[s] \in Nat /\ len[s] \in Nat /\ published[s] \in Nat
      /\ prompt[s] \in Seq(Token) /\ blocks[s] \in Seq(Block)
  BY Elements DEF IInv, Live, TypeOK
<1>2. Len(prompt[s]) \in Nat /\ Len(blocks[s]) \in Nat
  BY <1>1, LenProperties
<1>3. /\ snapshot[s] <= len[s] /\ len[s] <= Len(blocks[s]) * BlockSize
      /\ published[s] * BlockSize <= snapshot[s]
  BY DEF IInv, Filled
<1>4. published[s] * BlockSize \in Nat
  BY <1>1, PagedKVAssumption
<1> QED
  BY <1>1, <1>2, <1>3, <1>4

\* Where a position of a live slot is stored, and what is there.
LEMMA ReadFacts ==
    ASSUME IInv, NEW s \in Live, NEW i \in 1..len[s]
    PROVE  /\ i \in Nat \ {0}
           /\ Place(i) \in 1..Len(blocks[s]) /\ Offset(i) \in 0..BlockSize - 1
           /\ blocks[s][Place(i)] \in Block
           /\ Address(s, i) = <<blocks[s][Place(i)], Offset(i)>>
           /\ content[Address(s, i)] \in Seq(Token)
<1>1. /\ s \in Slot /\ len[s] \in Nat /\ blocks[s] \in Seq(Block) /\ Len(blocks[s]) \in Nat
      /\ len[s] <= Len(blocks[s]) * BlockSize
  BY LiveFacts
<1>2. i \in Nat \ {0} /\ i <= len[s]
  BY <1>1
<1>3. Place(i) \in Nat \ {0} /\ Offset(i) \in 0..BlockSize - 1
  BY <1>2, Places
<1>4. i <= Len(blocks[s]) * BlockSize
  <2>1. Len(blocks[s]) * BlockSize \in Nat
    BY <1>1, PagedKVAssumption
  <2> QED BY <1>1, <1>2, <2>1
<1>5. Place(i) <= Len(blocks[s])
  BY <1>1, <1>2, <1>4, Places
<1>6. Place(i) \in 1..Len(blocks[s])
  BY <1>1, <1>3, <1>5
<1>7. blocks[s][Place(i)] \in Block
  BY <1>1, <1>6, ElementOfSeq
<1>8. Address(s, i) = <<blocks[s][Place(i)], Offset(i)>>
  BY AddressIs
<1>9. content[Address(s, i)] \in Seq(Token)
  BY <1>3, <1>7, <1>8 DEF IInv, TypeOK
<1> QED
  BY <1>2, <1>3, <1>6, <1>7, <1>8, <1>9

\* A committed position stands for a token, that of its own K/V.
LEMMA TokenFacts ==
    ASSUME IInv, ReadsOwnText, NEW s \in Live, NEW i \in 1..snapshot[s]
    PROVE  /\ i \in 1..len[s]
           /\ content[Address(s, i)] \in Seq(Token) /\ Len(content[Address(s, i)]) = i
           /\ TokenAt(s, i) = content[Address(s, i)][i]
           /\ TokenAt(s, i) \in Token
<1>1. snapshot[s] \in Nat /\ len[s] \in Nat /\ snapshot[s] <= len[s]
  BY LiveFacts
<1>2. i \in 1..len[s]
  BY <1>1
<1>3. content[Address(s, i)] \in Seq(Token) /\ Len(content[Address(s, i)]) = i
  BY <1>2, ReadFacts DEF ReadsOwnText
<1> DEFINE e == content[Address(s, i)]
<1>4. e # Garbage
  BY <1>1, <1>3 DEF Garbage
<1>5. TokenAt(s, i) = e[i]
  BY <1>3, <1>4 DEF TokenAt, LastToken
<1> HIDE DEF e
<1>6. e[i] \in Token
  <2>1. i \in 1..Len(e)
    BY <1>1, <1>3 DEF e
  <2> QED BY <1>3, <2>1, ElementOfSeq DEF e
<1> QED
  BY <1>2, <1>3, <1>5, <1>6 DEF e

\* What a slot read it still reads, if its positions keep their K/V.
LEMMA SameText ==
    ASSUME IInv, ReadsOwnText, NEW s \in Live, NEW n \in 0..snapshot[s],
           prompt'[s] = prompt[s],
           \A i \in 1..n : content[Address(s, i)]' = content[Address(s, i)]
    PROVE  /\ \A i \in 1..n : TokenAt(s, i)' = TokenAt(s, i)
           /\ \A i \in 1..n :
                /\ Len(content[Address(s, i)]') = i
                /\ \A j \in 1..i : /\ content[Address(s, i)]'[j] = TokenAt(s, j)'
                                   /\ j <= Len(prompt'[s]) => TokenAt(s, j)' = prompt'[s][j]
<1>1. snapshot[s] \in Nat /\ n \in Nat
  BY LiveFacts
<1>2. \A i \in 1..n : TokenAt(s, i)' = TokenAt(s, i)
  BY DEF TokenAt, LastToken, Garbage
<1>3. \A i \in 1..n : i \in 1..snapshot[s] /\ \A j \in 1..i : j \in 1..n
  BY <1>1
<1>4. ASSUME NEW i \in 1..n
      PROVE  /\ Len(content[Address(s, i)]') = i
             /\ \A j \in 1..i : /\ content[Address(s, i)]'[j] = TokenAt(s, j)'
                                /\ j <= Len(prompt'[s]) => TokenAt(s, j)' = prompt'[s][j]
  <2>1. /\ Len(content[Address(s, i)]) = i
        /\ \A j \in 1..i : /\ content[Address(s, i)][j] = TokenAt(s, j)
                           /\ j <= Len(prompt[s]) => TokenAt(s, j) = prompt[s][j]
    BY <1>3 DEF ReadsOwnText
  <2> QED BY <1>2, <1>3, <2>1
<1> QED
  BY <1>2, <1>4

\* A slot that reads less, or what it read, still reads its own text.
LEMMA TextsStay ==
    ASSUME IInv, ReadsOwnText,
           \A s \in Live' :
              \/ snapshot'[s] = 0
              \/ /\ s \in Live /\ snapshot'[s] \in 0..snapshot[s] /\ prompt'[s] = prompt[s]
                 /\ \A i \in 1..snapshot'[s] : content[Address(s, i)]' = content[Address(s, i)]
    PROVE  ReadsOwnText'
<1> SUFFICES ASSUME NEW s \in Live', NEW i \in 1..snapshot'[s]
             PROVE  /\ Len(content[Address(s, i)]') = i
                    /\ \A j \in 1..i : /\ content[Address(s, i)]'[j] = TokenAt(s, j)'
                                       /\ j <= Len(prompt'[s]) => TokenAt(s, j)' = prompt'[s][j]
  BY DEF ReadsOwnText
<1>1. CASE snapshot'[s] = 0
  BY <1>1
<1>2. CASE /\ s \in Live /\ snapshot'[s] \in 0..snapshot[s] /\ prompt'[s] = prompt[s]
           /\ \A k \in 1..snapshot'[s] : content[Address(s, k)]' = content[Address(s, k)]
  BY <1>2, SameText
<1> QED
  BY <1>1, <1>2

\* The abstract store rests while every open slot reads what it read.
LEMMA StoreRests ==
    ASSUME IInv, ReadsOwnText, Open' = Open,
           \A s \in Open :
              /\ snapshot'[s] = snapshot[s] /\ prompt'[s] = prompt[s]
              /\ \A i \in 1..snapshot[s] : content[Address(s, i)]' = content[Address(s, i)]
    PROVE  UNCHANGED <<Text, OpenPrompt>>
<1>1. ASSUME NEW s \in Open
      PROVE  [i \in 1..snapshot'[s] |-> TokenAt(s, i)'] = [i \in 1..snapshot[s] |-> TokenAt(s, i)]
  <2>1. s \in Live /\ snapshot[s] \in Nat /\ snapshot[s] \in 0..snapshot[s]
    BY LiveFacts DEF Open
  <2>2. \A i \in 1..snapshot[s] : TokenAt(s, i)' = TokenAt(s, i)
    BY <2>1, SameText
  <2> QED BY <2>2
<1>2. Text' = Text
  <2>1. Text' = [s \in Slot |-> IF s \in Open THEN [i \in 1..snapshot'[s] |-> TokenAt(s, i)'] ELSE Absent]
    BY DEF Text
  <2>2. Text = [s \in Slot |-> IF s \in Open THEN [i \in 1..snapshot[s] |-> TokenAt(s, i)] ELSE Absent]
    BY DEF Text
  <2> QED BY <1>1, <2>1, <2>2
<1>3. OpenPrompt' = OpenPrompt
  BY DEF OpenPrompt
<1> QED
  BY <1>2, <1>3

\* Blocks that stay cached with their K/V keep the text of their keys.
LEMMA CacheStays ==
    ASSUME CachedContent,
           \A b \in Block : key'[b] # None =>
              /\ key'[b] = key[b]
              /\ \A off \in 0..BlockSize - 1 : content'[<<b, off>>] = content[<<b, off>>]
    PROVE  CachedContent'
  BY DEF CachedContent, IsCached

\* The steps that change neither a snapshot nor what a slot reads.
LEMMA Quiet ==
    ASSUME IInv, TextInv, UNCHANGED <<batch, prompt, snapshot>>, Open' = Open,
           \A s \in Live : \A i \in 1..snapshot[s] : content[Address(s, i)]' = content[Address(s, i)],
           CachedContent', AtSnapshot', HitIsProper'
    PROVE  TextInv' /\ UNCHANGED <<Text, OpenPrompt>>
<1>1. Live' = Live /\ Open \subseteq Live
  BY DEF Live, Open
<1>2. \A s \in Live : snapshot[s] \in Nat /\ snapshot[s] \in 0..snapshot[s]
  BY LiveFacts
<1>3. ReadsOwnText'
  BY <1>1, <1>2, TextsStay DEF TextInv
<1>4. UNCHANGED <<Text, OpenPrompt>>
  BY <1>1, StoreRests DEF TextInv
<1>5. \A s \in Live' : prompt'[s] \in Prompt
  BY <1>1 DEF TextInv
<1> QED
  BY <1>3, <1>4, <1>5 DEF TextInv

\* Those that do not even touch the K/V or a table.
LEMMA VeryQuiet ==
    ASSUME IInv, TextInv, UNCHANGED <<key, content, batch, prompt, blocks, snapshot>>, Open' = Open,
           AtSnapshot', HitIsProper'
    PROVE  TextInv' /\ UNCHANGED <<Text, OpenPrompt>>
<1>1. CachedContent'
  BY CacheStays DEF TextInv
<1>2. \A s \in Live : \A i \in 1..snapshot[s] : content[Address(s, i)]' = content[Address(s, i)]
  BY DEF Address
<1> QED
  BY <1>1, <1>2, Quiet

-----------------------------------------------------------------------------
(* The steps the abstract store does not see.                              *)

\* Starting a batch changes no text.
LEMMA BeginStepText == ASSUME IInv, TextInv, BeginStep PROVE TextInv' /\ UNCHANGED <<Text, OpenPrompt>>
<1>1. /\ pc = "idle" /\ pc' = "reserve"
      /\ UNCHANGED <<key, content, batch, prompt, blocks, snapshot, busy>>
  BY DEF BeginStep, pool, tables
<1>2. Open' = Open
  BY <1>1 DEF Open, Live
<1>3. AtSnapshot' /\ HitIsProper'
  BY <1>1 DEF AtSnapshot, HitIsProper
<1> QED
  BY <1>1, <1>2, <1>3, VeryQuiet

\* A block more leaves the committed positions where they are.
LEMMA ReserveBlockText ==
    ASSUME IInv, TextInv, ReserveBlock PROVE TextInv' /\ UNCHANGED <<Text, OpenPrompt>>
<1>1. PICK b \in Block : Allocate(b) /\ blocks' = [blocks EXCEPT ![batch[cur]] = Append(@, b)]
  BY DEF ReserveBlock
<1>2. pc = "reserve" /\ UNCHANGED <<content, batch, prompt, pc, cur, busy, snapshot, len>>
  BY DEF ReserveBlock, control
<1>3. \A c \in Block : key'[c] # None => key'[c] = key[c]
  BY <1>1 DEF Allocate, AllocateFree, AllocateEvict, IInv, TypeOK
<1>4. CachedContent'
  BY <1>2, <1>3, CacheStays DEF TextInv
<1>5. ASSUME NEW s \in Live, NEW i \in 1..snapshot[s]
      PROVE  content[Address(s, i)]' = content[Address(s, i)]
  <2>1. i \in 1..len[s]
    BY <1>5, TokenFacts DEF TextInv
  <2>2. /\ s \in Slot /\ blocks[s] \in Seq(Block) /\ Place(i) \in 1..Len(blocks[s])
    BY <2>1, LiveFacts, ReadFacts
  <2>3. \A k \in 1..Len(blocks[s]) : Append(blocks[s], b)[k] = blocks[s][k]
    BY <2>2, AppendFacts
  <2>4. blocks'[s] = blocks[s] \/ blocks'[s] = Append(blocks[s], b)
    BY <1>1, <2>2 DEF IInv, TypeOK
  <2>5. blocks'[s][Place(i)] = blocks[s][Place(i)]
    BY <2>2, <2>3, <2>4
  <2> QED BY <1>2, <2>5, AddressIs
<1>6. Open' = Open
  BY <1>2 DEF Open, Live
<1>7. AtSnapshot' /\ HitIsProper'
  BY <1>2 DEF AtSnapshot, HitIsProper
<1> QED
  BY <1>2, <1>4, <1>5, <1>6, <1>7, Quiet

\* Neither does moving on to the next slot,
LEMMA AdvanceSlotText ==
    ASSUME IInv, TextInv, AdvanceSlot PROVE TextInv' /\ UNCHANGED <<Text, OpenPrompt>>
<1>1. /\ pc = "reserve" /\ pc' \in {"reserve", "write"}
      /\ UNCHANGED <<key, content, batch, prompt, blocks, snapshot, busy>>
  BY DEF AdvanceSlot, pool
<1>2. Open' = Open
  BY <1>1 DEF Open, Live
<1>3. AtSnapshot' /\ HitIsProper'
  BY <1>1 DEF AtSnapshot, HitIsProper
<1> QED
  BY <1>1, <1>2, <1>3, VeryQuiet

\* nor a reservation that runs out of blocks,
LEMMA ReserveFailsText ==
    ASSUME IInv, TextInv, ReserveFails PROVE TextInv' /\ UNCHANGED <<Text, OpenPrompt>>
<1>1. /\ pc = "reserve" /\ pc' = "rollback" /\ cur' = 1
      /\ UNCHANGED <<key, content, batch, prompt, blocks, snapshot, busy>>
  BY DEF ReserveFails, pool, tables
<1>2. Open' = Open
  BY <1>1 DEF Open, Live
<1>3. AtSnapshot' /\ HitIsProper'
  BY <1>1 DEF AtSnapshot, HitIsProper
<1> QED
  BY <1>1, <1>2, <1>3, VeryQuiet

\* nor the end of a publication,
LEMMA PublishSlotDoneText ==
    ASSUME IInv, TextInv, PublishSlotDone PROVE TextInv' /\ UNCHANGED <<Text, OpenPrompt>>
<1>1. /\ pc = "publish" /\ pc' \in {"publish", "idle"}
      /\ UNCHANGED <<key, content, batch, prompt, blocks, len, snapshot, busy>>
  BY DEF PublishSlotDone, pool, tables
<1>2. Open' = Open /\ Live' = Live
  BY <1>1 DEF Open, Live
<1>3. AtSnapshot' /\ HitIsProper'
  BY <1>1, <1>2 DEF TextInv, AtSnapshot, HitIsProper
<1> QED
  BY <1>1, <1>2, <1>3, VeryQuiet

\* A slot goes back to its snapshot.
LEMMA RollbackSlotText ==
    ASSUME IInv, TextInv, RollbackSlot PROVE TextInv' /\ UNCHANGED <<Text, OpenPrompt>>
<1> DEFINE s == batch[cur]
<1>1. /\ pc = "rollback" /\ len' = [len EXCEPT ![s] = snapshot[s]]
      /\ UNCHANGED <<key, content, batch, prompt, blocks, pc, cur, snapshot>>
  BY DEF RollbackSlot, pool
<1>2. Open' = Open
  BY <1>1 DEF Open, Live
<1>3. AtSnapshot'
  <2>1. \A i \in 1..cur - 1 : snapshot[batch[i]] = len[batch[i]]
    BY <1>1 DEF TextInv, AtSnapshot
  <2>2. \A i \in 1..cur - 1 : batch[i] \in Slot
    <3>1. batch \in Seq(Slot) /\ cur \in 1..Len(batch) /\ Len(batch) \in Nat
      BY <1>1, LenProperties DEF IInv, TypeOK, Cursors
    <3>2. \A i \in 1..cur - 1 : i \in 1..Len(batch)
      BY <3>1
    <3> QED BY <3>1, <3>2, ElementOfSeq
  <2>3. \A x \in Slot : len'[x] = IF x = s THEN snapshot[s] ELSE len[x]
    BY <1>1 DEF IInv, TypeOK
  <2>4. \A i \in 1..cur - 1 : snapshot[batch[i]] = len'[batch[i]]
    BY <2>1, <2>2, <2>3
  <2> QED BY <1>1, <2>4 DEF AtSnapshot
<1>4. HitIsProper'
  BY <1>1 DEF HitIsProper
<1> QED
  BY <1>1, <1>2, <1>3, <1>4, VeryQuiet

\* The slots the roll back has passed are at their snapshots; at its end, all.
LEMMA RollbackSkipText ==
    ASSUME IInv, TextInv, RollbackSkip PROVE TextInv' /\ UNCHANGED <<Text, OpenPrompt>>
<1>1. /\ pc = "rollback" /\ snapshot[batch[cur]] = len[batch[cur]]
      /\ UNCHANGED <<key, content, batch, prompt, blocks, len, busy, snapshot>>
      /\ \/ cur < Len(batch) /\ cur' = cur + 1 /\ pc' = pc
         \/ ~(cur < Len(batch)) /\ pc' = "idle"
  BY DEF RollbackSkip, pool, tables
<1>2. batch \in Seq(Slot) /\ cur \in 1..Len(batch) /\ Len(batch) \in Nat
  BY <1>1, LenProperties DEF IInv, TypeOK, Cursors
<1>3. \A i \in 1..cur : snapshot[batch[i]] = len[batch[i]]
  <2>1. \A i \in 1..cur - 1 : snapshot[batch[i]] = len[batch[i]]
    BY <1>1 DEF TextInv, AtSnapshot
  <2>2. \A i \in 1..cur : i \in 1..cur - 1 \/ i = cur
    BY <1>2
  <2> QED BY <1>1, <2>1, <2>2
<1>4. Open' = Open /\ Live' = Live
  BY <1>1 DEF Open, Live
<1>5. AtSnapshot'
  <2>1. CASE cur < Len(batch)
    <3>1. pc' = "rollback" /\ cur' - 1 = cur
      BY <1>1, <1>2, <2>1
    <3> QED BY <1>1, <1>3, <3>1 DEF AtSnapshot
  <2>2. CASE ~(cur < Len(batch))
    <3>1. cur = Len(batch) /\ pc' = "idle"
      BY <1>1, <1>2, <2>2
    <3>2. \A s \in Live : \E i \in 1..Len(batch) : s = batch[i]
      BY <1>2, Elements DEF Live, In
    <3>3. \A s \in Live : snapshot[s] = len[s]
      BY <1>3, <3>1, <3>2
    <3> QED BY <1>1, <1>4, <3>1, <3>3 DEF AtSnapshot
  <2> QED BY <2>1, <2>2
<1>6. HitIsProper'
  BY <1>1 DEF HitIsProper
<1> QED
  BY <1>1, <1>4, <1>5, <1>6, VeryQuiet

\* The blocks that go back hold no committed position.
LEMMA FreeTailText ==
    ASSUME IInv, TextInv, FreeTail PROVE TextInv' /\ UNCHANGED <<Text, OpenPrompt>>
<1>1. /\ pc \in {"free", "rollback"} /\ busy # None /\ Len(blocks[busy]) > goal
      /\ blocks' = [blocks EXCEPT ![busy] = RemoveAt(@, goal + 1)]
      /\ UNCHANGED <<key, content, batch, prompt, len, pc, cur, busy, goal, snapshot>>
  BY DEF FreeTail, Free, control
<1>2. /\ busy \in Slot /\ blocks[busy] \in Seq(Block) /\ Len(blocks[busy]) \in Nat /\ goal \in Nat
      /\ busy \in Live => len[busy] <= goal * BlockSize
  BY <1>1, LenProperties DEF IInv, TypeOK, Cursors
<1>3. CachedContent'
  BY <1>1, CacheStays DEF TextInv
<1>4. ASSUME NEW s \in Live, NEW i \in 1..snapshot[s]
      PROVE  content[Address(s, i)]' = content[Address(s, i)]
  <2>1. i \in 1..len[s]
    BY <1>4, TokenFacts DEF TextInv
  <2>2. /\ s \in Slot /\ len[s] \in Nat /\ Place(i) \in 1..Len(blocks[s]) /\ i \in Nat \ {0}
    BY <2>1, LiveFacts, ReadFacts
  <2>3. CASE s # busy
    <3>1. blocks'[s] = blocks[s]
      BY <1>1, <2>2, <2>3 DEF IInv, TypeOK
    <3> QED BY <1>1, <3>1, AddressIs
  <2>4. CASE s = busy
    <3>1. blocks'[s] = RemoveAt(blocks[s], goal + 1)
      BY <1>1, <2>2, <2>4 DEF IInv, TypeOK
    <3>2. Place(i) <= goal
      <4>1. i <= goal * BlockSize
        <5>1. goal * BlockSize \in Nat
          BY <1>2, PagedKVAssumption
        <5> QED BY <1>2, <2>1, <2>2, <2>4, <5>1
      <4> QED BY <1>2, <2>2, <4>1, Places
    <3>3. /\ goal + 1 \in 1..Len(blocks[s]) /\ Place(i) \in 1..(Len(blocks[s]) - 1)
          /\ Place(i) < goal + 1
      BY <1>1, <1>2, <2>2, <2>4, <3>2
    <3>4. RemoveAt(blocks[s], goal + 1)[Place(i)] = blocks[s][Place(i)]
      <4>1. PICK q \in Seq(Block) : q = blocks[s]
        BY <1>2, <2>4
      <4>2. PICK g \in 1..Len(q) : g = goal + 1
        BY <3>3, <4>1
      <4>3. \A j \in 1..(Len(q) - 1) : RemoveAt(q, g)[j] = IF j < g THEN q[j] ELSE q[j + 1]
        BY <4>1, <4>2, RemoveAtFacts
      <4> QED BY <3>3, <4>1, <4>2, <4>3
    <3> QED BY <1>1, <3>1, <3>4, AddressIs
  <2> QED BY <2>3, <2>4
<1>5. Open' = Open /\ Live' = Live
  BY <1>1 DEF Open, Live
<1>6. AtSnapshot' /\ HitIsProper'
  BY <1>1, <1>5 DEF TextInv, AtSnapshot, HitIsProper
<1> QED
  BY <1>1, <1>3, <1>4, <1>5, <1>6, Quiet

\* nor the end of a truncation.
LEMMA FreeTailDoneText ==
    ASSUME IInv, TextInv, FreeTailDone PROVE TextInv' /\ UNCHANGED <<Text, OpenPrompt>>
<1>1. /\ (pc = "free" /\ pc' = "idle") \/ (pc = "rollback" /\ pc' = pc)
      /\ UNCHANGED <<key, content, batch, prompt, blocks, len, cur, snapshot>>
  BY DEF FreeTailDone, pool, tables
<1>2. Open' = Open /\ Live' = Live
  BY <1>1 DEF Open, Live
<1>3. AtSnapshot' /\ HitIsProper'
  BY <1>1, <1>2 DEF TextInv, AtSnapshot, HitIsProper
<1> QED
  BY <1>1, <1>2, <1>3, VeryQuiet

-----------------------------------------------------------------------------
(* Publications.                                                           *)

\* The K/V of the next block a slot publishes is that of the end of its key.
LEMMA PublishedText ==
    ASSUME IInv, TextInv, pc = "publish", published[batch[cur]] < PublishTarget(batch[cur]),
           NEW off \in 0..BlockSize - 1
    PROVE  LET s == batch[cur]
               k == published[s] + 1
               e == content[<<blocks[s][k], off>>]
           IN /\ e \in Seq(Token) /\ Len(e) = published[s] * BlockSize + off + 1
              /\ Len(e) + BlockSize = Len(NextKey(s)) + off + 1
              /\ \A j \in 1..Len(e) : e[j] = NextKey(s)[j]
<1> DEFINE s == batch[cur]
           k == published[s] + 1
           i == published[s] * BlockSize + off + 1
<1>1. /\ s \in Live /\ published[s] \in Nat /\ k * BlockSize \in Nat
      /\ k * BlockSize <= snapshot[s] /\ k * BlockSize <= Len(prompt[s])
      /\ NextKey(s) = ChainKey(prompt[s], k)
  BY PublishFacts
<1>2. snapshot[s] \in Nat /\ prompt[s] \in Seq(Token) /\ Len(prompt[s]) \in Nat
  BY <1>1, LiveFacts
<1> HIDE DEF s
<1>3. /\ BlockSize \in Nat /\ published[s] * BlockSize \in Nat
      /\ k * BlockSize = published[s] * BlockSize + BlockSize
  BY <1>1, PagedKVAssumption
<1>4. i \in Nat \ {0} /\ i \in 1..k * BlockSize /\ i \in 1..snapshot[s]
  <2>1. i \in 1..k * BlockSize
    BY <1>1, BlockPositions
  <2> DEFINE n == k * BlockSize
  <2>2. i \in 1..n /\ n \in Nat /\ n <= snapshot[s]
    BY <1>1, <2>1
  <2> HIDE DEF i, n
  <2>3. i \in Nat \ {0} /\ i \in 1..snapshot[s]
    BY <1>2, <2>2
  <2> QED BY <2>1, <2>3
<1>5. Place(i) = k /\ Offset(i) = off
  BY <1>1, BlockPositions
<1>6. Address(s, i) = <<blocks[s][k], off>>
  BY <1>5, AddressIs
<1> DEFINE e == content[<<blocks[s][k], off>>]
<1>7. /\ e \in Seq(Token) /\ Len(e) = i
      /\ \A j \in 1..i : e[j] = TokenAt(s, j) /\ (j <= Len(prompt[s]) => TokenAt(s, j) = prompt[s][j])
  <2>1. content[Address(s, i)] \in Seq(Token)
    BY <1>1, <1>4, TokenFacts DEF TextInv
  <2>2. /\ Len(content[Address(s, i)]) = i
        /\ \A j \in 1..i : /\ content[Address(s, i)][j] = TokenAt(s, j)
                           /\ j <= Len(prompt[s]) => TokenAt(s, j) = prompt[s][j]
    BY <1>1, <1>4 DEF TextInv, ReadsOwnText
  <2> QED BY <1>6, <2>1, <2>2
<1> HIDE DEF e, i
<1>8. Len(NextKey(s)) = k * BlockSize
  BY <1>1, <1>2, ChainKeyFacts
<1>9. \A j \in 1..i : j \in 1..k * BlockSize /\ j <= Len(prompt[s])
  BY <1>1, <1>2, <1>4
<1>10. \A j \in 1..k * BlockSize : NextKey(s)[j] = prompt[s][j]
  BY <1>1, <1>2, ChainKeyElements
<1>11. \A j \in 1..Len(e) : e[j] = NextKey(s)[j]
  BY <1>7, <1>9, <1>10
<1>12. Len(e) + BlockSize = Len(NextKey(s)) + off + 1
  BY <1>3, <1>7, <1>8 DEF i
<1> QED
  BY <1>7, <1>11, <1>12 DEF e, i, s

\* A block published under a new key holds the content the key stands for.
LEMMA PublishFreshText ==
    ASSUME IInv, TextInv, PublishFresh PROVE TextInv' /\ UNCHANGED <<Text, OpenPrompt>>
<1> DEFINE s == batch[cur]
           b == blocks[s][published[s] + 1]
<1>1. /\ pc = "publish" /\ published[s] < PublishTarget(s)
      /\ key' = [key EXCEPT ![b] = NextKey(s)]
      /\ UNCHANGED <<content, batch, prompt, blocks, len, pc, cur, busy, snapshot>>
  BY DEF PublishFresh, control
<1>2. b \in Block
  BY <1>1, PublishFacts
<1>3. \A off \in 0..BlockSize - 1 :
         LET e == content[<<b, off>>]
         IN /\ Len(e) + BlockSize = Len(NextKey(s)) + off + 1
            /\ \A j \in 1..Len(e) : e[j] = NextKey(s)[j]
  BY <1>1, PublishedText
<1> HIDE DEF s, b
<1>4. CachedContent'
  <2> SUFFICES ASSUME NEW c \in Block, key'[c] # None, NEW off \in 0..BlockSize - 1
               PROVE  /\ Len(content[<<c, off>>]) + BlockSize = Len(key'[c]) + off + 1
                      /\ \A j \in 1..Len(content[<<c, off>>]) : content[<<c, off>>][j] = key'[c][j]
    BY <1>1 DEF CachedContent, IsCached
  <2>1. CASE c = b
    <3>1. key'[c] = NextKey(s)
      BY <1>1, <1>2, <2>1 DEF IInv, TypeOK
    <3> QED BY <1>3, <2>1, <3>1
  <2>2. CASE c # b
    <3>1. key'[c] = key[c]
      BY <1>1, <2>2 DEF IInv, TypeOK
    <3> QED BY <3>1 DEF TextInv, CachedContent, IsCached
  <2> QED BY <2>1, <2>2
<1>5. \A x \in Live : \A i \in 1..snapshot[x] : content[Address(x, i)]' = content[Address(x, i)]
  BY <1>1 DEF Address
<1>6. Open' = Open /\ Live' = Live
  BY <1>1 DEF Open, Live
<1>7. AtSnapshot' /\ HitIsProper'
  BY <1>1, <1>6 DEF TextInv, AtSnapshot, HitIsProper
<1> QED
  BY <1>1, <1>4, <1>5, <1>6, <1>7, Quiet

\* The canonical block holds the K/V of the one it replaces.
LEMMA PublishDuplicateText ==
    ASSUME IInv, TextInv, PublishDuplicate PROVE TextInv' /\ UNCHANGED <<Text, OpenPrompt>>
<1> DEFINE s == batch[cur]
           k == published[s] + 1
<1>1. /\ pc = "publish" /\ published[s] < PublishTarget(s)
      /\ UNCHANGED <<key, content, batch, prompt, len, pc, cur, busy, snapshot>>
  BY DEF PublishDuplicate, control
<1>2. PICK c \in Block : key[c] = NextKey(s) /\ blocks' = [blocks EXCEPT ![s][k] = c]
  BY DEF PublishDuplicate
<1>3. /\ s \in Slot /\ blocks[s] \in Seq(Block) /\ k \in 1..Len(blocks[s]) /\ NextKey(s) # None
  BY <1>1, PublishFacts
<1>4. \A off \in 0..BlockSize - 1 : content[<<c, off>>] = content[<<blocks[s][k], off>>]
  <2> SUFFICES ASSUME NEW off \in 0..BlockSize - 1
               PROVE  content[<<c, off>>] = content[<<blocks[s][k], off>>]
    OBVIOUS
  <2> DEFINE d == content[<<c, off>>]
             e == content[<<blocks[s][k], off>>]
  <2>1. /\ e \in Seq(Token) /\ Len(e) + BlockSize = Len(NextKey(s)) + off + 1
        /\ \A j \in 1..Len(e) : e[j] = NextKey(s)[j]
    BY <1>1, PublishedText
  <2>2. /\ Len(d) + BlockSize = Len(NextKey(s)) + off + 1
        /\ \A j \in 1..Len(d) : d[j] = NextKey(s)[j]
    BY <1>2, <1>3 DEF TextInv, CachedContent, IsCached
  <2>3. d \in Seq(Token)
    BY DEF IInv, TypeOK
  <2> HIDE DEF d, e, s
  <2>4. Len(d) \in Nat /\ Len(e) \in Nat /\ BlockSize \in Nat
    BY <2>1, <2>3, LenProperties, PagedKVAssumption
  <2>5. Len(d) = Len(e)
    BY <2>1, <2>2, <2>4
  <2>6. \A j \in 1..Len(d) : d[j] = e[j]
    BY <2>1, <2>2, <2>5
  <2>7. d = e
    BY <2>1, <2>3, <2>5, <2>6, SeqEqual
  <2> QED BY <2>7 DEF d, e
<1> HIDE DEF s
<1>5. ASSUME NEW x \in Live, NEW i \in 1..snapshot[x]
      PROVE  content[Address(x, i)]' = content[Address(x, i)]
  <2>1. i \in 1..len[x]
    BY <1>5, TokenFacts DEF TextInv
  <2>2. /\ x \in Slot /\ Place(i) \in 1..Len(blocks[x]) /\ Offset(i) \in 0..BlockSize - 1
        /\ blocks[x] \in Seq(Block)
    BY <2>1, LiveFacts, ReadFacts
  <2>3. CASE x # s
    <3>1. blocks'[x] = blocks[x]
      BY <1>2, <2>2, <2>3 DEF IInv, TypeOK
    <3> QED BY <1>1, <3>1, AddressIs
  <2>4. CASE x = s
    <3>1. blocks'[s] = [blocks[s] EXCEPT ![k] = c]
      BY <1>2, <1>3 DEF IInv, TypeOK
    <3>2. blocks'[s][Place(i)] = IF Place(i) = k THEN c ELSE blocks[s][Place(i)]
      BY <1>3, <2>2, <2>4, <3>1, ExceptSeq
    <3>3. CASE Place(i) = k
      BY <1>1, <1>4, <2>2, <2>4, <3>2, <3>3, AddressIs
    <3>4. CASE Place(i) # k
      BY <1>1, <2>4, <3>2, <3>4, AddressIs
    <3> QED BY <3>3, <3>4
  <2> QED BY <2>3, <2>4
<1>6. CachedContent'
  BY <1>1, CacheStays DEF TextInv
<1>7. Open' = Open /\ Live' = Live
  BY <1>1 DEF Open, Live
<1>8. AtSnapshot' /\ HitIsProper'
  BY <1>1, <1>7 DEF TextInv, AtSnapshot, HitIsProper
<1> QED
  BY <1>1, <1>5, <1>6, <1>7, <1>8, Quiet

-----------------------------------------------------------------------------
(* Hits.                                                                   *)

\* A request starts out with no position read.
LEMMA AddRequestSlotText ==
    ASSUME IInv, TextInv, NEW s \in Slot, NEW p \in Prompt, AddRequestSlot(s, p)
    PROVE  TextInv' /\ UNCHANGED <<Text, OpenPrompt>>
<1>1. /\ pc = "idle" /\ pc' = "hit" /\ s \notin Live /\ busy' = s
      /\ batch' = Append(batch, s) /\ prompt' = [prompt EXCEPT ![s] = p]
      /\ UNCHANGED <<key, content, blocks, len, published, snapshot>>
  BY DEF AddRequestSlot, pool
<1>2. Live' = Live \cup {s} /\ Live \subseteq Slot
  <2>1. batch \in Seq(Slot)
    BY DEF IInv, TypeOK
  <2>2. batch' \in Seq(Slot) /\ \A x : In(batch', x) <=> In(batch, x) \/ x = s
    BY <1>1, <2>1, AppendFacts
  <2> QED BY <2>1, <2>2, Elements DEF Live
<1>3. snapshot[s] = 0 /\ len[s] = 0 /\ published[s] = 0
  BY <1>1 DEF IInv, ClosedSlots
<1>4. prompt'[s] = p /\ \A x \in Live : prompt'[x] = prompt[x]
  BY <1>1, <1>2 DEF IInv, TypeOK
<1>5. \A x \in Live : /\ snapshot[x] \in Nat /\ snapshot[x] \in 0..snapshot[x]
                      /\ \A i \in 1..snapshot[x] : content[Address(x, i)]' = content[Address(x, i)]
  BY <1>1, LiveFacts DEF Address
<1>6. ReadsOwnText'
  BY <1>1, <1>2, <1>3, <1>4, <1>5, TextsStay DEF TextInv
<1>7. Open = Live /\ Open' = Open
  BY <1>1, <1>2 DEF Open
<1>8. UNCHANGED <<Text, OpenPrompt>>
  BY <1>1, <1>4, <1>5, <1>7, StoreRests DEF TextInv
<1>9. CachedContent'
  BY <1>1, CacheStays DEF TextInv
<1>10. AtSnapshot'
  <2>1. \A x \in Live : snapshot[x] = len[x]
    BY <1>1 DEF TextInv, AtSnapshot
  <2> QED BY <1>1, <1>2, <1>3, <2>1 DEF AtSnapshot
<1>11. HitIsProper'
  <2>1. p \in Seq(Token) /\ Len(p) \in Nat /\ BlockSize \in Nat /\ BlockSize > 0
    BY PagedKVAssumption
  <2>2. PICK n \in Matches(p) : goal' = UsableMatches(p, n)
    BY DEF AddRequestSlot
  <2>3. n \in Nat /\ n * BlockSize <= Len(p)
    <3>1. Len(p) \div BlockSize \in Nat /\ n \in 0..(Len(p) \div BlockSize)
      BY <2>1, FullBlocks DEF Matches
    <3> QED BY <2>1, <3>1, FullBlocks
  <2>4. goal' = 0 \/ goal' * BlockSize < Len(p)
    <3>1. CASE n = 0
      BY <2>2, <3>1 DEF UsableMatches
    <3>2. CASE n > 0 /\ n * BlockSize >= Len(p)
      <4>1. goal' = n - 1
        BY <2>2, <3>2 DEF UsableMatches
      <4>2. (n - 1) * BlockSize < n * BlockSize
        BY <2>1, <2>3, <3>2
      <4>3. (n - 1) * BlockSize \in Int /\ n * BlockSize \in Int
        BY <2>1, <2>3
      <4> QED BY <2>1, <2>3, <4>1, <4>2, <4>3
    <3>3. CASE n > 0 /\ ~(n * BlockSize >= Len(p))
      <4>1. goal' = n
        BY <2>2, <3>3 DEF UsableMatches
      <4>2. n * BlockSize \in Nat
        BY <2>1, <2>3
      <4> QED BY <2>1, <3>3, <4>1, <4>2
    <3> QED BY <2>3, <3>1, <3>2, <3>3
  <2>5. 0 * BlockSize = 0
    BY <2>1
  <2> QED BY <1>1, <1>3, <1>4, <2>4, <2>5 DEF HitIsProper
<1>12. \A x \in Live' : prompt'[x] \in Prompt
  BY <1>2, <1>4 DEF TextInv
<1> QED
  BY <1>6, <1>8, <1>9, <1>10, <1>11, <1>12 DEF TextInv

\* A pinned block holds the K/V of the next block of the prompt.
LEMMA PinnedText ==
    ASSUME IInv, TextInv, PinMatch, NEW s, s = busy
    PROVE  LET n == snapshot'[s]
           IN /\ n \in Nat /\ n <= Len(prompt[s])
              /\ \A i \in 1..n : /\ Len(content[Address(s, i)]') = i
                                 /\ \A j \in 1..i : content[Address(s, i)]'[j] = prompt[s][j]
<1> DEFINE p == prompt[s]
           m == published[s]
           k == m + 1
<1>1. PICK b \in Block : /\ key[b] = ChainKey(p, k)
                         /\ blocks' = [blocks EXCEPT ![s] = Append(@, b)]
                         /\ snapshot' = [snapshot EXCEPT ![s] = k * BlockSize]
  BY DEF PinMatch
<1>2. pc = "hit" /\ m < goal /\ content' = content
  BY DEF PinMatch
<1>3. /\ s \in Live /\ Len(blocks[s]) = m /\ goal * BlockSize <= Len(p)
      /\ snapshot[s] = m * BlockSize /\ goal \in Nat
  BY <1>2 DEF IInv, TypeOK, Cursors, TextInv, HitIsProper
<1>4. /\ s \in Slot /\ m \in Nat /\ p \in Seq(Token) /\ Len(p) \in Nat
      /\ blocks[s] \in Seq(Block) /\ snapshot[s] \in Nat
  BY <1>3, LiveFacts
<1>5. /\ k \in Nat /\ BlockSize \in Nat /\ BlockSize > 0
      /\ k * BlockSize \in Nat /\ m * BlockSize \in Nat
      /\ k * BlockSize = m * BlockSize + BlockSize
  BY <1>4, PagedKVAssumption
<1>6. k * BlockSize <= Len(p)
  <2>1. k <= goal
    BY <1>2, <1>3, <1>4
  <2> DEFINE a == k * BlockSize
             c == goal * BlockSize
  <2>2. a <= c /\ c \in Nat /\ a \in Nat /\ c <= Len(p)
    BY <1>3, <1>5, <2>1
  <2> HIDE DEF p, a, c
  <2>3. a <= Len(p)
    BY <1>4, <2>2
  <2> QED BY <2>3 DEF a
<1>7. snapshot'[s] = k * BlockSize
  BY <1>1, <1>4 DEF IInv, TypeOK
<1>8. /\ Len(blocks'[s]) = m + 1 /\ blocks'[s][k] = b
      /\ \A j \in 1..m : blocks'[s][j] = blocks[s][j]
  <2>1. blocks'[s] = Append(blocks[s], b)
    BY <1>1, <1>4 DEF IInv, TypeOK
  <2> QED BY <1>3, <1>4, <2>1, AppendFacts
<1> HIDE DEF p, m, k
<1>9. ASSUME NEW i \in 1..k * BlockSize
      PROVE  /\ Len(content[Address(s, i)]') = i
             /\ \A j \in 1..i : content[Address(s, i)]'[j] = p[j]
  <2>1. i \in Nat \ {0} /\ \A j \in 1..i : j \in 1..k * BlockSize /\ j <= Len(p)
    BY <1>4, <1>5, <1>6
  <2>2. CASE i <= m * BlockSize
    <3>1. i \in 1..snapshot[s]
      BY <1>3, <1>5, <2>1, <2>2
    <3>2. Place(i) \in 1..m
      <4>1. i \in 1..len[s]
        BY <1>3, <3>1, TokenFacts DEF TextInv
      <4> QED BY <1>3, <4>1, ReadFacts
    <3>3. content[Address(s, i)]' = content[Address(s, i)]
      BY <1>2, <1>8, <3>2, AddressIs
    <3>4. /\ Len(content[Address(s, i)]) = i
          /\ \A j \in 1..i : /\ content[Address(s, i)][j] = TokenAt(s, j)
                             /\ j <= Len(prompt[s]) => TokenAt(s, j) = prompt[s][j]
      BY <1>3, <3>1 DEF TextInv, ReadsOwnText
    <3> QED BY <2>1, <3>3, <3>4 DEF p
  <2>3. CASE ~(i <= m * BlockSize)
    <3>1. /\ Place(i) \in Nat \ {0} /\ Offset(i) \in 0..BlockSize - 1
          /\ i = (Place(i) - 1) * BlockSize + Offset(i) + 1
          /\ i <= k * BlockSize <=> Place(i) <= k
          /\ i <= m * BlockSize <=> Place(i) <= m
      BY <1>4, <1>5, <2>1, Places DEF m
    <3>2. Place(i) = k
      <4>1. i <= k * BlockSize
        BY <1>5, <2>1
      <4> QED BY <1>4, <2>3, <3>1, <4>1 DEF k, m
    <3>3. Address(s, i)' = <<b, Offset(i)>>
      BY <1>8, <3>2, AddressIs
    <3> DEFINE e == content[<<b, Offset(i)>>]
    <3>4. content[Address(s, i)]' = e
      BY <1>2, <3>3
    <3>5. /\ Len(key[b]) = k * BlockSize /\ key[b] # None
          /\ \A j \in 1..k * BlockSize : key[b][j] = p[j]
      BY <1>1, <1>4, <1>5, <1>6, ChainKeyFacts, ChainKeyElements DEF p
    <3>6. /\ Len(e) + BlockSize = Len(key[b]) + Offset(i) + 1
          /\ \A j \in 1..Len(e) : e[j] = key[b][j]
      BY <3>1, <3>5 DEF TextInv, CachedContent, IsCached
    <3>7. Len(e) \in Nat
      <4>1. e \in Seq(Token)
        BY <3>1 DEF IInv, TypeOK
      <4> QED BY <4>1, LenProperties
    <3> HIDE DEF e
    <3>8. Len(e) = i
      <4>1. (Place(i) - 1) * BlockSize = m * BlockSize
        <5>1. Place(i) - 1 = m
          BY <1>4, <3>2 DEF k, m
        <5> QED BY <5>1
      <4> DEFINE w == m * BlockSize
      <4>2. i = w + Offset(i) + 1
        BY <3>1, <4>1
      <4>3. Len(key[b]) = w + BlockSize
        BY <1>5, <3>5
      <4>4. w \in Nat /\ BlockSize \in Nat /\ Offset(i) \in Nat
        BY <1>5, <3>1
      <4> HIDE DEF w
      <4> QED BY <3>6, <3>7, <4>2, <4>3, <4>4
    <3>9. \A j \in 1..i : e[j] = p[j]
      BY <2>1, <3>5, <3>6, <3>8
    <3> QED BY <3>4, <3>8, <3>9
  <2> QED BY <2>2, <2>3
<1> QED
  BY <1>5, <1>6, <1>7, <1>9 DEF p

\* A hit reads the content of the matched key, which is a prefix of its own prompt.
LEMMA PinMatchText ==
    ASSUME IInv, TextInv, PinMatch PROVE TextInv' /\ UNCHANGED <<Text, OpenPrompt>>
<1> DEFINE n == (published[busy] + 1) * BlockSize
<1>1. /\ pc = "hit" /\ pc' = "hit"
      /\ len' = [len EXCEPT ![busy] = n] /\ snapshot' = [snapshot EXCEPT ![busy] = n]
      /\ published' = [published EXCEPT ![busy] = published[busy] + 1]
      /\ UNCHANGED <<key, content, batch, prompt, cur, busy, goal>>
      /\ \E b : blocks' = [blocks EXCEPT ![busy] = Append(@, b)]
  BY DEF PinMatch
<1>2. busy \in Live /\ busy \in Slot /\ Live' = Live /\ Live \subseteq Slot
  BY <1>1, LiveFacts DEF IInv, Cursors, Live
<1>3. /\ snapshot'[busy] = n /\ len'[busy] = n /\ published'[busy] = published[busy] + 1
      /\ \A x \in Slot : x # busy => snapshot'[x] = snapshot[x] /\ len'[x] = len[x]
                                     /\ blocks'[x] = blocks[x]
  BY <1>1, <1>2 DEF IInv, TypeOK
<1> HIDE DEF n
<1>4. \A x \in Live : x # busy =>
         /\ snapshot'[x] \in 0..snapshot[x]
         /\ \A i \in 1..snapshot[x] : content[Address(x, i)]' = content[Address(x, i)]
  <2> SUFFICES ASSUME NEW x \in Live, x # busy
               PROVE  /\ snapshot'[x] \in 0..snapshot[x]
                      /\ \A i \in 1..snapshot[x] : content[Address(x, i)]' = content[Address(x, i)]
    OBVIOUS
  <2>1. snapshot'[x] = snapshot[x] /\ blocks'[x] = blocks[x] /\ snapshot[x] \in Nat
    BY <1>2, <1>3, LiveFacts
  <2> QED BY <1>1, <2>1 DEF Address
<1>5. ReadsOwnText'
  <2> SUFFICES ASSUME NEW x \in Live, NEW i \in 1..snapshot'[x]
               PROVE  /\ Len(content[Address(x, i)]') = i
                      /\ \A j \in 1..i : /\ content[Address(x, i)]'[j] = TokenAt(x, j)'
                                         /\ j <= Len(prompt'[x]) => TokenAt(x, j)' = prompt'[x][j]
    BY <1>2 DEF ReadsOwnText
  <2>1. CASE x # busy
    <3>1. /\ snapshot'[x] \in 0..snapshot[x] /\ snapshot[x] \in Nat /\ prompt'[x] = prompt[x]
          /\ \A k \in 1..snapshot'[x] : content[Address(x, k)]' = content[Address(x, k)]
      BY <1>1, <1>4, <2>1, LiveFacts
    <3> QED BY <3>1, SameText DEF TextInv
  <2>2. CASE x = busy
    <3>1. /\ snapshot'[x] \in Nat /\ snapshot'[x] <= Len(prompt[x])
          /\ \A k \in 1..snapshot'[x] :
                /\ Len(content[Address(x, k)]') = k
                /\ \A j \in 1..k : content[Address(x, k)]'[j] = prompt[x][j]
      BY <2>2, PinnedText
    <3>2. \A j \in 1..i : j \in 1..snapshot'[x] /\ j \in 1..j /\ j # 0
      BY <2>2, <3>1
    <3>3. \A j \in 1..i : TokenAt(x, j)' = prompt[x][j]
      <4> SUFFICES ASSUME NEW j \in 1..i PROVE TokenAt(x, j)' = prompt[x][j]
        OBVIOUS
      <4> DEFINE e == content[Address(x, j)]'
      <4>1. Len(e) = j /\ e[j] = prompt[x][j]
        BY <3>1, <3>2
      <4>2. e # <<>>
        BY <3>2, <4>1
      <4> QED BY <4>1, <4>2 DEF TokenAt, LastToken, Garbage
    <3> QED BY <1>1, <2>2, <3>1, <3>3
  <2> QED BY <2>1, <2>2
<1>6. Open' = Open /\ Open \subseteq Live /\ \A x \in Open : x # busy
  BY <1>1, <1>2 DEF Open
<1>7. UNCHANGED <<Text, OpenPrompt>>
  <2>1. \A x \in Open : snapshot'[x] = snapshot[x] /\ prompt'[x] = prompt[x]
    BY <1>1, <1>2, <1>3, <1>6
  <2>2. \A x \in Open : \A i \in 1..snapshot[x] : content[Address(x, i)]' = content[Address(x, i)]
    BY <1>4, <1>6
  <2> QED BY <1>6, <2>1, <2>2, StoreRests DEF TextInv
<1>8. CachedContent'
  BY <1>1, CacheStays DEF TextInv
<1>9. AtSnapshot'
  <2>1. \A x \in Live : snapshot[x] = len[x]
    BY <1>1 DEF TextInv, AtSnapshot
  <2>2. \A x \in Live : snapshot'[x] = len'[x]
    BY <1>2, <1>3, <2>1
  <2> QED BY <1>1, <1>2, <2>2 DEF AtSnapshot
<1>10. HitIsProper'
  <2>1. goal = 0 \/ goal * BlockSize < Len(prompt[busy])
    BY <1>1 DEF TextInv, HitIsProper
  <2> QED BY <1>1, <1>3, <2>1 DEF HitIsProper, n
<1>11. \A x \in Live' : prompt'[x] \in Prompt
  BY <1>1, <1>2 DEF TextInv
<1> QED
  BY <1>5, <1>7, <1>8, <1>9, <1>10, <1>11 DEF TextInv

-----------------------------------------------------------------------------
(* The steps the abstract store sees.                                      *)

\* What the abstract store says of a slot.
LEMMA StoreFacts ==
    ASSUME IInv, TextInv
    PROVE  /\ KV!Live = Open
           /\ \A s \in Open :
                /\ s \in Live /\ s \in Slot
                /\ Text[s] = [i \in 1..snapshot[s] |-> TokenAt(s, i)]
                /\ Text[s] \in Seq(Token) /\ Len(Text[s]) = snapshot[s]
                /\ OpenPrompt[s] = prompt[s]
           /\ \A s \in Slot \ Open : Text[s] = Absent /\ OpenPrompt[s] = <<>>
<1>1. \A s \in Open : s \in Live /\ s \in Slot
  BY LiveFacts DEF Open
<1>2. /\ \A s \in Open : /\ Text[s] = [i \in 1..snapshot[s] |-> TokenAt(s, i)]
                         /\ OpenPrompt[s] = prompt[s]
      /\ \A s \in Slot \ Open : Text[s] = Absent /\ OpenPrompt[s] = <<>>
  BY <1>1 DEF Text, OpenPrompt
<1>3. ASSUME NEW s \in Open PROVE Text[s] \in Seq(Token) /\ Len(Text[s]) = snapshot[s]
  <2>1. snapshot[s] \in Nat
    BY <1>1, LiveFacts
  <2>2. \A i \in 1..snapshot[s] : TokenAt(s, i) \in Token
    BY <1>1, TokenFacts DEF TextInv
  <2>3. [i \in 1..snapshot[s] |-> TokenAt(s, i)] \in Seq(Token)
    BY <2>1, <2>2, IsASeq
  <2>4. Len([i \in 1..snapshot[s] |-> TokenAt(s, i)]) = snapshot[s]
    BY <2>1
  <2> QED BY <1>2, <2>3, <2>4
<1>4. KV!Live = Open
  <2>1. \A s \in Open : Text[s] # Absent
    BY <1>3, PagedKVAssumption
  <2> QED BY <1>1, <1>2, <2>1 DEF KV!Live
<1> QED
  BY <1>1, <1>2, <1>3, <1>4

\* The first n elements of a sequence.
LEMMA Cut ==
    ASSUME NEW S, NEW p \in Seq(S), NEW n \in 0..Len(p)
    PROVE  [i \in 1..n |-> p[i]] = SubSeq(p, 1, n)
<1> DEFINE e == [i \in 1..n |-> p[i]]
<1>1. Len(p) \in Nat /\ n \in Nat /\ n <= Len(p)
  OBVIOUS
<1>2. \A i \in 1..n : i \in 1..Len(p) /\ p[i] \in S
  BY <1>1, ElementOfSeq
<1>3. /\ SubSeq(p, 1, n) \in Seq(S)
      /\ Len(SubSeq(p, 1, n)) = n
      /\ \A i \in 1..n : SubSeq(p, 1, n)[i] = p[i]
  <2>1. /\ SubSeq(p, 1, n) \in Seq(S)
        /\ Len(SubSeq(p, 1, n)) = IF 1 <= n THEN n - 1 + 1 ELSE 0
        /\ \A i \in 1..(n - 1 + 1) : SubSeq(p, 1, n)[i] = p[1 + i - 1]
    BY <1>1, <1>2, SubSeqProperties
  <2>2. n - 1 + 1 = n /\ \A i \in 1..n : 1 + i - 1 = i
    BY <1>1
  <2>3. Len(SubSeq(p, 1, n)) = n
    BY <1>1, <2>1
  <2> QED BY <2>1, <2>2, <2>3
<1>4. e \in Seq(S) /\ Len(e) = n
  BY <1>1, <1>2, IsASeq
<1>5. \A i \in 1..n : e[i] = p[i]
  OBVIOUS
<1> HIDE DEF e
<1>6. \A i \in 1..Len(e) : e[i] = SubSeq(p, 1, n)[i]
  BY <1>3, <1>4, <1>5
<1>7. e = SubSeq(p, 1, n)
  BY <1>3, <1>4, <1>6, SeqEqual
<1> QED
  BY <1>7 DEF e

\* A slot opens with the part of its prompt that the cache had.
LEMMA SlotReadyText ==
    ASSUME IInv, TextInv, SlotReady PROVE TextInv' /\ KV!Next
<1>1. /\ pc = "hit" /\ pc' = "idle" /\ published[busy] = goal
      /\ UNCHANGED <<key, content, batch, prompt, blocks, len, snapshot>>
  BY DEF SlotReady, pool, tables
<1>2. Live' = Live /\ busy \in Live
  BY <1>1 DEF Live, IInv, Cursors
<1> PICK s \in Live : s = busy
  BY <1>2
<1>3. /\ s \in Slot /\ snapshot[s] \in Nat /\ prompt[s] \in Seq(Token) /\ Len(prompt[s]) \in Nat
  BY LiveFacts
<1>4. \A x \in Live : /\ snapshot[x] \in Nat /\ snapshot[x] \in 0..snapshot[x]
                      /\ \A i \in 1..snapshot[x] : content[Address(x, i)]' = content[Address(x, i)]
  BY <1>1, LiveFacts DEF Address
<1>5. TextInv'
  <2>1. ReadsOwnText'
    BY <1>1, <1>2, <1>4, TextsStay DEF TextInv
  <2>2. CachedContent'
    BY <1>1, CacheStays DEF TextInv
  <2>3. AtSnapshot' /\ HitIsProper'
    BY <1>1, <1>2 DEF TextInv, AtSnapshot, HitIsProper
  <2>4. \A x \in Live' : prompt'[x] \in Prompt
    BY <1>1, <1>2 DEF TextInv
  <2> QED BY <2>1, <2>2, <2>3, <2>4 DEF TextInv
<1>6. Open = Live \ {s} /\ Open' = Live
  BY <1>1, <1>2 DEF Open
<1>7. \A x \in Live : \A i \in 1..snapshot[x] : TokenAt(x, i)' = TokenAt(x, i)
  BY <1>4 DEF TokenAt, LastToken, Garbage
<1> DEFINE n == snapshot[s]
           p == prompt[s]
           e == [i \in 1..n |-> TokenAt(s, i)]
<1>8. (n < Len(p) \/ n = 0) /\ n \in 0..Len(p)
  <2>1. n = goal * BlockSize /\ (goal = 0 \/ goal * BlockSize < Len(p))
    BY <1>1 DEF TextInv, HitIsProper
  <2>2. goal = 0 => n = 0
    BY <2>1, PagedKVAssumption
  <2> HIDE DEF n, p
  <2> QED BY <1>3, <2>1, <2>2 DEF n, p
<1>9. e = SubSeq(p, 1, n)
  <2>1. \A i \in 1..n : i \in 1..i /\ i <= Len(p)
    BY <1>3, <1>8
  <2>2. \A i \in 1..n : TokenAt(s, i) = p[i]
    BY <2>1 DEF TextInv, ReadsOwnText
  <2>3. e = [i \in 1..n |-> p[i]]
    BY <2>2
  <2> HIDE DEF e, n, p
  <2>4. [i \in 1..n |-> p[i]] = SubSeq(p, 1, n)
    BY <1>3, <1>8, Cut DEF p
  <2> QED BY <2>3, <2>4
<1>10. Text' = [Text EXCEPT ![s] = e]
  <2>1. Text' = [x \in Slot |-> IF x \in Live THEN [i \in 1..snapshot'[x] |-> TokenAt(x, i)'] ELSE Absent]
    BY <1>6 DEF Text
  <2>2. \A x \in Live : [i \in 1..snapshot'[x] |-> TokenAt(x, i)'] = [i \in 1..snapshot[x] |-> TokenAt(x, i)]
    BY <1>1, <1>7
  <2>3. Text = [x \in Slot |-> IF x \in Live \ {s} THEN [i \in 1..snapshot[x] |-> TokenAt(x, i)] ELSE Absent]
    BY <1>6 DEF Text
  <2> QED BY <1>3, <2>1, <2>2, <2>3
<1>11. OpenPrompt' = [OpenPrompt EXCEPT ![s] = p]
  BY <1>1, <1>3, <1>6 DEF OpenPrompt
<1>12. s \notin KV!Live
  BY <1>6, StoreFacts
<1> HIDE DEF n, p, e
<1>13. KV!OpenSlot(s, p)
  BY <1>8, <1>9, <1>10, <1>11, <1>12 DEF KV!OpenSlot
<1>14. p \in Prompt
  BY DEF TextInv, p
<1> QED
  BY <1>3, <1>5, <1>13, <1>14 DEF KV!Next

\* A truncated slot reads the start of what it read.
LEMMA TruncateToText ==
    ASSUME IInv, TextInv, NEW s \in Live, NEW n \in 0..MaxLen, TruncateTo(s, n)
    PROVE  TextInv' /\ KV!Next
<1>1. /\ pc = "idle" /\ pc' = "free" /\ n < len[s]
      /\ len' = [len EXCEPT ![s] = n] /\ snapshot' = [snapshot EXCEPT ![s] = n]
      /\ UNCHANGED <<key, content, batch, prompt, blocks>>
  BY DEF TruncateTo, pool
<1>2. n \in Nat
  BY PagedKVAssumption
<1>3. s \in Slot /\ Live' = Live /\ Live \subseteq Slot /\ Open = Live /\ Open' = Live
  BY <1>1, LiveFacts DEF Open, Live
<1>4. snapshot[s] = len[s] /\ len[s] \in Nat /\ n \in 0..snapshot[s]
  BY <1>1, <1>2, LiveFacts DEF TextInv, AtSnapshot
<1>5. \A x \in Slot : /\ snapshot'[x] = IF x = s THEN n ELSE snapshot[x]
                      /\ len'[x] = IF x = s THEN n ELSE len[x]
  BY <1>1 DEF IInv, TypeOK
<1>6. \A x \in Live : \A i : content[Address(x, i)]' = content[Address(x, i)]
  BY <1>1 DEF Address
<1>7. \A x \in Live : \A i : TokenAt(x, i)' = TokenAt(x, i)
  BY <1>6 DEF TokenAt, LastToken, Garbage
<1>8. TextInv'
  <2>1. \A x \in Live : snapshot[x] \in Nat /\ snapshot'[x] \in 0..snapshot[x]
    BY <1>3, <1>4, <1>5, LiveFacts
  <2>2. ReadsOwnText'
    BY <1>1, <1>3, <1>6, <2>1, TextsStay DEF TextInv
  <2>3. CachedContent'
    BY <1>1, CacheStays DEF TextInv
  <2>4. \A x \in Live : snapshot'[x] = len'[x]
    BY <1>1, <1>3, <1>5 DEF TextInv, AtSnapshot
  <2>5. AtSnapshot' /\ HitIsProper'
    BY <1>1, <1>3, <2>4 DEF AtSnapshot, HitIsProper
  <2>6. \A x \in Live' : prompt'[x] \in Prompt
    BY <1>1, <1>3 DEF TextInv
  <2> QED BY <2>2, <2>3, <2>5, <2>6 DEF TextInv
<1>9. /\ KV!Live = Live /\ Text[s] \in Seq(Token) /\ Len(Text[s]) = snapshot[s]
      /\ Text[s] = [i \in 1..snapshot[s] |-> TokenAt(s, i)]
  BY <1>3, StoreFacts
<1> DEFINE e == [i \in 1..n |-> TokenAt(s, i)]
<1>10. e = SubSeq(Text[s], 1, n)
  <2>1. \A i \in 1..n : i \in 1..snapshot[s]
    BY <1>4
  <2>2. e = [i \in 1..n |-> Text[s][i]]
    BY <1>9, <2>1
  <2>3. n \in 0..Len(Text[s])
    BY <1>4, <1>9
  <2>4. [i \in 1..n |-> Text[s][i]] = SubSeq(Text[s], 1, n)
    BY <1>9, <2>3, Cut
  <2> QED BY <2>2, <2>4
<1>11. Text' = [Text EXCEPT ![s] = e]
  <2>1. Text' = [x \in Slot |-> IF x \in Live THEN [i \in 1..snapshot'[x] |-> TokenAt(x, i)'] ELSE Absent]
    BY <1>3 DEF Text
  <2>2. Text = [x \in Slot |-> IF x \in Live THEN [i \in 1..snapshot[x] |-> TokenAt(x, i)] ELSE Absent]
    BY <1>3 DEF Text
  <2>3. ASSUME NEW x \in Live
        PROVE  [i \in 1..snapshot'[x] |-> TokenAt(x, i)']
               = IF x = s THEN e ELSE [i \in 1..snapshot[x] |-> TokenAt(x, i)]
    <3>1. snapshot'[x] = IF x = s THEN n ELSE snapshot[x]
      BY <1>3, <1>5
    <3>2. [i \in 1..snapshot'[x] |-> TokenAt(x, i)'] = [i \in 1..snapshot'[x] |-> TokenAt(x, i)]
      BY <1>7
    <3> QED BY <3>1, <3>2
  <2> HIDE DEF e
  <2> QED BY <1>3, <2>1, <2>2, <2>3
<1>12. UNCHANGED OpenPrompt
  BY <1>1, <1>3 DEF OpenPrompt
<1>13. n < Len(Text[s]) /\ n \in 0..Len(Text[s])
  BY <1>1, <1>4, <1>9
<1> HIDE DEF e
<1>14. KV!Shrink(s, n)
  BY <1>9, <1>10, <1>11, <1>12, <1>13 DEF KV!Shrink
<1> QED
  BY <1>8, <1>9, <1>13, <1>14 DEF KV!Next

\* A slot that leaves closes in the store.
LEMMA RemoveRequestText ==
    ASSUME IInv, TextInv, NEW s \in Live, RemoveRequest(s)
    PROVE  TextInv' /\ KV!Next
<1>1. PICK i \in 1..Len(batch) : batch[i] = s /\ batch' = RemoveAt(batch, i)
  BY DEF RemoveRequest
<1>2. /\ pc = "idle" /\ pc' = "free"
      /\ prompt' = [prompt EXCEPT ![s] = <<>>]
      /\ len' = [len EXCEPT ![s] = 0] /\ snapshot' = [snapshot EXCEPT ![s] = 0]
      /\ UNCHANGED <<key, content, blocks>>
  BY DEF RemoveRequest, pool
<1>3. Live' = Live \ {s} /\ s \in Slot /\ Live \subseteq Slot
  <2>1. batch \in Seq(Slot) /\ Distinct(batch)
    BY DEF IInv, TypeOK
  <2>2. /\ batch' \in Seq(Slot)
        /\ \A x : In(batch', x) <=> In(batch, x) /\ x # s
    BY <1>1, <2>1, RemoveAtFacts
  <2> QED BY <2>1, <2>2, Elements DEF Live
<1>4. Open = Live /\ Open' = Live \ {s}
  BY <1>2, <1>3 DEF Open
<1>5. \A x \in Live \ {s} : /\ snapshot'[x] = snapshot[x] /\ len'[x] = len[x]
                            /\ prompt'[x] = prompt[x]
  BY <1>2, <1>3 DEF IInv, TypeOK
<1>6. \A x \in Live : \A k : content[Address(x, k)]' = content[Address(x, k)]
  BY <1>2 DEF Address
<1>7. \A x \in Live : \A k : TokenAt(x, k)' = TokenAt(x, k)
  BY <1>6 DEF TokenAt, LastToken, Garbage
<1>8. TextInv'
  <2>1. \A x \in Live' : snapshot'[x] \in 0..snapshot[x]
    BY <1>3, <1>5, LiveFacts
  <2>2. ReadsOwnText'
    BY <1>3, <1>5, <1>6, <2>1, TextsStay DEF TextInv
  <2>3. CachedContent'
    BY <1>2, CacheStays DEF TextInv
  <2>4. \A x \in Live' : snapshot'[x] = len'[x]
    BY <1>2, <1>3, <1>5 DEF TextInv, AtSnapshot
  <2>5. AtSnapshot' /\ HitIsProper'
    BY <1>2, <2>4 DEF AtSnapshot, HitIsProper
  <2>6. \A x \in Live' : prompt'[x] \in Prompt
    BY <1>3, <1>5 DEF TextInv
  <2> QED BY <2>2, <2>3, <2>5, <2>6 DEF TextInv
<1>9. Text' = [Text EXCEPT ![s] = Absent]
  <2>1. Text' = [x \in Slot |-> IF x \in Live \ {s} THEN [k \in 1..snapshot'[x] |-> TokenAt(x, k)'] ELSE Absent]
    BY <1>4 DEF Text
  <2>2. Text = [x \in Slot |-> IF x \in Live THEN [k \in 1..snapshot[x] |-> TokenAt(x, k)] ELSE Absent]
    BY <1>4 DEF Text
  <2>3. \A x \in Live \ {s} : [k \in 1..snapshot'[x] |-> TokenAt(x, k)'] = [k \in 1..snapshot[x] |-> TokenAt(x, k)]
    BY <1>5, <1>7
  <2> QED BY <2>1, <2>2, <2>3
<1>10. OpenPrompt' = [OpenPrompt EXCEPT ![s] = <<>>]
  BY <1>4, <1>5 DEF OpenPrompt
<1>11. s \in KV!Live
  BY <1>4, StoreFacts
<1>12. KV!CloseSlot(s)
  BY <1>9, <1>10, <1>11 DEF KV!CloseSlot
<1> QED
  BY <1>8, <1>11, <1>12 DEF KV!Next

-----------------------------------------------------------------------------
(* The forward.                                                            *)

\* A new position shares its place with no other position of a live slot.
LEMMA NewPositionIsAlone ==
    ASSUME IInv, NEW s \in Live, NEW i \in 1..len[s],
           NEW t \in Live, NEW j \in 1..len[t], snapshot[t] < j, Address(t, j) = Address(s, i)
    PROVE  s = t /\ i = j
<1>1. /\ i \in Nat \ {0} /\ Place(i) \in 1..Len(blocks[s])
      /\ Address(s, i) = <<blocks[s][Place(i)], Offset(i)>>
      /\ j \in Nat \ {0} /\ Place(j) \in 1..Len(blocks[t])
      /\ Address(t, j) = <<blocks[t][Place(j)], Offset(j)>>
      /\ blocks[t][Place(j)] \in Block
  BY ReadFacts
<1> DEFINE b == blocks[t][Place(j)]
<1>2. b = blocks[s][Place(i)] /\ Offset(i) = Offset(j) /\ b \in Block
  BY <1>1
<1>3. s \in Slot /\ t \in Slot
  BY LiveFacts
<1>4. ~IsCached(b)
  <2>1. j <= len[t]
    BY <1>1, LiveFacts
  <2>2. ~IsCached(Address(t, j)[1])
    BY <1>1, <2>1, NewPositionIsPrivate
  <2> QED BY <1>1, <2>2
<1>5. s \in Holders(b) /\ t \in Holders(b)
  BY <1>1, <1>2, <1>3 DEF Holders, In
<1> HIDE DEF b
<1>6. s = t
  <2>1. ~In(free_list, b)
    BY <1>2, <1>5 DEF IInv, BlockOwnership
  <2>2. PICK x \in Slot : Holders(b) = {x}
    BY <1>2, <1>4, <2>1 DEF IInv, BlockOwnership
  <2> QED BY <1>5, <2>2
<1>7. Place(i) = Place(j)
  <2>1. Distinct(blocks[s])
    BY <1>3 DEF IInv, BlockOwnership
  <2> QED BY <1>1, <1>2, <1>6, <2>1 DEF Distinct, b
<1>8. i = j
  <2>1. /\ i = (Place(i) - 1) * BlockSize + Offset(i) + 1
        /\ j = (Place(j) - 1) * BlockSize + Offset(j) + 1
    BY <1>1, Places
  <2> QED BY <1>2, <1>7, <2>1
<1> QED
  BY <1>6, <1>8

\* The forward writes the new positions of every live slot and no other.
LEMMA WriteFacts ==
    ASSUME IInv, WriteKV
    PROVE  \E gen \in [Slot -> Sampled] :
              \A s \in Live : \A i \in 1..len[s] :
                 content'[Address(s, i)] = IF i <= snapshot[s] THEN content[Address(s, i)]
                                           ELSE Computed(s, i, gen)
<1> DEFINE written == UNION {{s} \X (snapshot[s] + 1..len[s]) : s \in Live}
           at(x) == {w \in written : Address(w[1], w[2]) = x}
<1>1. PICK gen \in [Slot -> Sampled] :
         content' = [x \in DOMAIN content |->
                        IF at(x) = {} THEN content[x]
                        ELSE LET w == CHOOSE w \in at(x) : TRUE
                             IN Computed(w[1], w[2], gen)]
  BY DEF WriteKV
<1>2. ASSUME NEW w \in written
      PROVE  \E t \in Live : \E j \in 1..len[t] : w = <<t, j>> /\ snapshot[t] < j
  <2>1. PICK t \in Live : w \in {t} \X (snapshot[t] + 1..len[t])
    OBVIOUS
  <2>2. snapshot[t] \in Nat /\ len[t] \in Nat
    BY LiveFacts
  <2>3. PICK j \in snapshot[t] + 1..len[t] : w = <<t, j>>
    BY <2>1
  <2>4. j \in 1..len[t] /\ snapshot[t] < j
    BY <2>2, <2>3
  <2> QED BY <2>3, <2>4
<1>3. ASSUME NEW s \in Live, NEW i \in 1..len[s]
      PROVE  content'[Address(s, i)] = IF i <= snapshot[s] THEN content[Address(s, i)]
                                       ELSE Computed(s, i, gen)
  <2> DEFINE x == Address(s, i)
  <2>1. x \in DOMAIN content
    <3>1. blocks[s][Place(i)] \in Block /\ Offset(i) \in 0..BlockSize - 1
      BY ReadFacts
    <3>2. x = <<blocks[s][Place(i)], Offset(i)>>
      BY ReadFacts
    <3>3. content \in [Block \X (0..BlockSize - 1) -> Seq(Token)]
      BY DEF IInv, TypeOK
    <3> HIDE DEF x
    <3> QED BY <3>1, <3>2, <3>3
  <2>2. snapshot[s] \in Nat /\ len[s] \in Nat /\ i \in Nat
    BY LiveFacts
  <2>3. ASSUME NEW w \in at(x) PROVE w = <<s, i>> /\ snapshot[s] < i
    <3>1. w \in written /\ Address(w[1], w[2]) = x
      OBVIOUS
    <3> HIDE DEF written
    <3>5. PICK t \in Live : \E j \in 1..len[t] : w = <<t, j>> /\ snapshot[t] < j
      BY <1>2, <3>1
    <3>2. PICK j \in 1..len[t] : w = <<t, j>> /\ snapshot[t] < j
      BY <3>5
    <3>3. Address(t, j) = Address(s, i)
      BY <3>1, <3>2
    <3>4. s = t /\ i = j
      BY <3>2, <3>3, NewPositionIsAlone
    <3> QED BY <3>2, <3>4
  <2>4. CASE i <= snapshot[s]
    <3>1. at(x) = {}
      <4> HIDE DEF at
      <4>1. \A w \in at(x) : FALSE
        BY <2>2, <2>3, <2>4
      <4> QED BY <4>1
    <3> HIDE DEF at
    <3>2. content'[x] = content[x]
      BY <1>1, <2>1, <3>1
    <3> QED BY <2>4, <3>2
  <2>5. CASE ~(i <= snapshot[s])
    <3>1. <<s, i>> \in at(x)
      <4>1. i \in snapshot[s] + 1..len[s]
        BY <2>2, <2>5
      <4>2. <<s, i>> \in written
        BY <4>1
      <4> QED BY <4>2
    <3> HIDE DEF at
    <3> DEFINE w == CHOOSE v \in at(x) : TRUE
    <3>2. w \in at(x)
      BY <3>1
    <3> HIDE DEF w
    <3>3. w = <<s, i>>
      BY <2>3, <3>2
    <3>4. content'[x] = Computed(w[1], w[2], gen)
      BY <1>1, <2>1, <3>1 DEF w
    <3> QED BY <2>5, <3>3, <3>4
  <2> QED BY <2>4, <2>5
<1> HIDE DEF at
<1> QED
  BY <1>3

\* What is computed for a new position: the text so far, and the tokens that
\* follow.
LEMMA ComputedFacts ==
    ASSUME IInv, ReadsOwnText, NEW s \in Live, NEW i \in Nat, snapshot[s] < i,
           NEW gen \in [Slot -> Sampled]
    PROVE  /\ Len(Computed(s, i, gen)) = i
           /\ \A j \in 1..i :
                 Computed(s, i, gen)[j] = IF j <= snapshot[s] THEN TokenAt(s, j)
                                          ELSE IF j <= Len(prompt[s]) THEN prompt[s][j] ELSE gen[s]
<1> DEFINE n == snapshot[s]
           base == IF n = 0 THEN <<>> ELSE content[Address(s, n)]
           token(j) == IF j <= Len(prompt[s]) THEN prompt[s][j] ELSE gen[s]
           tail == [j \in 1..(i - n) |-> token(n + j)]
<1>1. /\ n \in Nat /\ s \in Slot /\ prompt[s] \in Seq(Token) /\ Len(prompt[s]) \in Nat
  BY LiveFacts
<1>2. /\ base \in Seq(Token) /\ Len(base) = n
      /\ \A j \in 1..n : base[j] = TokenAt(s, j)
  <2>1. CASE n = 0
    BY <2>1, EmptySeq
  <2>2. CASE n # 0
    <3>1. n \in 1..snapshot[s]
      BY <1>1, <2>2
    <3>2. /\ content[Address(s, n)] \in Seq(Token) /\ Len(content[Address(s, n)]) = n
      BY <3>1, TokenFacts
    <3>3. \A j \in 1..n : content[Address(s, n)][j] = TokenAt(s, j)
      BY <3>1 DEF ReadsOwnText
    <3> QED BY <2>2, <3>2, <3>3
  <2> QED BY <2>1, <2>2
<1>3. tail \in Seq(Token) /\ Len(tail) = i - n /\ \A j \in 1..(i - n) : tail[j] = token(n + j)
  <2>1. \A j \in 1..(i - n) : token(n + j) \in Token
    <3> TAKE j \in 1..(i - n)
    <3>1. gen[s] \in Token
      BY <1>1, PagedKVAssumption
    <3>2. n + j <= Len(prompt[s]) => prompt[s][n + j] \in Token
      BY <1>1, ElementOfSeq
    <3> QED BY <3>1, <3>2
  <2>2. i - n \in Nat
    BY <1>1
  <2> HIDE DEF token
  <2> QED BY <2>1, <2>2, IsASeq
<1>4. Computed(s, i, gen) = base \o tail
  BY DEF Computed
<1> HIDE DEF base, tail, n, token
<1>5. /\ Len(base \o tail) = Len(base) + Len(tail)
      /\ \A j \in 1..(Len(base) + Len(tail)) :
            (base \o tail)[j] = IF j <= Len(base) THEN base[j] ELSE tail[j - Len(base)]
  BY <1>2, <1>3, ConcatProperties
<1>6. n < i
  BY DEF n
<1>7. Len(base) + Len(tail) = i
  BY <1>1, <1>2, <1>3, <1>6
<1>8. ASSUME NEW j \in 1..i
      PROVE  (base \o tail)[j] = IF j <= n THEN TokenAt(s, j) ELSE token(j)
  <2>1. CASE j <= n
    <3>1. j \in 1..n
      BY <1>1, <2>1
    <3> QED BY <1>2, <1>5, <1>7, <2>1, <3>1
  <2>2. CASE ~(j <= n)
    <3>1. j - n \in 1..(i - n) /\ n + (j - n) = j
      BY <1>1, <2>2
    <3>2. tail[j - n] = token(j)
      BY <1>3, <3>1
    <3> QED BY <1>2, <1>5, <1>7, <2>2, <3>2
  <2> QED BY <2>1, <2>2
<1> QED
  BY <1>4, <1>5, <1>7, <1>8 DEF n, token

\* A forward extends what each slot reads, by its prompt as long as that lasts.
LEMMA WriteKVText ==
    ASSUME IInv, TextInv, WriteKV PROVE TextInv' /\ KV!Next
<1>1. /\ pc = "write" /\ pc' = "publish" /\ snapshot' = len
      /\ UNCHANGED <<key, batch, prompt, blocks, len, cur>>
  BY DEF WriteKV, pool, tables
<1>2. Live' = Live /\ Open = Live /\ Open' = Live
  BY <1>1 DEF Open, Live
<1>3. PICK gen \in [Slot -> Sampled] :
         \A s \in Live : \A i \in 1..len[s] :
            content'[Address(s, i)] = IF i <= snapshot[s] THEN content[Address(s, i)]
                                      ELSE Computed(s, i, gen)
  BY WriteFacts
<1> DEFINE token(s, j) == IF j <= snapshot[s] THEN TokenAt(s, j)
                          ELSE IF j <= Len(prompt[s]) THEN prompt[s][j] ELSE gen[s]
<1>4. \A s \in Live : /\ s \in Slot /\ snapshot[s] \in Nat /\ len[s] \in Nat /\ snapshot[s] <= len[s]
                      /\ prompt[s] \in Seq(Token) /\ Len(prompt[s]) \in Nat
  BY LiveFacts
<1>5. ASSUME NEW s \in Live, NEW i \in 1..len[s]
      PROVE  /\ Len(content[Address(s, i)]') = i
             /\ \A j \in 1..i : content[Address(s, i)]'[j] = token(s, j)
  <2>1. Address(s, i)' = Address(s, i)
    BY <1>1, AddressIs
  <2>2. CASE i <= snapshot[s]
    <3>1. i \in 1..snapshot[s] /\ \A j \in 1..i : j <= snapshot[s]
      BY <1>4, <2>2
    <3>2. content[Address(s, i)]' = content[Address(s, i)]
      BY <1>3, <2>1, <2>2
    <3>3. /\ Len(content[Address(s, i)]) = i
          /\ \A j \in 1..i : content[Address(s, i)][j] = TokenAt(s, j)
      BY <3>1 DEF TextInv, ReadsOwnText
    <3> QED BY <3>1, <3>2, <3>3
  <2>3. CASE ~(i <= snapshot[s])
    <3>1. i \in Nat /\ snapshot[s] < i
      BY <1>4, <2>3
    <3>2. content[Address(s, i)]' = Computed(s, i, gen)
      BY <1>3, <2>1, <2>3
    <3> QED BY <3>1, <3>2, ComputedFacts DEF TextInv
  <2> QED BY <2>2, <2>3
<1>6. ASSUME NEW s \in Live, NEW i \in 1..len[s]
      PROVE  /\ TokenAt(s, i)' = token(s, i)
             /\ i <= Len(prompt[s]) => token(s, i) = prompt[s][i]
             /\ token(s, i) \in Token
  <2>1. i \in 1..i /\ i # 0
    BY <1>4
  <2>2. Len(content[Address(s, i)]') = i /\ content[Address(s, i)]'[i] = token(s, i)
    BY <1>5, <2>1
  <2>3. content[Address(s, i)]' # <<>>
    BY <2>1, <2>2
  <2>4. TokenAt(s, i)' = token(s, i)
    <3> HIDE DEF token
    <3> QED BY <2>2, <2>3 DEF TokenAt, LastToken, Garbage
  <2>5. CASE i <= snapshot[s]
    <3>1. i \in 1..snapshot[s]
      BY <1>4, <2>5
    <3>2. i <= Len(prompt[s]) => TokenAt(s, i) = prompt[s][i]
      BY <2>1, <3>1 DEF TextInv, ReadsOwnText
    <3>3. TokenAt(s, i) \in Token
      BY <3>1, TokenFacts DEF TextInv
    <3> QED BY <2>4, <2>5, <3>2, <3>3
  <2>6. CASE ~(i <= snapshot[s])
    <3>1. i <= Len(prompt[s]) => prompt[s][i] \in Token
      BY <1>4, ElementOfSeq
    <3>2. gen[s] \in Token
      BY <1>4, PagedKVAssumption
    <3> QED BY <2>4, <2>6, <3>1, <3>2
  <2> QED BY <2>5, <2>6
<1>7. \A s \in Live : \A i \in 1..snapshot[s] : TokenAt(s, i)' = TokenAt(s, i)
  <2> SUFFICES ASSUME NEW s \in Live, NEW i \in 1..snapshot[s] PROVE TokenAt(s, i)' = TokenAt(s, i)
    OBVIOUS
  <2>1. i \in 1..len[s] /\ i <= snapshot[s]
    BY <1>4
  <2> QED BY <1>6, <2>1
<1> HIDE DEF token
<1>8. TextInv'
  <2>1. ReadsOwnText'
    <3> SUFFICES ASSUME NEW s \in Live, NEW i \in 1..len[s]
                 PROVE  /\ Len(content[Address(s, i)]') = i
                        /\ \A j \in 1..i : /\ content[Address(s, i)]'[j] = TokenAt(s, j)'
                                           /\ j <= Len(prompt'[s]) => TokenAt(s, j)' = prompt'[s][j]
      BY <1>1, <1>2 DEF ReadsOwnText
    <3>1. \A j \in 1..i : j \in 1..len[s]
      BY <1>4
    <3> QED BY <1>1, <1>5, <1>6, <3>1
  <2>2. CachedContent'
    <3>1. \A b \in Block : key'[b] # None =>
             /\ key'[b] = key[b]
             /\ \A off \in 0..BlockSize - 1 : content'[<<b, off>>] = content[<<b, off>>]
      BY <1>1, WriteSparesCachedBlocks DEF IsCached
    <3> QED BY <3>1, CacheStays DEF TextInv
  <2>3. AtSnapshot' /\ HitIsProper'
    BY <1>1 DEF AtSnapshot, HitIsProper
  <2>4. \A s \in Live' : prompt'[s] \in Prompt
    BY <1>1, <1>2 DEF TextInv
  <2> QED BY <2>1, <2>2, <2>3, <2>4 DEF TextInv
<1>9. /\ KV!Live = Live
      /\ \A s \in Live : /\ Text[s] = [i \in 1..snapshot[s] |-> TokenAt(s, i)]
                         /\ Text[s] \in Seq(Token) /\ Len(Text[s]) = snapshot[s]
                         /\ OpenPrompt[s] = prompt[s]
  BY <1>2, StoreFacts
<1>10. \A s \in Live : Text'[s] = [i \in 1..len[s] |-> TokenAt(s, i)']
  BY <1>1, <1>2, <1>4 DEF Text
<1>11. ASSUME NEW s \in Live
       PROVE  /\ Text'[s] \in Seq(Token)
              /\ KV!IsPrefix(Text[s], Text'[s])
              /\ \A i \in 1..Len(Text'[s]) :
                    i <= Len(OpenPrompt[s]) => Text'[s][i] = OpenPrompt[s][i]
  <2> DEFINE f == [i \in 1..len[s] |-> TokenAt(s, i)']
             e == Text[s]
             n == snapshot[s]
  <2>1. \A i \in 1..len[s] : TokenAt(s, i)' \in Token
    BY <1>6
  <2>2. f \in Seq(Token) /\ Len(f) = len[s] /\ \A i \in 1..len[s] : f[i] = TokenAt(s, i)'
    BY <1>4, <2>1, IsASeq
  <2>3. e \in Seq(Token) /\ Len(e) = n /\ e = [i \in 1..n |-> TokenAt(s, i)]
    BY <1>9
  <2>4. n \in Nat /\ len[s] \in Nat /\ n <= len[s]
    BY <1>4
  <2>5. \A i \in 1..n : f[i] = e[i]
    <3>1. \A i \in 1..n : i \in 1..len[s]
      BY <2>4
    <3> QED BY <1>7, <2>2, <2>3, <3>1
  <2>6. Text'[s] = f
    BY <1>10
  <2>7. \A i \in 1..len[s] : i <= Len(prompt[s]) => f[i] = prompt[s][i]
    BY <1>6, <2>2
  <2> HIDE DEF f, e, n
  <2>8. KV!IsPrefix(e, f)
    <3>1. [i \in 1..n |-> e[i]] = SubSeq(e, 1, n) /\ [i \in 1..n |-> f[i]] = SubSeq(f, 1, n)
      BY <2>2, <2>3, <2>4, Cut
    <3>2. [i \in 1..n |-> e[i]] = [i \in 1..n |-> f[i]]
      BY <2>5
    <3> QED BY <2>2, <2>3, <2>4, <3>1, <3>2 DEF KV!IsPrefix
  <2> QED BY <1>9, <2>2, <2>6, <2>7, <2>8 DEF e
<1>12. Live # {}
  <2>1. batch \in Seq(Slot) /\ cur \in 1..Len(batch)
    BY <1>1 DEF IInv, TypeOK, Cursors
  <2> QED BY <2>1, Elements DEF Live
<1>13. \A s \in Slot \ Live : Text'[s] = Absent
  BY <1>2 DEF Text
<1>14. UNCHANGED OpenPrompt
  BY <1>1, <1>2 DEF OpenPrompt
<1>15. KV!Step
  BY <1>9, <1>11, <1>12, <1>13, <1>14 DEF KV!Step
<1> QED
  BY <1>8, <1>15 DEF KV!Next

-----------------------------------------------------------------------------
(* The cache implements the abstract store.                                *)

\* An empty cache is an empty store.
LEMMA InitText == Init => TextInv /\ KV!Init
<1> SUFFICES ASSUME Init PROVE TextInv /\ KV!Init
  OBVIOUS
<1>1. /\ batch = <<>> /\ key = [b \in Block |-> None] /\ pc = "idle"
  BY DEF Init
<1>2. Live = {}
  BY <1>1 DEF Live, ToSet
<1>3. CachedContent
  BY <1>1 DEF CachedContent, IsCached
<1>4. AtSnapshot /\ HitIsProper /\ ReadsOwnText
  BY <1>1, <1>2 DEF AtSnapshot, HitIsProper, ReadsOwnText
<1>5. TextInv
  BY <1>2, <1>3, <1>4 DEF TextInv
<1>6. Open = {}
  BY <1>2 DEF Open
<1>7. KV!Init
  BY <1>6 DEF KV!Init, Text, OpenPrompt
<1> QED
  BY <1>5, <1>7

\* Every step keeps the invariant, and is a step of the store or none.
LEMMA NextText ==
    ASSUME IInv, TextInv, [Next]_vars
    PROVE  TextInv' /\ [KV!Next]_(KV!kvars)
<1>1. UNCHANGED <<Text, OpenPrompt>> => [KV!Next]_(KV!kvars)
  BY DEF KV!kvars
<1>2. CASE \E s \in Slot, p \in Prompt : AddRequestSlot(s, p)
  BY <1>1, <1>2, AddRequestSlotText
<1>3. CASE PinMatch
  BY <1>1, <1>3, PinMatchText
<1>4. CASE SlotReady
  BY <1>4, SlotReadyText
<1>5. CASE BeginStep \/ ReserveBlock \/ AdvanceSlot \/ ReserveFails
  BY <1>1, <1>5, BeginStepText, ReserveBlockText, AdvanceSlotText, ReserveFailsText
<1>6. CASE WriteKV
  BY <1>6, WriteKVText
<1>7. CASE PublishFresh \/ PublishDuplicate \/ PublishSlotDone
  BY <1>1, <1>7, PublishFreshText, PublishDuplicateText, PublishSlotDoneText
<1>8. CASE \E s \in Live : \E n \in 0..MaxLen : TruncateTo(s, n)
  BY <1>8, TruncateToText
<1>9. CASE \E s \in Live : RemoveRequest(s)
  BY <1>9, RemoveRequestText
<1>10. CASE RollbackSlot \/ RollbackSkip \/ FreeTail \/ FreeTailDone
  BY <1>1, <1>10, RollbackSlotText, RollbackSkipText, FreeTailText, FreeTailDoneText
<1>11. CASE UNCHANGED vars
  <2>1. UNCHANGED <<key, content, batch, prompt, blocks, len, snapshot, pc, cur, busy, goal, published>>
    BY <1>11 DEF vars, pool, tables, control
  <2>2. Open' = Open /\ Live' = Live
    BY <2>1 DEF Open, Live
  <2>3. AtSnapshot' /\ HitIsProper'
    BY <2>1, <2>2 DEF TextInv, AtSnapshot, HitIsProper
  <2> QED BY <1>1, <2>1, <2>2, <2>3, VeryQuiet
<1> QED
  BY <1>2, <1>3, <1>4, <1>5, <1>6, <1>7, <1>8, <1>9, <1>10, <1>11 DEF Next, Step

\* The invariant of the text.
LEMMA TextInvariance == Spec => []TextInv
  BY InitText, NextText, Invariance, PTL DEF Spec

\* What a slot reads was computed on its own text, for every number of slots and
\* blocks, every block size and every set of prompts.
THEOREM SlotsReadTheirOwnText == Spec => []SharesOnlyItsText
<1>1. IInv /\ TextInv => SharesOnlyItsText
  BY DEF IInv, TextInv, SharesOnlyItsText
<1> QED
  BY <1>1, Invariance, TextInvariance, PTL

\* The pool, the prefix cache and the block tables implement the abstract store.
THEOREM CacheImplementsKVStore == Spec => ImplementsKVStore
<1>1. Init => KV!Init
  BY InitText
<1>2. IInv /\ TextInv /\ [Next]_vars => [KV!Next]_(KV!kvars)
  BY NextText
<1>3. Spec => KV!Spec
  BY <1>1, <1>2, Invariance, TextInvariance, PTL DEF Spec, KV!Spec
<1> QED
  BY <1>3 DEF ImplementsKVStore
=============================================================================
