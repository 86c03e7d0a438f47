--------------------------- MODULE ForwardProofs ----------------------------
(***************************************************************************)
(* Proofs about what a forward pass runs on: that it is what the host, or    *)
(* the leading rank, asked for.                                             *)
(*                                                                         *)
(*   - StaticSteps, for any graphs, pool and number of requests: the K/V of  *)
(*     the slots, the ids that are sampled and the pages of a step are those *)
(*     the host meant, once the device has run the stream.                   *)
(*   - TPLockstep, for any number of ranks and requests: ranks that meet in  *)
(*     a forward run the same one as the leader, and a follower raises on a  *)
(*     message it did not expect only after a generation failed there.       *)
(***************************************************************************)
EXTENDS StaticSteps, TPLockstep, SequenceTheorems, FiniteSetTheorems, WellFoundedInduction, TLAPS

-----------------------------------------------------------------------------
(* StaticSteps: its inductive invariant.                                   *)

\* A slot of the cache: its request, blocks, length and published blocks.
Slot == [req : RequestId, n : Nat, published : Nat, blocks : Seq(Pool)]

\* How long the slots are, and how much of them is published.
Lengths(ss) ==
    \A k \in 1..Len(ss) : /\ BlocksFor(ss[k].n) <= Len(ss[k].blocks)
                          /\ ss[k].published <= FilledPrompt(ss[k].n)

\* No request has two slots.
OneSlotEach(ss) == \A k, l \in 1..Len(ss) : ss[k].req = ss[l].req => k = l

\* A block that a slot published is the cached one,
PublishedIsCached(ss, cc) ==
    \A k \in 1..Len(ss) : \A i \in 1..ss[k].published : cc[Key(ss[k].req, i)] = ss[k].blocks[i]

\* the others are not cached
OthersUncached(ss, cc) ==
    \A k \in 1..Len(ss) : \A i \in (ss[k].published + 1)..Len(ss[k].blocks) :
        \A key \in PromptKeys : cc[key] # ss[k].blocks[i]

\* and are at one place of one slot,
OthersOwned(ss) ==
    \A k, l \in 1..Len(ss) :
        \A i \in (ss[k].published + 1)..Len(ss[k].blocks), j \in 1..Len(ss[l].blocks) :
            ss[l].blocks[j] = ss[k].blocks[i] => l = k /\ j = i

\* and a cached block has one key.
OneKeyEach(cc) == \A x, y \in PromptKeys : cc[x] = cc[y] /\ cc[x] # 0 => x = y

\* What the pool, the slots and the prefix cache know of one another.
Pooled(ss, cc) ==
    /\ ss \in Seq(Slot) /\ cc \in [PromptKeys -> Pool \cup {0}]
    /\ Lengths(ss) /\ OneSlotEach(ss)
    /\ PublishedIsCached(ss, cc) /\ OthersUncached(ss, cc) /\ OthersOwned(ss)
    /\ OneKeyEach(cc)

\* Between two steps of the host everything filled is published, and a request
\* that waits has no slot.
HostInv ==
    /\ todo \subseteq RequestId /\ Pooled(slots, cached)
    /\ \A k \in 1..Len(slots) : /\ slots[k].published = FilledPrompt(slots[k].n)
                                /\ slots[k].req \notin todo /\ slots[k].n <= MaxLen
    /\ deferred \in Seq(RequestId)

\* A staged step is of the slots as they are, and of a bucket that accepts it.
StepInv ==
    phase = "staged" =>
        /\ step.count = Counts /\ slots # <<>>
        /\ step.bucket \in Graph \cup {Eager}
        /\ \A k \in 1..Len(slots) : slots[k].n + Counts[k] <= MaxLen
        /\ step.bucket # Eager /\ step.bucket.kind = "decode" =>
              Len(slots) <= step.bucket.rows /\ \A k \in 1..Len(slots) : Counts[k] = 1
        /\ step.bucket # Eager /\ step.bucket.kind = "prefill" =>
              Holds(step.bucket, Total(Counts), Len(slots))
        /\ step.rows # <<>> => /\ AllDeferred /\ step.rows = DeviceRows
                               /\ (step.bucket = Eager \/ step.bucket.kind = "decode")

\* The operations on the stream; only a forward can be eager.
OperationShape(o) ==
    /\ o.op \in {"inputs", "positions", "gather", "layout", "plan", "forward"}
    /\ o.bucket \in Graph \cup {Eager}
    /\ o.op # "forward" => o.bucket \in Graph

\* A gather follows the copy of the positions.
StreamShape(s) ==
    /\ s \in Seq(ToSet(s))
    /\ \A i \in 1..Len(s) :
          /\ OperationShape(s[i])
          /\ s[i].op = "positions" =>
                i < Len(s) /\ s[i + 1].op = "gather" /\ s[i + 1].bucket = s[i].bucket

StreamInv == StreamShape(stream)

\* Buffers and staging memory keep their fields and their rows.
InputShape(b, x) ==
    /\ x = [ids |-> x.ids, pos |-> x.pos, last |-> x.last]
    /\ x.ids = [i \in 1..b.rows |-> x.ids[i]]

LayoutShape(x) ==
    x = [write |-> x.write, qo |-> x.qo, indptr |-> x.indptr, indices |-> x.indices,
         last |-> x.last]

PinnedInv ==
    /\ staging = [b \in Graph |-> staging[b]] /\ layout = [b \in Graph |-> layout[b]]
    /\ \A b \in Graph : InputShape(b, staging[b]) /\ LayoutShape(layout[b])

\* The same of the device.
Shaped(d) ==
    /\ d = [inputs |-> d.inputs, table |-> d.table, plan |-> d.plan, sampled |-> d.sampled,
            wanted |-> d.wanted, mem |-> d.mem]
    /\ d.inputs = [b \in Graph |-> d.inputs[b]] /\ d.table = [b \in Graph |-> d.table[b]]
    /\ d.plan = [w \in Wrapper |-> d.plan[w]]
    /\ \A b \in Graph : InputShape(b, d.inputs[b]) /\ LayoutShape(d.table[b])

\* d's memory holds the text of the first n positions of slot s,
SlotText(d, s, n) ==
    \A p \in 0..(n - 1) : d.mem[AddressOf(s.blocks, p)] = Text(s.req, p)

\* and each cached block the text of its key.
CacheText(d, cc) ==
    \A key \in PromptKeys : cc[key] # 0 =>
        \A o \in 0..(BlockSize - 1) : d.mem[<<cc[key], o>>] = <<key[1], (key[2] - 1) * BlockSize + o>>

\* The ids that stayed on the device are the next ones of their requests.
DeferredText(d) ==
    \A k \in 1..Len(slots) : \A i \in 1..Len(deferred) :
        deferred[i] = slots[k].req => d.sampled[i] = Text(slots[k].req, slots[k].n)

\* The inputs of the staged step are on the device.
StagedInputs(d) ==
    phase = "staged" /\ step.bucket # Eager =>
        LET x == d.inputs[step.bucket]
            from == Bounds(Counts)
        IN /\ \A k \in 1..Len(slots) : \A j \in 1..Counts[k] :
                 /\ x.ids[from[k] + j] = Text(slots[k].req, slots[k].n + j - 1)
                 /\ x.pos[from[k] + j] = slots[k].n + j - 1
           /\ step.bucket.kind = "prefill" =>
                 \A k \in 1..Len(slots) : x.last[k] = from[k + 1]

\* What the host relies on.
Settled(d) ==
    /\ \A k \in 1..Len(slots) : SlotText(d, slots[k], slots[k].n)
    /\ CacheText(d, cached)
    /\ DeferredText(d)
    /\ StagedInputs(d)

\* F goes through the states of the device from d on, while it runs the stream s
\* with the pinned memory as it is now; no forward on the way samples a wrong id.
Follows(F, d, s, inputs, layouts) ==
    /\ F[0] = d
    /\ \A i \in 1..Len(s) : F[i] = Ran(F[i - 1], s[i], inputs, layouts)
    /\ \A i \in 0..Len(s) : Shaped(F[i]) /\ F[i].sampled = F[i].wanted

\* ... and arrives at e.
Reaches(d, s, inputs, layouts, e) ==
    \E F : Follows(F, d, s, inputs, layouts) /\ F[Len(s)] = e

\* When the device has run all of the stream, it holds what the host relies on.
DeviceInv == \E e : Reaches(device, stream, staging, layout, e) /\ Settled(e)

\* The inductive invariant.
StaticInv == HostInv /\ StepInv /\ StreamInv /\ PinnedInv /\ DeviceInv

-----------------------------------------------------------------------------
(* Numbers.                                                                *)

LEMMA Sizes ==
    /\ BlockSize \in Nat \ {0} /\ NumBlocks \in Nat \ {0} /\ PromptLen \in Nat /\ MaxLen \in Nat
    /\ PromptLen <= MaxLen /\ Chunk \in Nat \ {0} /\ MaxRequests \in Nat \ {0}
    /\ PrefixBlocks \in Nat /\ PrefixBlocks * BlockSize < PromptLen /\ RequestId \subseteq Nat \ {0}
    /\ DecodeBuckets \subseteq Nat \ {0} /\ PrefillBuckets \subseteq Nat \ {0}
  <1>1. PrefixBlocks * BlockSize \in Nat /\ BlockSize \in Nat
    BY StaticStepsAssumption
  <1>2. PromptLen \in Nat
    BY <1>1, StaticStepsAssumption
  <1> QED BY <1>1, <1>2, StaticStepsAssumption DEF RequestId

\* A position is a block and an offset in it.
LEMMA Split ==
    ASSUME NEW n \in Nat
    PROVE  /\ n \div BlockSize \in Nat /\ n % BlockSize \in 0..(BlockSize - 1)
           /\ n = (n \div BlockSize) * BlockSize + (n % BlockSize)
  BY Sizes

\* ... and only one block and offset give it.
LEMMA DivMod ==
    ASSUME NEW k \in Nat, NEW j \in 0..(BlockSize - 1), NEW n, n = k * BlockSize + j
    PROVE  n \div BlockSize = k /\ n % BlockSize = j
  BY Sizes

\* Blocks are a block size apart.
LEMMA Times ==
    ASSUME NEW k \in Nat
    PROVE  k * BlockSize \in Nat /\ (k + 1) * BlockSize = k * BlockSize + BlockSize
  BY Sizes

\* An earlier block ends before a later one starts.
LEMMA Earlier ==
    ASSUME NEW k \in Nat, NEW q \in Nat, k < q
    PROVE  k * BlockSize \in Nat /\ k * BlockSize + BlockSize <= q * BlockSize
  BY Sizes

\* A later position is in no earlier block.
LEMMA LaterBlock ==
    ASSUME NEW n \in Nat, NEW q \in Nat, n <= q
    PROVE  n \div BlockSize <= q \div BlockSize
  <1>1. PICK k \in Nat, i \in 0..(BlockSize - 1) : k = n \div BlockSize /\ n = k * BlockSize + i
    BY Split
  <1>2. PICK h \in Nat, j \in 0..(BlockSize - 1) : h = q \div BlockSize /\ q = h * BlockSize + j
    BY Split
  <1>3. ~ h < k
    BY <1>1, <1>2, Earlier, Sizes
  <1> QED BY <1>1, <1>2, <1>3

\* The blocks of n positions: the last one is that of position n - 1.
LEMMA BlocksForFacts ==
    ASSUME NEW n \in Nat
    PROVE  /\ BlocksFor(n) \in Nat /\ n \div BlockSize <= BlocksFor(n) /\ BlocksFor(0) = 0
           /\ n # 0 => /\ BlocksFor(n) = (n - 1) \div BlockSize + 1
                       /\ (BlocksFor(n) - 1) * BlockSize + ((n - 1) % BlockSize) + 1 = n
           /\ \A p \in 0..(n - 1) : p \div BlockSize + 1 \in 1..BlocksFor(n)
           /\ BlocksFor(n) <= n
  <1>0. BlockSize \in Nat \ {0}
    BY Sizes
  <1>1. BlocksFor(0) = 0
    <2>1. 0 + BlockSize - 1 = 0 * BlockSize + (BlockSize - 1) /\ BlockSize - 1 \in 0..(BlockSize - 1)
      BY <1>0
    <2> QED BY <2>1, DivMod DEF BlocksFor
  <1>2. CASE n = 0
    <2>1. 0 = 0 * BlockSize + 0 /\ 0 \in 0..(BlockSize - 1)
      BY <1>0
    <2>2. 0 \div BlockSize = 0
      BY <2>1, DivMod
    <2> QED BY <1>1, <1>2, <2>2
  <1>3. CASE n # 0
    <2>1. n - 1 \in Nat
      BY <1>3
    <2>2. PICK k \in Nat, j \in 0..(BlockSize - 1) :
             k = (n - 1) \div BlockSize /\ j = (n - 1) % BlockSize /\ n - 1 = k * BlockSize + j
      BY <2>1, Split
    <2>3. n + BlockSize - 1 = (k + 1) * BlockSize + j /\ k + 1 \in Nat
      BY <2>2, <1>0, Times
    <2>4. BlocksFor(n) = k + 1
      BY <2>3, DivMod DEF BlocksFor
    <2>5. \A p \in 0..(n - 1) : p \div BlockSize + 1 \in 1..BlocksFor(n)
      <3> TAKE p \in 0..(n - 1)
      <3>1. p \in Nat /\ p <= n - 1
        OBVIOUS
      <3>2. p \div BlockSize <= k /\ p \div BlockSize \in Nat
        BY <2>1, <2>2, <3>1, LaterBlock, Split
      <3> QED BY <2>4, <3>2
    <2>6. n \div BlockSize <= BlocksFor(n)
      <3>1. PICK h \in Nat, i \in 0..(BlockSize - 1) : h = n \div BlockSize /\ n = h * BlockSize + i
        BY Split
      <3>2. ~ k + 1 < h
        <4>1. SUFFICES ASSUME k + 1 < h PROVE FALSE
          OBVIOUS
        <4>2. (k + 1) * BlockSize + BlockSize <= h * BlockSize
          BY <4>1, Earlier, <2>3
        <4>3. (k + 1) * BlockSize \in Nat /\ h * BlockSize \in Nat /\ k * BlockSize \in Nat
              /\ (k + 1) * BlockSize = k * BlockSize + BlockSize
          BY Times, <2>3
        <4> QED BY <4>2, <4>3, <3>1, <2>2, <1>0
      <3> QED BY <3>1, <3>2, <2>4
    <2>7. k + 1 <= n
      <3>1. k <= k * BlockSize
        BY <1>0, <2>2
      <3>2. k * BlockSize \in Nat
        BY Times
      <3> QED BY <3>1, <3>2, <2>2
    <2>8. (BlocksFor(n) - 1) * BlockSize + j + 1 = n
      <3>1. BlocksFor(n) - 1 = k
        BY <2>4
      <3> QED BY <3>1, <2>2
    <2> QED BY <1>1, <1>3, <2>2, <2>4, <2>5, <2>6, <2>7, <2>8
  <1> QED BY <1>2, <1>3

\* The positions of a block that n positions fill.
LEMMA BlockPositions ==
    ASSUME NEW n \in Nat, NEW i \in 1..(n \div BlockSize), NEW o \in 0..(BlockSize - 1)
    PROVE  LET p == (i - 1) * BlockSize + o
           IN p \in 0..(n - 1) /\ p \div BlockSize = i - 1 /\ p % BlockSize = o
  <1> DEFINE p == (i - 1) * BlockSize + o
  <1>0. BlockSize \in Nat \ {0} /\ i - 1 \in Nat /\ n \div BlockSize \in Nat
    BY Sizes, Split
  <1>1. (i - 1) * BlockSize \in Nat
    BY <1>0, Times
  <1>2. p \div BlockSize = i - 1 /\ p % BlockSize = o
    BY <1>0, DivMod
  <1>3. PICK h \in Nat, j \in 0..(BlockSize - 1) : h = n \div BlockSize /\ n = h * BlockSize + j
    BY Split
  <1>4. (i - 1) * BlockSize + BlockSize <= h * BlockSize /\ h * BlockSize \in Nat
    BY <1>0, <1>3, Earlier, Times
  <1>5. p \in 0..(n - 1)
    BY <1>0, <1>1, <1>3, <1>4
  <1> QED BY <1>2, <1>5

\* FilledPrompt counts the blocks of the prompt within n positions.
LEMMA FilledFacts ==
    ASSUME NEW n \in Nat
    PROVE  /\ FilledPrompt(n) \in Nat /\ FilledPrompt(n) <= PromptLen \div BlockSize
           /\ FilledPrompt(n) <= n \div BlockSize /\ FilledPrompt(n) <= BlocksFor(n)
           /\ \A q \in Nat : n <= q => FilledPrompt(n) <= FilledPrompt(q)
           /\ \A p \in Nat : n <= p => FilledPrompt(n) <= p \div BlockSize
  <1>0. PromptLen \in Nat
    BY Sizes
  <1>1. ASSUME NEW q \in Nat
        PROVE  \E m \in Nat : /\ FilledPrompt(q) = m \div BlockSize
                             /\ m <= q /\ m <= PromptLen /\ (m = q \/ m = PromptLen)
    <2>1. CASE q < PromptLen
      BY <2>1, <1>0 DEF FilledPrompt
    <2>2. CASE ~(q < PromptLen)
      BY <2>2, <1>0 DEF FilledPrompt
    <2> QED BY <2>1, <2>2
  <1>2. PICK m \in Nat : /\ FilledPrompt(n) = m \div BlockSize
                         /\ m <= n /\ m <= PromptLen /\ (m = n \/ m = PromptLen)
    BY <1>1
  <1>3. FilledPrompt(n) \in Nat /\ n \div BlockSize \in Nat /\ BlocksFor(n) \in Nat
        /\ n \div BlockSize <= BlocksFor(n)
    BY <1>2, Split, BlocksForFacts
  <1>4. FilledPrompt(n) <= n \div BlockSize /\ FilledPrompt(n) <= PromptLen \div BlockSize
    BY <1>0, <1>2, LaterBlock
  <1>5. ASSUME NEW q \in Nat, n <= q PROVE FilledPrompt(n) <= FilledPrompt(q)
    <2>1. PICK h \in Nat : /\ FilledPrompt(q) = h \div BlockSize
                           /\ h <= q /\ h <= PromptLen /\ (h = q \/ h = PromptLen)
      BY <1>1
    <2>2. m <= h
      BY <1>0, <1>2, <1>5, <2>1
    <2> QED BY <1>2, <2>1, <2>2, LaterBlock
  <1>6. ASSUME NEW p \in Nat, n <= p PROVE FilledPrompt(n) <= p \div BlockSize
    <2>1. m <= p
      BY <1>2, <1>6
    <2> QED BY <1>2, <2>1, LaterBlock
  <1>7. FilledPrompt(n) <= BlocksFor(n)
    BY <1>3, <1>4
  <1> QED BY <1>3, <1>4, <1>5, <1>6, <1>7

-----------------------------------------------------------------------------
(* Segments and sets in order.                                             *)

\* A set of numbers with an element has a least one.
LEMMA Least ==
    ASSUME NEW S \in SUBSET Nat, S # {}
    PROVE  \E x \in S : \A y \in S : x <= y
  <1>1. PICK x \in S : \A y \in S : ~(<<y, x>> \in OpToRel(<, Nat))
    BY NatLessThanWellFounded, WFMin
  <1>2. \A y \in S : ~(y < x)
    BY <1>1 DEF OpToRel
  <1>3. \A y \in S : x <= y
    BY <1>2
  <1> QED BY <1>3

\* A function on 1..n is a sequence of length n.
LEMMA FunctionIsSeq ==
    ASSUME NEW S, NEW n \in Nat, NEW f \in [1..n -> S]
    PROVE  f \in Seq(S) /\ Len(f) = n /\ DOMAIN f = 1..n
  OBVIOUS

\* A sequence is one over its own elements.
LEMMA SeqOverItself ==
    ASSUME NEW S, NEW s \in Seq(S)
    PROVE  s \in Seq(ToSet(s)) /\ ToSet(s) = {s[i] : i \in 1..Len(s)} /\ ToSet(s) \subseteq S
  <1>1. s \in [1..Len(s) -> S] /\ Len(s) \in Nat /\ DOMAIN s = 1..Len(s)
    BY LenProperties
  <1>2. ToSet(s) = {s[i] : i \in 1..Len(s)}
    BY <1>1 DEF ToSet
  <1>3. s \in [1..Len(s) -> ToSet(s)]
    BY <1>1, <1>2
  <1>4. s \in Seq(ToSet(s))
    BY <1>1, <1>3, FunctionIsSeq
  <1>5. ToSet(s) \subseteq S
    BY <1>1, <1>2
  <1> QED BY <1>2, <1>4, <1>5

\* The place of i in a set of indices.
Order(at, i) == Cardinality({j \in at : j <= i})

\* Ranks number a set of indices in its order.
LEMMA OrderFacts ==
    ASSUME NEW n \in Nat, NEW at \in SUBSET (1..n)
    PROVE  /\ IsFiniteSet(at) /\ Cardinality(at) \in Nat
           /\ \A i \in at : Order(at, i) \in 1..Cardinality(at)
           /\ \A i, j \in at : i < j => Order(at, i) < Order(at, j)
           /\ \A k \in 1..Cardinality(at) : \E i \in at : Order(at, i) = k
  <1>1. at \subseteq Nat
    OBVIOUS
  <1>2. IsFiniteSet(at) /\ Cardinality(at) \in Nat
    <2>1. IsFiniteSet(1..n)
      BY FS_Interval
    <2> QED BY <2>1, FS_Subset, FS_CardinalityType
  <1>3. \A i \in at : IsFiniteSet({j \in at : j <= i})
    BY <1>2, FS_Subset
  <1>4. \A i \in at : Order(at, i) \in Nat /\ Order(at, i) \in 1..Cardinality(at)
    <2> TAKE i \in at
    <2>1. Order(at, i) \in Nat /\ Order(at, i) <= Cardinality(at)
      BY <1>2, <1>3, FS_Subset, FS_CardinalityType DEF Order
    <2>2. i \in {j \in at : j <= i}
      BY <1>1
    <2>3. Order(at, i) # 0
      BY <1>3, <2>2, FS_EmptySet DEF Order
    <2> QED BY <1>2, <2>1, <2>3
  <1>5. \A i, k \in at : i < k => Order(at, i) < Order(at, k)
    <2> SUFFICES ASSUME NEW i \in at, NEW k \in at, i < k PROVE Order(at, i) < Order(at, k)
      OBVIOUS
    <2> DEFINE A == {j \in at : j <= i}
               B == {j \in at : j <= k}
    <2>1. i \in Nat /\ k \in Nat /\ k \in B /\ k \notin A
      BY <1>1
    <2>2. \A j \in A : j \in Nat /\ j \in B
      BY <1>1, <2>1
    <2>3. A \in SUBSET B
      BY <2>2
    <2>4. Cardinality(A) <= Cardinality(B) /\ Cardinality(A) # Cardinality(B)
      BY <2>1, <2>3, <1>3, FS_Subset
    <2>5. Order(at, i) \in Nat /\ Order(at, k) \in Nat
      BY <1>4
    <2> QED BY <2>4, <2>5 DEF Order
  <1>6. \A k \in 1..Cardinality(at) : \E i \in at : Order(at, i) = k
    <2> DEFINE f == [i \in at |-> Order(at, i)]
    <2>1. f \in [at -> 1..Cardinality(at)]
      BY <1>4
    <2>2. \A i, j \in at : f[i] = f[j] => i = j
      <3> SUFFICES ASSUME NEW i \in at, NEW j \in at, i # j PROVE Order(at, i) # Order(at, j)
        OBVIOUS
      <3>1. i < j \/ j < i
        BY <1>1
      <3>2. Order(at, i) \in Nat /\ Order(at, j) \in Nat
        BY <1>4
      <3> QED BY <3>1, <3>2, <1>5
    <2>3. f \in Injection(at, 1..Cardinality(at))
      BY <2>1, <2>2 DEF Injection, IsInjective
    <2>4. IsFiniteSet(1..Cardinality(at)) /\ Cardinality(1..Cardinality(at)) = Cardinality(at)
      BY <1>2, FS_Interval
    <2>5. f \in Surjection(at, 1..Cardinality(at))
      BY <2>3, <2>4, FS_Injection
    <2> QED BY <2>5 DEF Surjection
  <1> QED BY <1>2, <1>4, <1>5, <1>6

\* A cell is a segment and a place in it.
LEMMA CellFacts ==
    ASSUME NEW f, NEW i, NEW x
    PROVE  x \in Cells(f, i) <=> \E k \in 1..(i - 1) : \E j \in 1..f[k] : x = <<k, j>>
  BY DEF Cells

\* Each segment adds its places.
LEMMA CellCounts ==
    ASSUME NEW n \in Nat, NEW f \in [1..n -> Nat]
    PROVE  /\ \A i \in 1..(n + 1) : Cardinality(Cells(f, i)) \in Nat
           /\ \A i \in 1..n : Cardinality(Cells(f, i + 1)) = Cardinality(Cells(f, i)) + f[i]
           /\ \A i, k \in 1..(n + 1) : i <= k => Cardinality(Cells(f, i)) <= Cardinality(Cells(f, k))
  <1>1. \A i \in 1..(n + 1) : IsFiniteSet(Cells(f, i))
    <2> TAKE i \in 1..(n + 1)
    <2> DEFINE at == [k \in 1..(i - 1) |-> {k} \X (1..f[k])]
               S == {{k} \X (1..f[k]) : k \in 1..(i - 1)}
    <2>1. IsFiniteSet(S)
      <3>1. at \in Surjection(1..(i - 1), S)
        BY DEF Surjection
      <3>2. IsFiniteSet(1..(i - 1))
        BY FS_Interval
      <3> QED BY <3>1, <3>2, FS_Surjection
    <2>2. \A T \in S : IsFiniteSet(T)
      <3> SUFFICES ASSUME NEW k \in 1..(i - 1) PROVE IsFiniteSet({k} \X (1..f[k]))
        OBVIOUS
      <3>1. IsFiniteSet({k})
        BY FS_Singleton
      <3>2. f[k] \in Nat
        OBVIOUS
      <3>3. IsFiniteSet(1..f[k])
        BY <3>2, FS_Interval
      <3> QED BY <3>1, <3>3, FS_Product
    <2>3. IsFiniteSet(UNION S)
      BY <2>1, <2>2, FS_UNION
    <2> QED BY <2>3 DEF Cells
  <1>2. \A i \in 1..(n + 1) : Cardinality(Cells(f, i)) \in Nat
    BY <1>1, FS_CardinalityType
  <1>3. ASSUME NEW i \in 1..n
        PROVE  Cardinality(Cells(f, i + 1)) = Cardinality(Cells(f, i)) + f[i]
    <2> DEFINE seg == {i} \X (1..f[i])
    <2>1. f[i] \in Nat /\ i \in 1..(n + 1) /\ i + 1 \in 1..(n + 1)
      OBVIOUS
    <2>2. IsFiniteSet(seg) /\ Cardinality(seg) = f[i]
      <3>1. IsFiniteSet({i}) /\ Cardinality({i}) = 1
        BY FS_Singleton
      <3>2. IsFiniteSet(1..f[i]) /\ Cardinality(1..f[i]) = f[i]
        BY <2>1, FS_Interval
      <3>3. IsFiniteSet(seg) /\ Cardinality(seg) = Cardinality({i}) * Cardinality(1..f[i])
        BY <3>1, <3>2, FS_Product
      <3>4. 1 * f[i] = f[i]
        BY <2>1
      <3> HIDE DEF seg
      <3> QED BY <3>1, <3>2, <3>3, <3>4
    <2>3. Cells(f, i + 1) = Cells(f, i) \cup seg
      <3>1. \A k : k \in 1..(i + 1 - 1) <=> k \in 1..(i - 1) \/ k = i
        OBVIOUS
      <3>2. ASSUME NEW x PROVE x \in Cells(f, i + 1) <=> x \in Cells(f, i) \/ x \in seg
        <4>1. x \in seg <=> \E j \in 1..f[i] : x = <<i, j>>
          OBVIOUS
        <4>2. x \in Cells(f, i) <=> \E k \in 1..(i - 1) : \E j \in 1..f[k] : x = <<k, j>>
          BY CellFacts
        <4>3. x \in Cells(f, i + 1) <=> \E k \in 1..(i + 1 - 1) : \E j \in 1..f[k] : x = <<k, j>>
          BY CellFacts
        <4> HIDE DEF seg
        <4> QED BY <3>1, <4>1, <4>2, <4>3
      <3> HIDE DEF seg
      <3> QED BY <3>2
    <2>4. Cells(f, i) \cap seg = {}
      <3> SUFFICES ASSUME NEW x \in Cells(f, i), x \in seg PROVE FALSE
        OBVIOUS
      <3>1. PICK k \in 1..(i - 1) : \E j \in 1..f[k] : x = <<k, j>>
        BY CellFacts
      <3>2. x[1] = k /\ x[1] = i
        BY <3>1
      <3> QED BY <3>1, <3>2
    <2> HIDE DEF seg
    <2>5. Cardinality(Cells(f, i) \cup seg)
              = Cardinality(Cells(f, i)) + Cardinality(seg) - Cardinality(Cells(f, i) \cap seg)
      BY <1>1, <2>1, <2>2, FS_Union
    <2>6. Cardinality(Cells(f, i) \cap seg) = 0
      BY <2>4, FS_EmptySet
    <2>7. Cardinality(Cells(f, i)) \in Nat
      BY <1>2, <2>1
    <2>8. Cardinality(Cells(f, i + 1)) = Cardinality(Cells(f, i)) + f[i] - 0
      BY <2>2, <2>3, <2>5, <2>6
    <2> QED BY <2>1, <2>7, <2>8
  <1>4. ASSUME NEW i \in 1..(n + 1), NEW k \in 1..(n + 1), i <= k
        PROVE  Cardinality(Cells(f, i)) <= Cardinality(Cells(f, k))
    <2>1. \A x : x \in 1..(i - 1) => x \in 1..(k - 1)
      BY <1>4
    <2>2. Cells(f, i) \in SUBSET Cells(f, k)
      BY <2>1, CellFacts
    <2> QED BY <1>1, <2>2, FS_Subset
  <1> QED BY <1>2, <1>3, <1>4

\* The boundaries of segments.
LEMMA BoundsFacts ==
    ASSUME NEW n \in Nat, NEW f \in [1..n -> Nat]
    PROVE  /\ Bounds(f) \in [1..(n + 1) -> Nat] /\ Len(Bounds(f)) = n + 1
           /\ Bounds(f)[1] = 0 /\ Bounds(f)[n + 1] = Total(f) /\ Total(f) \in Nat
           /\ \A k \in 1..n : Bounds(f)[k + 1] = Bounds(f)[k] + f[k]
           /\ \A i, k \in 1..(n + 1) : i <= k => Bounds(f)[i] <= Bounds(f)[k]
  <1>1. f \in Seq(Nat) /\ Len(f) = n
    BY FunctionIsSeq
  <1>2. Bounds(f) = [k \in 1..(n + 1) |-> Cardinality(Cells(f, k))]
    BY <1>1 DEF Bounds
  <1>3. /\ \A i \in 1..(n + 1) : Cardinality(Cells(f, i)) \in Nat
        /\ \A i \in 1..n : Cardinality(Cells(f, i + 1)) = Cardinality(Cells(f, i)) + f[i]
        /\ \A i, k \in 1..(n + 1) : i <= k => Cardinality(Cells(f, i)) <= Cardinality(Cells(f, k))
    BY CellCounts
  <1>4. Cells(f, 1) = {}
    BY DEF Cells
  <1>5. Cardinality(Cells(f, 1)) = 0
    BY <1>4, FS_EmptySet
  <1>6. Bounds(f) \in [1..(n + 1) -> Nat] /\ n + 1 \in Nat
    BY <1>2, <1>3
  <1>7. Len(Bounds(f)) = n + 1
    BY <1>6, FunctionIsSeq
  <1>8. Total(f) = Bounds(f)[n + 1]
    BY <1>1 DEF Total
  <1>9. \A k \in 1..n : k \in 1..(n + 1) /\ k + 1 \in 1..(n + 1)
    OBVIOUS
  <1>10. \A k \in 1..n : Bounds(f)[k + 1] = Bounds(f)[k] + f[k]
    BY <1>2, <1>3, <1>9
  <1>11. \A i, k \in 1..(n + 1) : i <= k => Bounds(f)[i] <= Bounds(f)[k]
    BY <1>2, <1>3
  <1>12. 1 \in 1..(n + 1) /\ n + 1 \in 1..(n + 1)
    OBVIOUS
  <1>13. Bounds(f)[1] = 0
    BY <1>2, <1>5, <1>12
  <1> QED BY <1>6, <1>7, <1>8, <1>10, <1>11, <1>12, <1>13

\* The boundaries of the first segments do not depend on the others.
LEMMA SameBounds ==
    ASSUME NEW n \in Nat, NEW m \in Nat, n <= m, NEW f \in [1..n -> Nat], NEW g \in [1..m -> Nat],
           \A k \in 1..n : f[k] = g[k]
    PROVE  \A k \in 1..(n + 1) : Bounds(f)[k] = Bounds(g)[k]
  <1>1. Len(f) = n /\ Len(g) = m
    BY FunctionIsSeq
  <1> SUFFICES ASSUME NEW k \in 1..(n + 1) PROVE Bounds(f)[k] = Bounds(g)[k]
    OBVIOUS
  <1>2. ASSUME NEW x PROVE x \in Cells(f, k) <=> x \in Cells(g, k)
    <2>1. \A i \in 1..(k - 1) : f[i] = g[i]
      OBVIOUS
    <2>2. x \in Cells(f, k) <=> \E h \in 1..(k - 1) : \E j \in 1..f[h] : x = <<h, j>>
      BY CellFacts
    <2>3. x \in Cells(g, k) <=> \E h \in 1..(k - 1) : \E j \in 1..g[h] : x = <<h, j>>
      BY DEF Cells
    <2> QED BY <2>1, <2>2, <2>3
  <1>3. Cells(f, k) = Cells(g, k)
    BY <1>2
  <1>4. k \in 1..(m + 1)
    OBVIOUS
  <1> QED BY <1>1, <1>3, <1>4 DEF Bounds

\* A segment's places are found by the boundaries.
LEMMA SegmentIs ==
    ASSUME NEW n \in Nat, NEW f \in [1..n -> Nat], NEW k \in 1..n, NEW j \in 1..f[k]
    PROVE  /\ SegmentAt(Bounds(f), Bounds(f)[k] + j) = k
           /\ Bounds(f)[k] + j \in 1..Total(f)
  <1> DEFINE b == Bounds(f)
  <1>1. /\ b \in [1..(n + 1) -> Nat] /\ Len(b) = n + 1 /\ b[n + 1] = Total(f) /\ Total(f) \in Nat
        /\ \A l \in 1..n : b[l + 1] = b[l] + f[l]
        /\ \A l, h \in 1..(n + 1) : l <= h => b[l] <= b[h]
    BY BoundsFacts
  <1> HIDE DEF b
  <1>2. /\ k \in 1..(n + 1) /\ k + 1 \in 1..(n + 1) /\ n + 1 \in 1..(n + 1) /\ f[k] \in Nat
        /\ b[k] \in Nat /\ b[k + 1] \in Nat /\ j \in Nat /\ 1 <= j /\ j <= f[k]
    BY <1>1
  <1>21. b[k + 1] = b[k] + f[k]
    BY <1>1
  <1>0. PICK i \in Nat : i = b[k] + j
    BY <1>2
  <1>3. b[k] < i /\ i <= b[k + 1] /\ i \in Nat
    BY <1>0, <1>2, <1>21
  <1>4. b[k + 1] <= b[n + 1]
    BY <1>1, <1>2
  <1>5. i \in 1..Total(f)
    BY <1>1, <1>2, <1>3, <1>4
  <1>6. \A l \in 1..n : b[l] < i /\ i <= b[l + 1] => l = k
    <2> SUFFICES ASSUME NEW l \in 1..n, b[l] < i, i <= b[l + 1] PROVE l = k
      OBVIOUS
    <2>1. l \in 1..(n + 1) /\ l + 1 \in 1..(n + 1) /\ b[l] \in Nat /\ b[l + 1] \in Nat /\ l \in Nat
      BY <1>1
    <2>3. b[l] \in Int /\ b[l + 1] \in Int /\ b[k] \in Int /\ b[k + 1] \in Int
      BY <2>1, <1>2
    <2>2. ~ l < k
      <3>1. ASSUME l < k PROVE FALSE
        <4>1. b[l + 1] <= b[k]
          BY <3>1, <2>1, <1>1, <1>2
        <4>2. i <= b[l + 1] /\ b[k] < i
          BY <1>3
        <4> QED BY <4>1, <4>2, <2>3
      <3> QED BY <3>1
    <2>4. ~ k < l
      <3>1. ASSUME k < l PROVE FALSE
        <4>1. b[k + 1] <= b[l]
          BY <3>1, <2>1, <1>1, <1>2
        <4>2. b[l] < i /\ i <= b[k + 1]
          BY <1>3
        <4> QED BY <4>1, <4>2, <2>3
      <3> QED BY <3>1
    <2> QED BY <2>1, <2>2, <2>4
  <1>7. k \in 1..(Len(b) - 1) /\ 1..(Len(b) - 1) = 1..n
    BY <1>1
  <1>8. SegmentAt(b, i) = k
    BY <1>3, <1>6, <1>7 DEF SegmentAt
  <1> QED BY <1>0, <1>5, <1>8 DEF b

\* Every place is in a segment.
LEMMA SegmentOf ==
    ASSUME NEW n \in Nat, NEW f \in [1..n -> Nat], NEW i \in 1..Total(f)
    PROVE  \E k \in 1..n : \E j \in 1..f[k] : i = Bounds(f)[k] + j
  <1> DEFINE b == Bounds(f)
             S == {m \in 1..(n + 1) : i <= b[m]}
  <1>1. /\ b \in [1..(n + 1) -> Nat] /\ b[1] = 0 /\ b[n + 1] = Total(f) /\ Total(f) \in Nat
        /\ \A l \in 1..n : b[l + 1] = b[l] + f[l]
    BY BoundsFacts
  <1> HIDE DEF b
  <1>2. n + 1 \in S
    BY <1>1
  <1>3. S \in SUBSET Nat
    OBVIOUS
  <1>4. PICK m \in S : \A y \in S : m <= y
    BY <1>2, <1>3, Least
  <1>5. m \in 1..(n + 1) /\ i <= b[m]
    OBVIOUS
  <1>6. m # 1
    BY <1>1, <1>5
  <1>7. m - 1 \in 1..n /\ m - 1 \in 1..(n + 1) /\ (m - 1) + 1 = m
    BY <1>5, <1>6
  <1>8. ~(i <= b[m - 1])
    BY <1>4, <1>7
  <1>9. b[m] = b[m - 1] + f[m - 1] /\ b[m - 1] \in Nat /\ f[m - 1] \in Nat
    BY <1>1, <1>7
  <1>10. i - b[m - 1] \in 1..f[m - 1] /\ i = b[m - 1] + (i - b[m - 1])
    BY <1>5, <1>8, <1>9
  <1> QED BY <1>7, <1>10 DEF b

\* Only one segment and place give a number.
LEMMA SegmentPlace ==
    ASSUME NEW n \in Nat, NEW f \in [1..n -> Nat],
           NEW k \in 1..n, NEW j \in 1..f[k], NEW l \in 1..n, NEW h \in 1..f[l],
           Bounds(f)[k] + j = Bounds(f)[l] + h
    PROVE  k = l /\ j = h
  <1>1. k = l
    BY SegmentIs
  <1>2. Bounds(f)[k] \in Nat
    BY BoundsFacts
  <1> QED BY <1>1, <1>2

\* Where the elements of sequences go that are laid end to end.
Laid(n, ss, f) == Len(ss) = n /\ \A k \in 1..n : Len(ss[k]) = f[k]

LEMMA FlatFacts ==
    ASSUME NEW n \in Nat, NEW ss, NEW f \in [1..n -> Nat], Laid(n, ss, f)
    PROVE  /\ Len(Flat(ss)) = Total(f) /\ DOMAIN Flat(ss) = 1..Total(f)
           /\ \A k \in 1..n : \A j \in 1..f[k] : Flat(ss)[Bounds(f)[k] + j] = ss[k][j]
  <1> DEFINE b == Bounds(f)
             g == [k \in 1..Len(ss) |-> Len(ss[k])]
             at(i) == SegmentAt(b, i)
             s == [i \in 1..Total(f) |-> ss[at(i)][i - b[at(i)]]]
  <1>1. g = f
    BY DEF Laid
  <1>2. b \in [1..(n + 1) -> Nat] /\ b[n + 1] = Total(f) /\ Total(f) \in Nat
    BY BoundsFacts
  <1>3. Bounds([k \in 1..Len(ss) |-> Len(ss[k])]) = b
    BY <1>1
  <1>4. Flat(ss) = s
    <2>1. Len(ss) = n
      BY DEF Laid
    <2> QED BY <1>2, <1>3, <2>1 DEF Flat
  <1>5. ASSUME NEW k \in 1..n, NEW j \in 1..f[k]
        PROVE  s[b[k] + j] = ss[k][j]
    <2>1. at(b[k] + j) = k /\ b[k] + j \in 1..Total(f)
      BY SegmentIs
    <2>2. b[k] \in Nat /\ f[k] \in Nat
      BY <1>2
    <2>3. (b[k] + j) - b[k] = j
      BY <2>2
    <2> HIDE DEF b
    <2>4. s[b[k] + j] = ss[at(b[k] + j)][(b[k] + j) - b[at(b[k] + j)]]
      BY <2>1
    <2> QED BY <2>1, <2>3, <2>4
  <1>6. DOMAIN s = 1..Total(f) /\ s = [i \in 1..Total(f) |-> s[i]]
    OBVIOUS
  <1> HIDE DEF s
  <1>7. Len(s) = Total(f)
    <2>1. s \in [1..Total(f) -> {s[i] : i \in 1..Total(f)}]
      BY <1>6
    <2> QED BY <2>1, <1>2, FunctionIsSeq
  <1> QED BY <1>4, <1>5, <1>6, <1>7

\* Segments of one place.
LEMMA Singles ==
    ASSUME NEW n \in Nat, NEW f \in [1..n -> Nat], \A k \in 1..n : f[k] = 1
    PROVE  Total(f) = n /\ \A k \in 1..(n + 1) : Bounds(f)[k] = k - 1
  <1> DEFINE b == Bounds(f)
             S == {k \in 1..(n + 1) : b[k] # k - 1}
  <1>1. /\ b[1] = 0 /\ b[n + 1] = Total(f) /\ \A k \in 1..n : b[k + 1] = b[k] + f[k]
    BY BoundsFacts
  <1> HIDE DEF b
  <1>2. S = {}
    <2>1. SUFFICES ASSUME S # {} PROVE FALSE
      OBVIOUS
    <2>2. S \in SUBSET Nat
      OBVIOUS
    <2>3. PICK m \in S : \A y \in S : m <= y
      BY <2>1, <2>2, Least
    <2>4. m \in 1..(n + 1) /\ b[m] # m - 1
      OBVIOUS
    <2>5. m # 1
      BY <1>1, <2>4
    <2>6. m - 1 \in 1..n /\ m - 1 \in 1..(n + 1) /\ (m - 1) + 1 = m
      BY <2>4, <2>5
    <2>7. ~(m <= m - 1)
      BY <2>4
    <2>8. b[m - 1] = m - 1 - 1
      BY <2>3, <2>6, <2>7
    <2>9. b[m] = b[m - 1] + 1
      BY <1>1, <2>6
    <2> QED BY <2>4, <2>8, <2>9
  <1>3. \A k \in 1..(n + 1) : b[k] = k - 1
    BY <1>2
  <1>4. n + 1 \in 1..(n + 1) /\ (n + 1) - 1 = n
    OBVIOUS
  <1> QED BY <1>1, <1>3, <1>4 DEF b

\* Segments that are no shorter than others.
LEMMA LongerSegments ==
    ASSUME NEW n \in Nat, NEW f \in [1..n -> Nat], NEW g \in [1..n -> Nat],
           \A k \in 1..n : f[k] <= g[k]
    PROVE  Total(f) <= Total(g)
  <1> DEFINE b == Bounds(f)
             c == Bounds(g)
             S == {k \in 1..(n + 1) : ~(b[k] <= c[k])}
  <1>1. /\ b[1] = 0 /\ b[n + 1] = Total(f) /\ \A k \in 1..n : b[k + 1] = b[k] + f[k]
        /\ b \in [1..(n + 1) -> Nat]
    BY BoundsFacts
  <1>2. /\ c[1] = 0 /\ c[n + 1] = Total(g) /\ \A k \in 1..n : c[k + 1] = c[k] + g[k]
        /\ c \in [1..(n + 1) -> Nat]
    BY BoundsFacts
  <1> HIDE DEF b, c
  <1>3. S = {}
    <2>1. SUFFICES ASSUME S # {} PROVE FALSE
      OBVIOUS
    <2>2. S \in SUBSET Nat
      OBVIOUS
    <2>3. PICK m \in S : \A y \in S : m <= y
      BY <2>1, <2>2, Least
    <2>4. m \in 1..(n + 1) /\ ~(b[m] <= c[m])
      OBVIOUS
    <2>5. m # 1
      BY <1>1, <1>2, <2>4
    <2>6. m - 1 \in 1..n /\ m - 1 \in 1..(n + 1) /\ (m - 1) + 1 = m
      BY <2>4, <2>5
    <2>7. ~(m <= m - 1)
      BY <2>4
    <2>8. b[m - 1] <= c[m - 1]
      BY <2>3, <2>6, <2>7
    <2>9. b[m] = b[m - 1] + f[m - 1] /\ c[m] = c[m - 1] + g[m - 1] /\ f[m - 1] <= g[m - 1]
          /\ b[m - 1] \in Nat /\ c[m - 1] \in Nat /\ f[m - 1] \in Nat /\ g[m - 1] \in Nat
      BY <1>1, <1>2, <2>6
    <2> QED BY <2>4, <2>8, <2>9
  <1>4. n + 1 \in 1..(n + 1)
    OBVIOUS
  <1> QED BY <1>1, <1>2, <1>3, <1>4

\* The numbers of a finite set, in order.
LEMMA InOrderFacts ==
    ASSUME NEW n \in Nat, NEW S \in SUBSET (1..n)
    PROVE  /\ IsFiniteSet(S) /\ Cardinality(S) \in Nat
           /\ InOrder(S) \in Seq(S) /\ Len(InOrder(S)) = Cardinality(S)
           /\ \A i, j \in 1..Cardinality(S) : InOrder(S)[i] = InOrder(S)[j] => i = j
           /\ \A x \in S : \E i \in 1..Cardinality(S) : InOrder(S)[i] = x
  <1> DEFINE t == InOrder(S)
             pick(k) == CHOOSE x \in S : Order(S, x) = k
  <1>1. /\ IsFiniteSet(S) /\ Cardinality(S) \in Nat
        /\ \A i \in S : Order(S, i) \in 1..Cardinality(S)
        /\ \A i, j \in S : i < j => Order(S, i) < Order(S, j)
        /\ \A k \in 1..Cardinality(S) : \E i \in S : Order(S, i) = k
    BY OrderFacts
  <1>2. t = [k \in 1..Cardinality(S) |-> pick(k)]
    BY DEF InOrder, Order
  <1> HIDE DEF t
  <1>3. \A k \in 1..Cardinality(S) : pick(k) \in S /\ Order(S, pick(k)) = k
    BY <1>1
  <1> HIDE DEF pick
  <1>4. t \in [1..Cardinality(S) -> S]
    BY <1>2, <1>3
  <1>5. t \in Seq(S) /\ Len(t) = Cardinality(S)
    BY <1>1, <1>4, FunctionIsSeq
  <1>6. \A k \in 1..Cardinality(S) : Order(S, t[k]) = k
    BY <1>2, <1>3
  <1>7. \A i, j \in 1..Cardinality(S) : t[i] = t[j] => i = j
    BY <1>6
  <1>8. ASSUME NEW x \in S PROVE \E i \in 1..Cardinality(S) : t[i] = x
    <2> DEFINE k == Order(S, x)
    <2>1. k \in 1..Cardinality(S)
      BY <1>1
    <2>2. Order(S, t[k]) = Order(S, x) /\ t[k] \in S
      BY <2>1, <1>4, <1>6
    <2> HIDE DEF k
    <2>7. \A y \in S : y \in Nat
      OBVIOUS
    <2>3. t[k] \in Nat /\ x \in Nat
      BY <2>2, <2>7
    <2>4. Order(S, x) \in Nat
      BY <1>1
    <2> DEFINE y == t[k]
    <2>8. y \in S /\ Order(S, y) = Order(S, x)
      BY <2>2
    <2> HIDE DEF y
    <2>9. ~(y < x) /\ ~(x < y)
      BY <1>1, <2>8, <2>4
    <2>5. ~(t[k] < x) /\ ~(x < t[k])
      BY <2>9 DEF y
    <2>6. t[k] = x
      BY <2>3, <2>5
    <2> QED BY <2>1, <2>6
  <1> QED BY <1>1, <1>5, <1>7, <1>8 DEF t

-----------------------------------------------------------------------------
(* The pool.                                                               *)

LEMMA PoolFacts ==
    /\ Pool \subseteq 1..NumBlocks /\ 0 \notin Pool
    /\ \A k \in 1..Len(slots) : Pooled(slots, cached) => slots[k] \in Slot
  BY ElementOfSeq DEF Pool, Block, Pooled

\* A sequence of slots and one of them.
LEMMA SlotFacts ==
    ASSUME NEW ss \in Seq(Slot), NEW k \in 1..Len(ss)
    PROVE  /\ ss[k] \in Slot /\ ss[k].req \in RequestId /\ ss[k].n \in Nat
           /\ ss[k].published \in Nat /\ ss[k].blocks \in Seq(Pool) /\ Len(ss[k].blocks) \in Nat
           /\ \A i \in 1..Len(ss[k].blocks) : ss[k].blocks[i] \in Pool /\ ss[k].blocks[i] # 0
  <1>1. ss[k] \in Slot
    BY ElementOfSeq
  <1>2. /\ ss[k].req \in RequestId /\ ss[k].n \in Nat
        /\ ss[k].published \in Nat /\ ss[k].blocks \in Seq(Pool)
    BY <1>1 DEF Slot
  <1>3. Len(ss[k].blocks) \in Nat /\ \A i \in 1..Len(ss[k].blocks) : ss[k].blocks[i] \in Pool
    BY <1>2, ElementOfSeq, LenProperties
  <1> QED BY <1>1, <1>2, <1>3, PoolFacts

LEMMA KeyFacts ==
    ASSUME NEW r \in RequestId, NEW i \in 1..(PromptLen \div BlockSize)
    PROVE  /\ Key(r, i) \in PromptKeys /\ Key(r, i)[2] = i /\ i \in Nat \ {0}
           /\ \A q \in RequestId : \A j \in 1..(PromptLen \div BlockSize) :
                 Key(r, i) = Key(q, j) => i = j /\ (i > PrefixBlocks => r = q)
  <1>1. Key(r, i) \in PromptKeys
    BY DEF PromptKeys
  <1>2. \A q, j : Key(q, j)[2] = j /\ (~(j <= PrefixBlocks) => Key(q, j)[1] = q)
    BY DEF Key
  <1>3. PrefixBlocks \in Nat /\ PromptLen \div BlockSize \in Nat
    BY Sizes, Split
  <1>4. i \in Nat \ {0} /\ (i > PrefixBlocks <=> ~(i <= PrefixBlocks))
    BY <1>3
  <1>5. ASSUME NEW q \in RequestId, NEW j \in 1..(PromptLen \div BlockSize), Key(r, i) = Key(q, j)
        PROVE  i = j /\ (i > PrefixBlocks => r = q)
    BY <1>2, <1>4, <1>5
  <1> QED BY <1>1, <1>2, <1>4, <1>5

\* A key names the text of its block.
LEMMA KeyText ==
    ASSUME NEW r, NEW i \in Nat \ {0}, NEW o \in 0..(BlockSize - 1)
    PROVE  <<Key(r, i)[1], (Key(r, i)[2] - 1) * BlockSize + o>> = Text(r, (i - 1) * BlockSize + o)
  <1>0. BlockSize \in Nat \ {0} /\ PrefixBlocks \in Nat /\ i - 1 \in Nat
    BY Sizes
  <1>1. (i - 1) * BlockSize \in Nat /\ PrefixBlocks * BlockSize \in Nat
    BY <1>0, Times
  <1>2. CASE i <= PrefixBlocks
    <2>1. (i - 1) * BlockSize + BlockSize <= PrefixBlocks * BlockSize
      BY <1>0, <1>2, Earlier
    <2>2. (i - 1) * BlockSize + o < PrefixBlocks * BlockSize
      BY <1>0, <1>1, <2>1
    <2>3. Key(r, i) = <<Prefix, i>>
      BY <1>2 DEF Key
    <2> QED BY <2>2, <2>3 DEF Text
  <1>3. CASE ~(i <= PrefixBlocks)
    <2>1. PrefixBlocks * BlockSize <= (i - 1) * BlockSize
      <3>1. PrefixBlocks < i - 1 \/ PrefixBlocks = i - 1
        BY <1>0, <1>3
      <3>2. PrefixBlocks < i - 1 => PrefixBlocks * BlockSize + BlockSize <= (i - 1) * BlockSize
        BY <1>0, Earlier
      <3> QED BY <3>1, <3>2, <1>0, <1>1
    <2>2. ~((i - 1) * BlockSize + o < PrefixBlocks * BlockSize)
      BY <1>0, <1>1, <2>1
    <2>3. Key(r, i) = <<r, i>>
      BY <1>3 DEF Key
    <2> QED BY <2>2, <2>3 DEF Text
  <1> QED BY <1>2, <1>3

\* What the pool hands out: blocks of no slot, none twice.
LEMMA SupplyFacts ==
    ASSUME Pooled(slots, cached)
    PROVE  /\ Supply \in Seq(Pool) /\ Available \in Nat /\ Len(Supply) = Available
           /\ \A i \in 1..Available : Supply[i] \in Pool /\ Supply[i] # 0
           /\ \A i, j \in 1..Available : Supply[i] = Supply[j] => i = j
           /\ ToSet(Supply) = {Supply[i] : i \in 1..Available}
           /\ \A k \in 1..Len(slots) : \A j \in 1..Len(slots[k].blocks) :
                 slots[k].blocks[j] \notin ToSet(Supply)
  <1> DEFINE S == Pool \ (Used \cup Cached)
             T == Cached \ Used
             A == InOrder(S)
             B == InOrder(T)
  <1>1. NumBlocks \in Nat /\ Pool \subseteq 1..NumBlocks /\ 0 \notin Pool
    BY Sizes, PoolFacts
  <1>2. cached \in [PromptKeys -> Pool \cup {0}] /\ slots \in Seq(Slot)
    BY DEF Pooled
  <1>3. Cached \subseteq Pool
    BY <1>2 DEF Cached
  <1>4. S \in SUBSET (1..NumBlocks) /\ T \in SUBSET (1..NumBlocks) /\ S \subseteq Pool /\ T \subseteq Pool
    BY <1>1, <1>3
  <1>5. /\ A \in Seq(S) /\ Len(A) \in Nat
        /\ \A i, j \in 1..Len(A) : A[i] = A[j] => i = j
    <2>1. /\ Cardinality(S) \in Nat /\ A \in Seq(S) /\ Len(A) = Cardinality(S)
          /\ \A i, j \in 1..Cardinality(S) : A[i] = A[j] => i = j
      BY <1>1, <1>4, InOrderFacts
    <2> HIDE DEF A, S
    <2> QED BY <2>1
  <1>6. /\ B \in Seq(T) /\ Len(B) \in Nat
        /\ \A i, j \in 1..Len(B) : B[i] = B[j] => i = j
    <2>1. /\ Cardinality(T) \in Nat /\ B \in Seq(T) /\ Len(B) = Cardinality(T)
          /\ \A i, j \in 1..Cardinality(T) : B[i] = B[j] => i = j
      BY <1>1, <1>4, InOrderFacts
    <2> HIDE DEF B, T
    <2> QED BY <2>1
  <1>7. Supply = A \o B
    BY DEF Supply
  <1>8. \A i \in 1..Len(A) : A[i] \in S
    BY <1>5, ElementOfSeq
  <1>9. \A i \in 1..Len(B) : B[i] \in T
    BY <1>6, ElementOfSeq
  <1>10. ASSUME NEW x \in S \cup T PROVE x \in Pool /\ x \notin Used
    BY <1>4
  <1>11. \A x \in S : x \notin T
    BY DEF Cached
  <1> HIDE DEF S, T
  <1>12. A \in Seq(Pool) /\ B \in Seq(Pool)
    <2>1. A \in [1..Len(A) -> Pool]
      BY <1>5, <1>8, <1>10, LenProperties
    <2>2. B \in [1..Len(B) -> Pool]
      BY <1>6, <1>9, <1>10, LenProperties
    <2> QED BY <1>5, <1>6, <2>1, <2>2, FunctionIsSeq
  <1> HIDE DEF A, B
  <1>13. /\ Supply \in Seq(Pool) /\ Len(Supply) = Len(A) + Len(B)
         /\ \A i \in 1..(Len(A) + Len(B)) : Supply[i] = IF i <= Len(A) THEN A[i] ELSE B[i - Len(A)]
    BY <1>7, <1>12, ConcatProperties
  <1>14. Available = Len(A) + Len(B) /\ Available \in Nat
    BY <1>5, <1>6, <1>13 DEF Available
  <1>15. ASSUME NEW i \in 1..Available
         PROVE  \/ i \in 1..Len(A) /\ Supply[i] = A[i] /\ Supply[i] \in S
                \/ i - Len(A) \in 1..Len(B) /\ ~(i <= Len(A)) /\ Supply[i] = B[i - Len(A)] /\ Supply[i] \in T
    <2>1. CASE i <= Len(A)
      BY <1>5, <1>8, <1>13, <1>14, <2>1
    <2>2. CASE ~(i <= Len(A))
      BY <1>5, <1>6, <1>9, <1>13, <1>14, <2>2
    <2> QED BY <2>1, <2>2
  <1>16. ASSUME NEW i \in 1..Available, NEW j \in 1..Available, Supply[i] = Supply[j] PROVE i = j
    <2>1. CASE i \in 1..Len(A) /\ Supply[i] = A[i] /\ Supply[i] \in S
      <3>1. j \in 1..Len(A) /\ Supply[j] = A[j]
        BY <1>11, <1>15, <1>16, <2>1
      <3> QED BY <1>5, <1>16, <2>1, <3>1
    <2>2. CASE i - Len(A) \in 1..Len(B) /\ ~(i <= Len(A)) /\ Supply[i] = B[i - Len(A)] /\ Supply[i] \in T
      <3>1. j - Len(A) \in 1..Len(B) /\ Supply[j] = B[j - Len(A)]
        BY <1>11, <1>15, <1>16, <2>2
      <3>2. i - Len(A) = j - Len(A)
        BY <1>6, <1>16, <2>2, <3>1
      <3> QED BY <1>5, <1>14, <3>2
    <2> QED BY <1>15, <2>1, <2>2
  <1>17. \A i \in 1..Available : Supply[i] \in Pool /\ Supply[i] # 0 /\ Supply[i] \notin Used
    BY <1>1, <1>10, <1>15
  <1>18. ToSet(Supply) = {Supply[i] : i \in 1..Available} /\ Len(Supply) = Available
    BY <1>13, SeqOverItself DEF Available
  <1>19. ASSUME NEW k \in 1..Len(slots), NEW j \in 1..Len(slots[k].blocks)
         PROVE  slots[k].blocks[j] \in Used
    <2>1. slots[k].blocks \in Seq(Pool)
      BY <1>2, SlotFacts
    <2>2. slots[k].blocks[j] \in ToSet(slots[k].blocks)
      BY <2>1, SeqOverItself
    <2> QED BY <2>2 DEF Used
  <1>20. \A k \in 1..Len(slots) : \A j \in 1..Len(slots[k].blocks) :
            slots[k].blocks[j] \notin ToSet(Supply)
    BY <1>17, <1>18, <1>19
  <1> QED BY <1>13, <1>14, <1>16, <1>17, <1>18, <1>20

\* The slots ss, when slot k keeps its first keep[k] blocks and gets Supply[lo[k] + 1],
\* ..., Supply[hi[k]].
Grows(ss, given, keep, lo, hi) ==
    /\ ss \in Seq(Slot) /\ Len(ss) = Len(slots) /\ given \subseteq ToSet(Supply)
    /\ {keep, lo, hi} \subseteq [1..Len(slots) -> Nat]
    /\ \A k \in 1..Len(slots) :
          /\ ss[k].req = slots[k].req /\ ss[k].published = slots[k].published
          /\ slots[k].published <= keep[k] /\ keep[k] <= Len(slots[k].blocks)
          /\ slots[k].published <= FilledPrompt(ss[k].n)
          /\ BlocksFor(ss[k].n) <= Len(ss[k].blocks)
          /\ lo[k] <= hi[k] /\ hi[k] <= Available
          /\ Len(ss[k].blocks) = keep[k] + (hi[k] - lo[k])
          /\ \A i \in 1..keep[k] : ss[k].blocks[i] = slots[k].blocks[i]
          /\ \A i \in (keep[k] + 1)..Len(ss[k].blocks) :
                ss[k].blocks[i] = Supply[lo[k] + i - keep[k]] /\ ss[k].blocks[i] \in given
    /\ \A k, l \in 1..Len(slots) : k # l => hi[k] <= lo[l] \/ hi[l] <= lo[k]

\* A block of such a slot is an old one of it or a new one.
LEMMA GrownBlock ==
    ASSUME Pooled(slots, cached), NEW ss, NEW given, NEW keep, NEW lo, NEW hi,
           Grows(ss, given, keep, lo, hi),
           NEW k \in 1..Len(slots), NEW i \in 1..Len(ss[k].blocks)
    PROVE  \/ /\ i \in 1..keep[k] /\ i \in 1..Len(slots[k].blocks)
              /\ ss[k].blocks[i] = slots[k].blocks[i] /\ ss[k].blocks[i] \notin ToSet(Supply)
           \/ /\ ss[k].blocks[i] \in given /\ ss[k].blocks[i] \in ToSet(Supply)
              /\ lo[k] + i - keep[k] \in 1..Available
              /\ lo[k] < lo[k] + i - keep[k] /\ lo[k] + i - keep[k] <= hi[k]
              /\ ss[k].blocks[i] = Supply[lo[k] + i - keep[k]]
  <1>1. /\ ss \in Seq(Slot) /\ Len(ss) = Len(slots) /\ given \subseteq ToSet(Supply)
        /\ keep[k] \in Nat /\ lo[k] \in Nat /\ hi[k] \in Nat
        /\ keep[k] <= Len(slots[k].blocks)
        /\ lo[k] <= hi[k] /\ hi[k] <= Available
        /\ Len(ss[k].blocks) = keep[k] + (hi[k] - lo[k])
        /\ \A x \in 1..keep[k] : ss[k].blocks[x] = slots[k].blocks[x]
        /\ \A x \in (keep[k] + 1)..Len(ss[k].blocks) :
              ss[k].blocks[x] = Supply[lo[k] + x - keep[k]] /\ ss[k].blocks[x] \in given
    BY DEF Grows
  <1>2. /\ Available \in Nat
        /\ \A x \in 1..Len(slots[k].blocks) : slots[k].blocks[x] \notin ToSet(Supply)
    BY SupplyFacts
  <1>3. slots \in Seq(Slot) /\ Len(slots[k].blocks) \in Nat /\ Len(ss[k].blocks) \in Nat
    BY <1>1, SlotFacts DEF Pooled
  <1>4. CASE i <= keep[k]
    <2>1. i \in 1..keep[k] /\ i \in 1..Len(slots[k].blocks)
      BY <1>1, <1>3, <1>4
    <2> QED BY <1>1, <1>2, <2>1
  <1>5. CASE ~(i <= keep[k])
    <2>1. i \in (keep[k] + 1)..Len(ss[k].blocks)
      BY <1>1, <1>3, <1>5
    <2>2. /\ lo[k] + i - keep[k] \in 1..Available
          /\ lo[k] < lo[k] + i - keep[k] /\ lo[k] + i - keep[k] <= hi[k]
      <3>1. PICK a \in Nat, h \in Nat, c \in Nat, m \in Nat :
               /\ a = lo[k] /\ h = hi[k] /\ c = keep[k] /\ m = Available
               /\ a <= h /\ h <= m /\ Len(ss[k].blocks) = c + (h - a)
        BY <1>1, <1>2
      <3>2. i \in (c + 1)..(c + (h - a))
        BY <2>1, <3>1
      <3>4. i \in Int /\ c + 1 <= i /\ i <= c + (h - a) /\ a <= h /\ h <= m
        BY <3>1, <3>2
      <3>3. a + i - c \in 1..m /\ a < a + i - c /\ a + i - c <= h
        BY <3>4
      <3> QED BY <3>1, <3>3
    <2>3. ss[k].blocks[i] = Supply[lo[k] + i - keep[k]] /\ ss[k].blocks[i] \in given
      BY <1>1, <2>1
    <2> QED BY <1>1, <1>5, <2>2, <2>3
  <1> QED BY <1>4, <1>5

\* What the pool hands out to slots is theirs alone.
LEMMA GrownPooled ==
    ASSUME Pooled(slots, cached), NEW ss, NEW given, NEW keep, NEW lo, NEW hi,
           Grows(ss, given, keep, lo, hi)
    PROVE  Pooled(ss, Evict(given))
  <1> DEFINE cc == Evict(given)
  <1>1. /\ ss \in Seq(Slot) /\ Len(ss) = Len(slots) /\ given \subseteq ToSet(Supply)
        /\ {keep, lo, hi} \subseteq [1..Len(slots) -> Nat]
        /\ \A k \in 1..Len(slots) :
              /\ ss[k].req = slots[k].req /\ ss[k].published = slots[k].published
              /\ slots[k].published <= keep[k] /\ keep[k] <= Len(slots[k].blocks)
              /\ slots[k].published <= FilledPrompt(ss[k].n)
              /\ BlocksFor(ss[k].n) <= Len(ss[k].blocks)
              /\ lo[k] <= hi[k] /\ hi[k] <= Available
              /\ Len(ss[k].blocks) = keep[k] + (hi[k] - lo[k])
        /\ \A k, l \in 1..Len(slots) : k # l => hi[k] <= lo[l] \/ hi[l] <= lo[k]
    BY DEF Grows
  <1>2. /\ slots \in Seq(Slot) /\ cached \in [PromptKeys -> Pool \cup {0}]
        /\ OneSlotEach(slots) /\ PublishedIsCached(slots, cached)
        /\ OthersUncached(slots, cached) /\ OthersOwned(slots) /\ OneKeyEach(cached)
    BY DEF Pooled
  <1>3. /\ Available \in Nat
        /\ \A i, j \in 1..Available : Supply[i] = Supply[j] => i = j
        /\ \A k \in 1..Len(slots) : \A x \in 1..Len(slots[k].blocks) :
              slots[k].blocks[x] \notin ToSet(Supply)
    BY SupplyFacts
  <1>4. \A key \in PromptKeys : cc[key] = IF cached[key] \in given THEN 0 ELSE cached[key]
    BY DEF Evict
  <1>5. cc \in [PromptKeys -> Pool \cup {0}]
    BY <1>2 DEF Evict
  <1> HIDE DEF cc
  <1>6. Lengths(ss)
    BY <1>1 DEF Lengths
  <1>7. OneSlotEach(ss)
    BY <1>1, <1>2 DEF OneSlotEach
  <1>8. PublishedIsCached(ss, cc)
    <2> SUFFICES ASSUME NEW k \in 1..Len(ss), NEW i \in 1..ss[k].published
                 PROVE  cc[Key(ss[k].req, i)] = ss[k].blocks[i]
      BY DEF PublishedIsCached
    <2>1. k \in 1..Len(slots) /\ ss[k].req = slots[k].req /\ ss[k].published = slots[k].published
      BY <1>1
    <2>2. /\ slots[k].req \in RequestId /\ slots[k].published \in Nat /\ Len(slots[k].blocks) \in Nat
          /\ keep[k] \in Nat /\ ss[k].n \in Nat
      BY <1>1, <1>2, <2>1, SlotFacts
    <2>3. /\ slots[k].published <= keep[k] /\ keep[k] <= Len(slots[k].blocks)
          /\ slots[k].published <= FilledPrompt(ss[k].n)
      BY <1>1, <2>1
    <2>4. FilledPrompt(ss[k].n) <= PromptLen \div BlockSize /\ FilledPrompt(ss[k].n) \in Nat
          /\ PromptLen \div BlockSize \in Nat
      BY <2>2, FilledFacts, Sizes, Split
    <2>5. i \in 1..slots[k].published /\ i \in 1..(PromptLen \div BlockSize) /\ i \in 1..keep[k]
          /\ i \in 1..Len(slots[k].blocks)
      BY <2>1, <2>2, <2>3, <2>4
    <2>6. Key(slots[k].req, i) \in PromptKeys
      BY <2>2, <2>5, KeyFacts
    <2>7. cached[Key(slots[k].req, i)] = slots[k].blocks[i]
      BY <1>2, <2>1, <2>5 DEF PublishedIsCached
    <2>8. slots[k].blocks[i] \notin given
      BY <1>1, <1>3, <2>1, <2>5
    <2>9. ss[k].blocks[i] = slots[k].blocks[i]
      BY <2>1, <2>5 DEF Grows
    <2> QED BY <1>4, <2>1, <2>6, <2>7, <2>8, <2>9
  <1>9. OthersUncached(ss, cc)
    <2> SUFFICES ASSUME NEW k \in 1..Len(ss), NEW i \in (ss[k].published + 1)..Len(ss[k].blocks),
                        NEW key \in PromptKeys, cc[key] = ss[k].blocks[i]
                 PROVE  FALSE
      BY DEF OthersUncached
    <2>1. k \in 1..Len(slots) /\ ss[k].published = slots[k].published
      BY <1>1
    <2>2. ss[k].published \in Nat /\ Len(ss[k].blocks) \in Nat /\ Len(slots[k].blocks) \in Nat
      BY <1>1, <1>2, <2>1, SlotFacts
    <2>3. i \in 1..Len(ss[k].blocks)
      BY <2>2
    <2>4. ss[k].blocks[i] # 0
      BY <1>1, <2>3, SlotFacts
    <2>5. cached[key] \notin given /\ cached[key] = ss[k].blocks[i]
      BY <1>4, <2>4
    <2>6. i \in 1..Len(slots[k].blocks) /\ ss[k].blocks[i] = slots[k].blocks[i]
      BY <2>1, <2>3, <2>5, GrownBlock
    <2>7. i \in (slots[k].published + 1)..Len(slots[k].blocks)
      BY <2>1, <2>2, <2>6
    <2> QED BY <1>2, <2>1, <2>5, <2>6, <2>7 DEF OthersUncached
  <1>12. \A k \in 1..Len(slots) : \A i \in 1..Len(ss[k].blocks) : ss[k].blocks[i] \in ToSet(Supply) =>
             /\ ss[k].blocks[i] = Supply[lo[k] + i - keep[k]]
             /\ lo[k] + i - keep[k] \in 1..Available
             /\ lo[k] < lo[k] + i - keep[k] /\ lo[k] + i - keep[k] <= hi[k]
    BY GrownBlock
  <1>10. OthersOwned(ss)
    <2> SUFFICES ASSUME NEW k \in 1..Len(ss), NEW l \in 1..Len(ss),
                        NEW i \in (ss[k].published + 1)..Len(ss[k].blocks),
                        NEW j \in 1..Len(ss[l].blocks), ss[l].blocks[j] = ss[k].blocks[i]
                 PROVE  l = k /\ j = i
      BY DEF OthersOwned
    <2>1. k \in 1..Len(slots) /\ l \in 1..Len(slots) /\ ss[k].published = slots[k].published
      BY <1>1
    <2>2. ss[k].published \in Nat /\ Len(ss[k].blocks) \in Nat /\ Len(slots[k].blocks) \in Nat
      BY <1>1, <1>2, <2>1, SlotFacts
    <2>3. i \in 1..Len(ss[k].blocks)
      BY <2>2
    <2>4. CASE ss[k].blocks[i] \in ToSet(Supply)
      <3>0. ss[l].blocks[j] \in ToSet(Supply)
        BY <2>4
      <3>1. /\ ss[k].blocks[i] = Supply[lo[k] + i - keep[k]]
            /\ lo[k] + i - keep[k] \in 1..Available
            /\ lo[k] < lo[k] + i - keep[k] /\ lo[k] + i - keep[k] <= hi[k]
        BY <2>1, <2>3, <2>4, <1>12
      <3>2. /\ ss[l].blocks[j] = Supply[lo[l] + j - keep[l]]
            /\ lo[l] + j - keep[l] \in 1..Available
            /\ lo[l] < lo[l] + j - keep[l] /\ lo[l] + j - keep[l] <= hi[l]
        BY <2>1, <3>0, <1>12
      <3>3. lo[k] + i - keep[k] = lo[l] + j - keep[l]
        BY <1>3, <3>1, <3>2
      <3>4. /\ keep[k] \in Nat /\ lo[k] \in Nat /\ hi[k] \in Nat
            /\ keep[l] \in Nat /\ lo[l] \in Nat /\ hi[l] \in Nat
        BY <1>1, <2>1
      <3>5. k = l
        <4>1. SUFFICES ASSUME k # l PROVE FALSE
          OBVIOUS
        <4>2. hi[k] <= lo[l] \/ hi[l] <= lo[k]
          BY <1>1, <2>1, <4>1
        <4> QED BY <3>1, <3>2, <3>3, <3>4, <4>2
      <3>6. i = j
        BY <3>3, <3>4, <3>5
      <3> QED BY <3>5, <3>6
    <2>5. CASE ss[k].blocks[i] \notin ToSet(Supply)
      <3>0. ss[l].blocks[j] \notin ToSet(Supply)
        BY <2>5
      <3>1. i \in 1..Len(slots[k].blocks) /\ ss[k].blocks[i] = slots[k].blocks[i]
        BY <2>1, <2>3, <2>5, GrownBlock
      <3>2. j \in 1..Len(slots[l].blocks) /\ ss[l].blocks[j] = slots[l].blocks[j]
        BY <2>1, <3>0, GrownBlock
      <3>3. i \in (slots[k].published + 1)..Len(slots[k].blocks)
        BY <2>1, <2>2, <3>1
      <3> QED BY <1>2, <2>1, <3>1, <3>2, <3>3 DEF OthersOwned
    <2> QED BY <2>4, <2>5
  <1>11. OneKeyEach(cc)
    BY <1>2, <1>4 DEF OneKeyEach
  <1> QED BY <1>1, <1>5, <1>6, <1>7, <1>8, <1>9, <1>10, <1>11 DEF Pooled, cc

LEMMA Piece ==
    ASSUME NEW S, NEW s \in Seq(S), NEW a \in Nat, NEW b \in Nat, a <= b, b <= Len(s)
    PROVE  /\ SubSeq(s, a + 1, b) \in Seq(S) /\ Len(SubSeq(s, a + 1, b)) = b - a
           /\ \A i \in 1..(b - a) : SubSeq(s, a + 1, b)[i] = s[a + i]
           /\ ToSet(SubSeq(s, a + 1, b)) = {s[i] : i \in (a + 1)..b}
  <1> DEFINE t == SubSeq(s, a + 1, b)
  <1>0. Len(s) \in Nat /\ \A i \in 1..Len(s) : s[i] \in S
    BY LenProperties, ElementOfSeq
  <1>1. /\ t \in Seq(S) /\ Len(t) = b - a
        /\ \A i \in 1..(b - a) : t[i] = s[a + i]
    <2>1. \A i \in (a + 1)..b : s[i] \in S
      BY <1>0
    <2>2. /\ t \in Seq(S) /\ Len(t) = IF a + 1 <= b THEN b - (a + 1) + 1 ELSE 0
          /\ \A i \in 1..(b - (a + 1) + 1) : t[i] = s[a + 1 + i - 1]
      BY <1>0, <2>1, SubSeqProperties
    <2>3. Len(t) = b - a
      BY <2>2
    <2>4. ASSUME NEW i \in 1..(b - a) PROVE t[i] = s[a + i]
      <3>1. i \in 1..(b - (a + 1) + 1) /\ a + 1 + i - 1 = a + i
        OBVIOUS
      <3> HIDE DEF t
      <3> QED BY <2>2, <3>1
    <2> QED BY <2>2, <2>3, <2>4
  <1> HIDE DEF t
  <1>2. ToSet(t) = {t[i] : i \in 1..(b - a)}
    BY <1>1, SeqOverItself
  <1>3. ASSUME NEW i \in 1..(b - a) PROVE t[i] \in {s[x] : x \in (a + 1)..b}
    <2>1. t[i] = s[a + i] /\ a + i \in (a + 1)..b
      BY <1>1
    <2> QED BY <2>1
  <1>4. ASSUME NEW x \in (a + 1)..b PROVE s[x] \in {t[i] : i \in 1..(b - a)}
    <2>1. x - a \in 1..(b - a) /\ a + (x - a) = x
      OBVIOUS
    <2>2. t[x - a] = s[x]
      BY <1>1, <2>1
    <2> QED BY <2>1, <2>2
  <1>5. ToSet(t) = {s[i] : i \in (a + 1)..b}
    BY <1>2, <1>3, <1>4
  <1> QED BY <1>1, <1>5 DEF t

LEMMA Start ==
    ASSUME NEW S, NEW s \in Seq(S), NEW b \in Nat, b <= Len(s)
    PROVE  /\ SubSeq(s, 1, b) \in Seq(S) /\ Len(SubSeq(s, 1, b)) = b
           /\ \A i \in 1..b : SubSeq(s, 1, b)[i] = s[i]
           /\ ToSet(SubSeq(s, 1, b)) = {s[i] : i \in 1..b}
  <1>1. PICK a \in Nat : a = 0
    OBVIOUS
  <1>2. /\ SubSeq(s, a + 1, b) \in Seq(S) /\ Len(SubSeq(s, a + 1, b)) = b - a
        /\ \A i \in 1..(b - a) : SubSeq(s, a + 1, b)[i] = s[a + i]
        /\ ToSet(SubSeq(s, a + 1, b)) = {s[i] : i \in (a + 1)..b}
    <2>1. a <= b
      BY <1>1
    <2> QED BY <2>1, Piece
  <1>3. a + 1 = 1 /\ b - a = b /\ \A i \in 1..b : a + i = i
    BY <1>1
  <1> QED BY <1>2, <1>3

\* What the slots ask for.
LEMMA LackingFacts ==
    ASSUME Pooled(slots, cached), NEW count \in [1..Len(slots) -> Nat]
    PROVE  /\ Lacking(count) \in [1..Len(slots) -> Nat]
           /\ \A k \in 1..Len(slots) :
                 BlocksFor(slots[k].n + count[k]) <= Len(slots[k].blocks) + Lacking(count)[k]
  <1>1. slots \in Seq(Slot)
    BY DEF Pooled
  <1>2. ASSUME NEW k \in 1..Len(slots)
        PROVE  LET more == BlocksFor(slots[k].n + count[k]) - Len(slots[k].blocks)
                   lacks == IF more > 0 THEN more ELSE 0
               IN lacks \in Nat /\ BlocksFor(slots[k].n + count[k]) <= Len(slots[k].blocks) + lacks
    <2>1. slots[k].n \in Nat /\ count[k] \in Nat /\ Len(slots[k].blocks) \in Nat
      BY <1>1, SlotFacts
    <2>2. slots[k].n + count[k] \in Nat
      BY <2>1
    <2>3. BlocksFor(slots[k].n + count[k]) \in Nat
      BY <2>2, BlocksForFacts
    <2> QED BY <2>1, <2>3
  <1> QED BY <1>2 DEF Lacking

LEMMA ReservedGrows ==
    ASSUME Pooled(slots, cached), NEW count \in [1..Len(slots) -> Nat], ~OutOfMemory(count)
    PROVE  /\ \E given, lo, hi :
                 /\ Grows(Reserved(count).slots, given, [k \in 1..Len(slots) |-> Len(slots[k].blocks)], lo, hi)
                 /\ Reserved(count).cached = Evict(given)
           /\ \A k \in 1..Len(slots) : Reserved(count).slots[k].n = slots[k].n + count[k]
  <1> DEFINE N == Len(slots)
             lacking == Lacking(count)
             from == Bounds(lacking)
             ss == Reserved(count).slots
             given == ToSet(SubSeq(Supply, 1, Total(lacking)))
             keep == [k \in 1..N |-> Len(slots[k].blocks)]
             lo == [k \in 1..N |-> from[k]]
             hi == [k \in 1..N |-> from[k + 1]]
             piece(k) == SubSeq(Supply, from[k] + 1, from[k + 1])
             grown(k) == [slots[k] EXCEPT !.n = @ + count[k], !.blocks = @ \o piece(k)]
  <1>1. slots \in Seq(Slot) /\ N \in Nat
    BY LenProperties DEF Pooled
  <1>2. /\ Supply \in Seq(Pool) /\ Available \in Nat /\ Len(Supply) = Available
        /\ ToSet(Supply) = {Supply[i] : i \in 1..Available}
    BY SupplyFacts
  <1>3. /\ lacking \in [1..N -> Nat]
        /\ \A k \in 1..N : BlocksFor(slots[k].n + count[k]) <= Len(slots[k].blocks) + lacking[k]
    BY LackingFacts
  <1> HIDE DEF lacking
  <1>4. /\ from \in [1..(N + 1) -> Nat] /\ from[N + 1] = Total(lacking) /\ Total(lacking) \in Nat
        /\ \A k \in 1..N : from[k + 1] = from[k] + lacking[k]
        /\ \A i, k \in 1..(N + 1) : i <= k => from[i] <= from[k]
    BY <1>1, <1>3, BoundsFacts
  <1>5. Total(lacking) <= Available
    BY <1>2, <1>4 DEF OutOfMemory, lacking
  <1>6. ss = [k \in 1..N |-> grown(k)] /\ Reserved(count).cached = Evict(given)
    BY DEF Reserved, lacking
  <1> HIDE DEF from
  <1>7. ASSUME NEW k \in 1..N
        PROVE  from[k] \in Nat /\ from[k + 1] \in Nat /\ from[k] <= from[k + 1] /\ from[k + 1] <= Available
    <2>1. k \in 1..(N + 1) /\ k + 1 \in 1..(N + 1) /\ N + 1 \in 1..(N + 1) /\ k <= k + 1 /\ k + 1 <= N + 1
      BY <1>1
    <2>2. from[k] \in Nat /\ from[k + 1] \in Nat /\ from[k] <= from[k + 1] /\ from[k + 1] <= from[N + 1]
      BY <1>4, <2>1
    <2> QED BY <1>2, <1>4, <1>5, <2>2
  <1>8. given = {Supply[i] : i \in 1..Total(lacking)} /\ given \subseteq ToSet(Supply)
    <2>2. given = {Supply[i] : i \in 1..Total(lacking)}
      BY <1>2, <1>4, <1>5, Start
    <2>3. \A i \in 1..Total(lacking) : i \in 1..Available
      BY <1>2, <1>4, <1>5
    <2> QED BY <1>2, <2>2, <2>3
  <1> HIDE DEF given
  <1>9. ASSUME NEW k \in 1..N
        PROVE  /\ piece(k) \in Seq(Pool) /\ Len(piece(k)) = from[k + 1] - from[k]
               /\ \A i \in 1..(from[k + 1] - from[k]) : piece(k)[i] = Supply[from[k] + i]
    <2>1. PICK a \in Nat, b \in Nat : a = from[k] /\ b = from[k + 1]
      BY <1>7
    <2>2. a <= b /\ b <= Len(Supply)
      BY <1>2, <1>7, <2>1
    <2>3. /\ SubSeq(Supply, a + 1, b) \in Seq(Pool) /\ Len(SubSeq(Supply, a + 1, b)) = b - a
          /\ \A i \in 1..(b - a) : SubSeq(Supply, a + 1, b)[i] = Supply[a + i]
      BY <1>2, <2>2, Piece
    <2>4. piece(k) = SubSeq(Supply, a + 1, b)
      BY <2>1
    <2> QED BY <2>1, <2>3, <2>4
  <1>10. ASSUME NEW k \in 1..N
         PROVE  /\ slots[k] \in Slot /\ slots[k].n \in Nat /\ slots[k].n + count[k] \in Nat
                /\ slots[k].blocks \in Seq(Pool) /\ Len(slots[k].blocks) \in Nat
                /\ slots[k].published \in Nat
    <2>1. /\ slots[k] \in Slot /\ slots[k].n \in Nat /\ slots[k].blocks \in Seq(Pool)
          /\ Len(slots[k].blocks) \in Nat /\ slots[k].published \in Nat
      BY <1>1, SlotFacts
    <2>2. count[k] \in Nat
      OBVIOUS
    <2> QED BY <2>1, <2>2
  <1> HIDE DEF piece
  <1>11. ASSUME NEW k \in 1..N
         PROVE  LET bl == slots[k].blocks \o piece(k)
                IN /\ bl \in Seq(Pool) /\ Len(bl) = Len(slots[k].blocks) + (from[k + 1] - from[k])
                   /\ \A i \in 1..Len(slots[k].blocks) : bl[i] = slots[k].blocks[i]
                   /\ \A i \in (Len(slots[k].blocks) + 1)..Len(bl) :
                         bl[i] = Supply[from[k] + i - Len(slots[k].blocks)] /\ bl[i] \in given
    <2> DEFINE m == Len(slots[k].blocks)
               d == from[k + 1] - from[k]
               bl == slots[k].blocks \o piece(k)
    <2>0. d \in Nat
      BY <1>7
    <2>1. m \in Nat /\ d \in Nat /\ slots[k].blocks \in Seq(Pool) /\ piece(k) \in Seq(Pool) /\ Len(piece(k)) = d
      BY <1>9, <1>10, <2>0
    <2> HIDE DEF d
    <2>2. /\ bl \in Seq(Pool) /\ Len(bl) = m + d
          /\ \A i \in 1..(m + d) : bl[i] = IF i <= m THEN slots[k].blocks[i] ELSE piece(k)[i - m]
      BY <2>1, ConcatProperties
    <2> HIDE DEF bl
    <2>3. \A i \in 1..m : bl[i] = slots[k].blocks[i]
      BY <2>1, <2>2
    <2>4. ASSUME NEW i \in (m + 1)..(m + d) PROVE bl[i] = Supply[from[k] + i - m] /\ bl[i] \in given
      <3> HIDE DEF m
      <3>1. i \in 1..(m + d) /\ ~(i <= m) /\ i - m \in 1..d
        BY <2>1
      <3>2. bl[i] = Supply[from[k] + (i - m)]
        BY <1>9, <2>2, <3>1 DEF d
      <3>3. from[k] \in Nat /\ from[k] + (i - m) = from[k] + i - m
        BY <1>7, <2>1, <3>1
      <3>4. from[k] + (i - m) \in 1..Total(lacking)
        <4>1. from[k] + d = from[k + 1] /\ from[k + 1] <= Total(lacking) /\ from[k] \in Nat
          <5>1. k + 1 \in 1..(N + 1) /\ N + 1 \in 1..(N + 1) /\ k + 1 <= N + 1
            BY <1>1
          <5>2. from[k + 1] <= Total(lacking)
            BY <1>4, <5>1
          <5> QED BY <1>7, <5>2 DEF d
        <4> QED BY <1>4, <2>1, <3>1, <4>1
      <3> QED BY <1>8, <3>2, <3>3, <3>4
    <2> QED BY <2>2, <2>3, <2>4 DEF bl, d
  <1>12. ASSUME NEW k \in 1..N
         PROVE  /\ ss[k] \in Slot /\ ss[k].req = slots[k].req /\ ss[k].published = slots[k].published
                /\ ss[k].n = slots[k].n + count[k] /\ ss[k].blocks = slots[k].blocks \o piece(k)
    <2>1. slots[k].blocks \o piece(k) \in Seq(Pool)
      BY <1>11
    <2>2. ss[k] = [slots[k] EXCEPT !.n = slots[k].n + count[k], !.blocks = slots[k].blocks \o piece(k)]
      BY <1>6
    <2>3. PICK bl \in Seq(Pool), m \in Nat : bl = slots[k].blocks \o piece(k) /\ m = slots[k].n + count[k]
      BY <1>10, <2>1
    <2>4. ss[k] = [slots[k] EXCEPT !.n = m, !.blocks = bl]
      BY <2>2, <2>3
    <2>5. slots[k] \in Slot
      BY <1>10
    <2> HIDE DEF ss
    <2>6. PICK s \in Slot : s = slots[k]
      BY <2>5
    <2>9. PICK t : t = ss[k]
      OBVIOUS
    <2>7. t = [s EXCEPT !.n = m, !.blocks = bl]
      BY <2>4, <2>6, <2>9
    <2>8. t \in Slot /\ t.req = s.req /\ t.published = s.published /\ t.n = m /\ t.blocks = bl
      BY <2>7 DEF Slot
    <2> QED BY <2>3, <2>6, <2>8, <2>9
  <1>13. ss \in Seq(Slot) /\ Len(ss) = N
    <2>1. ss \in [1..N -> Slot]
      BY <1>6, <1>12
    <2> QED BY <1>1, <2>1, FunctionIsSeq
  <1> HIDE DEF ss
  <1>14. {keep, lo, hi} \subseteq [1..N -> Nat]
    BY <1>7, <1>10
  <1>15. ASSUME NEW k \in 1..N
         PROVE  /\ slots[k].published <= keep[k] /\ keep[k] <= Len(slots[k].blocks)
                /\ slots[k].published <= FilledPrompt(ss[k].n)
                /\ BlocksFor(ss[k].n) <= Len(ss[k].blocks)
                /\ lo[k] <= hi[k] /\ hi[k] <= Available
                /\ Len(ss[k].blocks) = keep[k] + (hi[k] - lo[k])
    <2>1. slots[k].published <= FilledPrompt(slots[k].n) /\ BlocksFor(slots[k].n) <= Len(slots[k].blocks)
      BY DEF Pooled, Lengths
    <2>2. slots[k].n \in Nat /\ slots[k].n + count[k] \in Nat /\ slots[k].n <= slots[k].n + count[k]
      BY <1>10
    <2>3. /\ FilledPrompt(slots[k].n) \in Nat /\ FilledPrompt(slots[k].n) <= BlocksFor(slots[k].n)
          /\ FilledPrompt(slots[k].n) <= FilledPrompt(slots[k].n + count[k])
          /\ BlocksFor(slots[k].n) \in Nat /\ FilledPrompt(slots[k].n + count[k]) \in Nat
      BY <2>2, FilledFacts, BlocksForFacts
    <2>4. slots[k].published <= Len(slots[k].blocks)
      BY <1>10, <2>1, <2>3
    <2>5. slots[k].published <= FilledPrompt(slots[k].n + count[k])
      BY <1>10, <2>1, <2>3
    <2>6. Len(ss[k].blocks) = Len(slots[k].blocks) + (from[k + 1] - from[k])
      BY <1>11, <1>12
    <2>7. from[k + 1] = from[k] + lacking[k] /\ lacking[k] \in Nat
      BY <1>3, <1>4
    <2>8. Len(ss[k].blocks) = Len(slots[k].blocks) + lacking[k]
      BY <1>7, <1>10, <2>6, <2>7
    <2>9. BlocksFor(ss[k].n) <= Len(ss[k].blocks)
      BY <1>3, <1>12, <2>8
    <2> QED BY <1>7, <1>10, <1>12, <2>4, <2>5, <2>6, <2>9
  <1>16. ASSUME NEW k \in 1..N, NEW l \in 1..N, k # l PROVE hi[k] <= lo[l] \/ hi[l] <= lo[k]
    <2>1. k + 1 <= l \/ l + 1 <= k
      BY <1>1, <1>16
    <2>2. k \in 1..(N + 1) /\ l \in 1..(N + 1) /\ k + 1 \in 1..(N + 1) /\ l + 1 \in 1..(N + 1)
      BY <1>1
    <2>3. from[k + 1] <= from[l] \/ from[l + 1] <= from[k]
      BY <1>4, <2>1, <2>2
    <2> QED BY <2>3
  <1>17. ASSUME NEW k \in 1..N
         PROVE  /\ \A i \in 1..keep[k] : ss[k].blocks[i] = slots[k].blocks[i]
                /\ \A i \in (keep[k] + 1)..Len(ss[k].blocks) :
                      ss[k].blocks[i] = Supply[lo[k] + i - keep[k]] /\ ss[k].blocks[i] \in given
    <2>1. keep[k] = Len(slots[k].blocks) /\ lo[k] = from[k]
      OBVIOUS
    <2> HIDE DEF keep, lo
    <2> QED BY <1>11, <1>12, <2>1
  <1> HIDE DEF keep, lo, hi
  <1>18. Grows(ss, given, keep, lo, hi)
    BY <1>8, <1>12, <1>13, <1>14, <1>15, <1>16, <1>17 DEF Grows
  <1> QED BY <1>6, <1>12, <1>18 DEF ss, keep

LEMMA RolledBackGrows ==
    ASSUME Pooled(slots, cached), NEW count \in [1..Len(slots) -> Nat], OutOfMemory(count)
    PROVE  /\ \E given, keep, lo, hi :
                 /\ Grows(RolledBack(count).slots, given, keep, lo, hi)
                 /\ RolledBack(count).cached = Evict(given)
                 /\ \A k \in 1..Len(slots) : BlocksFor(slots[k].n) <= keep[k]
           /\ \A k \in 1..Len(slots) : RolledBack(count).slots[k].n = slots[k].n
  <1> DEFINE N == Len(slots)
             lacking == Lacking(count)
             from == Bounds(lacking)
             ss == RolledBack(count).slots
             given == ToSet(Supply)
             j == SegmentAt(from, Available + 1)
             need(k) == BlocksFor(slots[k].n)
             blocks(k) == IF k < j THEN SubSeq(slots[k].blocks, 1, need(k))
                          ELSE IF k = j THEN slots[k].blocks \o SubSeq(Supply, from[k] + 1, Available)
                          ELSE slots[k].blocks
             keep == [k \in 1..N |-> IF k < j THEN need(k) ELSE Len(slots[k].blocks)]
             lo == [k \in 1..N |-> IF k = j THEN from[k] ELSE 0]
             hi == [k \in 1..N |-> IF k = j THEN Available ELSE 0]
  <1>1. slots \in Seq(Slot) /\ N \in Nat
    BY LenProperties DEF Pooled
  <1>2. /\ Supply \in Seq(Pool) /\ Available \in Nat /\ Len(Supply) = Available
        /\ ToSet(Supply) = {Supply[i] : i \in 1..Available}
    BY SupplyFacts
  <1>3. lacking \in [1..N -> Nat]
    BY LackingFacts
  <1>4. ~(Total(lacking) <= Available) /\ Total(lacking) \in Nat
    <2>1. Total(lacking) \in Nat
      BY <1>1, <1>3, BoundsFacts
    <2>2. Total(lacking) > Available
      BY DEF OutOfMemory
    <2> HIDE DEF lacking
    <2> QED BY <1>2, <2>1, <2>2
  <1>5. ss = [k \in 1..N |-> [slots[k] EXCEPT !.blocks = blocks(k)]] /\ RolledBack(count).cached = Evict(given)
    BY DEF RolledBack
  <1> HIDE DEF lacking
  <1>6. j \in 1..N /\ from[j] \in Nat /\ from[j] <= Available
    <2>1. Available + 1 \in 1..Total(lacking)
      BY <1>2, <1>4
    <2>6. PICK k \in 1..N : \E h \in 1..lacking[k] : Available + 1 = from[k] + h
      BY <1>1, <1>3, <2>1, SegmentOf
    <2>2. PICK h \in 1..lacking[k] : Available + 1 = from[k] + h
      BY <2>6
    <2>3. SegmentAt(from, from[k] + h) = k
      BY <1>1, <1>3, SegmentIs
    <2>4. j = k
      BY <2>2, <2>3
    <2>5. from[k] \in Nat /\ lacking[k] \in Nat
      <3>1. from \in [1..(N + 1) -> Nat]
        BY <1>1, <1>3, BoundsFacts
      <3>2. k \in 1..(N + 1)
        BY <1>1
      <3> HIDE DEF from
      <3> QED BY <1>3, <3>1, <3>2
    <2> HIDE DEF from, j
    <2>7. from[k] <= Available
      BY <1>2, <2>2, <2>5
    <2> QED BY <2>4, <2>5, <2>7
  <1> HIDE DEF from, j
  <1>7. ASSUME NEW k \in 1..N
        PROVE  /\ slots[k] \in Slot /\ slots[k].n \in Nat /\ slots[k].blocks \in Seq(Pool)
               /\ Len(slots[k].blocks) \in Nat /\ slots[k].published \in Nat
               /\ need(k) \in Nat /\ need(k) <= Len(slots[k].blocks)
               /\ slots[k].published <= FilledPrompt(slots[k].n)
               /\ slots[k].published <= need(k)
    <2>1. /\ slots[k] \in Slot /\ slots[k].n \in Nat /\ slots[k].blocks \in Seq(Pool)
          /\ Len(slots[k].blocks) \in Nat /\ slots[k].published \in Nat
      BY <1>1, SlotFacts
    <2>2. slots[k].published <= FilledPrompt(slots[k].n) /\ need(k) <= Len(slots[k].blocks)
      BY DEF Pooled, Lengths
    <2>3. FilledPrompt(slots[k].n) \in Nat /\ FilledPrompt(slots[k].n) <= need(k) /\ need(k) \in Nat
      BY <2>1, FilledFacts, BlocksForFacts
    <2> QED BY <2>1, <2>2, <2>3
  <1> HIDE DEF need
  <1>8. /\ keep \in [1..N -> Nat] /\ lo \in [1..N -> Nat] /\ hi \in [1..N -> Nat]
        /\ \A k \in 1..N : /\ keep[k] <= Len(slots[k].blocks) /\ need(k) <= keep[k]
                           /\ lo[k] <= hi[k] /\ hi[k] <= Available
    BY <1>2, <1>6, <1>7
  <1>9. ASSUME NEW k \in 1..N
        PROVE  /\ blocks(k) \in Seq(Pool)
               /\ Len(blocks(k)) = keep[k] + (hi[k] - lo[k])
               /\ \A i \in 1..keep[k] : blocks(k)[i] = slots[k].blocks[i]
               /\ \A i \in (keep[k] + 1)..Len(blocks(k)) :
                     blocks(k)[i] = Supply[lo[k] + i - keep[k]] /\ blocks(k)[i] \in given
    <2>1. CASE k < j
      <3>0. k # j
        BY <1>6, <2>1
      <3>1. blocks(k) = SubSeq(slots[k].blocks, 1, need(k)) /\ keep[k] = need(k) /\ lo[k] = 0 /\ hi[k] = 0
        BY <2>1, <3>0
      <3>5. PICK m \in Nat : m = need(k)
        BY <1>7
      <3>2. PICK t : t = blocks(k)
        OBVIOUS
      <3>6. m <= Len(slots[k].blocks) /\ slots[k].blocks \in Seq(Pool)
        BY <1>7, <3>5
      <3>7. /\ SubSeq(slots[k].blocks, 1, m) \in Seq(Pool) /\ Len(SubSeq(slots[k].blocks, 1, m)) = m
            /\ \A i \in 1..m : SubSeq(slots[k].blocks, 1, m)[i] = slots[k].blocks[i]
        BY <3>6, Start
      <3> HIDE DEF blocks, keep, lo, hi
      <3>8. t = SubSeq(slots[k].blocks, 1, m)
        BY <3>1, <3>2, <3>5
      <3>3. t \in Seq(Pool) /\ Len(t) = m /\ \A i \in 1..m : t[i] = slots[k].blocks[i]
        BY <3>7, <3>8
      <3>4. m = m + (0 - 0) /\ (m + 1)..m = {}
        OBVIOUS
      <3> QED BY <3>1, <3>2, <3>3, <3>4, <3>5
    <2>2. CASE k = j
      <3>0. PICK a \in Nat, m \in Nat, d \in Nat :
               a = from[j] /\ m = Len(slots[j].blocks) /\ d = Available - a /\ a <= Available
        BY <1>2, <1>6, <1>7
      <3>1. PICK t, u : t = SubSeq(Supply, a + 1, Available) /\ u = slots[j].blocks \o t
        OBVIOUS
      <3>8. ~(j < j) /\ ~(k < j)
        BY <1>6, <2>2
      <3>2. blocks(k) = u /\ keep[k] = m /\ lo[k] = a /\ hi[k] = Available
        BY <2>2, <3>0, <3>1, <3>8
      <3> HIDE DEF blocks, keep, lo, hi
      <3>3. t \in Seq(Pool) /\ Len(t) = d /\ \A i \in 1..d : t[i] = Supply[a + i]
        <4>1. a <= Available /\ Available <= Len(Supply)
          BY <1>2, <3>0
        <4>2. /\ SubSeq(Supply, a + 1, Available) \in Seq(Pool)
              /\ Len(SubSeq(Supply, a + 1, Available)) = Available - a
              /\ \A i \in 1..(Available - a) : SubSeq(Supply, a + 1, Available)[i] = Supply[a + i]
          BY <1>2, <4>1, Piece
        <4> QED BY <3>0, <3>1, <4>2
      <3>4. /\ u \in Seq(Pool) /\ Len(u) = m + d
            /\ \A i \in 1..(m + d) : u[i] = IF i <= m THEN slots[j].blocks[i] ELSE t[i - m]
        <4>1. slots[j].blocks \in Seq(Pool) /\ Len(slots[j].blocks) = m
          BY <1>6, <1>7, <3>0
        <4>2. PICK v \in Seq(Pool) : v = slots[j].blocks
          BY <4>1
        <4>3. /\ v \o t \in Seq(Pool) /\ Len(v \o t) = Len(v) + Len(t)
              /\ \A i \in 1..(Len(v) + Len(t)) : (v \o t)[i] = IF i <= Len(v) THEN v[i] ELSE t[i - Len(v)]
          BY <3>3, ConcatProperties
        <4>4. u = v \o t /\ Len(v) = m /\ Len(t) = d
          BY <3>1, <3>3, <4>1, <4>2
        <4> QED BY <4>2, <4>3, <4>4
      <3>5. \A i \in 1..m : u[i] = slots[j].blocks[i]
        BY <3>4
      <3>6. ASSUME NEW i \in (m + 1)..(m + d) PROVE u[i] = Supply[a + i - m] /\ u[i] \in given
        <4>1. i \in 1..(m + d) /\ ~(i <= m) /\ i - m \in 1..d /\ a + (i - m) = a + i - m
          OBVIOUS
        <4>2. u[i] = Supply[a + (i - m)]
          BY <3>3, <3>4, <4>1
        <4>3. a + (i - m) \in 1..Available
          <5>1. d = Available - a
            BY <3>0
          <5> QED BY <1>2, <4>1, <5>1
        <4> QED BY <1>2, <4>1, <4>2, <4>3
      <3>7. m + d = m + (Available - a)
        BY <3>0
      <3> HIDE DEF given
      <3> QED BY <2>2, <3>2, <3>4, <3>5, <3>6, <3>7
    <2>3. CASE ~(k < j) /\ k # j
      <3>0. PICK m \in Nat : m = Len(slots[k].blocks)
        BY <1>7
      <3>1. PICK t : m = Len(slots[k].blocks) /\ t = slots[k].blocks
        BY <3>0
      <3>2. blocks(k) = t /\ keep[k] = m /\ lo[k] = 0 /\ hi[k] = 0
        BY <1>6, <2>3, <3>1
      <3>3. m = m + (0 - 0) /\ (m + 1)..m = {} /\ t \in Seq(Pool) /\ Len(t) = m
        BY <1>7, <3>1
      <3> HIDE DEF blocks, keep, lo, hi
      <3> QED BY <3>1, <3>2, <3>3
    <2> QED BY <2>1, <2>2, <2>3
  <1>10. ASSUME NEW k \in 1..N, NEW l \in 1..N, k # l PROVE hi[k] <= lo[l] \/ hi[l] <= lo[k]
    <2>1. k # j \/ l # j
      BY <1>10
    <2>2. hi[k] = 0 \/ hi[l] = 0
      BY <2>1
    <2>3. lo[k] \in Nat /\ lo[l] \in Nat
      BY <1>8
    <2> QED BY <2>2, <2>3
  <1> HIDE DEF blocks, keep, lo, hi
  <1>11. ASSUME NEW k \in 1..N
         PROVE  /\ ss[k] \in Slot /\ ss[k].req = slots[k].req /\ ss[k].published = slots[k].published
                /\ ss[k].n = slots[k].n /\ ss[k].blocks = blocks(k)
    <2>1. PICK bl \in Seq(Pool), s \in Slot : bl = blocks(k) /\ s = slots[k]
      BY <1>7, <1>9
    <2>4. PICK t : t = ss[k]
      OBVIOUS
    <2>2. t = [s EXCEPT !.blocks = bl]
      BY <1>5, <2>1, <2>4
    <2>3. t \in Slot /\ t.req = s.req /\ t.published = s.published /\ t.n = s.n /\ t.blocks = bl
      BY <2>2 DEF Slot
    <2> QED BY <2>1, <2>3, <2>4
  <1>12. ss \in Seq(Slot) /\ Len(ss) = N
    <2>1. ss \in [1..N -> Slot]
      BY <1>5, <1>11
    <2> QED BY <1>1, <2>1, FunctionIsSeq
  <1> HIDE DEF ss
  <1>13. ASSUME NEW k \in 1..N
         PROVE  /\ slots[k].published <= keep[k] /\ BlocksFor(ss[k].n) <= Len(ss[k].blocks)
                /\ slots[k].published <= FilledPrompt(ss[k].n)
    <2>1. need(k) <= keep[k] /\ keep[k] \in Nat /\ lo[k] <= hi[k] /\ lo[k] \in Nat /\ hi[k] \in Nat
      BY <1>8
    <2>2. Len(ss[k].blocks) = keep[k] + (hi[k] - lo[k])
      BY <1>9, <1>11
    <2>3. need(k) <= Len(ss[k].blocks)
      BY <1>7, <2>1, <2>2
    <2>4. slots[k].published <= keep[k]
      BY <1>7, <2>1
    <2> QED BY <1>7, <1>11, <2>3, <2>4 DEF need
  <1>14. Grows(ss, given, keep, lo, hi)
    <2>1. {keep, lo, hi} \subseteq [1..N -> Nat]
      BY <1>8
    <2>2. ASSUME NEW k \in 1..N
          PROVE  /\ Len(ss[k].blocks) = keep[k] + (hi[k] - lo[k])
                 /\ \A i \in 1..keep[k] : ss[k].blocks[i] = slots[k].blocks[i]
                 /\ \A i \in (keep[k] + 1)..Len(ss[k].blocks) :
                       ss[k].blocks[i] = Supply[lo[k] + i - keep[k]] /\ ss[k].blocks[i] \in given
      <3>1. ss[k].blocks = blocks(k)
        BY <1>11
      <3> HIDE DEF given
      <3> QED BY <1>9, <3>1
    <2> HIDE DEF given
    <2>3. given \subseteq ToSet(Supply)
      BY DEF given
    <2> QED BY <1>8, <1>10, <1>11, <1>12, <1>13, <2>1, <2>2, <2>3 DEF Grows
  <1> QED BY <1>5, <1>8, <1>11, <1>14 DEF ss, need

\* A slot that grew still has its text, and so do the cached blocks.
LEMMA GrownText ==
    ASSUME Pooled(slots, cached), NEW ss, NEW given, NEW keep, NEW lo, NEW hi,
           Grows(ss, given, keep, lo, hi), NEW d,
           NEW k \in 1..Len(slots), BlocksFor(slots[k].n) <= keep[k], SlotText(d, slots[k], slots[k].n)
    PROVE  SlotText(d, ss[k], slots[k].n)
  <1>1. /\ keep[k] \in Nat /\ ss[k].req = slots[k].req
        /\ \A i \in 1..keep[k] : ss[k].blocks[i] = slots[k].blocks[i]
    BY DEF Grows
  <1>2. slots[k].n \in Nat
    BY SlotFacts DEF Pooled
  <1> SUFFICES ASSUME NEW p \in 0..(slots[k].n - 1)
               PROVE  d.mem[AddressOf(ss[k].blocks, p)] = Text(ss[k].req, p)
    BY DEF SlotText
  <1>3. p \div BlockSize + 1 \in 1..BlocksFor(slots[k].n) /\ BlocksFor(slots[k].n) \in Nat
    BY <1>2, BlocksForFacts
  <1>4. p \div BlockSize + 1 \in 1..keep[k]
    BY <1>1, <1>3
  <1>5. ss[k].blocks[p \div BlockSize + 1] = slots[k].blocks[p \div BlockSize + 1]
    BY <1>1, <1>4
  <1>6. AddressOf(ss[k].blocks, p) = AddressOf(slots[k].blocks, p)
    BY <1>5 DEF AddressOf
  <1>7. d.mem[AddressOf(slots[k].blocks, p)] = Text(slots[k].req, p)
    BY DEF SlotText
  <1> QED BY <1>1, <1>6, <1>7

LEMMA EvictedText ==
    ASSUME NEW d, NEW given, CacheText(d, cached)
    PROVE  CacheText(d, Evict(given))
  BY DEF CacheText, Evict

\* Where a key's block comes from when the slots ss publish, cc being cached:
\* from the cache, or from slot m.
Sourced(ss, cc, now, key) ==
    \/ now[key] = cc[key]
    \/ \E m \in 1..Len(ss) :
          /\ key[2] \in (ss[m].published + 1)..FilledPrompt(ss[m].n)
          /\ key[2] \in (ss[m].published + 1)..Len(ss[m].blocks)
          /\ Key(ss[m].req, key[2]) = key /\ now[key] = ss[m].blocks[key[2]]

\* Slot s with the blocks that are cached now in place of those it fills.
Swapped(s, now, t) ==
    /\ t \in Slot /\ t.req = s.req /\ t.n = s.n /\ t.published = FilledPrompt(s.n)
    /\ Len(t.blocks) = Len(s.blocks)
    /\ \A i \in 1..Len(s.blocks) :
          t.blocks[i] = IF i <= FilledPrompt(s.n) THEN now[Key(s.req, i)] ELSE s.blocks[i]

\* How many blocks of the prompt a slot fills.
LEMMA FilledSlot ==
    ASSUME NEW ss \in Seq(Slot), Lengths(ss), NEW k \in 1..Len(ss)
    PROVE  /\ FilledPrompt(ss[k].n) \in Nat /\ FilledPrompt(ss[k].n) <= PromptLen \div BlockSize
           /\ FilledPrompt(ss[k].n) <= ss[k].n \div BlockSize
           /\ ss[k].published <= FilledPrompt(ss[k].n)
           /\ FilledPrompt(ss[k].n) <= Len(ss[k].blocks)
           /\ \A i \in 1..FilledPrompt(ss[k].n) :
                 /\ i \in 1..Len(ss[k].blocks) /\ i \in 1..(PromptLen \div BlockSize)
                 /\ Key(ss[k].req, i) \in PromptKeys /\ Key(ss[k].req, i)[2] = i
  <1>1. /\ ss[k].n \in Nat /\ Len(ss[k].blocks) \in Nat /\ ss[k].req \in RequestId
    BY SlotFacts
  <1>2. BlocksFor(ss[k].n) <= Len(ss[k].blocks) /\ ss[k].published <= FilledPrompt(ss[k].n)
    BY DEF Lengths
  <1>3. /\ FilledPrompt(ss[k].n) \in Nat /\ FilledPrompt(ss[k].n) <= PromptLen \div BlockSize
        /\ FilledPrompt(ss[k].n) <= ss[k].n \div BlockSize
        /\ FilledPrompt(ss[k].n) <= BlocksFor(ss[k].n) /\ BlocksFor(ss[k].n) \in Nat
    BY <1>1, FilledFacts, BlocksForFacts
  <1>4. FilledPrompt(ss[k].n) <= Len(ss[k].blocks)
    BY <1>1, <1>2, <1>3
  <1>6. PromptLen \div BlockSize \in Nat
    BY Sizes, Split
  <1>5. \A i \in 1..FilledPrompt(ss[k].n) : i \in 1..Len(ss[k].blocks) /\ i \in 1..(PromptLen \div BlockSize)
    BY <1>1, <1>3, <1>4, <1>6
  <1> QED BY <1>1, <1>2, <1>3, <1>4, <1>5, KeyFacts

LEMMA PublishedFacts ==
    ASSUME NEW r, Pooled(r.slots, r.cached)
    PROVE  /\ Published(r).slots = [k \in 1..Len(r.slots) |-> Published(r).slots[k]]
           /\ Published(r).cached \in [PromptKeys -> Pool \cup {0}]
           /\ \A key \in PromptKeys : Sourced(r.slots, r.cached, Published(r).cached, key)
           /\ \A k \in 1..Len(r.slots) : \A i \in 1..FilledPrompt(r.slots[k].n) :
                 Published(r).cached[Key(r.slots[k].req, i)] # 0
           /\ \A k \in 1..Len(r.slots) : \A i \in 1..r.slots[k].published :
                 Published(r).cached[Key(r.slots[k].req, i)] = r.slots[k].blocks[i]
           /\ \A k \in 1..Len(r.slots) : Swapped(r.slots[k], Published(r).cached, Published(r).slots[k])
  <1> DEFINE ss == r.slots
             cc == r.cached
             fills(s, i) == s.published < i /\ i <= FilledPrompt(s.n)
             sources(key) == {k \in 1..Len(ss) : fills(ss[k], key[2]) /\ Key(ss[k].req, key[2]) = key}
             now == [key \in PromptKeys |->
                        IF cc[key] # 0 \/ sources(key) = {} THEN cc[key]
                        ELSE ss[SmallestOf(sources(key))].blocks[key[2]]]
             swapped(s) == [i \in 1..Len(s.blocks) |->
                               IF fills(s, i) THEN now[Key(s.req, i)] ELSE s.blocks[i]]
             qs == [k \in 1..Len(ss) |-> [ss[k] EXCEPT !.blocks = swapped(ss[k]),
                                                       !.published = FilledPrompt(ss[k].n)]]
  <1>1. /\ ss \in Seq(Slot) /\ cc \in [PromptKeys -> Pool \cup {0}] /\ Lengths(ss)
        /\ PublishedIsCached(ss, cc)
    BY DEF Pooled
  <1>2. Published(r).slots = qs /\ Published(r).cached = now
    BY DEF Published
  <1>3. ASSUME NEW key \in PromptKeys, sources(key) # {}
        PROVE  SmallestOf(sources(key)) \in sources(key)
    <2> DEFINE S == sources(key)
    <2>1. S \in SUBSET Nat
      OBVIOUS
    <2> HIDE DEF S
    <2>2. \E x \in S : \A y \in S : x <= y
      BY <1>3, <2>1, Least DEF S
    <2>3. SmallestOf(S) \in S
      BY <2>2 DEF SmallestOf
    <2> QED BY <2>3 DEF S
  <1>4. ASSUME NEW key \in PromptKeys, NEW m \in sources(key)
        PROVE  /\ m \in 1..Len(ss)
               /\ key[2] \in (ss[m].published + 1)..FilledPrompt(ss[m].n)
               /\ key[2] \in (ss[m].published + 1)..Len(ss[m].blocks)
               /\ Key(ss[m].req, key[2]) = key
               /\ ss[m].blocks[key[2]] \in Pool /\ ss[m].blocks[key[2]] # 0
    <2>1. m \in 1..Len(ss) /\ ss[m].published < key[2] /\ key[2] <= FilledPrompt(ss[m].n)
          /\ Key(ss[m].req, key[2]) = key
      OBVIOUS
    <2>2. ss[m].published \in Nat /\ Len(ss[m].blocks) \in Nat
      BY <1>1, <2>1, SlotFacts
    <2>3. FilledPrompt(ss[m].n) \in Nat /\ FilledPrompt(ss[m].n) <= Len(ss[m].blocks)
      BY <1>1, <2>1, FilledSlot
    <2>4. PICK q \in RequestId, i \in 1..(PromptLen \div BlockSize) : key = Key(q, i)
      BY DEF PromptKeys
    <2>5. key[2] \in Nat
      BY <2>4, KeyFacts
    <2> HIDE DEF ss
    <2>6. key[2] \in (ss[m].published + 1)..FilledPrompt(ss[m].n)
          /\ key[2] \in (ss[m].published + 1)..Len(ss[m].blocks) /\ key[2] \in 1..Len(ss[m].blocks)
      BY <2>1, <2>2, <2>3, <2>5
    <2>7. ss[m].blocks[key[2]] \in Pool /\ ss[m].blocks[key[2]] # 0
      BY <1>1, <2>1, <2>6, SlotFacts
    <2> QED BY <2>1, <2>6, <2>7
  <1> HIDE DEF sources, fills, ss, cc
  <1>5. ASSUME NEW key \in PromptKeys
        PROVE  /\ now[key] \in Pool \cup {0} /\ Sourced(ss, cc, now, key)
               /\ cc[key] # 0 => now[key] = cc[key]
               /\ sources(key) # {} => now[key] # 0
    <2>1. CASE cc[key] # 0 \/ sources(key) = {}
      <3>1. now[key] = cc[key]
        BY <2>1
      <3> HIDE DEF now
      <3> QED BY <1>1, <2>1, <3>1 DEF Sourced
    <2>2. CASE ~(cc[key] # 0 \/ sources(key) = {})
      <3>1. PICK m \in sources(key) : m = SmallestOf(sources(key))
        BY <1>3, <2>2
      <3>2. now[key] = ss[m].blocks[key[2]]
        BY <2>2, <3>1
      <3> HIDE DEF now
      <3>3. /\ m \in 1..Len(ss)
            /\ key[2] \in (ss[m].published + 1)..FilledPrompt(ss[m].n)
            /\ key[2] \in (ss[m].published + 1)..Len(ss[m].blocks)
            /\ Key(ss[m].req, key[2]) = key
            /\ ss[m].blocks[key[2]] \in Pool /\ ss[m].blocks[key[2]] # 0
        BY <1>4
      <3>4. Sourced(ss, cc, now, key)
        BY <3>2, <3>3 DEF Sourced
      <3> QED BY <2>2, <3>2, <3>3, <3>4
    <2> QED BY <2>1, <2>2
  <1>6. now \in [PromptKeys -> Pool \cup {0}]
    BY <1>5
  <1> HIDE DEF now
  <1>7. ASSUME NEW k \in 1..Len(ss), NEW i \in 1..ss[k].published
        PROVE  now[Key(ss[k].req, i)] = ss[k].blocks[i]
    <2>1. ss[k].published \in Nat
      BY <1>1, SlotFacts
    <2>2. FilledPrompt(ss[k].n) \in Nat /\ ss[k].published <= FilledPrompt(ss[k].n)
      BY <1>1, FilledSlot
    <2>3. i \in 1..FilledPrompt(ss[k].n)
      BY <2>1, <2>2
    <2>4. Key(ss[k].req, i) \in PromptKeys /\ i \in 1..Len(ss[k].blocks)
      BY <1>1, <2>3, FilledSlot
    <2>5. cc[Key(ss[k].req, i)] = ss[k].blocks[i] /\ ss[k].blocks[i] # 0
      BY <1>1, <2>4, SlotFacts DEF PublishedIsCached
    <2> QED BY <1>5, <2>4, <2>5
  <1>8. ASSUME NEW k \in 1..Len(ss), NEW i \in 1..FilledPrompt(ss[k].n)
        PROVE  now[Key(ss[k].req, i)] # 0
    <2>1. /\ ss[k].published \in Nat /\ Len(ss[k].blocks) \in Nat
          /\ \A x \in 1..Len(ss[k].blocks) : ss[k].blocks[x] # 0
      BY <1>1, SlotFacts
    <2>2. Key(ss[k].req, i) \in PromptKeys /\ Key(ss[k].req, i)[2] = i /\ i \in 1..Len(ss[k].blocks)
          /\ FilledPrompt(ss[k].n) \in Nat
      BY <1>1, FilledSlot
    <2>3. CASE i <= ss[k].published
      <3>1. i \in 1..ss[k].published
        BY <2>1, <2>2, <2>3
      <3> QED BY <1>7, <2>1, <2>2, <3>1
    <2>4. CASE ~(i <= ss[k].published)
      <3>1. ss[k].published < i /\ i <= FilledPrompt(ss[k].n)
        BY <2>1, <2>2, <2>4
      <3>2. k \in sources(Key(ss[k].req, i))
        BY <2>2, <3>1 DEF sources, fills
      <3> QED BY <1>5, <2>2, <3>2
    <2> QED BY <2>3, <2>4
  <1>9. ASSUME NEW k \in 1..Len(ss)
        PROVE  Swapped(ss[k], now, qs[k])
    <2> DEFINE L == Len(ss[k].blocks)
               bl == swapped(ss[k])
    <2>1. /\ ss[k] \in Slot /\ ss[k].published \in Nat /\ L \in Nat
          /\ \A x \in 1..L : ss[k].blocks[x] \in Pool
      BY <1>1, SlotFacts
    <2>2. /\ FilledPrompt(ss[k].n) \in Nat /\ FilledPrompt(ss[k].n) <= L
          /\ \A i \in 1..FilledPrompt(ss[k].n) : Key(ss[k].req, i) \in PromptKeys
      BY <1>1, FilledSlot
    <2>3. \A i \in 1..FilledPrompt(ss[k].n) : now[Key(ss[k].req, i)] \in Pool
      BY <1>5, <1>8, <2>2
    <2>4. ASSUME NEW i \in 1..L
          PROVE  /\ bl[i] = IF i <= FilledPrompt(ss[k].n) THEN now[Key(ss[k].req, i)] ELSE ss[k].blocks[i]
                 /\ bl[i] \in Pool
      <3>0. bl[i] = IF fills(ss[k], i) THEN now[Key(ss[k].req, i)] ELSE ss[k].blocks[i]
        OBVIOUS
      <3> HIDE DEF bl
      <3>1. CASE ~(i <= FilledPrompt(ss[k].n))
        <4>1. ~fills(ss[k], i)
          BY <3>1 DEF fills
        <4> QED BY <2>1, <3>0, <3>1, <4>1
      <3>2. CASE i <= ss[k].published /\ i <= FilledPrompt(ss[k].n)
        <4>1. ~fills(ss[k], i) /\ i \in 1..ss[k].published
          BY <2>1, <3>2 DEF fills
        <4> QED BY <1>7, <2>1, <3>0, <3>2, <4>1
      <3>3. CASE ~(i <= ss[k].published) /\ i <= FilledPrompt(ss[k].n)
        <4>1. fills(ss[k], i) /\ i \in 1..FilledPrompt(ss[k].n)
          BY <2>1, <2>2, <3>3 DEF fills
        <4> QED BY <2>3, <3>0, <3>3, <4>1
      <3> QED BY <3>1, <3>2, <3>3
    <2>5. bl \in [1..L -> Pool]
      BY <2>4
    <2>6. bl \in Seq(Pool) /\ Len(bl) = L
      BY <2>1, <2>5, FunctionIsSeq
    <2>7. PICK s \in Slot, p \in Nat : s = ss[k] /\ p = FilledPrompt(ss[k].n)
      BY <2>1, <2>2
    <2>8. qs[k] = [s EXCEPT !.blocks = bl, !.published = p]
      BY <2>7
    <2> HIDE DEF bl, L, qs
    <2>9. PICK t : t = qs[k]
      OBVIOUS
    <2>10. t = [s EXCEPT !.blocks = bl, !.published = p]
      BY <2>8, <2>9
    <2>11. t \in Slot /\ t.req = s.req /\ t.published = p /\ t.n = s.n /\ t.blocks = bl
      BY <2>6, <2>10 DEF Slot
    <2>12. \A i \in 1..L : bl[i] = IF i <= FilledPrompt(s.n) THEN now[Key(s.req, i)] ELSE s.blocks[i]
      BY <2>4, <2>7
    <2>13. Len(s.blocks) = L /\ p = FilledPrompt(s.n)
      BY <2>7 DEF L
    <2>14. Swapped(s, now, t)
      BY <2>6, <2>11, <2>12, <2>13 DEF Swapped
    <2> QED BY <2>7, <2>9, <2>14
  <1>10. qs = [k \in 1..Len(ss) |-> qs[k]]
    OBVIOUS
  <1> HIDE DEF qs
  <1> QED BY <1>2, <1>5, <1>6, <1>7, <1>8, <1>9, <1>10 DEF ss, cc

\* Publishing leaves the pool in order, and every full block of a prompt is published.
LEMMA PublishedPooled ==
    ASSUME NEW r, Pooled(r.slots, r.cached)
    PROVE  /\ Pooled(Published(r).slots, Published(r).cached)
           /\ Len(Published(r).slots) = Len(r.slots)
           /\ \A k \in 1..Len(r.slots) :
                 /\ Published(r).slots[k].req = r.slots[k].req /\ Published(r).slots[k].n = r.slots[k].n
                 /\ Published(r).slots[k].published = FilledPrompt(r.slots[k].n)
  <1> DEFINE ss == r.slots
             cc == r.cached
             qs == Published(r).slots
             now == Published(r).cached
             filled(k) == FilledPrompt(ss[k].n)
  <1>1. /\ ss \in Seq(Slot) /\ cc \in [PromptKeys -> Pool \cup {0}] /\ Lengths(ss)
        /\ OneSlotEach(ss) /\ PublishedIsCached(ss, cc) /\ OthersUncached(ss, cc)
        /\ OthersOwned(ss) /\ OneKeyEach(cc) /\ Len(ss) \in Nat
    BY LenProperties DEF Pooled
  <1>2. /\ qs = [k \in 1..Len(ss) |-> qs[k]] /\ now \in [PromptKeys -> Pool \cup {0}]
        /\ \A key \in PromptKeys : Sourced(ss, cc, now, key)
        /\ \A k \in 1..Len(ss) : Swapped(ss[k], now, qs[k])
    BY PublishedFacts
  <1> HIDE DEF ss, cc, qs, now
  <1>3. \A k \in 1..Len(ss) :
           /\ qs[k] \in Slot /\ qs[k].req = ss[k].req /\ qs[k].n = ss[k].n
           /\ qs[k].published = filled(k) /\ Len(qs[k].blocks) = Len(ss[k].blocks)
           /\ \A i \in 1..Len(ss[k].blocks) :
                 qs[k].blocks[i] = IF i <= filled(k) THEN now[Key(ss[k].req, i)] ELSE ss[k].blocks[i]
    BY <1>2 DEF Swapped
  <1>4. qs \in Seq(Slot) /\ Len(qs) = Len(ss)
    <2>1. qs \in [1..Len(ss) -> Slot]
      BY <1>2, <1>3
    <2> QED BY <1>1, <2>1, FunctionIsSeq
  <1>5. \A k \in 1..Len(ss) :
           /\ filled(k) \in Nat /\ ss[k].published <= filled(k) /\ filled(k) <= Len(ss[k].blocks)
           /\ \A i \in 1..filled(k) : /\ i \in 1..Len(ss[k].blocks) /\ Key(ss[k].req, i) \in PromptKeys
                                      /\ Key(ss[k].req, i)[2] = i
    BY <1>1, FilledSlot
  <1>6. \A k \in 1..Len(ss) : /\ Len(ss[k].blocks) \in Nat /\ ss[k].published \in Nat
                              /\ \A i \in 1..Len(ss[k].blocks) : ss[k].blocks[i] # 0
    BY <1>1, SlotFacts
  <1>7. Lengths(qs)
    <2> SUFFICES ASSUME NEW k \in 1..Len(qs)
                 PROVE  BlocksFor(qs[k].n) <= Len(qs[k].blocks) /\ qs[k].published <= FilledPrompt(qs[k].n)
      BY DEF Lengths
    <2>1. k \in 1..Len(ss) /\ qs[k].n = ss[k].n /\ qs[k].published = filled(k)
          /\ Len(qs[k].blocks) = Len(ss[k].blocks) /\ filled(k) \in Nat
      BY <1>3, <1>4, <1>5
    <2>2. BlocksFor(ss[k].n) <= Len(ss[k].blocks)
      BY <1>1, <2>1 DEF Lengths
    <2>3. filled(k) = FilledPrompt(qs[k].n) /\ filled(k) <= filled(k)
      BY <2>1
    <2> QED BY <2>1, <2>2, <2>3
  <1>8. OneSlotEach(qs)
    BY <1>1, <1>3, <1>4 DEF OneSlotEach
  <1> HIDE DEF filled
  <1>9. PublishedIsCached(qs, now)
    <2> SUFFICES ASSUME NEW k \in 1..Len(qs), NEW i \in 1..qs[k].published
                 PROVE  now[Key(qs[k].req, i)] = qs[k].blocks[i]
      BY DEF PublishedIsCached
    <2>1. k \in 1..Len(ss) /\ qs[k].published = filled(k) /\ qs[k].req = ss[k].req
      BY <1>3, <1>4
    <2>2. i \in 1..filled(k) /\ i \in 1..Len(ss[k].blocks) /\ i <= filled(k)
      BY <1>5, <2>1
    <2>3. qs[k].blocks[i] = now[Key(ss[k].req, i)]
      BY <1>3, <2>1, <2>2
    <2> QED BY <2>1, <2>3
  <1>14. ASSUME NEW k \in 1..Len(qs), NEW i \in (qs[k].published + 1)..Len(qs[k].blocks)
         PROVE  /\ k \in 1..Len(ss) /\ i \in 1..Len(ss[k].blocks) /\ ~(i <= filled(k))
                /\ i \in (ss[k].published + 1)..Len(ss[k].blocks)
                /\ qs[k].blocks[i] = ss[k].blocks[i]
    <2>1. k \in 1..Len(ss) /\ qs[k].published = filled(k) /\ Len(qs[k].blocks) = Len(ss[k].blocks)
      BY <1>3, <1>4
    <2>2. /\ i \in 1..Len(ss[k].blocks) /\ ~(i <= filled(k))
          /\ i \in (ss[k].published + 1)..Len(ss[k].blocks)
      BY <1>5, <1>6, <2>1
    <2>3. qs[k].blocks[i] = ss[k].blocks[i]
      BY <1>3, <2>1, <2>2
    <2> QED BY <2>1, <2>2, <2>3
  <1>15. \A k, l \in 1..Len(ss) :
            \A i \in (ss[k].published + 1)..Len(ss[k].blocks), j \in 1..Len(ss[l].blocks) :
                ss[l].blocks[j] = ss[k].blocks[i] => l = k /\ j = i
    BY <1>1 DEF OthersOwned
  <1>10. OthersUncached(qs, now)
    <2> SUFFICES ASSUME NEW k \in 1..Len(qs), NEW i \in (qs[k].published + 1)..Len(qs[k].blocks),
                        NEW key \in PromptKeys, now[key] = qs[k].blocks[i]
                 PROVE  FALSE
      BY DEF OthersUncached
    <2>2. /\ k \in 1..Len(ss) /\ i \in 1..Len(ss[k].blocks) /\ ~(i <= filled(k))
          /\ i \in (ss[k].published + 1)..Len(ss[k].blocks)
      BY <1>14
    <2>3. qs[k].blocks[i] = ss[k].blocks[i]
      BY <1>14
    <2>4. now[key] # cc[key]
      BY <1>1, <2>2, <2>3 DEF OthersUncached
    <2>5. PICK m \in 1..Len(ss) :
             /\ key[2] \in (ss[m].published + 1)..FilledPrompt(ss[m].n)
             /\ key[2] \in (ss[m].published + 1)..Len(ss[m].blocks)
             /\ now[key] = ss[m].blocks[key[2]]
      BY <1>2, <2>4 DEF Sourced
    <2>6. PICK x \in 1..Len(ss[m].blocks) : x = key[2] /\ x <= filled(m)
      BY <1>5, <1>6, <2>5 DEF filled
    <2>7. ss[m].blocks[x] = ss[k].blocks[i]
      BY <2>3, <2>5, <2>6
    <2>8. m = k /\ x = i
      BY <1>15, <2>2, <2>7
    <2> QED BY <2>2, <2>6, <2>8
  <1>11. OthersOwned(qs)
    <2> SUFFICES ASSUME NEW k \in 1..Len(qs), NEW l \in 1..Len(qs),
                        NEW i \in (qs[k].published + 1)..Len(qs[k].blocks),
                        NEW j \in 1..Len(qs[l].blocks), qs[l].blocks[j] = qs[k].blocks[i]
                 PROVE  l = k /\ j = i
      BY DEF OthersOwned
    <2>1. /\ k \in 1..Len(ss) /\ qs[k].published = filled(k) /\ Len(qs[k].blocks) = Len(ss[k].blocks)
          /\ l \in 1..Len(ss) /\ qs[l].published = filled(l) /\ Len(qs[l].blocks) = Len(ss[l].blocks)
      BY <1>3, <1>4
    <2>2. /\ i \in 1..Len(ss[k].blocks) /\ ~(i <= filled(k))
          /\ i \in (ss[k].published + 1)..Len(ss[k].blocks)
      BY <1>14
    <2>3. qs[k].blocks[i] = ss[k].blocks[i]
      BY <1>14
    <2>4. ~(j <= filled(l))
      <3>1. SUFFICES ASSUME j <= filled(l) PROVE FALSE
        OBVIOUS
      <3>2. j \in 1..filled(l) /\ j \in 1..Len(ss[l].blocks)
        BY <1>5, <1>6, <2>1, <3>1
      <3>3. qs[l].blocks[j] = now[Key(ss[l].req, j)] /\ Key(ss[l].req, j) \in PromptKeys
        BY <1>3, <1>5, <2>1, <3>1, <3>2
      <3>4. now[Key(ss[l].req, j)] = qs[k].blocks[i]
        BY <3>3
      <3> QED BY <1>10, <3>3, <3>4 DEF OthersUncached
    <2>5. j \in 1..Len(ss[l].blocks)
      BY <2>1
    <2>6. qs[l].blocks[j] = ss[l].blocks[j]
      BY <1>3, <2>1, <2>4, <2>5
    <2>7. ss[l].blocks[j] = ss[k].blocks[i]
      BY <2>3, <2>6
    <2> QED BY <1>15, <2>1, <2>2, <2>5, <2>7
  <1>12. OneKeyEach(now)
    <2> SUFFICES ASSUME NEW x \in PromptKeys, NEW y \in PromptKeys, now[x] = now[y], now[x] # 0
                 PROVE  x = y
      BY DEF OneKeyEach
    <2>1. CASE now[x] = cc[x] /\ now[y] = cc[y]
      BY <1>1, <2>1 DEF OneKeyEach
    <2>2. ASSUME NEW a \in PromptKeys, NEW c \in PromptKeys, now[a] = now[c], now[a] = cc[a], now[c] # cc[c]
          PROVE  FALSE
      <3>1. PICK m \in 1..Len(ss) : /\ c[2] \in (ss[m].published + 1)..Len(ss[m].blocks)
                                    /\ now[c] = ss[m].blocks[c[2]]
        BY <1>2, <2>2 DEF Sourced
      <3>2. cc[a] = ss[m].blocks[c[2]]
        BY <2>2, <3>1
      <3> QED BY <1>1, <3>1, <3>2 DEF OthersUncached
    <2>3. CASE now[x] # cc[x] /\ now[y] # cc[y]
      <3>1. PICK m \in 1..Len(ss) :
               /\ x[2] \in (ss[m].published + 1)..Len(ss[m].blocks)
               /\ Key(ss[m].req, x[2]) = x /\ now[x] = ss[m].blocks[x[2]]
        BY <1>2, <2>3 DEF Sourced
      <3>2. PICK h \in 1..Len(ss) :
               /\ y[2] \in (ss[h].published + 1)..Len(ss[h].blocks)
               /\ Key(ss[h].req, y[2]) = y /\ now[y] = ss[h].blocks[y[2]]
        BY <1>2, <2>3 DEF Sourced
      <3>3. PICK b \in 1..Len(ss[h].blocks) : b = y[2]
        BY <1>6, <3>2
      <3>6. PICK a \in (ss[m].published + 1)..Len(ss[m].blocks) : a = x[2]
        BY <3>1
      <3>4. ss[h].blocks[b] = ss[m].blocks[a]
        BY <3>1, <3>2, <3>3, <3>6
      <3>5. h = m /\ b = a
        BY <1>15, <3>4
      <3> QED BY <3>1, <3>2, <3>3, <3>5, <3>6
    <2> QED BY <2>1, <2>2, <2>3
  <1>13. Pooled(qs, now)
    BY <1>2, <1>4, <1>7, <1>8, <1>9, <1>10, <1>11, <1>12 DEF Pooled
  <1> QED BY <1>3, <1>4, <1>13 DEF ss, qs, now, filled

\* A block of a slot that has its text.
LEMMA BlockText ==
    ASSUME NEW d, NEW s \in Slot, SlotText(d, s, s.n),
           NEW i \in 1..(s.n \div BlockSize), NEW o \in 0..(BlockSize - 1)
    PROVE  d.mem[<<s.blocks[i], o>>] = Text(s.req, (i - 1) * BlockSize + o)
  <1>1. s.n \in Nat
    BY DEF Slot
  <1>2. PICK p \in 0..(s.n - 1) : /\ p = (i - 1) * BlockSize + o
                                  /\ p \div BlockSize = i - 1 /\ p % BlockSize = o
    BY <1>1, BlockPositions
  <1>3. i - 1 + 1 = i
    BY <1>1, Split
  <1>4. AddressOf(s.blocks, p) = <<s.blocks[i], o>>
    BY <1>2, <1>3 DEF AddressOf
  <1>5. d.mem[AddressOf(s.blocks, p)] = Text(s.req, p)
    BY DEF SlotText
  <1> QED BY <1>2, <1>4, <1>5

\* The cached block has the text of the one it replaces.
LEMMA PublishedText ==
    ASSUME NEW r, Pooled(r.slots, r.cached), NEW d, CacheText(d, r.cached),
           \A k \in 1..Len(r.slots) : SlotText(d, r.slots[k], r.slots[k].n)
    PROVE  /\ CacheText(d, Published(r).cached)
           /\ \A k \in 1..Len(r.slots) : SlotText(d, Published(r).slots[k], Published(r).slots[k].n)
  <1> DEFINE ss == r.slots
             cc == r.cached
             qs == Published(r).slots
             now == Published(r).cached
  <1>1. ss \in Seq(Slot) /\ Lengths(ss)
    BY DEF Pooled
  <1>2. /\ \A key \in PromptKeys : Sourced(ss, cc, now, key)
        /\ \A k \in 1..Len(ss) : \A i \in 1..FilledPrompt(ss[k].n) : now[Key(ss[k].req, i)] # 0
        /\ \A k \in 1..Len(ss) : Swapped(ss[k], now, qs[k])
    BY PublishedFacts
  <1>3. CacheText(d, cc) /\ \A k \in 1..Len(ss) : SlotText(d, ss[k], ss[k].n)
    OBVIOUS
  <1> HIDE DEF ss, cc, qs, now
  <1>4. CacheText(d, now)
    <2> SUFFICES ASSUME NEW key \in PromptKeys, now[key] # 0, NEW o \in 0..(BlockSize - 1)
                 PROVE  d.mem[<<now[key], o>>] = <<key[1], (key[2] - 1) * BlockSize + o>>
      BY DEF CacheText
    <2>1. CASE now[key] = cc[key]
      BY <1>3, <2>1 DEF CacheText
    <2>2. CASE now[key] # cc[key]
      <3>1. PICK m \in 1..Len(ss) : /\ key[2] \in (ss[m].published + 1)..FilledPrompt(ss[m].n)
                                    /\ Key(ss[m].req, key[2]) = key /\ now[key] = ss[m].blocks[key[2]]
        BY <1>2, <2>2 DEF Sourced
      <3>2. /\ ss[m] \in Slot /\ ss[m].published \in Nat /\ ss[m].n \in Nat
        BY <1>1, SlotFacts
      <3>3. FilledPrompt(ss[m].n) \in Nat /\ FilledPrompt(ss[m].n) <= ss[m].n \div BlockSize
        BY <1>1, FilledSlot
      <3>4. ss[m].n \div BlockSize \in Nat
        BY <3>2, Split
      <3>5. PICK i \in 1..(ss[m].n \div BlockSize) : i = key[2]
        BY <3>1, <3>2, <3>3, <3>4
      <3>6. d.mem[<<ss[m].blocks[i], o>>] = Text(ss[m].req, (i - 1) * BlockSize + o)
        BY <1>3, <3>2, BlockText
      <3>7. i \in Nat \ {0}
        BY <3>4
      <3>8. <<Key(ss[m].req, i)[1], (Key(ss[m].req, i)[2] - 1) * BlockSize + o>>
              = Text(ss[m].req, (i - 1) * BlockSize + o)
        BY <3>7, KeyText
      <3>9. <<key[1], (key[2] - 1) * BlockSize + o>> = d.mem[<<ss[m].blocks[i], o>>]
        BY <3>1, <3>5, <3>6, <3>8
      <3> QED BY <3>1, <3>5, <3>9
    <2> QED BY <2>1, <2>2
  <1>5. ASSUME NEW k \in 1..Len(ss) PROVE SlotText(d, qs[k], qs[k].n)
    <2>1. /\ qs[k].req = ss[k].req /\ qs[k].n = ss[k].n
          /\ \A i \in 1..Len(ss[k].blocks) :
                qs[k].blocks[i] = IF i <= FilledPrompt(ss[k].n) THEN now[Key(ss[k].req, i)] ELSE ss[k].blocks[i]
      BY <1>2 DEF Swapped
    <2>2. ss[k].n \in Nat /\ Len(ss[k].blocks) \in Nat
      BY <1>1, SlotFacts
    <2> SUFFICES ASSUME NEW p \in 0..(ss[k].n - 1)
                 PROVE  d.mem[AddressOf(qs[k].blocks, p)] = Text(ss[k].req, p)
      BY <2>1 DEF SlotText
    <2>11. p \in Nat
      BY <2>2
    <2>3. p \in Nat /\ p \div BlockSize \in Nat /\ p % BlockSize \in 0..(BlockSize - 1)
          /\ p = (p \div BlockSize) * BlockSize + (p % BlockSize)
      BY <2>11, Split
    <2>4. p \div BlockSize + 1 \in 1..BlocksFor(ss[k].n) /\ BlocksFor(ss[k].n) \in Nat
      BY <2>2, BlocksForFacts
    <2>5. BlocksFor(ss[k].n) <= Len(ss[k].blocks)
      BY <1>1 DEF Lengths
    <2>6. PICK i \in Nat \ {0} : i = p \div BlockSize + 1 /\ i - 1 = p \div BlockSize
      BY <2>3
    <2>7. i \in 1..Len(ss[k].blocks)
      BY <2>2, <2>4, <2>5, <2>6
    <2>8. AddressOf(qs[k].blocks, p) = <<qs[k].blocks[i], p % BlockSize>>
      BY <2>6 DEF AddressOf
    <2>9. CASE i <= FilledPrompt(ss[k].n)
      <3>1. FilledPrompt(ss[k].n) \in Nat /\ i \in 1..FilledPrompt(ss[k].n)
        BY <1>1, <2>9, FilledSlot
      <3>2. Key(ss[k].req, i) \in PromptKeys /\ now[Key(ss[k].req, i)] # 0
        BY <1>1, <1>2, <3>1, FilledSlot
      <3>3. qs[k].blocks[i] = now[Key(ss[k].req, i)]
        BY <2>1, <2>7, <2>9
      <3>4. d.mem[<<now[Key(ss[k].req, i)], p % BlockSize>>]
              = <<Key(ss[k].req, i)[1], (Key(ss[k].req, i)[2] - 1) * BlockSize + (p % BlockSize)>>
        BY <1>4, <2>3, <3>2 DEF CacheText
      <3>5. <<Key(ss[k].req, i)[1], (Key(ss[k].req, i)[2] - 1) * BlockSize + (p % BlockSize)>>
              = Text(ss[k].req, (i - 1) * BlockSize + (p % BlockSize))
        BY <2>3, KeyText
      <3>6. (i - 1) * BlockSize + (p % BlockSize) = p
        BY <2>3, <2>6
      <3> QED BY <2>8, <3>3, <3>4, <3>5, <3>6
    <2>10. CASE ~(i <= FilledPrompt(ss[k].n))
      <3>1. qs[k].blocks[i] = ss[k].blocks[i]
        BY <2>1, <2>7, <2>10
      <3>2. AddressOf(qs[k].blocks, p) = AddressOf(ss[k].blocks, p)
        BY <2>6, <3>1 DEF AddressOf
      <3>3. d.mem[AddressOf(ss[k].blocks, p)] = Text(ss[k].req, p)
        BY <1>3 DEF SlotText
      <3> QED BY <3>2, <3>3
    <2> QED BY <2>9, <2>10
  <1> QED BY <1>4, <1>5 DEF ss, qs, now

LEMMA RemoveAtFacts ==
    ASSUME NEW S, NEW q \in Seq(S), NEW i \in 1..Len(q)
    PROVE  /\ RemoveAt(q, i) \in Seq(S)
           /\ Len(RemoveAt(q, i)) = Len(q) - 1
           /\ \A j \in 1..(Len(q) - 1) :
                RemoveAt(q, i)[j] = IF j < i THEN q[j] ELSE q[j + 1]
  <1> DEFINE l == SubSeq(q, 1, i - 1)
             r == SubSeq(q, i + 1, Len(q))
             t == RemoveAt(q, i)
  <1>0. Len(q) \in Nat /\ \A j \in 1..Len(q) : q[j] \in S
    BY LenProperties, ElementOfSeq
  <1>1. /\ l \in Seq(S) /\ Len(l) = i - 1
        /\ \A j \in 1..(i - 1) : l[j] = q[j]
    BY <1>0, SubSeqProperties
  <1>2. /\ r \in Seq(S) /\ Len(r) = Len(q) - i
        /\ \A j \in 1..(Len(q) - i) : r[j] = q[i + j]
    BY <1>0, SubSeqProperties
  <1>3. t = l \o r
    BY DEF RemoveAt
  <1> HIDE DEF l, r, t
  <1>4. /\ t \in Seq(S) /\ Len(t) = Len(q) - 1
        /\ \A j \in 1..(Len(q) - 1) : t[j] = IF j <= Len(l) THEN l[j] ELSE r[j - Len(l)]
    <2>1. /\ t \in Seq(S)
          /\ Len(t) = Len(l) + Len(r)
          /\ \A j \in 1..(Len(l) + Len(r)) : t[j] = IF j <= Len(l) THEN l[j] ELSE r[j - Len(l)]
      BY <1>1, <1>2, <1>3, ConcatProperties
    <2>2. Len(l) + Len(r) = Len(q) - 1
      BY <1>0, <1>1, <1>2
    <2> QED BY <2>1, <2>2
  <1>5. ASSUME NEW j \in 1..(Len(q) - 1)
        PROVE  t[j] = IF j < i THEN q[j] ELSE q[j + 1]
    <2>1. CASE j < i
      BY <1>0, <1>1, <1>4, <2>1
    <2>2. CASE ~(j < i)
      <3>1. /\ j - Len(l) \in 1..(Len(q) - i)
            /\ i + (j - Len(l)) = j + 1
            /\ ~(j <= Len(l))
        BY <1>0, <1>1, <2>2
      <3> QED BY <1>2, <1>4, <2>2, <3>1
    <2> QED BY <2>1, <2>2
  <1> QED BY <1>4, <1>5 DEF t

\* The place of an element before the removal of the i-th.
Before(i, j) == IF j < i THEN j ELSE j + 1

\* The slots that stay when one is removed.
LEMMA RemovedPooled ==
    ASSUME NEW ss, NEW cc, Pooled(ss, cc), NEW h \in 1..Len(ss)
    PROVE  /\ Pooled(RemoveAt(ss, h), cc)
           /\ \A k \in 1..Len(RemoveAt(ss, h)) :
                 Before(h, k) \in 1..Len(ss) /\ RemoveAt(ss, h)[k] = ss[Before(h, k)]
  <1> DEFINE qs == RemoveAt(ss, h)
  <1>1. /\ ss \in Seq(Slot) /\ cc \in [PromptKeys -> Pool \cup {0}] /\ Lengths(ss)
        /\ OneSlotEach(ss) /\ PublishedIsCached(ss, cc) /\ OthersUncached(ss, cc)
        /\ OthersOwned(ss) /\ OneKeyEach(cc) /\ Len(ss) \in Nat
    BY LenProperties DEF Pooled
  <1>2. /\ qs \in Seq(Slot) /\ Len(qs) = Len(ss) - 1
        /\ \A k \in 1..(Len(ss) - 1) : qs[k] = IF k < h THEN ss[k] ELSE ss[k + 1]
    BY <1>1, RemoveAtFacts
  <1> HIDE DEF qs
  <1>3. ASSUME NEW k \in 1..Len(qs)
        PROVE  Before(h, k) \in 1..Len(ss) /\ qs[k] = ss[Before(h, k)]
    <2>1. k \in 1..(Len(ss) - 1)
      BY <1>2
    <2>2. CASE k < h
      BY <1>2, <2>1, <2>2 DEF Before
    <2>3. CASE ~(k < h)
      <3>1. Before(h, k) = k + 1 /\ k + 1 \in 1..Len(ss)
        BY <1>1, <2>1, <2>3 DEF Before
      <3> QED BY <1>2, <2>1, <2>3, <3>1
    <2> QED BY <2>2, <2>3
  <1>4. \A k, l \in 1..Len(qs) : Before(h, k) = Before(h, l) => k = l
    <2>1. \A k \in 1..Len(qs) : k \in Nat
      BY <1>1, <1>2
    <2> QED BY <2>1 DEF Before
  <1>5. Lengths(qs)
    BY <1>1, <1>3 DEF Lengths
  <1>6. OneSlotEach(qs)
    BY <1>1, <1>3, <1>4 DEF OneSlotEach
  <1>7. PublishedIsCached(qs, cc)
    BY <1>1, <1>3 DEF PublishedIsCached
  <1>8. OthersUncached(qs, cc)
    BY <1>1, <1>3 DEF OthersUncached
  <1>9. OthersOwned(qs)
    <2> SUFFICES ASSUME NEW k \in 1..Len(qs), NEW l \in 1..Len(qs),
                        NEW i \in (qs[k].published + 1)..Len(qs[k].blocks),
                        NEW j \in 1..Len(qs[l].blocks), qs[l].blocks[j] = qs[k].blocks[i]
                 PROVE  l = k /\ j = i
      BY DEF OthersOwned
    <2>1. PICK a \in 1..Len(ss) : a = Before(h, k) /\ qs[k] = ss[a]
      BY <1>3
    <2>2. PICK b \in 1..Len(ss) : b = Before(h, l) /\ qs[l] = ss[b]
      BY <1>3
    <2>3. i \in (ss[a].published + 1)..Len(ss[a].blocks) /\ j \in 1..Len(ss[b].blocks)
      BY <2>1, <2>2
    <2>4. ss[b].blocks[j] = ss[a].blocks[i]
      BY <2>1, <2>2
    <2>5. b = a /\ j = i
      BY <1>1, <2>3, <2>4 DEF OthersOwned
    <2> QED BY <1>4, <2>1, <2>2, <2>5
  <1> QED BY <1>1, <1>2, <1>3, <1>5, <1>6, <1>7, <1>8, <1>9 DEF Pooled, qs

\* A bounded set of numbers with an element has a largest one.
LEMMA Greatest ==
    ASSUME NEW m \in Nat, NEW S \in SUBSET (0..m), S # {}
    PROVE  LargestOf(S) \in S /\ \A y \in S : y <= LargestOf(S)
  <1> DEFINE T == {x \in 0..m : m - x \in S}
  <1>1. T \in SUBSET Nat
    OBVIOUS
  <1>2. \A y \in S : y \in 0..m /\ m - y \in T
    <2> TAKE y \in S
    <2>1. y \in 0..m /\ m - y \in 0..m /\ m - (m - y) = y
      OBVIOUS
    <2> QED BY <2>1
  <1>3. T # {}
    BY <1>2
  <1>7. \A x \in T : x \in 0..m /\ m - x \in S
    OBVIOUS
  <1> HIDE DEF T
  <1>4. PICK x \in T : \A y \in T : x <= y
    BY <1>1, <1>3, Least
  <1>5. m - x \in S /\ x \in 0..m
    BY <1>7
  <1>6. ASSUME NEW y \in S PROVE y <= m - x
    <2>1. y \in 0..m /\ x <= m - y
      BY <1>2, <1>4
    <2> QED BY <1>5, <2>1
  <1> QED BY <1>5, <1>6 DEF LargestOf

\* The hits of a prompt leave at least a token of it.
LEMMA HitsFacts ==
    ASSUME NEW r
    PROVE  LET h == Hits(r)
           IN /\ h \in Nat /\ h * BlockSize \in Nat /\ h * BlockSize < PromptLen
              /\ h <= PromptLen \div BlockSize /\ (h * BlockSize) \div BlockSize = h
              /\ FilledPrompt(h * BlockSize) = h /\ BlocksFor(h * BlockSize) = h
              /\ \A i \in 1..h : cached[Key(r, i)] # 0
  <1> DEFINE m == (PromptLen - 1) \div BlockSize
             S == {i \in 0..m : \A j \in 1..i : cached[Key(r, j)] # 0}
  <1>0. BlockSize \in Nat \ {0} /\ PromptLen \in Nat /\ PrefixBlocks \in Nat
        /\ PrefixBlocks * BlockSize < PromptLen
    BY Sizes
  <1>1. PrefixBlocks * BlockSize \in Nat
    BY <1>0, Times
  <1>2. PromptLen - 1 \in Nat
    BY <1>0, <1>1
  <1>3. m \in Nat /\ m <= PromptLen \div BlockSize /\ PromptLen \div BlockSize \in Nat
    <2>1. m \in Nat /\ PromptLen \div BlockSize \in Nat
      BY <1>0, <1>2, Split
    <2>2. PromptLen - 1 <= PromptLen
      BY <1>0
    <2>3. m <= PromptLen \div BlockSize
      BY <1>0, <1>2, <2>2, LaterBlock
    <2> QED BY <2>1, <2>3
  <1>4. 0 \in S
    BY <1>3
  <1>5. S \in SUBSET (0..m) /\ S # {}
    BY <1>4
  <1> HIDE DEF m
  <1>6. LargestOf(S) \in S
    BY <1>3, <1>5, Greatest
  <1>7. Hits(r) = LargestOf(S)
    BY DEF Hits, m
  <1>8. PICK h \in 0..m : h = Hits(r) /\ \A j \in 1..h : cached[Key(r, j)] # 0
    BY <1>6, <1>7
  <1>9. h \in Nat /\ h <= m
    BY <1>3
  <1>10. h * BlockSize <= PromptLen - 1 /\ h * BlockSize \in Nat
    <2>1. PICK k \in Nat, i \in 0..(BlockSize - 1) : k = m /\ PromptLen - 1 = k * BlockSize + i
      BY <1>2, Split DEF m
    <2>2. h = k \/ h < k
      BY <1>9, <2>1
    <2>3. h * BlockSize <= k * BlockSize
      BY <1>0, <1>9, <2>2, Earlier, Times
    <2>4. h * BlockSize \in Nat /\ k * BlockSize \in Nat
      BY <1>9, Times
    <2> QED BY <1>0, <2>1, <2>3, <2>4
  <1>11. h * BlockSize = h * BlockSize + 0 /\ 0 \in 0..(BlockSize - 1) /\ BlockSize - 1 \in 0..(BlockSize - 1)
    BY <1>0, <1>10
  <1>12. (h * BlockSize) \div BlockSize = h
    BY <1>9, <1>11, DivMod
  <1>13. BlocksFor(h * BlockSize) = h
    <2>1. PICK n \in Nat : n = h * BlockSize
      BY <1>10
    <2>2. n + BlockSize - 1 = h * BlockSize + (BlockSize - 1)
      BY <1>0, <2>1
    <2>3. (n + BlockSize - 1) \div BlockSize = h
      BY <1>9, <1>11, <2>2, DivMod
    <2> QED BY <2>1, <2>3 DEF BlocksFor
  <1>14. h * BlockSize < PromptLen
    BY <1>0, <1>10
  <1>15. FilledPrompt(h * BlockSize) = h
    BY <1>12, <1>14 DEF FilledPrompt
  <1>16. h <= PromptLen \div BlockSize
    BY <1>3, <1>9
  <1> QED BY <1>8, <1>9, <1>10, <1>12, <1>13, <1>14, <1>15, <1>16

\* A new slot: the cached blocks of its prompt.
LEMMA AdmittedPooled ==
    ASSUME Pooled(slots, cached), NEW r \in RequestId, \A k \in 1..Len(slots) : slots[k].req # r,
           NEW s, s = [req |-> r, n |-> Hits(r) * BlockSize, published |-> Hits(r),
                       blocks |-> [i \in 1..Hits(r) |-> cached[Key(r, i)]]]
    PROVE  /\ Pooled(Append(slots, s), cached) /\ Len(Append(slots, s)) = Len(slots) + 1
           /\ \A k \in 1..Len(slots) : Append(slots, s)[k] = slots[k]
           /\ Append(slots, s)[Len(slots) + 1] = s
           /\ s.req = r /\ s.published = FilledPrompt(s.n) /\ s.n < PromptLen /\ s.n \in Nat
           /\ \A d : CacheText(d, cached) => SlotText(d, s, s.n)
  <1> DEFINE qs == Append(slots, s)
             N == Len(slots)
  <1>1. /\ slots \in Seq(Slot) /\ cached \in [PromptKeys -> Pool \cup {0}] /\ Lengths(slots)
        /\ OneSlotEach(slots) /\ PublishedIsCached(slots, cached) /\ OthersUncached(slots, cached)
        /\ OthersOwned(slots) /\ OneKeyEach(cached) /\ N \in Nat
    BY LenProperties DEF Pooled
  <1>2. PICK h \in Nat : /\ h = Hits(r) /\ h * BlockSize \in Nat /\ h * BlockSize < PromptLen
                         /\ h <= PromptLen \div BlockSize /\ (h * BlockSize) \div BlockSize = h
                         /\ FilledPrompt(h * BlockSize) = h /\ BlocksFor(h * BlockSize) = h
                         /\ \A i \in 1..h : cached[Key(r, i)] # 0
    BY HitsFacts
  <1>3. PromptLen \div BlockSize \in Nat
    BY Sizes, Split
  <1>4. ASSUME NEW i \in 1..h
        PROVE  i \in 1..(PromptLen \div BlockSize) /\ i \in Nat \ {0} /\ Key(r, i) \in PromptKeys
    <2>1. i \in 1..(PromptLen \div BlockSize) /\ i \in Nat \ {0}
      BY <1>2, <1>3
    <2> QED BY <2>1, KeyFacts
  <1> DEFINE bl == [i \in 1..h |-> cached[Key(r, i)]]
  <1>5. bl \in Seq(Pool) /\ Len(bl) = h
    <2>1. \A i \in 1..h : cached[Key(r, i)] \in Pool
      BY <1>1, <1>2, <1>4
    <2>2. bl \in [1..h -> Pool]
      BY <2>1
    <2> QED BY <2>2, FunctionIsSeq
  <1>6. \A i \in 1..h : bl[i] = cached[Key(r, i)]
    OBVIOUS
  <1>7. s = [req |-> r, n |-> h * BlockSize, published |-> h, blocks |-> bl]
    BY <1>2
  <1> HIDE DEF bl
  <1>8. s \in Slot /\ s.req = r /\ s.n = h * BlockSize /\ s.published = h /\ s.blocks = bl
    BY <1>2, <1>5, <1>7 DEF Slot
  <1>9. /\ qs \in Seq(Slot) /\ Len(qs) = N + 1 /\ qs[N + 1] = s
        /\ \A k \in 1..N : qs[k] = slots[k]
    BY <1>1, <1>8, AppendProperties
  <1> HIDE DEF qs
  <1>10. ASSUME NEW k \in 1..Len(qs)
         PROVE  (k \in 1..N /\ qs[k] = slots[k]) \/ (k = N + 1 /\ qs[k] = s)
    BY <1>1, <1>9
  <1>11. Lengths(qs)
    <2>1. BlocksFor(s.n) <= Len(s.blocks) /\ s.published <= FilledPrompt(s.n)
      <3>1. h <= h
        OBVIOUS
      <3> QED BY <1>2, <1>5, <1>8, <3>1
    <2> QED BY <1>1, <1>10, <2>1 DEF Lengths
  <1>12. OneSlotEach(qs)
    <2>1. \A k \in 1..N : slots[k].req # s.req
      BY <1>8
    <2> SUFFICES ASSUME NEW k \in 1..Len(qs), NEW l \in 1..Len(qs), qs[k].req = qs[l].req PROVE k = l
      BY DEF OneSlotEach
    <2> QED BY <1>1, <1>10, <2>1 DEF OneSlotEach
  <1>13. PublishedIsCached(qs, cached)
    <2>1. \A i \in 1..s.published : cached[Key(s.req, i)] = s.blocks[i]
      BY <1>6, <1>8
    <2> SUFFICES ASSUME NEW k \in 1..Len(qs), NEW i \in 1..qs[k].published
                 PROVE  cached[Key(qs[k].req, i)] = qs[k].blocks[i]
      BY DEF PublishedIsCached
    <2>2. CASE k \in 1..N /\ qs[k] = slots[k]
      <3>1. i \in 1..slots[k].published
        BY <2>2
      <3>2. cached[Key(slots[k].req, i)] = slots[k].blocks[i]
        BY <1>1, <2>2, <3>1 DEF PublishedIsCached
      <3> QED BY <2>2, <3>2
    <2>3. CASE k = N + 1 /\ qs[k] = s
      <3>1. i \in 1..s.published
        BY <2>3
      <3> QED BY <2>1, <2>3, <3>1
    <2> QED BY <1>10, <2>2, <2>3
  <1>14. (s.published + 1)..Len(s.blocks) = {}
    BY <1>5, <1>8
  <1>15. OthersUncached(qs, cached)
    <2> SUFFICES ASSUME NEW k \in 1..Len(qs), NEW i \in (qs[k].published + 1)..Len(qs[k].blocks),
                        NEW key \in PromptKeys
                 PROVE  cached[key] # qs[k].blocks[i]
      BY DEF OthersUncached
    <2>1. k \in 1..N /\ qs[k] = slots[k]
      BY <1>10, <1>14
    <2> QED BY <1>1, <2>1 DEF OthersUncached
  <1>16. OthersOwned(qs)
    <2> SUFFICES ASSUME NEW k \in 1..Len(qs), NEW l \in 1..Len(qs),
                        NEW i \in (qs[k].published + 1)..Len(qs[k].blocks),
                        NEW j \in 1..Len(qs[l].blocks), qs[l].blocks[j] = qs[k].blocks[i]
                 PROVE  l = k /\ j = i
      BY DEF OthersOwned
    <2>1. k \in 1..N /\ qs[k] = slots[k]
      BY <1>10, <1>14
    <2>2. i \in (slots[k].published + 1)..Len(slots[k].blocks)
      BY <2>1
    <2>3. CASE l \in 1..N /\ qs[l] = slots[l]
      <3>1. j \in 1..Len(slots[l].blocks) /\ slots[l].blocks[j] = slots[k].blocks[i]
        BY <2>1, <2>3
      <3> QED BY <1>1, <2>1, <2>2, <2>3, <3>1 DEF OthersOwned
    <2>4. CASE l = N + 1 /\ qs[l] = s
      <3>1. j \in 1..h
        BY <1>5, <1>8, <2>4
      <3>2. s.blocks[j] = cached[Key(r, j)] /\ Key(r, j) \in PromptKeys
        BY <1>4, <1>6, <1>8, <3>1
      <3>3. cached[Key(r, j)] = slots[k].blocks[i]
        BY <2>1, <2>4, <3>2
      <3> QED BY <1>1, <2>1, <2>2, <3>2, <3>3 DEF OthersUncached
    <2> QED BY <1>10, <2>3, <2>4
  <1>17. Pooled(qs, cached)
    BY <1>1, <1>9, <1>11, <1>12, <1>13, <1>15, <1>16 DEF Pooled
  <1>18. ASSUME NEW d, CacheText(d, cached) PROVE SlotText(d, s, s.n)
    <2> SUFFICES ASSUME NEW p \in 0..(s.n - 1)
                 PROVE  d.mem[AddressOf(s.blocks, p)] = Text(s.req, p)
      BY DEF SlotText
    <2>1. p \in Nat /\ s.n \in Nat
      BY <1>2, <1>8
    <2>2. /\ p \div BlockSize \in Nat /\ p % BlockSize \in 0..(BlockSize - 1)
          /\ p = (p \div BlockSize) * BlockSize + (p % BlockSize)
      BY <2>1, Split
    <2>3. p \div BlockSize + 1 \in 1..BlocksFor(s.n)
      BY <2>1, BlocksForFacts
    <2>4. BlocksFor(s.n) = h
      BY <1>2, <1>8
    <2>5. PICK i \in 1..h : i = p \div BlockSize + 1
      BY <2>3, <2>4
    <2>6. i - 1 = p \div BlockSize
      BY <2>2, <2>5
    <2>7. AddressOf(s.blocks, p) = <<cached[Key(r, i)], p % BlockSize>>
      BY <1>6, <1>8, <2>5 DEF AddressOf
    <2>8. d.mem[<<cached[Key(r, i)], p % BlockSize>>]
            = <<Key(r, i)[1], (Key(r, i)[2] - 1) * BlockSize + (p % BlockSize)>>
      BY <1>2, <1>4, <1>18, <2>2 DEF CacheText
    <2>9. <<Key(r, i)[1], (Key(r, i)[2] - 1) * BlockSize + (p % BlockSize)>>
            = Text(r, (i - 1) * BlockSize + (p % BlockSize))
      BY <1>4, <2>2, KeyText
    <2>10. (i - 1) * BlockSize + (p % BlockSize) = p
      BY <2>2, <2>6
    <2> QED BY <1>8, <2>7, <2>8, <2>9, <2>10
  <1> QED BY <1>2, <1>8, <1>9, <1>17, <1>18 DEF qs

-----------------------------------------------------------------------------
(* A forward.                                                              *)

LEMMA TextFacts ==
    ASSUME NEW r \in RequestId, NEW p \in Nat
    PROVE  /\ Text(r, p)[2] = p /\ Text(r, p) # Junk
           /\ \A q \in 0..p : Text(Text(r, p)[1], q) = Text(r, q)
           /\ p + 1 >= PromptLen => Successor(Text(r, p)) = Text(r, p + 1)
  <1>0. PrefixBlocks * BlockSize \in Nat /\ PromptLen \in Nat /\ PrefixBlocks * BlockSize < PromptLen
    BY Sizes, Times
  <1> DEFINE shared == PrefixBlocks * BlockSize
  <1> HIDE DEF shared
  <1>1. \A x, q : Text(x, q) = IF q < shared THEN <<Prefix, q>> ELSE <<x, q>>
    BY DEF Text, shared
  <1>2. Text(r, p)[2] = p
    BY <1>1
  <1>3. Text(r, p) # Junk
    BY <1>2 DEF Junk
  <1>4. shared \in Nat /\ PromptLen \in Nat /\ shared < PromptLen
    BY <1>0 DEF shared
  <1>5. ASSUME NEW q \in 0..p PROVE Text(Text(r, p)[1], q) = Text(r, q)
    <2>1. CASE p < shared
      <3>1. q < shared
        BY <1>4, <2>1
      <3> QED BY <1>1, <3>1
    <2>2. CASE ~(p < shared)
      <3>1. Text(r, p)[1] = r
        BY <1>1, <2>2
      <3> QED BY <3>1
    <2> QED BY <2>1, <2>2
  <1>6. ASSUME p + 1 >= PromptLen PROVE Successor(Text(r, p)) = Text(r, p + 1)
    <2>1. ~(p < shared) /\ ~(p + 1 < shared)
      BY <1>4, <1>6
    <2>2. Text(r, p) = <<r, p>> /\ Text(r, p + 1) = <<r, p + 1>>
      BY <1>1, <2>1
    <2> QED BY <1>3, <2>2 DEF Successor
  <1> QED BY <1>2, <1>3, <1>5, <1>6

\* What a slot, or a padding slot, brings to a step.
Item(x, c) ==
    /\ x.n \in Nat /\ c \in Nat /\ c <= x.n /\ PagesOf(x.n) \in Nat
    /\ Len(SubSeq(x.blocks, 1, PagesOf(x.n))) = PagesOf(x.n)
    /\ \A i \in 1..PagesOf(x.n) : SubSeq(x.blocks, 1, PagesOf(x.n))[i] = x.blocks[i]

\* The items xs of a layout with c new tokens each: slots, or padding.
Items(xs, c, n) ==
    n \in Nat /\ Len(xs) = n /\ c \in [1..n -> Nat] /\ \A k \in 1..n : Item(xs[k], c[k])

\* The pages of each item.
Pages(xs) == [k \in 1..Len(xs) |-> PagesOf(xs[k].n)]

\* Where a step's layout has what.
LEMMA LayoutFacts ==
    ASSUME NEW n, NEW xs, NEW c, Items(xs, c, n), NEW pages, pages = Pages(xs)
    PROVE  /\ pages \in [1..n -> Nat] /\ LayoutShape(Layout(xs, c))
           /\ Len(Layout(xs, c).write) = Total(c)
           /\ \A k \in 1..n : \A j \in 1..c[k] :
                 Layout(xs, c).write[Bounds(c)[k] + j] = AddressOf(xs[k].blocks, xs[k].n - c[k] + j - 1)
           /\ Layout(xs, c).qo = Bounds(c) /\ Layout(xs, c).indptr = Bounds(pages)
           /\ DOMAIN Layout(xs, c).indices = 1..Total(pages)
           /\ Len(Layout(xs, c).indices) = Total(pages)
           /\ \A k \in 1..n : \A i \in 1..pages[k] :
                 Layout(xs, c).indices[Bounds(pages)[k] + i] = xs[k].blocks[i]
           /\ \A k \in 1..n : Layout(xs, c).last[k] = LastPageLen(xs[k].n)
  <1> DEFINE row(k) == [j \in 1..c[k] |-> AddressOf(xs[k].blocks, xs[k].n - c[k] + j - 1)]
             page(k) == SubSeq(xs[k].blocks, 1, PagesOf(xs[k].n))
             rows == [k \in 1..n |-> row(k)]
             tables == [k \in 1..n |-> page(k)]
             L == Layout(xs, c)
  <1>0. n \in Nat /\ Len(xs) = n /\ \A k \in 1..n : Item(xs[k], c[k])
    BY DEF Items
  <1>14. c \in [1..n -> Nat]
    BY DEF Items
  <1>1. L = [write |-> Flat(rows), qo |-> Bounds(c), indptr |-> Bounds(pages), indices |-> Flat(tables),
             last |-> [k \in 1..n |-> LastPageLen(xs[k].n)]]
    BY <1>0 DEF Layout, Pages
  <1> HIDE DEF L
  <1>2. \A k \in 1..n : PagesOf(xs[k].n) \in Nat /\ Len(page(k)) = PagesOf(xs[k].n)
                        /\ \A i \in 1..PagesOf(xs[k].n) : page(k)[i] = xs[k].blocks[i]
    BY <1>0 DEF Item
  <1>3. pages \in [1..n -> Nat] /\ \A k \in 1..n : pages[k] = PagesOf(xs[k].n)
    BY <1>0, <1>2 DEF Pages
  <1>4. ASSUME NEW k \in 1..n
        PROVE  Len(row(k)) = c[k] /\ \A j \in 1..c[k] : row(k)[j] = AddressOf(xs[k].blocks, xs[k].n - c[k] + j - 1)
    <2>1. c[k] \in Nat
      BY <1>14
    <2>2. row(k) \in [1..c[k] -> {row(k)[j] : j \in 1..c[k]}]
      OBVIOUS
    <2> QED BY <2>1, <2>2, FunctionIsSeq
  <1> HIDE DEF row, page
  <1>5. Len(rows) = n /\ \A k \in 1..n : rows[k] = row(k)
    <2>1. rows \in [1..n -> {row(k) : k \in 1..n}]
      OBVIOUS
    <2> QED BY <1>0, <2>1, FunctionIsSeq
  <1>6. Len(tables) = n /\ \A k \in 1..n : tables[k] = page(k)
    <2>1. tables \in [1..n -> {page(k) : k \in 1..n}]
      OBVIOUS
    <2> QED BY <1>0, <2>1, FunctionIsSeq
  <1> HIDE DEF rows, tables
  <1>7. /\ Len(Flat(rows)) = Total(c)
        /\ \A k \in 1..n : \A j \in 1..c[k] : Flat(rows)[Bounds(c)[k] + j] = rows[k][j]
    <2>1. \A k \in 1..n : Len(rows[k]) = c[k]
      BY <1>4, <1>5
    <2>2. Laid(n, rows, c)
      BY <1>5, <2>1 DEF Laid
    <2> QED BY <1>0, <1>14, <2>2, FlatFacts
  <1>8. /\ Len(Flat(tables)) = Total(pages) /\ DOMAIN Flat(tables) = 1..Total(pages)
        /\ \A k \in 1..n : \A j \in 1..pages[k] : Flat(tables)[Bounds(pages)[k] + j] = tables[k][j]
    <2>1. \A k \in 1..n : Len(tables[k]) = pages[k]
      BY <1>2, <1>3, <1>6
    <2>2. Laid(n, tables, pages)
      BY <1>6, <2>1 DEF Laid
    <2>3. \A g \in [1..n -> Nat] : Laid(n, tables, g) =>
            /\ Len(Flat(tables)) = Total(g) /\ DOMAIN Flat(tables) = 1..Total(g)
            /\ \A k \in 1..n : \A j \in 1..g[k] : Flat(tables)[Bounds(g)[k] + j] = tables[k][j]
      BY <1>0, FlatFacts
    <2> QED BY <1>3, <2>2, <2>3
  <1>9. /\ L.write = Flat(rows) /\ L.qo = Bounds(c) /\ L.indptr = Bounds(pages) /\ L.indices = Flat(tables)
        /\ L.last = [k \in 1..n |-> LastPageLen(xs[k].n)]
    BY <1>1
  <1>10. LayoutShape(L)
    BY <1>1 DEF LayoutShape
  <1>11. \A k \in 1..n : \A j \in 1..c[k] :
            L.write[Bounds(c)[k] + j] = AddressOf(xs[k].blocks, xs[k].n - c[k] + j - 1)
    <2> TAKE k \in 1..n
    <2> TAKE j \in 1..c[k]
    <2>1. row(k)[j] = AddressOf(xs[k].blocks, xs[k].n - c[k] + j - 1)
      BY <1>4
    <2>2. Flat(rows)[Bounds(c)[k] + j] = rows[k][j]
      BY <1>7
    <2> QED BY <1>5, <1>9, <2>1, <2>2
  <1>12. \A k \in 1..n : \A i \in 1..pages[k] : L.indices[Bounds(pages)[k] + i] = xs[k].blocks[i]
    <2> TAKE k \in 1..n
    <2> TAKE i \in 1..pages[k]
    <2>1. i \in 1..PagesOf(xs[k].n)
      BY <1>3
    <2>2. page(k)[i] = xs[k].blocks[i]
      BY <1>2, <2>1
    <2>3. tables[k][i] = xs[k].blocks[i]
      BY <1>6, <2>2
    <2>4. Flat(tables)[Bounds(pages)[k] + i] = tables[k][i]
      BY <1>8
    <2> QED BY <1>9, <2>3, <2>4
  <1>13. \A k \in 1..n : L.last[k] = LastPageLen(xs[k].n)
    BY <1>9
  <1> QED BY <1>3, <1>7, <1>8, <1>9, <1>10, <1>11, <1>12, <1>13 DEF L

\* How the rows of the slots ss, that advanced by c, are written and read.
Describes(write, p, ss, c) ==
    /\ Len(write) \in Nat
    /\ \A k \in 1..Len(ss) : \A j \in 1..c[k] :
          /\ Bounds(c)[k] + j \in 1..Len(write)
          /\ write[Bounds(c)[k] + j] = AddressOf(ss[k].blocks, ss[k].n - c[k] + j - 1)
          /\ \A stored : Reads(stored, p, Bounds(c)[k] + j)
                             = [x \in 1..(ss[k].n - c[k] + j) |-> stored[AddressOf(ss[k].blocks, x - 1)]]
    /\ \A i \in 1..Len(write) :
          \/ \E k \in 1..Len(ss) : \E j \in 1..c[k] : i = Bounds(c)[k] + j
          \/ write[i][1] \notin Pool

\* Slot k of the layout p advanced by c[k] to m, and has these blocks.
PagesAt(p, k, m, n, c, pages, blocks) ==
    /\ n \in Nat /\ k \in 1..n /\ m \in Nat \ {0}
    /\ c \in [1..n -> Nat] /\ pages \in [1..n -> Nat]
    /\ c[k] <= m /\ pages[k] = BlocksFor(m)
    /\ p.qo = Bounds(c) /\ p.indptr = Bounds(pages) /\ DOMAIN p.indices = 1..Total(pages)
    /\ \A i \in 1..pages[k] : p.indices[Bounds(pages)[k] + i] = blocks[i]
    /\ p.last[k] = LastPageLen(m)

\* A row reads its slot's positions up to its own.
LEMMA RowReads ==
    ASSUME NEW p, NEW k, NEW m, NEW n, NEW c, NEW pages, NEW blocks,
           PagesAt(p, k, m, n, c, pages, blocks), NEW j \in 1..c[k], NEW stored
    PROVE  Reads(stored, p, Bounds(c)[k] + j) = [x \in 1..(m - c[k] + j) |-> stored[AddressOf(blocks, x - 1)]]
  <1> DEFINE i == Bounds(c)[k] + j
             at == SegmentAt(p.qo, i)
             len == (p.indptr[at + 1] - p.indptr[at] - 1) * BlockSize + p.last[at]
             page(x) == p.indptr[at] + ((x - 1) \div BlockSize) + 1
             read(x) == IF page(x) \in DOMAIN p.indices
                        THEN stored[<<p.indices[page(x)], (x - 1) % BlockSize>>] ELSE Junk
  <1> USE DEF PagesAt
  <1>1. Reads(stored, p, i) = [x \in 1..(len - (p.qo[at + 1] - i)) |-> read(x)]
    BY DEF Reads
  <1>2. at = k
    <2>1. SegmentAt(Bounds(c), Bounds(c)[k] + j) = k
      BY SegmentIs
    <2> QED BY <2>1
  <1>3. PICK a \in Nat, b \in Nat : a = Bounds(pages)[k] /\ b = Bounds(pages)[k + 1] /\ b = a + BlocksFor(m)
    <2>1. /\ Bounds(pages) \in [1..(n + 1) -> Nat]
          /\ \A l \in 1..n : Bounds(pages)[l + 1] = Bounds(pages)[l] + pages[l]
      BY BoundsFacts
    <2>2. k \in 1..(n + 1) /\ k + 1 \in 1..(n + 1)
      OBVIOUS
    <2> QED BY <2>1, <2>2
  <1>4. PICK u \in Nat, v \in Nat : u = Bounds(c)[k] /\ v = Bounds(c)[k + 1] /\ v = u + c[k]
    <2>1. /\ Bounds(c) \in [1..(n + 1) -> Nat]
          /\ \A l \in 1..n : Bounds(c)[l + 1] = Bounds(c)[l] + c[l]
      BY BoundsFacts
    <2>2. k \in 1..(n + 1) /\ k + 1 \in 1..(n + 1)
      OBVIOUS
    <2> QED BY <2>1, <2>2
  <1>5. /\ BlocksFor(m) \in Nat /\ (BlocksFor(m) - 1) * BlockSize + ((m - 1) % BlockSize) + 1 = m
        /\ \A q \in 0..(m - 1) : q \div BlockSize + 1 \in 1..BlocksFor(m)
    BY BlocksForFacts
  <1>6. p.indptr[at + 1] = b /\ p.indptr[at] = a /\ p.last[at] = ((m - 1) % BlockSize) + 1
    BY <1>2, <1>3 DEF LastPageLen
  <1>7. len = m
    <2>1. b - a - 1 = BlocksFor(m) - 1
      BY <1>3, <1>5
    <2>2. len = (BlocksFor(m) - 1) * BlockSize + (((m - 1) % BlockSize) + 1)
      BY <1>6, <2>1
    <2>3. (BlocksFor(m) - 1) * BlockSize \in Int /\ (m - 1) % BlockSize \in Int
      <3>1. BlocksFor(m) - 1 \in Int /\ BlockSize \in Int
        BY <1>5, Sizes
      <3>2. (m - 1) % BlockSize \in Int
        BY Split, m - 1 \in Nat
      <3> QED BY <3>1, <3>2
    <2> HIDE DEF len
    <2> QED BY <1>5, <2>2, <2>3
  <1>8. p.qo[at + 1] = v /\ i = u + j
    BY <1>2, <1>4
  <1>9. len - (p.qo[at + 1] - i) = m - c[k] + j
    <2>1. PICK w \in Nat : w = c[k]
      OBVIOUS
    <2>2. j \in Nat
      BY <2>1
    <2>3. v = u + w
      BY <1>4, <2>1
    <2> HIDE DEF len, at, i
    <2>4. m - (v - (u + j)) = m - w + j
      BY <2>2, <2>3, u \in Nat, m \in Nat, w \in Nat
    <2>5. len - (p.qo[at + 1] - i) = m - (v - (u + j))
      BY <1>7, <1>8
    <2>6. m - w + j = m - c[k] + j
      BY <2>1
    <2> QED BY <2>4, <2>5, <2>6
  <1> HIDE DEF len
  <1>10. ASSUME NEW x \in 1..(m - c[k] + j) PROVE read(x) = stored[AddressOf(blocks, x - 1)]
    <2>1. c[k] \in Nat /\ j \in Nat /\ j <= c[k]
      OBVIOUS
    <2>2. x - 1 \in 0..(m - 1)
      BY <2>1
    <2>3. PICK h \in 1..BlocksFor(m) : h = (x - 1) \div BlockSize + 1
      BY <1>5, <2>2
    <2>4. (x - 1) \div BlockSize \in Nat
      <3>1. \A q \in Nat : q \div BlockSize \in Nat
        BY Split
      <3>2. x - 1 \in Nat
        BY <2>2
      <3> QED BY <3>1, <3>2
    <2>5. page(x) = a + h
      <3>1. page(x) = a + ((x - 1) \div BlockSize) + 1
        BY <1>6
      <3> HIDE DEF page
      <3> QED BY <2>3, <2>4, <3>1
    <2>6. a + h \in 1..Total(pages)
      <3>1. h \in 1..pages[k]
        OBVIOUS
      <3>2. Bounds(pages)[k] + h \in 1..Total(pages)
        BY <3>1, SegmentIs
      <3> QED BY <1>3, <3>2
    <2>7. p.indices[a + h] = blocks[h]
      <3>1. h \in 1..pages[k]
        OBVIOUS
      <3> QED BY <1>3, <3>1
    <2>8. AddressOf(blocks, x - 1) = <<blocks[h], (x - 1) % BlockSize>>
      BY <2>3 DEF AddressOf
    <2> HIDE DEF page
    <2> QED BY <2>5, <2>6, <2>7, <2>8
  <1> HIDE DEF read, at, i
  <1> QED BY <1>1, <1>9, <1>10 DEF i

\* The items xs of a layout are the slots ss and padding after them.
Serves(xs, c, ss, c0) ==
    /\ Len(xs) \in Nat /\ Len(ss) \in Nat /\ Len(ss) <= Len(xs)
    /\ c \in [1..Len(xs) -> Nat] /\ c0 \in [1..Len(ss) -> Nat]
    /\ \A k \in 1..Len(xs) : Item(xs[k], c[k])
    /\ \A k \in 1..Len(ss) : xs[k].blocks = ss[k].blocks /\ xs[k].n = ss[k].n /\ c[k] = c0[k]
    /\ \A k \in (Len(ss) + 1)..Len(xs) : \A i \in 1..PagesOf(xs[k].n) : xs[k].blocks[i] \notin Pool

LEMMA LayoutDescribes ==
    ASSUME NEW xs, NEW c, NEW ss, NEW c0, Serves(xs, c, ss, c0)
    PROVE  Describes(Layout(xs, c).write, Layout(xs, c), ss, c0) /\ LayoutShape(Layout(xs, c))
  <1>1. PICK n \in Nat : n = Len(xs)
    BY DEF Serves
  <1>2. PICK m \in Nat : m = Len(ss)
    BY DEF Serves
  <1>3. PICK pages : pages = Pages(xs)
    OBVIOUS
  <1>4. PICK p : p = Layout(xs, c)
    OBVIOUS
  <1>5. c \in [1..n -> Nat]
    BY <1>1 DEF Serves
  <1>6. c0 \in [1..m -> Nat]
    BY <1>2 DEF Serves
  <1>7. /\ m <= n /\ \A k \in 1..n : Item(xs[k], c[k])
        /\ \A k \in 1..m : xs[k].blocks = ss[k].blocks /\ xs[k].n = ss[k].n /\ c[k] = c0[k]
        /\ \A k \in (m + 1)..n : \A i \in 1..PagesOf(xs[k].n) : xs[k].blocks[i] \notin Pool
    BY <1>1, <1>2 DEF Serves
  <1>8. /\ pages \in [1..n -> Nat] /\ LayoutShape(p) /\ Len(p.write) = Total(c)
        /\ \A k \in 1..n : \A j \in 1..c[k] :
              p.write[Bounds(c)[k] + j] = AddressOf(xs[k].blocks, xs[k].n - c[k] + j - 1)
        /\ p.qo = Bounds(c) /\ p.indptr = Bounds(pages)
        /\ DOMAIN p.indices = 1..Total(pages)
        /\ \A k \in 1..n : \A i \in 1..pages[k] : p.indices[Bounds(pages)[k] + i] = xs[k].blocks[i]
        /\ \A k \in 1..n : p.last[k] = LastPageLen(xs[k].n)
    <2>1. Items(xs, c, n)
      BY <1>1, <1>5, <1>7 DEF Items
    <2>2. /\ pages \in [1..n -> Nat] /\ LayoutShape(Layout(xs, c))
          /\ Len(Layout(xs, c).write) = Total(c)
          /\ \A k \in 1..n : \A j \in 1..c[k] :
                Layout(xs, c).write[Bounds(c)[k] + j] = AddressOf(xs[k].blocks, xs[k].n - c[k] + j - 1)
          /\ Layout(xs, c).qo = Bounds(c) /\ Layout(xs, c).indptr = Bounds(pages)
          /\ DOMAIN Layout(xs, c).indices = 1..Total(pages)
          /\ \A k \in 1..n : \A i \in 1..pages[k] :
                Layout(xs, c).indices[Bounds(pages)[k] + i] = xs[k].blocks[i]
          /\ \A k \in 1..n : Layout(xs, c).last[k] = LastPageLen(xs[k].n)
      BY <1>3, <2>1, LayoutFacts
    <2> QED BY <1>4, <2>2
  <1>9. \A k \in 1..n : pages[k] = PagesOf(xs[k].n)
    BY <1>1, <1>3 DEF Pages
  <1>10. \A k \in 1..m : Bounds(c0)[k] = Bounds(c)[k]
    <2>1. \A k \in 1..(m + 1) : Bounds(c0)[k] = Bounds(c)[k]
      BY <1>5, <1>6, <1>7, SameBounds
    <2> QED BY <2>1
  <1>11. Total(c) \in Nat
    BY <1>5, BoundsFacts
  <1>12. ASSUME NEW k \in 1..m, NEW j \in 1..c0[k]
         PROVE  /\ Bounds(c0)[k] + j \in 1..Total(c)
                /\ p.write[Bounds(c0)[k] + j] = AddressOf(ss[k].blocks, ss[k].n - c0[k] + j - 1)
                /\ \A stored : Reads(stored, p, Bounds(c0)[k] + j)
                        = [x \in 1..(ss[k].n - c0[k] + j) |-> stored[AddressOf(ss[k].blocks, x - 1)]]
    <2>1. PICK h \in 1..n : h = k
      BY <1>7
    <2>2. j \in 1..c[h]
      BY <1>7, <2>1
    <2>3. PICK size \in Nat : size = xs[h].n
      BY <1>7 DEF Item
    <2>4. c[h] <= size /\ size # 0
      <3>1. c[h] <= size
        BY <1>7, <2>3 DEF Item
      <3>2. c[h] \in Nat
        BY <1>5
      <3> QED BY <2>2, <3>1, <3>2
    <2>5. pages[h] = BlocksFor(size)
      BY <1>9, <2>3, <2>4 DEF PagesOf
    <2>6. Bounds(c)[h] + j \in 1..Total(c)
      BY <1>5, <2>2, SegmentIs
    <2>7. p.write[Bounds(c)[h] + j] = AddressOf(xs[h].blocks, size - c[h] + j - 1)
      BY <1>8, <2>2, <2>3
    <2>8. PICK blocks : blocks = xs[h].blocks
      OBVIOUS
    <2>9. \A stored : Reads(stored, p, Bounds(c)[h] + j)
                         = [x \in 1..(size - c[h] + j) |-> stored[AddressOf(blocks, x - 1)]]
      <3> TAKE stored
      <3>1. \A i \in 1..pages[h] : p.indices[Bounds(pages)[h] + i] = blocks[i]
        BY <1>8, <2>8
      <3>2. p.last[h] = LastPageLen(size)
        BY <1>8, <2>3
      <3>3. p.qo = Bounds(c) /\ p.indptr = Bounds(pages) /\ DOMAIN p.indices = 1..Total(pages)
        BY <1>8
      <3>4. pages \in [1..n -> Nat]
        BY <1>8
      <3>5. size \in Nat \ {0}
        BY <2>4
      <3>6. PagesAt(p, h, size, n, c, pages, blocks)
        BY <1>5, <2>4, <2>5, <3>1, <3>2, <3>3, <3>4, <3>5 DEF PagesAt
      <3>7. \A z \in 1..c[h] : Reads(stored, p, Bounds(c)[h] + z)
                = [x \in 1..(size - c[h] + z) |-> stored[AddressOf(blocks, x - 1)]]
        BY <3>6, RowReads
      <3> QED BY <2>2, <3>7
    <2>10. Bounds(c0)[k] = Bounds(c)[h] /\ ss[k].blocks = blocks /\ ss[k].n = size /\ c0[k] = c[h]
      BY <1>7, <1>10, <2>1, <2>3, <2>8
    <2> QED BY <2>6, <2>7, <2>8, <2>9, <2>10
  <1>13. ASSUME NEW i \in 1..Total(c)
         PROVE  \/ \E k \in 1..m : \E j \in 1..c0[k] : i = Bounds(c0)[k] + j
                \/ p.write[i][1] \notin Pool
    <2>1. PICK k \in 1..n : \E j \in 1..c[k] : i = Bounds(c)[k] + j
      BY <1>5, SegmentOf
    <2>2. PICK j \in 1..c[k] : i = Bounds(c)[k] + j
      BY <2>1
    <2>3. CASE k \in 1..m
      <3>1. j \in 1..c0[k] /\ i = Bounds(c0)[k] + j
        BY <1>7, <1>10, <2>2, <2>3
      <3> QED BY <2>3, <3>1
    <2>4. CASE k \notin 1..m
      <3>1. k \in (m + 1)..n
        BY <2>4
      <3>2. PICK size \in Nat : size = xs[k].n
        BY <1>7 DEF Item
      <3>3. PICK q \in Nat : q = c[k]
        BY <1>5
      <3>4. q <= size
        BY <1>7, <3>2, <3>3 DEF Item
      <3>5. PICK y \in 0..(size - 1) : y = size - q + j - 1
        BY <3>3, <3>4
      <3>6. p.write[i] = <<xs[k].blocks[(y \div BlockSize) + 1], y % BlockSize>>
        BY <1>8, <2>2, <3>2, <3>3, <3>5 DEF AddressOf
      <3>7. y \div BlockSize + 1 \in 1..PagesOf(size)
        <4>1. size # 0 /\ y \div BlockSize + 1 \in 1..BlocksFor(size)
          BY <3>5, BlocksForFacts
        <4> QED BY <4>1 DEF PagesOf
      <3>8. xs[k].blocks[(y \div BlockSize) + 1] \notin Pool
        BY <1>7, <3>1, <3>2, <3>7
      <3> QED BY <3>6, <3>8
    <2> QED BY <2>3, <2>4
  <1>14. Describes(p.write, p, ss, c0)
    <2>1. Len(p.write) = Total(c) /\ m = Len(ss)
      BY <1>2, <1>8
    <2> QED BY <1>11, <1>12, <1>13, <2>1 DEF Describes
  <1> QED BY <1>4, <1>8, <1>14

LEMMA SlotItem ==
    ASSUME NEW ss, NEW cc, Pooled(ss, cc), NEW k \in 1..Len(ss), NEW c \in 1..ss[k].n,
           NEW x, x.blocks = ss[k].blocks, x.n = ss[k].n
    PROVE  Item(x, c)
  <1>1. ss \in Seq(Slot) /\ BlocksFor(ss[k].n) <= Len(ss[k].blocks)
    BY DEF Pooled, Lengths
  <1>2. PICK n \in Nat : n = ss[k].n
    BY <1>1, SlotFacts
  <1>3. PICK blocks \in Seq(Pool) : blocks = ss[k].blocks
    BY <1>1, SlotFacts
  <1>4. n # 0 /\ c \in Nat /\ c <= n
    BY <1>2
  <1>5. PagesOf(n) = BlocksFor(n)
    BY <1>4 DEF PagesOf
  <1>6. BlocksFor(n) \in Nat
    BY BlocksForFacts
  <1>7. PICK q \in Nat : q = PagesOf(n)
    BY <1>5, <1>6
  <1>8. q <= Len(blocks)
    BY <1>1, <1>2, <1>3, <1>5, <1>7
  <1>9. Len(SubSeq(blocks, 1, q)) = q /\ \A i \in 1..q : SubSeq(blocks, 1, q)[i] = blocks[i]
    BY <1>8, Start
  <1>10. x.blocks = blocks /\ x.n = n
    BY <1>2, <1>3
  <1> QED BY <1>4, <1>7, <1>9, <1>10 DEF Item

LEMMA PaddingItem ==
    ASSUME NEW b \in Graph, NEW q \in Nat, NEW x, x = PaddingSlot(b, q)
    PROVE  Item(x, q) /\ x.n = q /\ \A i \in 1..PagesOf(x.n) : x.blocks[i] \notin Pool
  <1>1. PICK u \in Nat : u = PagesOf(q)
    BY BlocksForFacts DEF PagesOf
  <1>2. PICK y : y = Scratch(b.kind)
    OBVIOUS
  <1>3. y \notin Pool
    BY <1>2 DEF Pool
  <1>4. PICK blocks : blocks = [i \in 1..u |-> y]
    OBVIOUS
  <1>5. x.blocks = blocks /\ x.n = q
    BY <1>1, <1>2, <1>4 DEF PaddingSlot
  <1>6. blocks \in [1..u -> {y}]
    BY <1>4
  <1>7. blocks \in Seq({y}) /\ Len(blocks) = u
    BY <1>6, FunctionIsSeq
  <1>8. Len(SubSeq(blocks, 1, u)) = u /\ \A i \in 1..u : SubSeq(blocks, 1, u)[i] = blocks[i]
    BY <1>7, Start
  <1>9. \A i \in 1..u : blocks[i] \notin Pool
    BY <1>3, <1>4
  <1> QED BY <1>1, <1>5, <1>8, <1>9 DEF Item

\* The slots ss advanced by count, which a step with these new tokens serves.
Advanced(ss, cc, count) ==
    /\ Pooled(ss, cc) /\ count \in [1..Len(ss) -> Nat]
    /\ \A k \in 1..Len(ss) : count[k] \in 1..ss[k].n

LEMMA EagerDescribes ==
    ASSUME NEW ss, NEW cc, NEW count, Advanced(ss, cc, count)
    PROVE  Describes(Layout(ss, count).write, Layout(ss, count), ss, count)
  <1>1. Pooled(ss, cc) /\ count \in [1..Len(ss) -> Nat] /\ \A k \in 1..Len(ss) : count[k] \in 1..ss[k].n
    BY DEF Advanced
  <1>2. Len(ss) \in Nat
    BY <1>1 DEF Pooled
  <1>3. \A k \in 1..Len(ss) : Item(ss[k], count[k])
    BY <1>1, SlotItem
  <1>4. Serves(ss, count, ss, count)
    BY <1>1, <1>2, <1>3 DEF Serves
  <1> QED BY <1>4, LayoutDescribes

LEMMA GraphFacts ==
    ASSUME NEW b \in Graph
    PROVE  /\ b.rows \in Nat \ {0} /\ SlotsOf(b) \in Nat \ {0} /\ SlotsOf(b) <= b.rows
           /\ b.kind = "decode" \/ b.kind = "prefill"
           /\ b.kind = "decode" => SlotsOf(b) = b.rows
           /\ b # Eager /\ WrapperOf(b) \in Wrapper
  <1>1. b.rows \in Nat \ {0} /\ (b.kind = "decode" \/ b.kind = "prefill")
    <2>1. CASE b \in [kind : {"decode"}, rows : DecodeBuckets]
      BY <2>1, Sizes
    <2>2. CASE b \in [kind : {"prefill"}, rows : PrefillBuckets]
      BY <2>2, Sizes
    <2> QED BY <2>1, <2>2 DEF Graph
  <1>2. SlotsOf(b) \in Nat \ {0} /\ SlotsOf(b) <= b.rows /\ (b.kind = "decode" => SlotsOf(b) = b.rows)
    BY <1>1, Sizes DEF SlotsOf
  <1>3. b # Eager
    BY <1>1 DEF Eager
  <1> QED BY <1>1, <1>2, <1>3 DEF Wrapper

LEMMA PaddingFacts ==
    ASSUME NEW b \in Graph, NEW used \in Nat, used <= b.rows, NEW taken \in Nat, taken <= SlotsOf(b),
           NEW count, Total(count) = used, Len(count) = taken
    PROVE  /\ PaddingRows(b, count) \in [1..(SlotsOf(b) - taken) -> Nat]
           /\ Len(PaddingRows(b, count)) = SlotsOf(b) - taken
  <1>1. PICK left \in Nat : left = b.rows - Total(count)
    BY GraphFacts
  <1>2. PICK free \in Nat : free = SlotsOf(b) - Len(count)
    BY GraphFacts
  <1>3. PaddingRows(b, count)
           = [i \in 1..free |-> IF i = free /\ left >= free THEN left - free + 1
                                ELSE IF i <= left THEN 1 ELSE 0]
    BY <1>1, <1>2 DEF PaddingRows
  <1>4. \A i \in 1..free : (IF i = free /\ left >= free THEN left - free + 1
                            ELSE IF i <= left THEN 1 ELSE 0) \in Nat
    OBVIOUS
  <1>5. PaddingRows(b, count) \in [1..free -> Nat]
    BY <1>3, <1>4
  <1>6. Len(PaddingRows(b, count)) = free
    BY <1>5, FunctionIsSeq
  <1> QED BY <1>2, <1>5, <1>6

\* Sequences end to end.
Sized(a, S, n) == a \in Seq(S) /\ n \in Nat /\ Len(a) = n

LEMMA Joined ==
    ASSUME NEW S, NEW T, NEW a, NEW b, NEW n, NEW m, Sized(a, S, n), Sized(b, T, m)
    PROVE  /\ Len(a \o b) = n + m /\ a \o b \in [1..(n + m) -> S \cup T]
           /\ \A k \in 1..n : (a \o b)[k] = a[k]
           /\ \A k \in 1..m : (a \o b)[n + k] = b[k]
  <1>0. a \in Seq(S) /\ b \in Seq(T) /\ Len(a) = n /\ Len(b) = m /\ n \in Nat /\ m \in Nat
    BY DEF Sized
  <1>1. a \in Seq(S \cup T) /\ b \in Seq(S \cup T)
    BY <1>0
  <1>2. /\ Len(a \o b) = Len(a) + Len(b)
        /\ \A i \in 1..(Len(a) + Len(b)) : (a \o b)[i] = IF i <= Len(a) THEN a[i] ELSE b[i - Len(a)]
    BY <1>1, ConcatProperties
  <1>3. a \o b \in Seq(S \cup T)
    BY <1>1
  <1>4. a \o b \in [1..Len(a \o b) -> S \cup T]
    <2>1. PICK s \in Seq(S \cup T) : s = a \o b
      BY <1>3
    <2>2. s \in [1..Len(s) -> S \cup T]
      BY LenProperties
    <2> QED BY <2>1, <2>2
  <1>5. \A k \in 1..m : (a \o b)[n + k] = b[k]
    <2> TAKE k \in 1..m
    <2>1. n + k \in 1..(n + m) /\ ~(n + k <= n) /\ (n + k) - n = k
      BY <1>0
    <2> QED BY <1>0, <1>2, <2>1
  <1>6. \A k \in 1..n : (a \o b)[k] = a[k]
    <2> TAKE k \in 1..n
    <2>1. k \in 1..(n + m) /\ k <= n
      BY <1>0
    <2> QED BY <1>0, <1>2, <2>1
  <1>7. Len(a \o b) = n + m
    BY <1>0, <1>2
  <1> QED BY <1>4, <1>5, <1>6, <1>7

\* The items xs, advanced by c, are the slots ss and the padding of a static step.
StaticItems(b, ss, count, xs, c) ==
    /\ StaticLayout(b, ss, count) = Layout(xs, c) /\ Serves(xs, c, ss, count)
    /\ Len(xs) = SlotsOf(b)
    /\ \A i \in 1..(SlotsOf(b) - Len(ss)) : xs[Len(ss) + i].n = PaddingRows(b, count)[i]

LEMMA StaticServes ==
    ASSUME NEW b \in Graph, NEW ss, NEW cc, NEW count, Advanced(ss, cc, count),
           Len(count) <= SlotsOf(b), Total(count) <= b.rows
    PROVE  \E xs, c : StaticItems(b, ss, count, xs, c)
  <1>1. Pooled(ss, cc) /\ count \in [1..Len(ss) -> Nat] /\ \A k \in 1..Len(ss) : count[k] \in 1..ss[k].n
    BY DEF Advanced
  <1>2. PICK n \in Nat : n = Len(ss)
    BY <1>1 DEF Pooled
  <1>3. count \in [1..n -> Nat]
    BY <1>1, <1>2
  <1>4. count \in Seq(Nat) /\ Len(count) = n
    BY <1>3, FunctionIsSeq
  <1>5. PICK padding : padding = PaddingRows(b, count)
    OBVIOUS
  <1>6. PICK free \in Nat : free = SlotsOf(b) - n
    BY <1>4, GraphFacts
  <1>7. padding \in [1..free -> Nat] /\ Len(padding) = free
    <2>1. PICK used \in Nat : used = Total(count)
      BY <1>3, BoundsFacts
    <2>2. used <= b.rows /\ n <= SlotsOf(b)
      BY <1>4, <2>1
    <2> QED BY <1>4, <1>5, <1>6, <2>1, <2>2, PaddingFacts
  <1>8. padding \in Seq(Nat)
    BY <1>7, FunctionIsSeq
  <1>9. PICK front : front = [k \in 1..Len(ss) |-> [blocks |-> ss[k].blocks, n |-> ss[k].n]]
    OBVIOUS
  <1>10. PICK pads : pads = [i \in 1..Len(padding) |-> PaddingSlot(b, padding[i])]
    OBVIOUS
  <1>11. PICK xs : xs = front \o pads
    OBVIOUS
  <1>12. PICK c : c = count \o padding
    OBVIOUS
  <1>13. StaticLayout(b, ss, count) = Layout(xs, c)
    BY <1>5, <1>9, <1>10, <1>11, <1>12 DEF StaticLayout
  <1>14. /\ front \in Seq({[blocks |-> ss[k].blocks, n |-> ss[k].n] : k \in 1..n}) /\ Len(front) = n
         /\ \A k \in 1..n : front[k] = [blocks |-> ss[k].blocks, n |-> ss[k].n]
    <2>1. front \in [1..n -> {[blocks |-> ss[k].blocks, n |-> ss[k].n] : k \in 1..n}]
      BY <1>2, <1>9
    <2>2. \A k \in 1..n : front[k] = [blocks |-> ss[k].blocks, n |-> ss[k].n]
      BY <1>2, <1>9
    <2> QED BY <2>1, <2>2, FunctionIsSeq
  <1>15. /\ pads \in Seq({PaddingSlot(b, padding[i]) : i \in 1..free}) /\ Len(pads) = free
         /\ \A i \in 1..free : pads[i] = PaddingSlot(b, padding[i])
    <2>1. pads \in [1..free -> {PaddingSlot(b, padding[i]) : i \in 1..free}]
      BY <1>7, <1>10
    <2>2. \A i \in 1..free : pads[i] = PaddingSlot(b, padding[i])
      BY <1>7, <1>10
    <2> QED BY <2>1, <2>2, FunctionIsSeq
  <1>16. /\ Len(xs) = n + free
         /\ \A k \in 1..n : xs[k] = front[k]
         /\ \A i \in 1..free : xs[n + i] = pads[i]
    <2>1. Sized(front, {[blocks |-> ss[k].blocks, n |-> ss[k].n] : k \in 1..n}, n)
      BY <1>14 DEF Sized
    <2>2. Sized(pads, {PaddingSlot(b, padding[i]) : i \in 1..free}, free)
      BY <1>15 DEF Sized
    <2> QED BY <1>11, <2>1, <2>2, Joined
  <1>17. /\ c \in [1..(n + free) -> Nat]
         /\ \A k \in 1..n : c[k] = count[k]
         /\ \A i \in 1..free : c[n + i] = padding[i]
    <2>1. PICK S, T : S = Nat /\ T = Nat
      OBVIOUS
    <2>2. Sized(count, S, n) /\ Sized(padding, T, free)
      BY <1>4, <1>7, <1>8, <2>1 DEF Sized
    <2>3. /\ count \o padding \in [1..(n + free) -> S \cup T]
          /\ \A k \in 1..n : (count \o padding)[k] = count[k]
          /\ \A i \in 1..free : (count \o padding)[n + i] = padding[i]
      <3>1. count \o padding \in [1..(n + free) -> S \cup T]
        BY <2>2, Joined
      <3>2. \A k \in 1..n : (count \o padding)[k] = count[k]
        BY <2>2, Joined
      <3>3. \A i \in 1..free : (count \o padding)[n + i] = padding[i]
        BY <2>2, Joined
      <3> QED BY <3>1, <3>2, <3>3
    <2>4. S \cup T = Nat
      BY <2>1
    <2> QED BY <1>12, <2>3, <2>4
  <1>18. \A k \in 1..n : /\ xs[k].blocks = ss[k].blocks /\ xs[k].n = ss[k].n
                         /\ Item(xs[k], c[k])
    <2> TAKE k \in 1..n
    <2>1. xs[k].blocks = ss[k].blocks /\ xs[k].n = ss[k].n
      BY <1>14, <1>16
    <2>2. count[k] \in 1..ss[k].n /\ c[k] = count[k]
      BY <1>1, <1>2, <1>17
    <2>3. Item(xs[k], count[k])
      BY <1>1, <1>2, <2>1, <2>2, SlotItem
    <2> QED BY <2>1, <2>2, <2>3
  <1>19. \A k \in (n + 1)..(n + free) :
            Item(xs[k], c[k]) /\ \A i \in 1..PagesOf(xs[k].n) : xs[k].blocks[i] \notin Pool
    <2> TAKE k \in (n + 1)..(n + free)
    <2>1. PICK i \in 1..free : k = n + i
      <3>1. k - n \in 1..free /\ k = n + (k - n)
        OBVIOUS
      <3> QED BY <3>1
    <2>2. PICK q \in Nat : q = padding[i]
      BY <1>7
    <2>3. xs[k] = PaddingSlot(b, q) /\ c[k] = q
      BY <1>15, <1>16, <1>17, <2>1, <2>2
    <2> QED BY <2>3, PaddingItem
  <1>20. Serves(xs, c, ss, count)
    <2>1. \A k \in 1..(n + free) : Item(xs[k], c[k])
      <3> TAKE k \in 1..(n + free)
      <3>1. k \in 1..n \/ k \in (n + 1)..(n + free)
        OBVIOUS
      <3> QED BY <1>18, <1>19, <3>1
    <2>2. Len(ss) = n /\ n <= n + free /\ n + free \in Nat
      BY <1>2
    <2> QED BY <1>3, <1>16, <1>17, <1>18, <1>19, <2>1, <2>2 DEF Serves
  <1>21. ASSUME NEW i \in 1..free PROVE xs[n + i].n = padding[i]
    <2>1. PICK q \in Nat : q = padding[i]
      BY <1>7
    <2>2. xs[n + i] = PaddingSlot(b, q)
      BY <1>15, <1>16, <2>1
    <2> QED BY <2>1, <2>2, PaddingItem
  <1>22. Len(xs) = SlotsOf(b)
    BY <1>6, <1>16, GraphFacts
  <1>23. StaticItems(b, ss, count, xs, c)
    BY <1>2, <1>5, <1>6, <1>13, <1>20, <1>21, <1>22 DEF StaticItems
  <1> QED BY <1>23

LEMMA StaticDescribes ==
    ASSUME NEW b \in Graph, NEW ss, NEW cc, NEW count, Advanced(ss, cc, count), Fits(b, ss, count)
    PROVE  /\ Describes(StaticLayout(b, ss, count).write, StaticLayout(b, ss, count), ss, count)
           /\ LayoutShape(StaticLayout(b, ss, count))
  <1>1. PICK xs, c : StaticItems(b, ss, count, xs, c)
    BY StaticServes DEF Fits
  <1> QED BY <1>1, LayoutDescribes DEF StaticItems

\* The rows' tokens and their positions.
RowsOf(ss, c, ids, pos) ==
    \A k \in 1..Len(ss) : \A j \in 1..c[k] :
        /\ ids[Bounds(c)[k] + j] = Text(ss[k].req, ss[k].n - c[k] + j - 1)
        /\ pos[Bounds(c)[k] + j] = ss[k].n - c[k] + j - 1

\* The slots advanced by c, and the device may run their rows.
Ready(d, ss, cc, c, write, p, ids, pos) ==
    /\ Advanced(ss, cc, c) /\ Describes(write, p, ss, c) /\ RowsOf(ss, c, ids, pos)
    /\ \A k \in 1..Len(ss) : /\ ss[k].published <= FilledPrompt(ss[k].n - c[k])
                             /\ SlotText(d, ss[k], ss[k].n - c[k])
    /\ CacheText(d, cc)

\* The rows that write to address a, and that i is the only one.
Writers(write, a) == {i \in 1..Len(write) : write[i] = a}
WrittenBy(write, a, i) == Writers(write, a) = {i}

\* A position of a slot has a place in the pool; only the blocks from the first
\* unpublished one on are written.
LEMMA PlaceFacts ==
    ASSUME NEW ss, NEW cc, Pooled(ss, cc), NEW k \in 1..Len(ss), NEW q \in 0..(ss[k].n - 1)
    PROVE  /\ AddressOf(ss[k].blocks, q) \in Address
           /\ AddressOf(ss[k].blocks, q)[1] \in Pool
           /\ q \div BlockSize + 1 \in 1..Len(ss[k].blocks)
  <1>1. ss \in Seq(Slot) /\ BlocksFor(ss[k].n) <= Len(ss[k].blocks)
    BY DEF Pooled, Lengths
  <1>2. PICK n \in Nat : n = ss[k].n
    BY <1>1, SlotFacts
  <1>3. PICK blocks \in Seq(Pool) : blocks = ss[k].blocks
    BY <1>1, SlotFacts
  <1>4. PICK i \in 1..BlocksFor(n) : i = q \div BlockSize + 1
    BY <1>2, BlocksForFacts
  <1>5. q % BlockSize \in 0..(BlockSize - 1)
    <2>1. q \in Nat
      BY <1>2
    <2> QED BY <2>1, Split
  <1>6. i \in 1..Len(blocks)
    <2>1. PICK m \in Nat : m = BlocksFor(n)
      BY BlocksForFacts
    <2>2. m <= Len(blocks) /\ Len(blocks) \in Nat
      BY <1>1, <1>2, <1>3, <2>1
    <2> QED BY <2>1, <2>2
  <1>7. blocks[i] \in Pool /\ blocks[i] \in Block
    BY <1>6 DEF Pool
  <1>8. AddressOf(blocks, q) = <<blocks[i], q % BlockSize>>
    BY <1>4 DEF AddressOf
  <1> QED BY <1>3, <1>4, <1>5, <1>6, <1>7, <1>8 DEF Address

LEMMA PlacesDiffer ==
    ASSUME NEW ss, NEW cc, Pooled(ss, cc),
           NEW k \in 1..Len(ss), NEW q \in 0..(ss[k].n - 1), ss[k].published <= q \div BlockSize,
           NEW l \in 1..Len(ss), NEW x \in 0..(ss[l].n - 1),
           AddressOf(ss[l].blocks, x) = AddressOf(ss[k].blocks, q)
    PROVE  l = k /\ x = q
  <1>1. ss[k].published \in Nat /\ ss[l].n \in Nat /\ ss[k].n \in Nat /\ Len(ss[k].blocks) \in Nat
    BY SlotFacts DEF Pooled
  <1>2. q \in Nat /\ x \in Nat
    BY <1>1
  <1>3. PICK i \in Nat : i = q \div BlockSize
    BY <1>2, Split
  <1>4. PICK j \in Nat : j = x \div BlockSize
    BY <1>2, Split
  <1>5. i + 1 \in (ss[k].published + 1)..Len(ss[k].blocks)
    <2>1. i + 1 \in 1..Len(ss[k].blocks) /\ ss[k].published <= i
      BY <1>3, PlaceFacts
    <2> QED BY <1>1, <2>1
  <1>6. j + 1 \in 1..Len(ss[l].blocks)
    BY <1>4, PlaceFacts
  <1>7. ss[l].blocks[j + 1] = ss[k].blocks[i + 1] /\ x % BlockSize = q % BlockSize
    BY <1>3, <1>4 DEF AddressOf
  <1>8. l = k /\ j + 1 = i + 1
    BY <1>5, <1>6, <1>7 DEF Pooled, OthersOwned
  <1>9. j = i
    BY <1>8
  <1>10. x = q
    <2>1. \A y \in Nat : y = (y \div BlockSize) * BlockSize + (y % BlockSize)
      BY Split
    <2> QED BY <1>2, <1>3, <1>4, <1>7, <1>9, <2>1
  <1> QED BY <1>8, <1>10

\* Where the position of a row is.
LEMMA RowPlace ==
    ASSUME NEW d, NEW ss, NEW cc, NEW c, NEW write, NEW p, NEW ids, NEW pos,
           Ready(d, ss, cc, c, write, p, ids, pos), NEW k \in 1..Len(ss), NEW j \in 1..c[k]
    PROVE  /\ Pooled(ss, cc) /\ c[k] \in Nat /\ ss[k].n \in Nat /\ c[k] <= ss[k].n
           /\ ss[k].n - c[k] + j - 1 \in 0..(ss[k].n - 1)
           /\ ss[k].published <= (ss[k].n - c[k] + j - 1) \div BlockSize
           /\ Bounds(c)[k] + j \in 1..Len(write)
           /\ write[Bounds(c)[k] + j] = AddressOf(ss[k].blocks, ss[k].n - c[k] + j - 1)
  <1>1. Advanced(ss, cc, c) /\ Describes(write, p, ss, c) /\ ss[k].published <= FilledPrompt(ss[k].n - c[k])
    BY DEF Ready
  <1>2. Pooled(ss, cc) /\ c \in [1..Len(ss) -> Nat] /\ c[k] \in 1..ss[k].n
    BY <1>1 DEF Advanced
  <1>3. PICK n \in Nat : n = ss[k].n
    BY <1>2, SlotFacts DEF Pooled
  <1>4. PICK u \in Nat : u = c[k]
    BY <1>2
  <1>5. PICK f \in Nat : f = ss[k].published
    BY <1>2, SlotFacts DEF Pooled
  <1>6. u <= n /\ j \in 1..u
    BY <1>2, <1>3, <1>4
  <1>7. PICK q \in Nat : q = n - u
    BY <1>6
  <1>8. PICK y \in Nat : y = n - u + j - 1
    BY <1>6
  <1>9. q <= y /\ y \in 0..(n - 1)
    BY <1>6, <1>7, <1>8
  <1>10. f <= y \div BlockSize
    <2>1. f <= FilledPrompt(q)
      BY <1>1, <1>3, <1>4, <1>5, <1>7
    <2>2. FilledPrompt(q) \in Nat /\ FilledPrompt(q) <= y \div BlockSize
      BY <1>9, FilledFacts
    <2>3. y \div BlockSize \in Nat
      BY Split
    <2> QED BY <2>1, <2>2, <2>3
  <1>11. /\ Bounds(c)[k] + j \in 1..Len(write)
         /\ write[Bounds(c)[k] + j] = AddressOf(ss[k].blocks, ss[k].n - c[k] + j - 1)
    BY <1>1 DEF Describes
  <1> QED BY <1>2, <1>3, <1>4, <1>5, <1>6, <1>8, <1>9, <1>10, <1>11

\* What is written where: one row at its own position, nothing at the positions
\* before the step and in the cached blocks.
LEMMA WriterIs ==
    ASSUME NEW d, NEW ss, NEW cc, NEW c, NEW write, NEW p, NEW ids, NEW pos,
           Ready(d, ss, cc, c, write, p, ids, pos), NEW a, a[1] \in Pool, NEW i \in Writers(write, a)
    PROVE  \E k \in 1..Len(ss) : \E j \in 1..c[k] :
              i = Bounds(c)[k] + j /\ a = AddressOf(ss[k].blocks, ss[k].n - c[k] + j - 1)
  <1>1. i \in 1..Len(write) /\ write[i] = a
    BY DEF Writers
  <1>2. \/ \E k \in 1..Len(ss) : \E j \in 1..c[k] : i = Bounds(c)[k] + j
        \/ write[i][1] \notin Pool
    BY <1>1 DEF Ready, Describes
  <1>3. PICK k \in 1..Len(ss) : \E j \in 1..c[k] : i = Bounds(c)[k] + j
    BY <1>1, <1>2
  <1>4. PICK j \in 1..c[k] : i = Bounds(c)[k] + j
    BY <1>3
  <1>5. write[Bounds(c)[k] + j] = AddressOf(ss[k].blocks, ss[k].n - c[k] + j - 1)
    BY RowPlace
  <1>6. a = AddressOf(ss[k].blocks, ss[k].n - c[k] + j - 1)
    BY <1>1, <1>4, <1>5
  <1> QED BY <1>4, <1>6

LEMMA RowWrites ==
    ASSUME NEW d, NEW ss, NEW cc, NEW c, NEW write, NEW p, NEW ids, NEW pos,
           Ready(d, ss, cc, c, write, p, ids, pos), NEW k \in 1..Len(ss), NEW j \in 1..c[k]
    PROVE  \E a \in Address : /\ a = AddressOf(ss[k].blocks, ss[k].n - c[k] + j - 1)
                              /\ WrittenBy(write, a, Bounds(c)[k] + j)
  <1>0. PICK a : a = AddressOf(ss[k].blocks, ss[k].n - c[k] + j - 1)
    OBVIOUS
  <1>1. PICK n \in Nat, u \in Nat : n = ss[k].n /\ u = c[k]
    BY RowPlace
  <1>2. PICK y \in 0..(n - 1) : y = n - u + j - 1
    BY <1>1, RowPlace
  <1>3. Pooled(ss, cc) /\ ss[k].published <= y \div BlockSize
    BY <1>1, <1>2, RowPlace
  <1>4. a = AddressOf(ss[k].blocks, y)
    BY <1>0, <1>1, <1>2
  <1>5. a \in Address /\ a[1] \in Pool
    BY <1>1, <1>3, <1>4, PlaceFacts
  <1>6. ASSUME NEW i \in Writers(write, a) PROVE i = Bounds(c)[k] + j
    <2>1. PICK l \in 1..Len(ss) : \E h \in 1..c[l] :
             i = Bounds(c)[l] + h /\ a = AddressOf(ss[l].blocks, ss[l].n - c[l] + h - 1)
      BY <1>5, WriterIs
    <2>2. PICK h \in 1..c[l] : i = Bounds(c)[l] + h /\ a = AddressOf(ss[l].blocks, ss[l].n - c[l] + h - 1)
      BY <2>1
    <2>3. PICK z \in 0..(ss[l].n - 1) : z = ss[l].n - c[l] + h - 1
      BY RowPlace
    <2>4. AddressOf(ss[l].blocks, z) = AddressOf(ss[k].blocks, y)
      BY <1>4, <2>2, <2>3
    <2>5. l = k /\ z = y
      <3>1. y \in 0..(ss[k].n - 1)
        BY <1>1
      <3> QED BY <1>3, <2>3, <2>4, <3>1, PlacesDiffer
    <2>6. h = j
      <3>1. z = n - u + h - 1 /\ h \in 1..u
        BY <1>1, <2>3, <2>5
      <3>2. j \in 1..u
        BY <1>1
      <3>3. n - u + h - 1 = n - u + j - 1
        BY <1>2, <2>5, <3>1
      <3>4. PICK g \in Nat : g = h
        BY <3>1
      <3>5. PICK i0 \in Nat : i0 = j
        BY <3>2
      <3>6. n - u + g - 1 = n - u + i0 - 1
        BY <3>3, <3>4, <3>5
      <3> QED BY <3>4, <3>5, <3>6
    <2> QED BY <2>2, <2>5, <2>6
  <1>7. Bounds(c)[k] + j \in Writers(write, a)
    <2>1. Bounds(c)[k] + j \in 1..Len(write) /\ write[Bounds(c)[k] + j] = a
      BY <1>0, RowPlace
    <2> QED BY <2>1 DEF Writers
  <1>8. Writers(write, a) = {Bounds(c)[k] + j}
    BY <1>6, <1>7
  <1> QED BY <1>0, <1>5, <1>8 DEF WrittenBy

LEMMA EarlierKept ==
    ASSUME NEW d, NEW ss, NEW cc, NEW c, NEW write, NEW p, NEW ids, NEW pos,
           Ready(d, ss, cc, c, write, p, ids, pos), NEW k \in 1..Len(ss),
           NEW q \in 0..(ss[k].n - c[k] - 1), NEW a, a = AddressOf(ss[k].blocks, q)
    PROVE  a \in Address /\ Writers(write, a) = {}
  <1>1. Pooled(ss, cc) /\ c \in [1..Len(ss) -> Nat] /\ c[k] \in 1..ss[k].n
    BY DEF Ready, Advanced
  <1>2. PICK n \in Nat : n = ss[k].n
    BY <1>1, SlotFacts DEF Pooled
  <1>3. PICK u \in Nat : u = c[k]
    BY <1>1
  <1>4. u \in 1..n /\ q \in 0..(n - u - 1) /\ q \in 0..(n - 1)
    BY <1>1, <1>2, <1>3
  <1>5. a \in Address /\ a[1] \in Pool
    BY <1>1, <1>2, <1>4, PlaceFacts
  <1>6. ASSUME NEW i \in Writers(write, a) PROVE FALSE
    <2>1. PICK l \in 1..Len(ss) : \E h \in 1..c[l] :
             i = Bounds(c)[l] + h /\ a = AddressOf(ss[l].blocks, ss[l].n - c[l] + h - 1)
      BY <1>5, WriterIs
    <2>2. PICK h \in 1..c[l] : i = Bounds(c)[l] + h /\ a = AddressOf(ss[l].blocks, ss[l].n - c[l] + h - 1)
      BY <2>1
    <2>3. PICK z \in 0..(ss[l].n - 1) : z = ss[l].n - c[l] + h - 1
      BY RowPlace
    <2>4. ss[l].published <= z \div BlockSize
      BY <2>3, RowPlace
    <2>5. AddressOf(ss[k].blocks, q) = AddressOf(ss[l].blocks, z)
      BY <2>2, <2>3
    <2>6. q \in 0..(ss[k].n - 1)
      BY <1>2, <1>4
    <2>7. k = l /\ q = z
      BY <1>1, <2>3, <2>4, <2>5, <2>6, PlacesDiffer
    <2>8. h \in 1..u /\ z = n - u + h - 1
      BY <1>2, <1>3, <2>3, <2>7
    <2> QED BY <1>4, <2>7, <2>8
  <1> QED BY <1>5, <1>6

LEMMA CachedKept ==
    ASSUME NEW d, NEW ss, NEW cc, NEW c, NEW write, NEW p, NEW ids, NEW pos,
           Ready(d, ss, cc, c, write, p, ids, pos), NEW key \in PromptKeys, cc[key] # 0,
           NEW o \in 0..(BlockSize - 1), NEW a, a = <<cc[key], o>>
    PROVE  a \in Address /\ Writers(write, a) = {}
  <1>1. Pooled(ss, cc) /\ cc \in [PromptKeys -> Pool \cup {0}]
    BY DEF Ready, Advanced, Pooled
  <1>2. a[1] = cc[key] /\ cc[key] \in Pool
    BY <1>1
  <1>3. a \in Address
    BY <1>2 DEF Address, Pool
  <1>4. ASSUME NEW i \in Writers(write, a) PROVE FALSE
    <2>1. PICK l \in 1..Len(ss) : \E h \in 1..c[l] :
             i = Bounds(c)[l] + h /\ a = AddressOf(ss[l].blocks, ss[l].n - c[l] + h - 1)
      BY <1>2, WriterIs
    <2>2. PICK h \in 1..c[l] : i = Bounds(c)[l] + h /\ a = AddressOf(ss[l].blocks, ss[l].n - c[l] + h - 1)
      BY <2>1
    <2>3. PICK z \in 0..(ss[l].n - 1) : z = ss[l].n - c[l] + h - 1
      BY RowPlace
    <2>4. PICK f \in Nat, m \in Nat : f = ss[l].published /\ m = Len(ss[l].blocks)
      BY <1>1, SlotFacts DEF Pooled
    <2>5. ss[l].n \in Nat
      BY <1>1, SlotFacts DEF Pooled
    <2>6. PICK y \in Nat : y = z \div BlockSize
      BY <2>5, Split
    <2>7. f <= y /\ y + 1 \in 1..m
      BY <1>1, <2>3, <2>4, <2>6, RowPlace, PlaceFacts
    <2>8. y + 1 \in (ss[l].published + 1)..Len(ss[l].blocks)
      BY <2>4, <2>7
    <2>9. cc[key] # ss[l].blocks[y + 1]
      BY <1>1, <2>8 DEF Pooled, OthersUncached
    <2>10. a[1] = ss[l].blocks[y + 1]
      BY <2>2, <2>3, <2>6 DEF AddressOf
    <2> QED BY <1>2, <2>9, <2>10
  <1> QED BY <1>3, <1>4

\* The memory that a forward's rows read, and the K/V it makes of row i.
Stored(d, write, ids) ==
    [a \in Address |-> IF Writers(write, a) = {} THEN d.mem[a] ELSE ids[LargestOf(Writers(write, a))]]

Value(stored, p, ids, pos, i) ==
    IF /\ ids[i] # Junk /\ pos[i] = ids[i][2]
       /\ Reads(stored, p, i) = [j \in 1..(ids[i][2] + 1) |-> Text(ids[i][1], j - 1)]
    THEN ids[i] ELSE Junk

LEMMA LargestOfOne ==
    ASSUME NEW x \in Nat
    PROVE  LargestOf({x}) = x
  BY DEF LargestOf

LEMMA RowReadsText ==
    ASSUME NEW d, NEW ss, NEW cc, NEW c, NEW write, NEW p, NEW ids, NEW pos,
           Ready(d, ss, cc, c, write, p, ids, pos), NEW k \in 1..Len(ss), NEW j \in 1..c[k]
    PROVE  /\ Bounds(c)[k] + j \in Nat
           /\ Value(Stored(d, write, ids), p, ids, pos, Bounds(c)[k] + j)
                 = Text(ss[k].req, ss[k].n - c[k] + j - 1)
  <1>15. \A h \in 1..c[k] : \E a \in Address :
            /\ a = AddressOf(ss[k].blocks, ss[k].n - c[k] + h - 1)
            /\ WrittenBy(write, a, Bounds(c)[k] + h)
    BY RowWrites
  <1>1. PICK n \in Nat, u \in Nat : n = ss[k].n /\ u = c[k]
    BY RowPlace
  <1>2. PICK y \in 0..(n - 1) : y = n - u + j - 1
    BY <1>1, RowPlace
  <1>3. PICK r \in RequestId : r = ss[k].req
    BY SlotFacts DEF Ready, Advanced, Pooled
  <1>4. PICK i : i = Bounds(c)[k] + j
    OBVIOUS
  <1>5. i \in Nat
    <2>1. i \in 1..Len(write) /\ Len(write) \in Nat
      BY <1>4, RowPlace DEF Ready, Describes
    <2> QED BY <2>1
  <1>6. ids[i] = Text(r, y) /\ pos[i] = y
    <2>1. /\ ids[Bounds(c)[k] + j] = Text(ss[k].req, ss[k].n - c[k] + j - 1)
          /\ pos[Bounds(c)[k] + j] = ss[k].n - c[k] + j - 1
      BY DEF Ready, RowsOf
    <2> QED BY <1>1, <1>2, <1>3, <1>4, <2>1
  <1>7. PICK t : t = Text(r, y)
    OBVIOUS
  <1>8. t[2] = y /\ t # Junk /\ \A q \in 0..y : Text(t[1], q) = Text(r, q)
    <2>1. y \in Nat
      BY <1>1, <1>2
    <2>2. /\ Text(r, y)[2] = y /\ Text(r, y) # Junk
          /\ \A q \in 0..y : Text(Text(r, y)[1], q) = Text(r, q)
      BY <1>3, <2>1, TextFacts
    <2> QED BY <1>7, <2>2
  <1>9. PICK stored : stored = Stored(d, write, ids)
    OBVIOUS
  <1>10. PICK blocks : blocks = ss[k].blocks
    OBVIOUS
  <1>11. u <= n /\ u \in 1..n /\ j \in 1..u
    <2>1. u <= n /\ j \in 1..u
      BY <1>1, RowPlace
    <2> QED BY <2>1
  <1>12. ASSUME NEW q \in 0..y PROVE stored[AddressOf(blocks, q)] = Text(r, q)
    <2>1. PICK a : a = AddressOf(blocks, q)
      OBVIOUS
    <2>2. CASE q < n - u
      <3>1. q \in 0..(ss[k].n - c[k] - 1)
        BY <1>1, <2>2
      <3>2. a \in Address /\ Writers(write, a) = {}
        BY <1>10, <2>1, <3>1, EarlierKept
      <3>3. stored[a] = d.mem[a]
        BY <1>9, <3>2 DEF Stored
      <3>4. d.mem[AddressOf(ss[k].blocks, q)] = Text(ss[k].req, q)
        BY <3>1 DEF Ready, SlotText
      <3> QED BY <1>3, <1>10, <2>1, <3>3, <3>4
    <2>3. CASE ~(q < n - u)
      <3>1. \E h \in 1..u : q = n - u + h - 1
        <4>1. PICK g \in Nat : g = q - (n - u) + 1
          BY <1>11, <2>3
        <4>2. g \in 1..u /\ q = n - u + g - 1
          BY <1>2, <1>11, <2>3, <4>1
        <4> QED BY <4>2
      <3>2. PICK h \in 1..c[k] : q = ss[k].n - c[k] + h - 1
        BY <1>1, <3>1
      <3>3. a \in Address /\ Writers(write, a) = {Bounds(c)[k] + h}
        <4>1. a = AddressOf(ss[k].blocks, ss[k].n - c[k] + h - 1)
          BY <1>10, <2>1, <3>2
        <4>2. PICK b \in Address : /\ b = AddressOf(ss[k].blocks, ss[k].n - c[k] + h - 1)
                                   /\ WrittenBy(write, b, Bounds(c)[k] + h)
          BY <1>15
        <4> QED BY <4>1, <4>2 DEF WrittenBy
      <3>4. Bounds(c)[k] + h \in Nat
        <4>1. Bounds(c)[k] + h \in 1..Len(write) /\ Len(write) \in Nat
          BY <3>2, RowPlace DEF Ready, Describes
        <4> QED BY <4>1
      <3>5. LargestOf(Writers(write, a)) = Bounds(c)[k] + h
        BY <3>3, <3>4, LargestOfOne
      <3>6. stored[a] = ids[Bounds(c)[k] + h]
        BY <1>9, <3>3, <3>5 DEF Stored
      <3>7. ids[Bounds(c)[k] + h] = Text(ss[k].req, ss[k].n - c[k] + h - 1)
        BY <3>2 DEF Ready, RowsOf
      <3> QED BY <1>3, <2>1, <3>2, <3>6, <3>7
    <2> QED BY <2>2, <2>3
  <1>13. Reads(stored, p, i) = [x \in 1..(y + 1) |-> Text(t[1], x - 1)]
    <2>1. Reads(stored, p, i) = [x \in 1..(n - u + j) |-> stored[AddressOf(blocks, x - 1)]]
      <3>1. Reads(stored, p, Bounds(c)[k] + j)
               = [x \in 1..(ss[k].n - c[k] + j) |-> stored[AddressOf(ss[k].blocks, x - 1)]]
        BY DEF Ready, Describes
      <3> QED BY <1>1, <1>4, <1>10, <3>1
    <2>2. n - u + j = y + 1
      BY <1>2, <1>11
    <2>3. \A x \in 1..(y + 1) : stored[AddressOf(blocks, x - 1)] = Text(t[1], x - 1)
      <3> TAKE x \in 1..(y + 1)
      <3>1. PICK q \in 0..y : q = x - 1
        BY <1>2
      <3>2. stored[AddressOf(blocks, q)] = Text(t[1], q)
        BY <1>8, <1>12
      <3> QED BY <3>1, <3>2
    <2> QED BY <2>1, <2>2, <2>3
  <1>14. Value(stored, p, ids, pos, i) = t
    <2>1. ids[i] = t /\ pos[i] = t[2]
      BY <1>6, <1>7, <1>8
    <2>2. Reads(stored, p, i) = [x \in 1..(ids[i][2] + 1) |-> Text(ids[i][1], x - 1)]
      BY <1>8, <1>13, <2>1
    <2> QED BY <1>8, <2>1, <2>2 DEF Value
  <1> QED BY <1>1, <1>2, <1>3, <1>4, <1>5, <1>7, <1>9, <1>14

\* What a forward leaves in place, and what it did for the slots ss.
ForwardRan(d, e, o) ==
    /\ Shaped(e) /\ e.inputs = d.inputs /\ e.table = d.table /\ e.plan = d.plan
    /\ e.wanted = o.want /\ DOMAIN e.sampled = 1..Len(o.take)
    /\ e.sampled = [i \in 1..Len(o.take) |-> e.sampled[i]]

LEMMA RunShaped ==
    ASSUME NEW d, Shaped(d), NEW o, NEW write, NEW p, NEW ids, NEW pos, NEW lastRow,
           NEW e, e = Run(d, o, write, p, ids, pos, lastRow),
           NEW stored, stored = Stored(d, write, ids)
    PROVE  /\ ForwardRan(d, e, o)
           /\ \A a \in Address :
                 e.mem[a] = IF Writers(write, a) = {} THEN d.mem[a]
                            ELSE Value(stored, p, ids, pos, LargestOf(Writers(write, a)))
           /\ \A i \in 1..Len(o.take) :
                 e.sampled[i] = Successor(Value(stored, p, ids, pos, lastRow[o.take[i]]))
  <1> DEFINE mem == [a \in Address |-> IF Writers(write, a) = {} THEN d.mem[a]
                                       ELSE Value(stored, p, ids, pos, LargestOf(Writers(write, a)))]
             sampled == [i \in 1..Len(o.take) |-> Successor(Value(stored, p, ids, pos, lastRow[o.take[i]]))]
  <1>1. e = [d EXCEPT !.mem = mem, !.sampled = sampled, !.wanted = o.want]
    <2>1. Run(d, o, write, p, ids, pos, lastRow)
              = [d EXCEPT !.mem = [a \in Address |->
                                      IF Writers(write, a) = {} THEN d.mem[a]
                                      ELSE Value(Stored(d, write, ids), p, ids, pos, LargestOf(Writers(write, a)))],
                          !.sampled = [i \in 1..Len(o.take) |->
                              Successor(Value(Stored(d, write, ids), p, ids, pos, lastRow[o.take[i]]))],
                          !.wanted = o.want]
      BY DEF Run, Stored, Value, Writers
    <2> QED BY <2>1
  <1>2. \A a \in Address : mem[a] = IF Writers(write, a) = {} THEN d.mem[a]
                                    ELSE Value(stored, p, ids, pos, LargestOf(Writers(write, a)))
    OBVIOUS
  <1>3. /\ DOMAIN sampled = 1..Len(o.take) /\ sampled = [i \in 1..Len(o.take) |-> sampled[i]]
        /\ \A i \in 1..Len(o.take) : sampled[i] = Successor(Value(stored, p, ids, pos, lastRow[o.take[i]]))
    OBVIOUS
  <1> HIDE DEF mem, sampled
  <1>4. PICK want : want = o.want
    OBVIOUS
  <1>5. PICK inputs, table, plan, was, wanted, old :
            d = [inputs |-> inputs, table |-> table, plan |-> plan, sampled |-> was, wanted |-> wanted, mem |-> old]
    BY DEF Shaped
  <1>6. e = [inputs |-> inputs, table |-> table, plan |-> plan, sampled |-> sampled, wanted |-> want, mem |-> mem]
    BY <1>1, <1>4, <1>5
  <1>7. e.inputs = d.inputs /\ e.table = d.table /\ e.plan = d.plan
    BY <1>5, <1>6
  <1>8. e.wanted = want /\ e.sampled = sampled /\ e.mem = mem
    BY <1>6
  <1>9. Shaped(e)
    <2>1. e = [inputs |-> e.inputs, table |-> e.table, plan |-> e.plan, sampled |-> e.sampled,
               wanted |-> e.wanted, mem |-> e.mem]
      BY <1>6
    <2> QED BY <1>7, <2>1 DEF Shaped
  <1> QED BY <1>2, <1>3, <1>4, <1>7, <1>8, <1>9 DEF ForwardRan

LEMMA RunFacts ==
    ASSUME NEW d, NEW ss, NEW cc, NEW c, NEW write, NEW p, NEW ids, NEW pos,
           Ready(d, ss, cc, c, write, p, ids, pos), Shaped(d), NEW o, NEW lastRow,
           NEW e, e = Run(d, o, write, p, ids, pos, lastRow)
    PROVE  /\ ForwardRan(d, e, o) /\ CacheText(e, cc)
           /\ \A k \in 1..Len(ss) : SlotText(e, ss[k], ss[k].n)
           /\ \A i \in 1..Len(o.take) : \A k \in 1..Len(ss) :
                 o.take[i] = k /\ ss[k].n >= PromptLen /\ lastRow[k] = Bounds(c)[k] + c[k]
                     => e.sampled[i] = Text(ss[k].req, ss[k].n)
  <1>1. PICK stored : stored = Stored(d, write, ids)
    OBVIOUS
  <1>2. /\ ForwardRan(d, e, o)
        /\ \A a \in Address :
              e.mem[a] = IF Writers(write, a) = {} THEN d.mem[a]
                         ELSE Value(stored, p, ids, pos, LargestOf(Writers(write, a)))
        /\ \A i \in 1..Len(o.take) :
              e.sampled[i] = Successor(Value(stored, p, ids, pos, lastRow[o.take[i]]))
    BY <1>1, RunShaped
  <1>3. CacheText(e, cc)
    <2> SUFFICES ASSUME NEW key \in PromptKeys, cc[key] # 0, NEW x \in 0..(BlockSize - 1)
                 PROVE  e.mem[<<cc[key], x>>] = <<key[1], (key[2] - 1) * BlockSize + x>>
      BY DEF CacheText
    <2>1. PICK a : a = <<cc[key], x>>
      OBVIOUS
    <2>2. a \in Address /\ Writers(write, a) = {}
      BY <2>1, CachedKept
    <2>3. d.mem[<<cc[key], x>>] = <<key[1], (key[2] - 1) * BlockSize + x>>
      BY DEF Ready, CacheText
    <2> QED BY <1>2, <2>1, <2>2, <2>3
  <1>4. ASSUME NEW k \in 1..Len(ss)
        PROVE  SlotText(e, ss[k], ss[k].n)
    <2> SUFFICES ASSUME NEW q \in 0..(ss[k].n - 1)
                 PROVE  e.mem[AddressOf(ss[k].blocks, q)] = Text(ss[k].req, q)
      BY DEF SlotText
    <2>0. c[k] \in 1..ss[k].n /\ ss[k].n \in Nat
      BY SlotFacts DEF Ready, Advanced, Pooled
    <2>1. PICK n \in Nat, u \in Nat : n = ss[k].n /\ u = c[k]
      BY <2>0
    <2>2. u \in 1..n /\ q \in 0..(n - 1)
      BY <2>0, <2>1
    <2>3. PICK a : a = AddressOf(ss[k].blocks, q)
      OBVIOUS
    <2>4. CASE q < n - u
      <3>1. q \in 0..(ss[k].n - c[k] - 1)
        BY <2>1, <2>2, <2>4
      <3>2. a \in Address /\ Writers(write, a) = {}
        BY <2>3, <3>1, EarlierKept
      <3>3. d.mem[AddressOf(ss[k].blocks, q)] = Text(ss[k].req, q)
        BY <3>1 DEF Ready, SlotText
      <3> QED BY <1>2, <2>3, <3>2, <3>3
    <2>5. CASE ~(q < n - u)
      <3>1. PICK h \in 1..u : q = n - u + h - 1
        <4>1. PICK g \in Nat : g = q - (n - u) + 1
          BY <2>2, <2>5
        <4>2. g \in 1..u /\ q = n - u + g - 1
          BY <2>2, <2>5, <4>1
        <4> QED BY <4>2
      <3>2. PICK j \in 1..c[k] : q = ss[k].n - c[k] + j - 1
        BY <2>1, <3>1
      <3>3. PICK b \in Address : /\ b = AddressOf(ss[k].blocks, ss[k].n - c[k] + j - 1)
                                 /\ WrittenBy(write, b, Bounds(c)[k] + j)
        BY RowWrites
      <3>4. b = a /\ Writers(write, a) = {Bounds(c)[k] + j}
        BY <2>3, <3>2, <3>3 DEF WrittenBy
      <3>5. /\ Bounds(c)[k] + j \in Nat
            /\ Value(stored, p, ids, pos, Bounds(c)[k] + j) = Text(ss[k].req, ss[k].n - c[k] + j - 1)
        BY <1>1, RowReadsText
      <3>6. LargestOf(Writers(write, a)) = Bounds(c)[k] + j
        BY <3>4, <3>5, LargestOfOne
      <3>7. e.mem[a] = Value(stored, p, ids, pos, Bounds(c)[k] + j)
        BY <1>2, <3>3, <3>4, <3>6
      <3> QED BY <2>3, <3>2, <3>5, <3>7
    <2> QED BY <2>4, <2>5
  <1>5. ASSUME NEW i \in 1..Len(o.take), NEW k \in 1..Len(ss), o.take[i] = k,
               ss[k].n >= PromptLen, lastRow[k] = Bounds(c)[k] + c[k]
        PROVE  e.sampled[i] = Text(ss[k].req, ss[k].n)
    <2>0. c[k] \in 1..ss[k].n /\ ss[k].n \in Nat /\ ss[k].req \in RequestId
      BY SlotFacts DEF Ready, Advanced, Pooled
    <2>1. PICK n \in Nat, u \in Nat : n = ss[k].n /\ u = c[k]
      BY <2>0
    <2>2. u \in 1..n
      BY <2>0, <2>1
    <2>3. PICK j \in 1..c[k] : j = u
      BY <2>1, <2>2
    <2>4. Value(stored, p, ids, pos, Bounds(c)[k] + j) = Text(ss[k].req, ss[k].n - c[k] + j - 1)
      BY <1>1, RowReadsText
    <2>5. PICK y \in Nat : y = n - 1
      BY <2>2
    <2>6. ss[k].n - c[k] + j - 1 = y
      BY <2>1, <2>2, <2>3, <2>5
    <2>7. Successor(Text(ss[k].req, y)) = Text(ss[k].req, y + 1)
      <3>1. y + 1 >= PromptLen
        BY <1>5, <2>1, <2>2, <2>5
      <3> QED BY <2>0, <3>1, TextFacts
    <2>8. y + 1 = ss[k].n
      BY <2>1, <2>2, <2>5
    <2>9. lastRow[o.take[i]] = Bounds(c)[k] + j
      BY <1>5, <2>1, <2>3
    <2>10. e.sampled[i] = Successor(Value(stored, p, ids, pos, lastRow[o.take[i]]))
      BY <1>2
    <2>11. e.sampled[i] = Successor(Text(ss[k].req, y))
      BY <2>4, <2>6, <2>9, <2>10
    <2> QED BY <2>7, <2>8, <2>11
  <1> QED BY <1>2, <1>3, <1>4, <1>5

-----------------------------------------------------------------------------
(* The other operations on the device.                                     *)

\* d and e agree, but on their inputs, tables and plans.
SameText(d, e) == e.sampled = d.sampled /\ e.wanted = d.wanted /\ e.mem = d.mem

\* d with other inputs of bucket b, another table, or another plan.
WithInputs(d, b, x) == [d EXCEPT !.inputs[b] = x]
WithTable(d, b, x) == [d EXCEPT !.table[b] = x]
WithPlan(d, w, x) == [d EXCEPT !.plan[w] = x]

LEMMA NewInputs ==
    ASSUME NEW d, Shaped(d), NEW b \in Graph, NEW x, InputShape(b, x), NEW e, e = WithInputs(d, b, x)
    PROVE  /\ Shaped(e) /\ SameText(d, e) /\ e.inputs[b] = x
           /\ e.table = d.table /\ e.plan = d.plan
  <1>1. PICK inputs, table, plan, sampled, wanted, mem :
            d = [inputs |-> inputs, table |-> table, plan |-> plan, sampled |-> sampled,
                 wanted |-> wanted, mem |-> mem]
    BY DEF Shaped
  <1>2. inputs = [g \in Graph |-> inputs[g]] /\ \A g \in Graph : InputShape(g, inputs[g])
    BY <1>1 DEF Shaped
  <1>3. PICK now : now = [inputs EXCEPT ![b] = x]
    OBVIOUS
  <1>4. now = [g \in Graph |-> now[g]] /\ now[b] = x /\ \A g \in Graph : g # b => now[g] = inputs[g]
    BY <1>2, <1>3
  <1>5. e = [inputs |-> now, table |-> table, plan |-> plan, sampled |-> sampled,
             wanted |-> wanted, mem |-> mem]
    BY <1>1, <1>3 DEF WithInputs
  <1>6. \A g \in Graph : InputShape(g, now[g])
    BY <1>2, <1>4
  <1>7. Shaped(e)
    <2>1. /\ e = [inputs |-> e.inputs, table |-> e.table, plan |-> e.plan, sampled |-> e.sampled,
                  wanted |-> e.wanted, mem |-> e.mem]
          /\ e.inputs = now /\ e.table = d.table /\ e.plan = d.plan
      BY <1>1, <1>5
    <2> QED BY <1>4, <1>6, <2>1 DEF Shaped
  <1> QED BY <1>1, <1>4, <1>5, <1>7 DEF SameText

LEMMA NewTable ==
    ASSUME NEW d, Shaped(d), NEW b \in Graph, NEW x, LayoutShape(x), NEW e, e = WithTable(d, b, x)
    PROVE  /\ Shaped(e) /\ SameText(d, e) /\ e.table[b] = x
           /\ e.inputs = d.inputs /\ e.plan = d.plan
  <1>1. PICK inputs, table, plan, sampled, wanted, mem :
            d = [inputs |-> inputs, table |-> table, plan |-> plan, sampled |-> sampled,
                 wanted |-> wanted, mem |-> mem]
    BY DEF Shaped
  <1>2. table = [g \in Graph |-> table[g]] /\ \A g \in Graph : LayoutShape(table[g])
    BY <1>1 DEF Shaped
  <1>3. PICK now : now = [table EXCEPT ![b] = x]
    OBVIOUS
  <1>4. now = [g \in Graph |-> now[g]] /\ now[b] = x /\ \A g \in Graph : g # b => now[g] = table[g]
    BY <1>2, <1>3
  <1>5. e = [inputs |-> inputs, table |-> now, plan |-> plan, sampled |-> sampled,
             wanted |-> wanted, mem |-> mem]
    BY <1>1, <1>3 DEF WithTable
  <1>6. \A g \in Graph : LayoutShape(now[g])
    BY <1>2, <1>4
  <1>7. Shaped(e)
    <2>1. /\ e = [inputs |-> e.inputs, table |-> e.table, plan |-> e.plan, sampled |-> e.sampled,
                  wanted |-> e.wanted, mem |-> e.mem]
          /\ e.inputs = d.inputs /\ e.table = now /\ e.plan = d.plan
      BY <1>1, <1>5
    <2> QED BY <1>4, <1>6, <2>1 DEF Shaped
  <1> QED BY <1>1, <1>4, <1>5, <1>7 DEF SameText

LEMMA NewPlan ==
    ASSUME NEW d, Shaped(d), NEW w \in Wrapper, NEW x, NEW e, e = WithPlan(d, w, x)
    PROVE  /\ Shaped(e) /\ SameText(d, e) /\ e.plan[w] = x
           /\ e.inputs = d.inputs /\ e.table = d.table
  <1>1. PICK inputs, table, plan, sampled, wanted, mem :
            d = [inputs |-> inputs, table |-> table, plan |-> plan, sampled |-> sampled,
                 wanted |-> wanted, mem |-> mem]
    BY DEF Shaped
  <1>2. plan = [g \in Wrapper |-> plan[g]]
    BY <1>1 DEF Shaped
  <1>3. PICK now : now = [plan EXCEPT ![w] = x]
    OBVIOUS
  <1>4. now = [g \in Wrapper |-> now[g]] /\ now[w] = x
    BY <1>2, <1>3
  <1>5. e = [inputs |-> inputs, table |-> table, plan |-> now, sampled |-> sampled,
             wanted |-> wanted, mem |-> mem]
    BY <1>1, <1>3 DEF WithPlan
  <1>7. Shaped(e)
    <2>1. /\ e = [inputs |-> e.inputs, table |-> e.table, plan |-> e.plan, sampled |-> e.sampled,
                  wanted |-> e.wanted, mem |-> e.mem]
          /\ e.inputs = d.inputs /\ e.table = d.table /\ e.plan = now
      BY <1>1, <1>5
    <2> QED BY <1>4, <2>1 DEF Shaped
  <1> QED BY <1>1, <1>4, <1>5, <1>7 DEF SameText

\* The copies, the gather and the plan.
IsOp(o, kind) == o.op = kind /\ o.bucket \in Graph

LEMMA InputsCopy ==
    ASSUME NEW d, Shaped(d), NEW o, IsOp(o, "inputs"),
           NEW inputs, InputShape(o.bucket, inputs[o.bucket]), NEW layouts, NEW e, e = Ran(d, o, inputs, layouts)
    PROVE  /\ Shaped(e) /\ SameText(d, e) /\ e.inputs[o.bucket] = inputs[o.bucket]
  <1> USE DEF IsOp
  <1>1. PICK b \in Graph : b = o.bucket
    OBVIOUS
  <1>2. PICK x : x = inputs[b]
    OBVIOUS
  <1>3. e = WithInputs(d, b, x)
    BY <1>1, <1>2 DEF WithInputs, Ran, CopyInputs
  <1>4. InputShape(b, x)
    BY <1>1, <1>2
  <1> QED BY <1>1, <1>2, <1>3, <1>4, NewInputs

LEMMA PositionsCopy ==
    ASSUME NEW d, Shaped(d), NEW o, IsOp(o, "positions"),
           NEW inputs, InputShape(o.bucket, inputs[o.bucket]), NEW layouts, NEW e, e = Ran(d, o, inputs, layouts)
    PROVE  /\ Shaped(e) /\ SameText(d, e)
           /\ e.inputs[o.bucket].pos = inputs[o.bucket].pos
           /\ e.inputs[o.bucket].last = inputs[o.bucket].last
  <1> USE DEF IsOp
  <1>1. PICK b \in Graph : b = o.bucket
    OBVIOUS
  <1>2. PICK ids, pos, last : inputs[b] = [ids |-> ids, pos |-> pos, last |-> last]
    BY <1>1 DEF InputShape
  <1>3. PICK old : old = d.inputs[b].ids
    OBVIOUS
  <1>4. PICK x : x = [ids |-> old, pos |-> pos, last |-> last]
    OBVIOUS
  <1>5. e = WithInputs(d, b, x)
    <2>1. [inputs[b] EXCEPT !.ids = old] = x
      BY <1>2, <1>4
    <2> QED BY <1>1, <1>3, <2>1 DEF Ran, CopyInputs, WithInputs
  <1>6. InputShape(b, x)
    <2>1. old = [i \in 1..b.rows |-> old[i]]
      <3>1. InputShape(b, d.inputs[b])
        BY DEF Shaped
      <3> QED BY <1>3, <3>1 DEF InputShape
    <2> QED BY <1>4, <2>1 DEF InputShape
  <1>7. Shaped(e) /\ SameText(d, e) /\ e.inputs[b] = x
    BY <1>5, <1>6, NewInputs
  <1> QED BY <1>1, <1>2, <1>4, <1>7

LEMMA Gathered ==
    ASSUME NEW d, Shaped(d), NEW o, IsOp(o, "gather"), NEW n \in Nat, Len(o.rows) = n,
           n <= o.bucket.rows, NEW inputs, NEW layouts, NEW e, e = Ran(d, o, inputs, layouts)
    PROVE  /\ Shaped(e) /\ SameText(d, e)
           /\ e.inputs[o.bucket].pos = d.inputs[o.bucket].pos
           /\ e.inputs[o.bucket].last = d.inputs[o.bucket].last
           /\ \A k \in 1..n : e.inputs[o.bucket].ids[k] = d.sampled[o.rows[k]]
  <1> USE DEF IsOp
  <1>1. PICK b \in Graph : b = o.bucket
    OBVIOUS
  <1>2. PICK ids, pos, last : d.inputs[b] = [ids |-> ids, pos |-> pos, last |-> last]
    <2>1. InputShape(b, d.inputs[b])
      BY DEF Shaped
    <2> QED BY <2>1 DEF InputShape
  <1>3. ids = [i \in 1..b.rows |-> ids[i]]
    <2>1. InputShape(b, d.inputs[b])
      BY DEF Shaped
    <2>2. d.inputs[b].ids = ids
      BY <1>2
    <2>3. d.inputs[b].ids = [i \in 1..b.rows |-> d.inputs[b].ids[i]]
      BY <2>1 DEF InputShape
    <2> QED BY <2>2, <2>3
  <1>4. PICK new : new = [k \in 1..n |-> d.sampled[o.rows[k]]]
    OBVIOUS
  <1>5. Len(new) = n /\ \A k \in 1..n : new[k] = d.sampled[o.rows[k]]
    <2>1. new \in [1..n -> {d.sampled[o.rows[k]] : k \in 1..n}]
      BY <1>4
    <2> QED BY <1>4, <2>1, FunctionIsSeq
  <1>6. PICK rows \in Nat : rows = b.rows
    BY GraphFacts
  <1>7. PICK over : over = [i \in 1..rows |-> IF i <= n THEN new[i] ELSE ids[i]]
    OBVIOUS
  <1>8. Overlay(ids, new) = over
    <2>1. DOMAIN ids = 1..rows
      BY <1>3, <1>6
    <2> QED BY <1>5, <1>7, <2>1 DEF Overlay
  <1>9. \A k \in 1..n : over[k] = d.sampled[o.rows[k]]
    <2> TAKE k \in 1..n
    <2>1. k \in 1..rows /\ k <= n
      BY <1>1, <1>6
    <2> QED BY <1>5, <1>7, <2>1
  <1>10. PICK x : x = [ids |-> over, pos |-> pos, last |-> last]
    OBVIOUS
  <1>11. e = WithInputs(d, b, x)
    <2>1. e = [d EXCEPT !.inputs[b].ids = Overlay(@, new)]
      BY <1>1, <1>4 DEF Ran, Gather
    <2>2. PICK y : y = [d.inputs[b] EXCEPT !.ids = Overlay(d.inputs[b].ids, new)]
      OBVIOUS
    <2>3. y = x
      BY <1>2, <1>8, <1>10, <2>2
    <2>4. e = [d EXCEPT !.inputs[b] = y]
      <3>1. PICK old, table, plan, sampled, wanted, mem :
               d = [inputs |-> old, table |-> table, plan |-> plan, sampled |-> sampled,
                    wanted |-> wanted, mem |-> mem]
        BY DEF Shaped
      <3>2. old = [g \in Graph |-> old[g]]
        BY <3>1 DEF Shaped
      <3>3. y = [old[b] EXCEPT !.ids = Overlay(old[b].ids, new)]
        BY <2>2, <3>1
      <3> QED BY <2>1, <3>1, <3>2, <3>3
    <2> QED BY <2>3, <2>4 DEF WithInputs
  <1>12. InputShape(b, x)
    <2>1. over = [i \in 1..b.rows |-> over[i]]
      BY <1>6, <1>7
    <2> QED BY <1>10, <2>1 DEF InputShape
  <1>13. Shaped(e) /\ SameText(d, e) /\ e.inputs[b] = x
    BY <1>11, <1>12, NewInputs
  <1> QED BY <1>1, <1>2, <1>9, <1>10, <1>13

LEMMA LayoutCopy ==
    ASSUME NEW d, Shaped(d), NEW o, IsOp(o, "layout"),
           NEW inputs, NEW layouts, LayoutShape(layouts[o.bucket]), NEW e, e = Ran(d, o, inputs, layouts)
    PROVE  /\ Shaped(e) /\ SameText(d, e) /\ e.table[o.bucket] = layouts[o.bucket]
           /\ e.inputs = d.inputs
  <1> USE DEF IsOp
  <1>1. PICK b \in Graph : b = o.bucket
    OBVIOUS
  <1>2. PICK x : x = layouts[b]
    OBVIOUS
  <1>3. e = WithTable(d, b, x)
    BY <1>1, <1>2 DEF WithTable, Ran, CopyLayout
  <1>4. LayoutShape(x)
    BY <1>1, <1>2
  <1> QED BY <1>1, <1>2, <1>3, <1>4, NewTable

LEMMA Planned ==
    ASSUME NEW d, Shaped(d), NEW o, IsOp(o, "plan"),
           NEW inputs, NEW layouts, LayoutShape(layouts[o.bucket]), NEW e, e = Ran(d, o, inputs, layouts),
           d.table[o.bucket] = layouts[o.bucket]
    PROVE  /\ Shaped(e) /\ SameText(d, e) /\ e.plan[WrapperOf(o.bucket)] = layouts[o.bucket]
           /\ e.inputs = d.inputs /\ e.table = d.table
  <1> USE DEF IsOp
  <1>1. PICK b \in Graph : b = o.bucket
    OBVIOUS
  <1>2. PICK write, qo, indptr, indices, last :
           layouts[b] = [write |-> write, qo |-> qo, indptr |-> indptr, indices |-> indices, last |-> last]
    BY <1>1 DEF LayoutShape
  <1>3. PICK x : x = [layouts[b] EXCEPT !.indices = d.table[b].indices]
    OBVIOUS
  <1>4. d.table[b] = layouts[b]
    BY <1>1
  <1>5. x = layouts[b]
    BY <1>2, <1>3, <1>4
  <1>6. PICK w \in Wrapper : w = WrapperOf(b)
    BY GraphFacts
  <1>7. e = WithPlan(d, w, x)
    BY <1>1, <1>3, <1>6 DEF Ran, RunPlan, WithPlan
  <1> QED BY <1>1, <1>5, <1>6, <1>7, NewPlan

-----------------------------------------------------------------------------
(* The states the device goes through while it runs the stream.            *)

LEMMA ReachesNothing ==
    ASSUME NEW d, NEW inputs, NEW layouts
    PROVE  /\ Shaped(d) /\ d.sampled = d.wanted => Reaches(d, <<>>, inputs, layouts, d)
           /\ \A e : Reaches(d, <<>>, inputs, layouts, e) => e = d
  <1>1. ASSUME Shaped(d), d.sampled = d.wanted PROVE Reaches(d, <<>>, inputs, layouts, d)
    <2>1. PICK F : F = [i \in 0..0 |-> d]
      OBVIOUS
    <2>2. F[0] = d /\ Len(<<>>) = 0
      BY <2>1
    <2>3. \A i \in 0..0 : i = 0
      OBVIOUS
    <2>4. \A i \in 1..0 : FALSE
      OBVIOUS
    <2>5. Follows(F, d, <<>>, inputs, layouts)
      BY <1>1, <2>2, <2>3, <2>4 DEF Follows
    <2> QED BY <2>2, <2>5 DEF Reaches
  <1>2. ASSUME NEW e, Reaches(d, <<>>, inputs, layouts, e) PROVE e = d
    <2>1. PICK F : Follows(F, d, <<>>, inputs, layouts) /\ F[Len(<<>>)] = e
      BY <1>2 DEF Reaches
    <2>2. F[0] = d /\ Len(<<>>) = 0
      BY <2>1 DEF Follows
    <2> QED BY <2>1, <2>2
  <1> QED BY <1>1, <1>2

LEMMA ReachesEnds ==
    ASSUME NEW S, NEW s \in Seq(S), NEW d, NEW inputs, NEW layouts, NEW e, Reaches(d, s, inputs, layouts, e)
    PROVE  Shaped(d) /\ d.sampled = d.wanted /\ Shaped(e) /\ e.sampled = e.wanted
  <1>1. PICK F : Follows(F, d, s, inputs, layouts) /\ F[Len(s)] = e
    BY DEF Reaches
  <1>2. PICK n \in Nat : n = Len(s)
    OBVIOUS
  <1>3. F[0] = d /\ F[n] = e /\ \A i \in 0..n : Shaped(F[i]) /\ F[i].sampled = F[i].wanted
    BY <1>1, <1>2 DEF Follows
  <1>4. 0 \in 0..n /\ n \in 0..n
    OBVIOUS
  <1> QED BY <1>3, <1>4

\* One operation more.
LEMMA ReachesMore ==
    ASSUME NEW S, NEW s \in Seq(S), NEW d, NEW inputs, NEW layouts, NEW e, Reaches(d, s, inputs, layouts, e),
           NEW o \in S, NEW f, f = Ran(e, o, inputs, layouts), Shaped(f), f.sampled = f.wanted
    PROVE  Reaches(d, Append(s, o), inputs, layouts, f)
  <1>1. PICK F : Follows(F, d, s, inputs, layouts) /\ F[Len(s)] = e
    BY DEF Reaches
  <1>2. PICK n \in Nat : n = Len(s)
    OBVIOUS
  <1>3. /\ F[0] = d /\ F[n] = e
        /\ \A i \in 1..n : F[i] = Ran(F[i - 1], s[i], inputs, layouts)
        /\ \A i \in 0..n : Shaped(F[i]) /\ F[i].sampled = F[i].wanted
    BY <1>1, <1>2 DEF Follows
  <1>4. PICK t : t = Append(s, o)
    OBVIOUS
  <1>5. Len(t) = n + 1 /\ t[n + 1] = o /\ \A i \in 1..n : t[i] = s[i]
    BY <1>2, <1>4, AppendProperties
  <1>6. PICK G : G = [i \in 0..(n + 1) |-> IF i <= n THEN F[i] ELSE f]
    OBVIOUS
  <1>7. G[n + 1] = f /\ \A i \in 0..n : G[i] = F[i]
    <2>1. n + 1 \in 0..(n + 1) /\ ~(n + 1 <= n) /\ \A i \in 0..n : i \in 0..(n + 1) /\ i <= n
      OBVIOUS
    <2> QED BY <1>6, <2>1
  <1>8. ASSUME NEW i \in 1..(n + 1) PROVE G[i] = Ran(G[i - 1], t[i], inputs, layouts)
    <2>1. PICK j \in 0..n : j = i - 1
      OBVIOUS
    <2>2. CASE i \in 1..n
      <3>1. G[i] = F[i] /\ G[j] = F[j] /\ t[i] = s[i]
        BY <1>5, <1>7, <2>2
      <3>2. F[i] = Ran(F[j], s[i], inputs, layouts)
        BY <1>3, <2>1, <2>2
      <3> QED BY <2>1, <3>1, <3>2
    <2>3. CASE i \notin 1..n
      <3>1. i = n + 1 /\ j = n
        BY <2>1, <2>3
      <3>2. G[j] = e
        BY <1>3, <1>7, <3>1
      <3> QED BY <1>5, <1>7, <2>1, <3>1, <3>2
    <2> QED BY <2>2, <2>3
  <1>9. ASSUME NEW i \in 0..(n + 1) PROVE Shaped(G[i]) /\ G[i].sampled = G[i].wanted
    <2>1. i \in 0..n \/ i = n + 1
      OBVIOUS
    <2> QED BY <1>3, <1>7, <2>1
  <1>10. G[0] = d
    <2>1. 0 \in 0..n
      OBVIOUS
    <2> QED BY <1>3, <1>7, <2>1
  <1>11. Follows(G, d, t, inputs, layouts)
    BY <1>5, <1>8, <1>9, <1>10 DEF Follows
  <1> QED BY <1>4, <1>5, <1>7, <1>11 DEF Reaches

\* One operation less.
LEMMA ReachesRest ==
    ASSUME NEW S, NEW s \in Seq(S), s # <<>>, NEW d, NEW inputs, NEW layouts, NEW e,
           Reaches(d, s, inputs, layouts, e)
    PROVE  Reaches(Ran(d, Head(s), inputs, layouts), Tail(s), inputs, layouts, e)
  <1>1. PICK F : Follows(F, d, s, inputs, layouts) /\ F[Len(s)] = e
    BY DEF Reaches
  <1>2. PICK n \in Nat : n + 1 = Len(s)
    <2>1. Len(s) \in Nat /\ Len(s) # 0
      BY EmptySeq
    <2>2. Len(s) - 1 \in Nat /\ (Len(s) - 1) + 1 = Len(s)
      BY <2>1
    <2> QED BY <2>2
  <1>3. /\ F[0] = d /\ F[n + 1] = e
        /\ \A i \in 1..(n + 1) : F[i] = Ran(F[i - 1], s[i], inputs, layouts)
        /\ \A i \in 0..(n + 1) : Shaped(F[i]) /\ F[i].sampled = F[i].wanted
    BY <1>1, <1>2 DEF Follows
  <1>4. PICK t : t = Tail(s)
    OBVIOUS
  <1>5. Len(t) = n /\ Head(s) = s[1] /\ \A i \in 1..n : t[i] = s[i + 1]
    BY <1>2, <1>4, HeadTailProperties
  <1>6. PICK G : G = [i \in 0..n |-> F[i + 1]]
    OBVIOUS
  <1>7. \A i \in 0..n : G[i] = F[i + 1]
    BY <1>6
  <1>8. ASSUME NEW i \in 1..n PROVE G[i] = Ran(G[i - 1], t[i], inputs, layouts)
    <2>1. PICK j \in 0..n : j = i - 1 /\ j + 1 = i
      <3>1. i - 1 \in 0..n /\ (i - 1) + 1 = i
        OBVIOUS
      <3> QED BY <3>1
    <2>2. PICK h \in 1..(n + 1) : h = i + 1 /\ h - 1 = i
      <3>1. i + 1 \in 1..(n + 1) /\ (i + 1) - 1 = i
        OBVIOUS
      <3> QED BY <3>1
    <2>3. F[h] = Ran(F[i], s[h], inputs, layouts)
      BY <1>3, <2>2
    <2>4. G[i] = F[h] /\ G[j] = F[i] /\ t[i] = s[h]
      <3>1. i \in 0..n
        OBVIOUS
      <3> QED BY <1>5, <1>7, <2>1, <2>2, <3>1
    <2> QED BY <2>1, <2>3, <2>4
  <1>9. ASSUME NEW i \in 0..n PROVE Shaped(G[i]) /\ G[i].sampled = G[i].wanted
    <2>1. i + 1 \in 0..(n + 1)
      OBVIOUS
    <2> QED BY <1>3, <1>7, <2>1
  <1>10. G[0] = Ran(d, s[1], inputs, layouts) /\ G[n] = e
    <2>1. 1 \in 1..(n + 1) /\ 1 - 1 = 0 /\ 0 \in 0..n /\ 0 + 1 = 1 /\ n \in 0..n
      OBVIOUS
    <2>2. F[1] = Ran(F[0], s[1], inputs, layouts)
      BY <1>3, <2>1
    <2> QED BY <1>3, <1>7, <2>1, <2>2
  <1>11. Follows(G, Ran(d, s[1], inputs, layouts), t, inputs, layouts)
    BY <1>5, <1>8, <1>9, <1>10 DEF Follows
  <1> QED BY <1>4, <1>5, <1>10, <1>11 DEF Reaches

\* Other pinned memory that no operation of the stream copies.
LEMMA ReachesSame ==
    ASSUME NEW s, NEW d, NEW inputs, NEW layouts, NEW e, Reaches(d, s, inputs, layouts, e),
           NEW new, NEW tables,
           \A i \in 1..Len(s) : \A x : Ran(x, s[i], inputs, layouts) = Ran(x, s[i], new, tables)
    PROVE  Reaches(d, s, new, tables, e)
  <1>1. PICK F : Follows(F, d, s, inputs, layouts) /\ F[Len(s)] = e
    BY DEF Reaches
  <1>2. Follows(F, d, s, new, tables)
    BY <1>1 DEF Follows
  <1> QED BY <1>1, <1>2 DEF Reaches

\* Operation o is of another kind, or copies the same from old and from new.
SameCopy(kinds, o, old, new) == o.op \in kinds => new[o.bucket] = old[o.bucket]

LEMMA RanSameInputs ==
    ASSUME NEW o, NEW inputs, NEW new, NEW layouts, OperationShape(o),
           SameCopy({"inputs", "positions"}, o, inputs, new), NEW x
    PROVE  Ran(x, o, inputs, layouts) = Ran(x, o, new, layouts)
  <1> USE DEF OperationShape, SameCopy
  <1>1. CASE o.op \in {"inputs", "positions"}
    <2>1. CopyInputs(x, o, inputs) = CopyInputs(x, o, new)
      BY <1>1 DEF CopyInputs
    <2> QED BY <1>1, <2>1 DEF Ran
  <1>2. CASE o.op \notin {"inputs", "positions"}
    BY <1>2 DEF Ran
  <1> QED BY <1>1, <1>2

LEMMA RanSameLayouts ==
    ASSUME NEW o, NEW inputs, NEW layouts, NEW new, OperationShape(o),
           SameCopy({"layout", "plan"}, o, layouts, new), NEW x
    PROVE  Ran(x, o, inputs, layouts) = Ran(x, o, inputs, new)
  <1> USE DEF OperationShape, SameCopy
  <1>1. CASE o.op \in {"layout", "plan"}
    <2>1. CopyLayout(x, o, layouts) = CopyLayout(x, o, new) /\ RunPlan(x, o, layouts) = RunPlan(x, o, new)
      BY <1>1 DEF CopyLayout, RunPlan
    <2> QED BY <1>1, <2>1 DEF Ran
  <1>2. CASE o.op \notin {"layout", "plan"}
    BY <1>2 DEF Ran
  <1> QED BY <1>1, <1>2

-----------------------------------------------------------------------------
(* The stream.                                                             *)

LEMMA ConcatOnes ==
    ASSUME NEW S, NEW s \in Seq(S), NEW a \in S, NEW b \in S, NEW c \in S
    PROVE  /\ s \o <<a>> = Append(s, a) /\ s \o <<a, b>> = Append(Append(s, a), b)
           /\ s \o <<a, b, c>> = Append(Append(Append(s, a), b), c)
  OBVIOUS

LEMMA StreamMore ==
    ASSUME NEW s, StreamShape(s), NEW o, OperationShape(o), o.op # "positions"
    PROVE  StreamShape(Append(s, o))
  <1>1. s \in Seq(ToSet(s)) /\ \A i \in 1..Len(s) :
          /\ OperationShape(s[i])
          /\ s[i].op = "positions" =>
                i < Len(s) /\ s[i + 1].op = "gather" /\ s[i + 1].bucket = s[i].bucket
    BY DEF StreamShape
  <1>2. PICK S : S = ToSet(s) \cup {o}
    OBVIOUS
  <1>3. s \in Seq(S) /\ o \in S
    BY <1>1, <1>2
  <1>4. PICK n \in Nat : n = Len(s)
    BY <1>1
  <1>5. PICK t : t = Append(s, o)
    OBVIOUS
  <1>6. t \in Seq(S) /\ Len(t) = n + 1 /\ t[n + 1] = o /\ \A i \in 1..n : t[i] = s[i]
    BY <1>3, <1>4, <1>5, AppendProperties
  <1>7. t \in Seq(ToSet(t))
    BY <1>6, SeqOverItself
  <1>8. ASSUME NEW i \in 1..(n + 1)
        PROVE  /\ OperationShape(t[i])
               /\ t[i].op = "positions" =>
                     i < n + 1 /\ t[i + 1].op = "gather" /\ t[i + 1].bucket = t[i].bucket
    <2>1. CASE i \in 1..n
      <3>1. t[i] = s[i]
        BY <1>6, <2>1
      <3>2. ASSUME s[i].op = "positions"
            PROVE  i < n + 1 /\ t[i + 1].op = "gather" /\ t[i + 1].bucket = t[i].bucket
        <4>1. i < n /\ s[i + 1].op = "gather" /\ s[i + 1].bucket = s[i].bucket
          BY <1>1, <1>4, <2>1, <3>2
        <4>2. i + 1 \in 1..n
          BY <4>1
        <4>3. t[i + 1] = s[i + 1]
          BY <1>6, <4>2
        <4> QED BY <3>1, <4>1, <4>3
      <3> QED BY <1>1, <1>4, <2>1, <3>1, <3>2
    <2>2. CASE i \notin 1..n
      <3>1. i = n + 1
        BY <2>2
      <3> QED BY <1>6, <3>1
    <2> QED BY <2>1, <2>2
  <1> QED BY <1>5, <1>6, <1>7, <1>8 DEF StreamShape

LEMMA StreamPair ==
    ASSUME NEW s, StreamShape(s), NEW o, OperationShape(o), NEW g, OperationShape(g),
           g.op = "gather", g.bucket = o.bucket
    PROVE  StreamShape(Append(Append(s, o), g))
  <1>1. s \in Seq(ToSet(s)) /\ \A i \in 1..Len(s) :
          /\ OperationShape(s[i])
          /\ s[i].op = "positions" =>
                i < Len(s) /\ s[i + 1].op = "gather" /\ s[i + 1].bucket = s[i].bucket
    BY DEF StreamShape
  <1>2. PICK S : S = ToSet(s) \cup {o, g}
    OBVIOUS
  <1>3. s \in Seq(S) /\ o \in S /\ g \in S
    BY <1>1, <1>2
  <1>4. PICK n \in Nat : n = Len(s)
    BY <1>1
  <1>5. PICK t : t = Append(s, o)
    OBVIOUS
  <1>6. t \in Seq(S) /\ Len(t) = n + 1 /\ t[n + 1] = o /\ \A i \in 1..n : t[i] = s[i]
    BY <1>3, <1>4, <1>5, AppendProperties
  <1>7. PICK u : u = Append(t, g)
    OBVIOUS
  <1>8. u \in Seq(S) /\ Len(u) = n + 2 /\ u[n + 2] = g /\ \A i \in 1..(n + 1) : u[i] = t[i]
    <2>1. PICK m \in Nat : m = n + 1
      OBVIOUS
    <2>2. u \in Seq(S) /\ Len(u) = m + 1 /\ u[m + 1] = g /\ \A i \in 1..m : u[i] = t[i]
      BY <1>3, <1>6, <1>7, <2>1, AppendProperties
    <2>3. m + 1 = n + 2
      BY <2>1
    <2> QED BY <2>1, <2>2, <2>3
  <1>9. u \in Seq(ToSet(u))
    BY <1>8, SeqOverItself
  <1>10. u[n + 1] = o /\ \A i \in 1..n : u[i] = s[i]
    <2>1. n + 1 \in 1..(n + 1) /\ \A i \in 1..n : i \in 1..(n + 1)
      OBVIOUS
    <2> QED BY <1>6, <1>8, <2>1
  <1>11. ASSUME NEW i \in 1..(n + 2)
         PROVE  /\ OperationShape(u[i])
                /\ u[i].op = "positions" =>
                      i < n + 2 /\ u[i + 1].op = "gather" /\ u[i + 1].bucket = u[i].bucket
    <2>1. CASE i \in 1..n
      <3>1. u[i] = s[i]
        BY <1>10, <2>1
      <3>2. ASSUME s[i].op = "positions"
            PROVE  i < n + 2 /\ u[i + 1].op = "gather" /\ u[i + 1].bucket = u[i].bucket
        <4>1. i < n /\ s[i + 1].op = "gather" /\ s[i + 1].bucket = s[i].bucket
          BY <1>1, <1>4, <2>1, <3>2
        <4>2. i + 1 \in 1..n
          BY <4>1
        <4>3. u[i + 1] = s[i + 1]
          BY <1>10, <4>2
        <4> QED BY <3>1, <4>1, <4>3
      <3> QED BY <1>1, <1>4, <2>1, <3>1, <3>2
    <2>2. CASE i = n + 1
      <3>1. i + 1 = n + 2 /\ i < n + 2
        BY <2>2
      <3> QED BY <1>8, <1>10, <2>2, <3>1
    <2>3. CASE i = n + 2
      BY <1>8, <2>3
    <2> QED BY <2>1, <2>2, <2>3
  <1> QED BY <1>5, <1>7, <1>8, <1>9, <1>11 DEF StreamShape

LEMMA StreamRest ==
    ASSUME NEW s, StreamShape(s), s # <<>>
    PROVE  StreamShape(Tail(s)) /\ OperationShape(Head(s))
  <1>1. s \in Seq(ToSet(s)) /\ \A i \in 1..Len(s) :
          /\ OperationShape(s[i])
          /\ s[i].op = "positions" =>
                i < Len(s) /\ s[i + 1].op = "gather" /\ s[i + 1].bucket = s[i].bucket
    BY DEF StreamShape
  <1>2. PICK n \in Nat : n + 1 = Len(s)
    <2>1. Len(s) \in Nat /\ Len(s) # 0
      BY <1>1, EmptySeq
    <2>2. Len(s) - 1 \in Nat /\ (Len(s) - 1) + 1 = Len(s)
      BY <2>1
    <2> QED BY <2>2
  <1>3. PICK t : t = Tail(s)
    OBVIOUS
  <1>4. t \in Seq(ToSet(s)) /\ Len(t) = n /\ Head(s) = s[1] /\ \A i \in 1..n : t[i] = s[i + 1]
    BY <1>1, <1>2, <1>3, HeadTailProperties
  <1>5. t \in Seq(ToSet(t))
    BY <1>4, SeqOverItself
  <1>6. ASSUME NEW i \in 1..n
        PROVE  /\ OperationShape(t[i])
               /\ t[i].op = "positions" =>
                     i < n /\ t[i + 1].op = "gather" /\ t[i + 1].bucket = t[i].bucket
    <2>1. PICK h \in 1..(n + 1) : h = i + 1
      OBVIOUS
    <2>2. t[i] = s[h]
      BY <1>4, <2>1
    <2>3. /\ OperationShape(s[h])
          /\ s[h].op = "positions" =>
                h < n + 1 /\ s[h + 1].op = "gather" /\ s[h + 1].bucket = s[h].bucket
      BY <1>1, <1>2
    <2>4. ASSUME s[h].op = "positions" PROVE i < n /\ t[i + 1] = s[h + 1]
      <3>1. i < n
        BY <2>1, <2>3, <2>4
      <3>2. i + 1 \in 1..n /\ h + 1 = (i + 1) + 1
        BY <2>1, <3>1
      <3> QED BY <1>4, <3>1, <3>2
    <2> QED BY <2>2, <2>3, <2>4
  <1>7. OperationShape(s[1])
    BY <1>1, <1>2
  <1> QED BY <1>3, <1>4, <1>5, <1>6, <1>7 DEF StreamShape

-----------------------------------------------------------------------------
(* What the host stages.                                                   *)

LEMMA CountsFacts ==
    ASSUME Pooled(slots, cached)
    PROVE  /\ Len(slots) \in Nat /\ Counts \in [1..Len(slots) -> Nat]
           /\ \A k \in 1..Len(slots) : Counts[k] \in Nat \ {0} /\ Counts[k] <= slots[k].n + Counts[k]
  <1>1. slots \in Seq(Slot) /\ PromptLen \in Nat /\ Chunk \in Nat \ {0}
    BY Sizes DEF Pooled
  <1>2. ASSUME NEW k \in 1..Len(slots)
        PROVE  Counts[k] \in Nat \ {0} /\ slots[k].n \in Nat
    <2>1. PICK n \in Nat : n = slots[k].n
      BY <1>1, SlotFacts
    <2>2. PICK left \in Int : left = PromptLen - n
      BY <1>1
    <2>3. Counts[k] = IF left <= 0 THEN 1 ELSE IF left < Chunk THEN left ELSE Chunk
      BY <2>1, <2>2 DEF Counts
    <2> QED BY <1>1, <2>1, <2>2, <2>3
  <1>3. Counts \in [1..Len(slots) -> Nat]
    BY <1>2 DEF Counts
  <1> QED BY <1>1, <1>2, <1>3

\* The rows of the host's ids and positions.
LEMMA HostRows ==
    ASSUME Pooled(slots, cached), NEW c \in [1..Len(slots) -> Nat]
    PROVE  /\ Len(HostIds(c)) = Total(c) /\ Len(Positions(c)) = Total(c) /\ Total(c) \in Nat
           /\ \A k \in 1..Len(slots) : \A j \in 1..c[k] :
                 /\ HostIds(c)[Bounds(c)[k] + j] = Text(slots[k].req, slots[k].n + j - 1)
                 /\ Positions(c)[Bounds(c)[k] + j] = slots[k].n + j - 1
  <1>1. PICK n \in Nat : n = Len(slots)
    BY DEF Pooled
  <1>2. c \in [1..n -> Nat]
    BY <1>1
  <1> DEFINE id(k) == [j \in 1..c[k] |-> Text(slots[k].req, slots[k].n + j - 1)]
             at(k) == [j \in 1..c[k] |-> slots[k].n + j - 1]
  <1>3. ASSUME NEW k \in 1..n
        PROVE  /\ Len(id(k)) = c[k] /\ \A j \in 1..c[k] : id(k)[j] = Text(slots[k].req, slots[k].n + j - 1)
               /\ Len(at(k)) = c[k] /\ \A j \in 1..c[k] : at(k)[j] = slots[k].n + j - 1
    <2>1. c[k] \in Nat
      BY <1>2
    <2>2. id(k) \in [1..c[k] -> {id(k)[j] : j \in 1..c[k]}]
      OBVIOUS
    <2>3. at(k) \in [1..c[k] -> {at(k)[j] : j \in 1..c[k]}]
      OBVIOUS
    <2>4. Len(id(k)) = c[k]
      BY <2>1, <2>2, FunctionIsSeq
    <2>5. Len(at(k)) = c[k]
      BY <2>1, <2>3, FunctionIsSeq
    <2> QED BY <2>4, <2>5
  <1> DEFINE ids == [k \in 1..n |-> id(k)]
             ats == [k \in 1..n |-> at(k)]
  <1>4. HostIds(c) = Flat(ids) /\ Positions(c) = Flat(ats)
    BY <1>1 DEF HostIds, Positions
  <1> HIDE DEF id, at
  <1>5. Len(ids) = n /\ \A k \in 1..n : ids[k] = id(k)
    <2>1. ids \in [1..n -> {id(k) : k \in 1..n}]
      OBVIOUS
    <2> QED BY <2>1, FunctionIsSeq
  <1>6. Len(ats) = n /\ \A k \in 1..n : ats[k] = at(k)
    <2>1. ats \in [1..n -> {at(k) : k \in 1..n}]
      OBVIOUS
    <2> QED BY <2>1, FunctionIsSeq
  <1> HIDE DEF ids, ats
  <1>7. Laid(n, ids, c) /\ Laid(n, ats, c)
    BY <1>3, <1>5, <1>6 DEF Laid
  <1>8. Len(Flat(ids)) = Total(c) /\ \A k \in 1..n : \A j \in 1..c[k] : Flat(ids)[Bounds(c)[k] + j] = ids[k][j]
    <2>1. Laid(n, ids, c)
      BY <1>7
    <2> QED BY <1>2, <2>1, FlatFacts
  <1>9. Len(Flat(ats)) = Total(c) /\ \A k \in 1..n : \A j \in 1..c[k] : Flat(ats)[Bounds(c)[k] + j] = ats[k][j]
    <2>1. Laid(n, ats, c)
      BY <1>7
    <2> QED BY <1>2, <2>1, FlatFacts
  <1>10. Total(c) \in Nat
    BY <1>2, BoundsFacts
  <1>11. ASSUME NEW k \in 1..n, NEW j \in 1..c[k]
         PROVE  /\ HostIds(c)[Bounds(c)[k] + j] = Text(slots[k].req, slots[k].n + j - 1)
                /\ Positions(c)[Bounds(c)[k] + j] = slots[k].n + j - 1
    <2>1. id(k)[j] = Text(slots[k].req, slots[k].n + j - 1) /\ at(k)[j] = slots[k].n + j - 1
      BY <1>3
    <2>2. Flat(ids)[Bounds(c)[k] + j] = ids[k][j] /\ Flat(ats)[Bounds(c)[k] + j] = ats[k][j]
      BY <1>8, <1>9
    <2> QED BY <1>4, <1>5, <1>6, <2>1, <2>2
  <1> QED BY <1>1, <1>4, <1>8, <1>9, <1>10, <1>11

LEMMA DeviceRowsFacts ==
    ASSUME Pooled(slots, cached), AllDeferred, deferred \in Seq(RequestId)
    PROVE  /\ Len(DeviceRows) = Len(slots)
           /\ \A k \in 1..Len(slots) :
                 /\ DeviceRows[k] \in 1..Len(deferred) /\ deferred[DeviceRows[k]] = slots[k].req
                 /\ slots[k].n >= PromptLen
  <1>1. PICK n \in Nat : n = Len(slots)
    BY DEF Pooled
  <1>2. Len(DeviceRows) = n /\ \A k \in 1..n : DeviceRows[k] = RowOf(slots[k].req)
    <2>1. DeviceRows \in [1..n -> {RowOf(slots[k].req) : k \in 1..n}]
      BY <1>1 DEF DeviceRows
    <2>2. \A k \in 1..n : DeviceRows[k] = RowOf(slots[k].req)
      BY <1>1 DEF DeviceRows
    <2> QED BY <2>1, <2>2, FunctionIsSeq
  <1>3. ASSUME NEW k \in 1..n
        PROVE  /\ RowOf(slots[k].req) \in 1..Len(deferred) /\ deferred[RowOf(slots[k].req)] = slots[k].req
               /\ slots[k].n >= PromptLen
    <2>1. slots[k].req \in ToSet(deferred) /\ slots[k].n >= PromptLen
      BY <1>1 DEF AllDeferred
    <2>2. ToSet(deferred) = {deferred[i] : i \in 1..Len(deferred)}
      BY SeqOverItself
    <2>3. \E i \in 1..Len(deferred) : deferred[i] = slots[k].req
      BY <2>1, <2>2
    <2> QED BY <2>1, <2>3 DEF RowOf
  <1> QED BY <1>1, <1>2, <1>3

LEMMA SmallestFacts ==
    ASSUME NEW S \in SUBSET Nat, S # {}
    PROVE  SmallestOf(S) \in S /\ \A y \in S : SmallestOf(S) <= y
  BY Least DEF SmallestOf

LEMMA RouteFacts ==
    ASSUME NEW n \in Nat, NEW c \in [1..n -> Nat], NEW onDevice \in BOOLEAN, NEW b, b = Route(c, onDevice)
    PROVE  /\ b \in Graph \cup {Eager}
           /\ b # Eager /\ b.kind = "decode" => n <= b.rows /\ \A k \in 1..n : c[k] = 1
           /\ b # Eager /\ b.kind = "prefill" => Holds(b, Total(c), n) /\ ~onDevice
  <1> DEFINE decode == {m \in DecodeBuckets : m >= Len(c) /\ \A k \in 1..Len(c) : c[k] = 1}
             prefill == {m \in PrefillBuckets :
                      ~onDevice /\ Holds([kind |-> "prefill", rows |-> m], Total(c), Len(c))}
  <1>1. b = IF decode # {} THEN [kind |-> "decode", rows |-> SmallestOf(decode)]
            ELSE IF prefill # {} THEN [kind |-> "prefill", rows |-> SmallestOf(prefill)]
            ELSE Eager
    BY DEF Route
  <1>2. Len(c) = n
    BY FunctionIsSeq
  <1>3. decode \subseteq Nat /\ prefill \subseteq Nat
    BY Sizes
  <1>4. \A m \in decode : m \in DecodeBuckets /\ n <= m /\ \A k \in 1..n : c[k] = 1
    BY <1>2, Sizes
  <1>5. \A m \in prefill : m \in PrefillBuckets /\ Holds([kind |-> "prefill", rows |-> m], Total(c), n) /\ ~onDevice
    BY <1>2
  <1> HIDE DEF decode, prefill
  <1>6. CASE decode # {}
    <2>1. PICK m \in decode : b = [kind |-> "decode", rows |-> m]
      BY <1>1, <1>3, <1>6, SmallestFacts
    <2>2. b \in Graph /\ b.kind = "decode" /\ b.rows = m
      BY <1>4, <2>1 DEF Graph
    <2> QED BY <1>4, <2>2
  <1>7. CASE decode = {} /\ prefill # {}
    <2>1. PICK m \in prefill : b = [kind |-> "prefill", rows |-> m]
      BY <1>1, <1>3, <1>7, SmallestFacts
    <2>2. b \in Graph /\ b.kind = "prefill"
      BY <1>5, <2>1 DEF Graph
    <2>3. Holds(b, Total(c), n) /\ ~onDevice
      BY <1>5, <2>1
    <2> QED BY <2>2, <2>3
  <1>8. CASE decode = {} /\ prefill = {}
    <2>1. b = Eager
      BY <1>1, <1>8
    <2> QED BY <2>1
  <1> QED BY <1>6, <1>7, <1>8

-----------------------------------------------------------------------------
(* The steps.                                                              *)

\* The slots hold their text, and so do the cached blocks.
TextHeld(d, ss, cc) ==
    CacheText(d, cc) /\ \A k \in 1..Len(ss) : SlotText(d, ss[k], ss[k].n)

LEMMA SettledIs ==
    /\ \A d : Settled(d) <=> TextHeld(d, slots, cached) /\ DeferredText(d) /\ StagedInputs(d)
    /\ \A d : Settled(d)' <=> TextHeld(d, slots', cached') /\ DeferredText(d)' /\ StagedInputs(d)'
  BY DEF Settled, TextHeld

\* Steps that leave the stream, the device and the pinned memory alone.
LEMMA QuietStep ==
    ASSUME StaticInv, UNCHANGED <<stream, device, staging, layout>>, HostInv', StepInv',
           \A d : Settled(d) => Settled(d)'
    PROVE  StaticInv'
  <1>1. StreamInv' /\ PinnedInv'
    BY DEF StaticInv, StreamInv, PinnedInv
  <1>2. PICK e : Reaches(device, stream, staging, layout, e) /\ Settled(e)
    BY DEF StaticInv, DeviceInv
  <1>3. DeviceInv'
    BY <1>2 DEF DeviceInv
  <1> QED BY <1>1, <1>3 DEF StaticInv

LEMMA AdmitStep ==
    ASSUME StaticInv, Admit
    PROVE  StaticInv'
  <1>1. PICK r \in todo : /\ todo' = todo \ {r}
                          /\ slots' = Append(slots, [req |-> r, n |-> Hits(r) * BlockSize, published |-> Hits(r),
                                         blocks |-> [i \in 1..Hits(r) |-> cached[Key(r, i)]]])
    BY DEF Admit
  <1>2. phase = "idle" /\ deferred = <<>> /\ UNCHANGED <<cached, deferred, phase, step, staging, layout, stream, device>>
    BY DEF Admit
  <1>3. HostInv
    BY DEF StaticInv
  <1>4. PICK s : s = [req |-> r, n |-> Hits(r) * BlockSize, published |-> Hits(r),
                      blocks |-> [i \in 1..Hits(r) |-> cached[Key(r, i)]]]
    OBVIOUS
  <1>5. /\ todo \subseteq RequestId /\ Pooled(slots, cached) /\ r \in RequestId
        /\ \A k \in 1..Len(slots) : /\ slots[k].published = FilledPrompt(slots[k].n)
                                    /\ slots[k].req \notin todo /\ slots[k].n <= MaxLen
    BY <1>3 DEF HostInv
  <1>6. \A k \in 1..Len(slots) : slots[k].req # r
    BY <1>5
  <1>7. /\ Pooled(Append(slots, s), cached) /\ Len(Append(slots, s)) = Len(slots) + 1
        /\ \A k \in 1..Len(slots) : Append(slots, s)[k] = slots[k]
        /\ Append(slots, s)[Len(slots) + 1] = s
        /\ s.req = r /\ s.published = FilledPrompt(s.n) /\ s.n < PromptLen /\ s.n \in Nat
        /\ \A d : CacheText(d, cached) => SlotText(d, s, s.n)
    BY <1>4, <1>5, <1>6, AdmittedPooled
  <1>8. PICK n \in Nat : n = Len(slots)
    BY <1>5 DEF Pooled
  <1>9. /\ Pooled(slots', cached') /\ Len(slots') = n + 1 /\ slots'[n + 1] = s
        /\ \A k \in 1..n : slots'[k] = slots[k]
    BY <1>1, <1>2, <1>4, <1>7, <1>8
  <1>10. \A k \in 1..(n + 1) : k \in 1..n \/ k = n + 1
    OBVIOUS
  <1>11. s.n <= MaxLen
    BY <1>7, Sizes
  <1>12. HostInv'
    <2>1. todo' \subseteq RequestId /\ r \notin todo' /\ \A k \in 1..n : slots[k].req \notin todo'
      BY <1>1, <1>5, <1>8
    <2>2. \A k \in 1..(n + 1) : /\ slots'[k].published = FilledPrompt(slots'[k].n)
                                /\ slots'[k].req \notin todo' /\ slots'[k].n <= MaxLen
      BY <1>5, <1>7, <1>8, <1>9, <1>10, <1>11, <2>1
    <2>3. deferred' \in Seq(RequestId)
      BY <1>2, <1>3 DEF HostInv
    <2> QED BY <1>9, <2>1, <2>2, <2>3 DEF HostInv
  <1>13. StepInv'
    BY <1>2 DEF StepInv
  <1>14. ASSUME NEW d, Settled(d) PROVE Settled(d)'
    <2>1. TextHeld(d, slots, cached)
      BY <1>14, SettledIs
    <2>2. SlotText(d, s, s.n)
      BY <1>7, <2>1 DEF TextHeld
    <2>3. \A k \in 1..(n + 1) : SlotText(d, slots'[k], slots'[k].n)
      BY <1>8, <1>9, <1>10, <2>1, <2>2 DEF TextHeld
    <2>4. TextHeld(d, slots', cached')
      BY <1>2, <1>9, <2>1, <2>3 DEF TextHeld
    <2>5. DeferredText(d)'
      <3>1. deferred' = <<>> /\ Len(<<>>) = 0 /\ 1..0 = {}
        BY <1>2
      <3> QED BY <3>1 DEF DeferredText
    <2>6. StagedInputs(d)'
      BY <1>2 DEF StagedInputs
    <2> QED BY <2>4, <2>5, <2>6, SettledIs
  <1> QED BY <1>2, <1>12, <1>13, <1>14, QuietStep

\* Slots removed from a list that grew or not.
LEMMA RemovedText ==
    ASSUME NEW d, NEW ss, NEW cc, Pooled(ss, cc), TextHeld(d, ss, cc), NEW h \in 1..Len(ss)
    PROVE  TextHeld(d, RemoveAt(ss, h), cc)
  <1>1. \A k \in 1..Len(RemoveAt(ss, h)) :
           Before(h, k) \in 1..Len(ss) /\ RemoveAt(ss, h)[k] = ss[Before(h, k)]
    BY RemovedPooled
  <1> QED BY <1>1 DEF TextHeld

LEMMA ReapStep ==
    ASSUME StaticInv, Reap
    PROVE  StaticInv'
  <1>1. PICK h \in 1..Len(slots) : slots' = RemoveAt(slots, h)
    BY DEF Reap
  <1>2. /\ phase = "idle" /\ deferred' \in {deferred, <<>>}
        /\ UNCHANGED <<todo, cached, phase, step, staging, layout, stream, device>>
    BY DEF Reap, StillDeferred
  <1>3. HostInv /\ Pooled(slots, cached)
    BY DEF StaticInv, HostInv
  <1>4. /\ Pooled(RemoveAt(slots, h), cached)
        /\ \A k \in 1..Len(RemoveAt(slots, h)) :
              Before(h, k) \in 1..Len(slots) /\ RemoveAt(slots, h)[k] = slots[Before(h, k)]
    BY <1>3, RemovedPooled
  <1>5. /\ Pooled(slots', cached')
        /\ \A k \in 1..Len(slots') : Before(h, k) \in 1..Len(slots) /\ slots'[k] = slots[Before(h, k)]
    BY <1>1, <1>2, <1>4
  <1>6. HostInv'
    <2>1. /\ todo \subseteq RequestId /\ deferred \in Seq(RequestId)
          /\ \A k \in 1..Len(slots) : /\ slots[k].published = FilledPrompt(slots[k].n)
                                      /\ slots[k].req \notin todo /\ slots[k].n <= MaxLen
      BY <1>3 DEF HostInv
    <2>2. \A k \in 1..Len(slots') : /\ slots'[k].published = FilledPrompt(slots'[k].n)
                                    /\ slots'[k].req \notin todo /\ slots'[k].n <= MaxLen
      BY <1>5, <2>1
    <2>3. todo' = todo /\ deferred' \in Seq(RequestId)
      <3>1. <<>> \in Seq(RequestId)
        OBVIOUS
      <3> QED BY <1>2, <2>1, <3>1
    <2> QED BY <1>5, <2>1, <2>2, <2>3 DEF HostInv
  <1>7. StepInv'
    BY <1>2 DEF StepInv
  <1>8. ASSUME NEW d, Settled(d) PROVE Settled(d)'
    <2>1. TextHeld(d, slots, cached) /\ DeferredText(d)
      BY <1>8, SettledIs
    <2>2. TextHeld(d, slots', cached')
      BY <1>1, <1>2, <1>3, <2>1, RemovedText
    <2>3. DeferredText(d)'
      <3>1. \A k \in 1..Len(slots) : \A i \in 1..Len(deferred) :
               deferred[i] = slots[k].req => d.sampled[i] = Text(slots[k].req, slots[k].n)
        BY <2>1 DEF DeferredText
      <3>2. \A k \in 1..Len(slots') : \A i \in 1..Len(deferred) :
               deferred[i] = slots'[k].req => d.sampled[i] = Text(slots'[k].req, slots'[k].n)
        BY <1>5, <3>1
      <3>3. deferred' = <<>> => 1..Len(deferred') = {}
        OBVIOUS
      <3> QED BY <1>2, <3>2, <3>3 DEF DeferredText
    <2>4. StagedInputs(d)'
      BY <1>2 DEF StagedInputs
    <2> QED BY <2>2, <2>3, <2>4, SettledIs
  <1> QED BY <1>2, <1>6, <1>7, <1>8, QuietStep

LEMMA ReadDeferredStep ==
    ASSUME StaticInv, ReadDeferred
    PROVE  StaticInv'
  <1>1. phase = "idle" /\ deferred' = <<>> /\ UNCHANGED <<todo, slots, cached, phase, step, staging, layout, stream, device>>
    BY DEF ReadDeferred
  <1>2. HostInv'
    <2>1. HostInv
      BY DEF StaticInv
    <2>2. <<>> \in Seq(RequestId)
      OBVIOUS
    <2> QED BY <1>1, <2>1, <2>2 DEF HostInv
  <1>3. StepInv'
    BY <1>1 DEF StepInv
  <1>4. ASSUME NEW d, Settled(d) PROVE Settled(d)'
    <2>1. TextHeld(d, slots', cached')
      BY <1>1, <1>4, SettledIs
    <2>2. DeferredText(d)'
      <3>1. Len(<<>>) = 0 /\ 1..0 = {}
        OBVIOUS
      <3> QED BY <1>1, <3>1 DEF DeferredText
    <2>3. StagedInputs(d)'
      BY <1>1 DEF StagedInputs
    <2> QED BY <2>1, <2>2, <2>3, SettledIs
  <1> QED BY <1>1, <1>2, <1>3, <1>4, QuietStep

LEMMA ReadPreviousStep ==
    ASSUME StaticInv, ReadPrevious
    PROVE  StaticInv'
  <1>1. phase' = "idle" /\ UNCHANGED <<todo, slots, cached, deferred, step, staging, layout, stream, device>>
    BY DEF ReadPrevious
  <1>2. HostInv'
    BY <1>1 DEF StaticInv, HostInv
  <1>3. StepInv'
    BY <1>1 DEF StepInv
  <1>4. ASSUME NEW d, Settled(d) PROVE Settled(d)'
    <2>1. TextHeld(d, slots', cached')
      BY <1>1, <1>4, SettledIs
    <2>2. DeferredText(d)'
      <3>1. DeferredText(d)
        BY <1>4, SettledIs
      <3> QED BY <1>1, <3>1 DEF DeferredText
    <2>3. StagedInputs(d)'
      BY <1>1 DEF StagedInputs
    <2> QED BY <2>1, <2>2, <2>3, SettledIs
  <1> QED BY <1>1, <1>2, <1>3, <1>4, QuietStep

LEMMA SameTextHeld ==
    ASSUME NEW d, NEW e, SameText(d, e)
    PROVE  /\ \A ss, cc : TextHeld(d, ss, cc) => TextHeld(e, ss, cc)
           /\ DeferredText(d) => DeferredText(e)
           /\ d.sampled = d.wanted => e.sampled = e.wanted
  <1>1. e.mem = d.mem /\ e.sampled = d.sampled /\ e.wanted = d.wanted
    BY DEF SameText
  <1>2. ASSUME NEW ss, NEW cc, TextHeld(d, ss, cc) PROVE TextHeld(e, ss, cc)
    <2>1. CacheText(e, cc)
      BY <1>1, <1>2 DEF TextHeld, CacheText
    <2>2. \A k \in 1..Len(ss) : SlotText(e, ss[k], ss[k].n)
      BY <1>1, <1>2 DEF TextHeld, SlotText
    <2> QED BY <2>1, <2>2 DEF TextHeld
  <1>3. DeferredText(d) => DeferredText(e)
    BY <1>1 DEF DeferredText
  <1> QED BY <1>1, <1>2, <1>3

LEMMA EmptyPooled ==
    ASSUME NEW ss, NEW cc, Pooled(ss, cc)
    PROVE  Pooled(<<>>, cc)
  <1>1. cc \in [PromptKeys -> Pool \cup {0}] /\ OneKeyEach(cc)
    BY DEF Pooled
  <1>2. <<>> \in Seq(Slot) /\ Len(<<>>) = 0
    OBVIOUS
  <1>3. \A k \in 1..Len(<<>>) : FALSE
    BY <1>2
  <1> QED BY <1>1, <1>2, <1>3
          DEF Pooled, Lengths, OneSlotEach, PublishedIsCached, OthersUncached, OthersOwned

\* Pinned memory rewritten for bucket b.
Rewritten(old, b, x, new) == new = [old EXCEPT ![b] = x]
\* o is an operation of this kind on bucket b.
Issued(o, kind, b) == o.op = kind /\ o.bucket = b

\* A new layout in pinned memory, that the device copies.
LEMMA LayoutWritten ==
    ASSUME StreamInv, PinnedInv, NEW b \in Graph, LayoutCopied(b),
           NEW e, Reaches(device, stream, staging, layout, e), NEW x, LayoutShape(x),
           NEW now, Rewritten(layout, b, x, now), NEW o, Issued(o, "layout", b)
    PROVE  /\ now = [g \in Graph |-> now[g]] /\ now[b] = x /\ \A g \in Graph : LayoutShape(now[g])
           /\ Reaches(device, stream, staging, now, e)
           /\ StreamShape(Append(stream, o))
           /\ \E f : /\ Reaches(device, Append(stream, o), staging, now, f)
                     /\ SameText(e, f) /\ f.inputs = e.inputs /\ f.table[b] = x
  <1>1. now = [g \in Graph |-> now[g]] /\ now[b] = x /\ \A g \in Graph : g # b => now[g] = layout[g]
    BY DEF PinnedInv, Rewritten
  <1>2. \A g \in Graph : LayoutShape(now[g])
    BY <1>1 DEF PinnedInv
  <1>3. StreamShape(stream)
    BY DEF StreamInv
  <1>4. ASSUME NEW i \in 1..Len(stream)
        PROVE  \A y : Ran(y, stream[i], staging, layout) = Ran(y, stream[i], staging, now)
    <2>1. OperationShape(stream[i])
      BY <1>3 DEF StreamShape
    <2>2. stream[i].op \in {"layout", "plan"} => now[stream[i].bucket] = layout[stream[i].bucket]
      <3>1. ASSUME stream[i].op \in {"layout", "plan"} PROVE stream[i].bucket # b
        BY <3>1 DEF LayoutCopied, Pending
      <3>2. stream[i].op \in {"layout", "plan"} => stream[i].bucket \in Graph
        BY <2>1 DEF OperationShape
      <3> QED BY <1>1, <3>1, <3>2
    <2>3. SameCopy({"layout", "plan"}, stream[i], layout, now)
      BY <2>2 DEF SameCopy
    <2> QED BY <2>1, <2>3, RanSameLayouts
  <1>5. Reaches(device, stream, staging, now, e)
    BY <1>4, ReachesSame
  <1>6. o.op = "layout" /\ o.bucket = b
    BY DEF Issued
  <1>7. OperationShape(o) /\ o.op # "positions"
    BY <1>6 DEF OperationShape
  <1>8. StreamShape(Append(stream, o))
    BY <1>3, <1>7, StreamMore
  <1>9. PICK S : S = ToSet(stream) \cup {o}
    OBVIOUS
  <1>10. stream \in Seq(S) /\ o \in S
    BY <1>3, <1>9 DEF StreamShape
  <1>11. Shaped(e) /\ e.sampled = e.wanted
    BY <1>5, <1>10, ReachesEnds
  <1>12. PICK f : f = Ran(e, o, staging, now)
    OBVIOUS
  <1>13. Shaped(f) /\ SameText(e, f) /\ f.table[b] = x /\ f.inputs = e.inputs
    <2>0. IsOp(o, "layout")
      BY <1>6 DEF IsOp
    <2>1. LayoutShape(now[o.bucket]) /\ now[o.bucket] = x
      BY <1>1, <1>2, <1>6
    <2>2. Shaped(f) /\ SameText(e, f) /\ f.table[o.bucket] = now[o.bucket] /\ f.inputs = e.inputs
      BY <1>11, <1>12, <2>0, <2>1, LayoutCopy
    <2> QED BY <1>6, <2>1, <2>2
  <1>14. f.sampled = f.wanted
    BY <1>11, <1>13, SameTextHeld
  <1>15. Reaches(device, Append(stream, o), staging, now, f)
    BY <1>5, <1>10, <1>12, <1>13, <1>14, ReachesMore
  <1> QED BY <1>1, <1>2, <1>5, <1>8, <1>13, <1>15

\* The slots that advanced, before their rows ran.
LEMMA ReservedFacts ==
    ASSUME StaticInv, phase = "staged", ~OutOfMemory(step.count), NEW r, r = Reserved(step.count)
    PROVE  /\ Pooled(slots, cached) /\ step.count = Counts /\ slots # <<>>
           /\ Advanced(r.slots, r.cached, step.count)
           /\ Len(r.slots) = Len(slots)
           /\ \A k \in 1..Len(slots) :
                 /\ r.slots[k].req = slots[k].req /\ r.slots[k].n = slots[k].n + Counts[k]
                 /\ r.slots[k].published = FilledPrompt(slots[k].n)
           /\ \A d : TextHeld(d, slots, cached) =>
                 /\ CacheText(d, r.cached)
                 /\ \A k \in 1..Len(slots) : SlotText(d, r.slots[k], slots[k].n)
  <1>1. step.count = Counts /\ slots # <<>>
    BY DEF StaticInv, StepInv
  <1>2. Pooled(slots, cached) /\ \A k \in 1..Len(slots) : slots[k].published = FilledPrompt(slots[k].n)
    BY DEF StaticInv, HostInv
  <1>3. Counts \in [1..Len(slots) -> Nat] /\ \A k \in 1..Len(slots) : Counts[k] \in Nat \ {0} /\ slots[k].n \in Nat
    BY <1>2, CountsFacts, SlotFacts DEF Pooled
  <1>4. ~OutOfMemory(Counts) /\ r = Reserved(Counts)
    BY <1>1
  <1>5. PICK keep : keep = [k \in 1..Len(slots) |-> Len(slots[k].blocks)]
    OBVIOUS
  <1>6. /\ \E given, lo, hi : Grows(r.slots, given, keep, lo, hi) /\ r.cached = Evict(given)
        /\ \A k \in 1..Len(slots) : r.slots[k].n = slots[k].n + Counts[k]
    BY <1>2, <1>3, <1>4, <1>5, ReservedGrows
  <1>7. PICK given, lo, hi : Grows(r.slots, given, keep, lo, hi) /\ r.cached = Evict(given)
    BY <1>6
  <1>8. Pooled(r.slots, r.cached)
    BY <1>2, <1>7, GrownPooled
  <1>9. /\ Len(r.slots) = Len(slots)
        /\ \A k \in 1..Len(slots) : r.slots[k].req = slots[k].req /\ r.slots[k].published = slots[k].published
    BY <1>7 DEF Grows
  <1>10. Advanced(r.slots, r.cached, step.count)
    <2>1. \A k \in 1..Len(slots) : Counts[k] \in 1..r.slots[k].n
      BY <1>3, <1>6
    <2> QED BY <1>1, <1>3, <1>8, <1>9, <2>1 DEF Advanced
  <1>11. ASSUME NEW d, TextHeld(d, slots, cached)
         PROVE  /\ CacheText(d, r.cached)
                /\ \A k \in 1..Len(slots) : SlotText(d, r.slots[k], slots[k].n)
    <2>1. CacheText(d, cached) /\ \A k \in 1..Len(slots) : SlotText(d, slots[k], slots[k].n)
      BY <1>11 DEF TextHeld
    <2>2. CacheText(d, r.cached)
      BY <1>7, <2>1, EvictedText
    <2>3. ASSUME NEW k \in 1..Len(slots) PROVE SlotText(d, r.slots[k], slots[k].n)
      <3>1. BlocksFor(slots[k].n) <= keep[k]
        BY <1>2, <1>5 DEF Pooled, Lengths
      <3>2. SlotText(d, slots[k], slots[k].n)
        BY <2>1
      <3> QED BY <1>2, <1>7, <3>1, <3>2, GrownText
    <2> QED BY <2>2, <2>3
  <1> QED BY <1>1, <1>2, <1>6, <1>9, <1>10, <1>11

\* d and e agree, but e has a plan with layout x.
PlanAdded(d, e, b, x) ==
    /\ SameText(d, e) /\ e.inputs = d.inputs /\ e.table = d.table /\ e.plan[WrapperOf(b)] = x

\* A plan with the layout that the table has.
LEMMA PlanIssued ==
    ASSUME NEW s, StreamShape(s), NEW b \in Graph, NEW now, LayoutShape(now[b]),
           NEW e, Reaches(device, s, staging, now, e), e.table[b] = now[b],
           NEW o, Issued(o, "plan", b)
    PROVE  /\ StreamShape(Append(s, o))
           /\ \E f : Reaches(device, Append(s, o), staging, now, f) /\ PlanAdded(e, f, b, now[b])
  <1>1. o.op = "plan" /\ o.bucket = b
    BY DEF Issued
  <1>2. OperationShape(o) /\ o.op # "positions" /\ IsOp(o, "plan")
    BY <1>1 DEF OperationShape, IsOp
  <1>3. StreamShape(Append(s, o))
    BY <1>2, StreamMore
  <1>4. PICK S : S = ToSet(s) \cup {o}
    OBVIOUS
  <1>5. s \in Seq(S) /\ o \in S
    BY <1>4 DEF StreamShape
  <1>6. Shaped(e) /\ e.sampled = e.wanted
    BY <1>5, ReachesEnds
  <1>7. PICK f : f = Ran(e, o, staging, now)
    OBVIOUS
  <1>8. /\ Shaped(f) /\ SameText(e, f) /\ f.plan[WrapperOf(b)] = now[b]
        /\ f.inputs = e.inputs /\ f.table = e.table
    <2>1. LayoutShape(now[o.bucket]) /\ e.table[o.bucket] = now[o.bucket]
      BY <1>1
    <2>2. /\ Shaped(f) /\ SameText(e, f) /\ f.plan[WrapperOf(o.bucket)] = now[o.bucket]
          /\ f.inputs = e.inputs /\ f.table = e.table
      BY <1>2, <1>6, <1>7, <2>1, Planned
    <2> QED BY <1>1, <2>2
  <1>9. f.sampled = f.wanted
    BY <1>6, <1>8, SameTextHeld
  <1>10. Reaches(device, Append(s, o), staging, now, f)
    BY <1>5, <1>7, <1>8, <1>9, ReachesMore
  <1> QED BY <1>3, <1>8, <1>10 DEF PlanAdded

LEMMA CrashStep ==
    ASSUME StaticInv, Crash
    PROVE  StaticInv'
  <1>1. PICK b \in Graph : b = step.bucket
    BY DEF Crash, StaticInv, StepInv
  <1>2. PICK r : r = Reserved(step.count)
    OBVIOUS
  <1>3. /\ phase = "staged" /\ LayoutCopied(b) /\ ~OutOfMemory(step.count) /\ cached' = r.cached
        /\ slots' = <<>> /\ deferred' = <<>> /\ phase' = "idle" /\ UNCHANGED <<todo, staging, device>>
    BY <1>1, <1>2 DEF Crash, FailedCache
  <1>4. \/ /\ Fits(b, r.slots, step.count)
           /\ layout' = [layout EXCEPT ![b] = StaticLayout(b, r.slots, step.count)]
           /\ LET copied == Append(stream, [op |-> "layout", bucket |-> b])
                  planned == Append(copied, [op |-> "plan", bucket |-> b])
              IN stream' \in {copied, planned}
        \/ UNCHANGED <<layout, stream>>
    BY <1>1, <1>2 DEF Crash
  <1>5. /\ Advanced(r.slots, r.cached, step.count)
        /\ \A d : TextHeld(d, slots, cached) => CacheText(d, r.cached)
    BY <1>2, <1>3, ReservedFacts
  <1>6. Pooled(slots', cached')
    BY <1>3, <1>5, EmptyPooled DEF Advanced
  <1>7. Len(<<>>) = 0 /\ \A k \in 1..Len(<<>>) : FALSE
    OBVIOUS
  <1>8. HostInv'
    <2>1. todo' \subseteq RequestId /\ <<>> \in Seq(RequestId)
      BY <1>3 DEF StaticInv, HostInv
    <2> QED BY <1>3, <1>6, <1>7, <2>1 DEF HostInv
  <1>9. StepInv'
    BY <1>3 DEF StepInv
  <1>10. PICK e : Reaches(device, stream, staging, layout, e) /\ Settled(e)
    BY DEF StaticInv, DeviceInv
  <1>11. ASSUME NEW d, CacheText(d, cached') PROVE Settled(d)'
    <2>1. TextHeld(d, slots', cached')
      BY <1>3, <1>7, <1>11 DEF TextHeld
    <2>2. DeferredText(d)' /\ StagedInputs(d)'
      BY <1>3, <1>7 DEF DeferredText, StagedInputs
    <2> QED BY <2>1, <2>2, SettledIs
  <1>12. CacheText(e, cached')
    BY <1>3, <1>5, <1>10, SettledIs
  <1>13. StreamInv /\ PinnedInv
    BY DEF StaticInv
  <1>14. CASE UNCHANGED <<layout, stream>>
    <2>1. StreamInv' /\ PinnedInv'
      BY <1>3, <1>13, <1>14 DEF StreamInv, PinnedInv
    <2>2. DeviceInv'
      BY <1>3, <1>10, <1>11, <1>12, <1>14 DEF DeviceInv
    <2> QED BY <1>8, <1>9, <2>1, <2>2 DEF StaticInv
  <1>15. CASE /\ Fits(b, r.slots, step.count)
              /\ layout' = [layout EXCEPT ![b] = StaticLayout(b, r.slots, step.count)]
              /\ LET copied == Append(stream, [op |-> "layout", bucket |-> b])
                     planned == Append(copied, [op |-> "plan", bucket |-> b])
                 IN stream' \in {copied, planned}
    <2>1. PICK x : x = StaticLayout(b, r.slots, step.count)
      OBVIOUS
    <2>2. LayoutShape(x)
      BY <1>5, <1>15, <2>1, StaticDescribes
    <2>3. PICK o : o = [op |-> "layout", bucket |-> b]
      OBVIOUS
    <2>4. PICK o2 : o2 = [op |-> "plan", bucket |-> b]
      OBVIOUS
    <2>5. PICK s1 : s1 = Append(stream, o)
      OBVIOUS
    <2>6. layout' = [layout EXCEPT ![b] = x] /\ stream' \in {s1, Append(s1, o2)}
      BY <1>15, <2>1, <2>3, <2>4, <2>5
    <2>7. PICK now : now = layout'
      OBVIOUS
    <2>8. /\ now = [g \in Graph |-> now[g]] /\ now[b] = x /\ \A g \in Graph : LayoutShape(now[g])
          /\ StreamShape(s1)
          /\ \E f : /\ Reaches(device, s1, staging, now, f) /\ SameText(e, f)
                    /\ f.table[b] = x
      <3>1. Rewritten(layout, b, x, now) /\ Issued(o, "layout", b)
        BY <2>3, <2>6, <2>7 DEF Rewritten, Issued
      <3> QED BY <1>3, <1>10, <1>13, <2>2, <2>5, <3>1, LayoutWritten
    <2>9. PICK g : Reaches(device, s1, staging, now, g) /\ SameText(e, g) /\ g.table[b] = x
      BY <2>8
    <2>10. /\ StreamShape(Append(s1, o2))
           /\ \E f : Reaches(device, Append(s1, o2), staging, now, f) /\ PlanAdded(g, f, b, now[b])
      <3>1. LayoutShape(now[b]) /\ g.table[b] = now[b] /\ Issued(o2, "plan", b)
        BY <2>4, <2>8, <2>9 DEF Issued
      <3> QED BY <2>8, <2>9, <3>1, PlanIssued
    <2>11. PICK h : Reaches(device, Append(s1, o2), staging, now, h) /\ SameText(g, h)
      BY <2>10 DEF PlanAdded
    <2>12. StreamInv' /\ PinnedInv'
      BY <1>3, <1>13, <2>6, <2>7, <2>8, <2>10 DEF StreamInv, PinnedInv
    <2>13. CacheText(g, cached') /\ CacheText(h, cached')
      <3>1. CacheText(g, cached')
        BY <1>12, <2>9 DEF SameText, CacheText
      <3> QED BY <2>11, <3>1 DEF SameText, CacheText
    <2>14. \E f : Reaches(device, stream', staging, now, f) /\ CacheText(f, cached')
      <3>1. CASE stream' = s1
        BY <2>9, <2>13, <3>1
      <3>2. CASE stream' = Append(s1, o2)
        BY <2>11, <2>13, <3>2
      <3> QED BY <2>6, <3>1, <3>2
    <2>15. PICK f : Reaches(device, stream', staging, layout', f) /\ CacheText(f, cached')
      BY <2>7, <2>14
    <2>16. DeviceInv'
      BY <1>3, <1>11, <2>15 DEF DeviceInv
    <2> QED BY <1>8, <1>9, <2>12, <2>16 DEF StaticInv
  <1> QED BY <1>4, <1>14, <1>15

LEMMA RunOutOfMemoryStep ==
    ASSUME StaticInv, RunOutOfMemory
    PROVE  StaticInv'
  <1>1. PICK r : r = RolledBack(step.count)
    OBVIOUS
  <1>2. PICK among : among = IF {k \in 1..Len(slots) : slots[k].n < PromptLen} # {}
                             THEN {k \in 1..Len(slots) : slots[k].n < PromptLen} ELSE 1..Len(slots)
    OBVIOUS
  <1>3. /\ phase = "staged" /\ OutOfMemory(step.count)
        /\ slots' = RemoveAt(r.slots, LargestOf(among)) /\ cached' = r.cached
        /\ deferred' \in {deferred, <<>>}
        /\ phase' = "idle" /\ UNCHANGED <<todo, staging, layout, stream, device>>
    BY <1>1, <1>2 DEF RunOutOfMemory, StillDeferred
  <1>4. step.count = Counts /\ slots # <<>>
    BY <1>3 DEF StaticInv, StepInv
  <1>5. /\ Pooled(slots, cached) /\ todo \subseteq RequestId /\ deferred \in Seq(RequestId)
        /\ \A k \in 1..Len(slots) : /\ slots[k].published = FilledPrompt(slots[k].n)
                                    /\ slots[k].req \notin todo /\ slots[k].n <= MaxLen
    BY DEF StaticInv, HostInv
  <1>6. Counts \in [1..Len(slots) -> Nat]
    BY <1>5, CountsFacts
  <1>7. PICK n \in Nat \ {0} : n = Len(slots)
    BY <1>4, <1>5, EmptySeq DEF Pooled
  <1>8. PICK h \in 1..n : h = LargestOf(among)
    <2>1. among \subseteq 1..n
      BY <1>2, <1>7
    <2>2. among \in SUBSET (0..n)
      BY <2>1
    <2>3. among # {}
      BY <1>2, <1>7
    <2> QED BY <2>1, <2>2, <2>3, Greatest
  <1>9. /\ \E given, keep, lo, hi :
              /\ Grows(r.slots, given, keep, lo, hi) /\ r.cached = Evict(given)
              /\ \A k \in 1..Len(slots) : BlocksFor(slots[k].n) <= keep[k]
        /\ \A k \in 1..Len(slots) : r.slots[k].n = slots[k].n
    BY <1>1, <1>3, <1>4, <1>5, <1>6, RolledBackGrows
  <1>10. PICK given, keep, lo, hi :
              /\ Grows(r.slots, given, keep, lo, hi) /\ r.cached = Evict(given)
              /\ \A k \in 1..Len(slots) : BlocksFor(slots[k].n) <= keep[k]
    BY <1>9
  <1>11. Pooled(r.slots, r.cached)
    BY <1>5, <1>10, GrownPooled
  <1>12. /\ Len(r.slots) = n
         /\ \A k \in 1..n : /\ r.slots[k].req = slots[k].req /\ r.slots[k].published = slots[k].published
                            /\ r.slots[k].n = slots[k].n
    BY <1>7, <1>9, <1>10 DEF Grows
  <1>13. /\ Pooled(slots', cached')
         /\ \A k \in 1..Len(slots') : Before(h, k) \in 1..n /\ slots'[k] = r.slots[Before(h, k)]
    BY <1>3, <1>8, <1>11, <1>12, RemovedPooled
  <1>14. HostInv'
    <2>1. \A k \in 1..n : /\ r.slots[k].published = FilledPrompt(r.slots[k].n)
                          /\ r.slots[k].req \notin todo /\ r.slots[k].n <= MaxLen
      BY <1>5, <1>7, <1>12
    <2>2. \A k \in 1..Len(slots') : /\ slots'[k].published = FilledPrompt(slots'[k].n)
                                    /\ slots'[k].req \notin todo /\ slots'[k].n <= MaxLen
      BY <1>13, <2>1
    <2>3. todo' = todo /\ deferred' \in Seq(RequestId)
      <3>1. <<>> \in Seq(RequestId)
        OBVIOUS
      <3> QED BY <1>3, <1>5, <3>1
    <2> QED BY <1>5, <1>13, <2>2, <2>3 DEF HostInv
  <1>15. StepInv'
    BY <1>3 DEF StepInv
  <1>16. ASSUME NEW d, Settled(d) PROVE Settled(d)'
    <2>1. TextHeld(d, slots, cached) /\ DeferredText(d)
      BY <1>16, SettledIs
    <2>2. TextHeld(d, r.slots, r.cached)
      <3>1. CacheText(d, r.cached)
        BY <1>10, <2>1, EvictedText DEF TextHeld
      <3>2. ASSUME NEW k \in 1..Len(slots) PROVE SlotText(d, r.slots[k], slots[k].n)
        <4>1. BlocksFor(slots[k].n) <= keep[k]
          BY <1>10
        <4>2. SlotText(d, slots[k], slots[k].n)
          BY <2>1 DEF TextHeld
        <4> QED BY <1>5, <1>10, <4>1, <4>2, GrownText
      <3>3. \A k \in 1..n : SlotText(d, r.slots[k], r.slots[k].n)
        BY <1>7, <1>12, <3>2
      <3> QED BY <1>12, <3>1, <3>3 DEF TextHeld
    <2>3. TextHeld(d, slots', cached')
      BY <1>3, <1>8, <1>11, <1>12, <2>2, RemovedText
    <2>4. DeferredText(d)'
      <3>1. \A k \in 1..n : \A i \in 1..Len(deferred) :
               deferred[i] = slots[k].req => d.sampled[i] = Text(slots[k].req, slots[k].n)
        BY <1>7, <2>1 DEF DeferredText
      <3>2. \A k \in 1..n : \A i \in 1..Len(deferred) :
               deferred[i] = r.slots[k].req => d.sampled[i] = Text(r.slots[k].req, r.slots[k].n)
        BY <1>12, <3>1
      <3>3. \A k \in 1..Len(slots') : \A i \in 1..Len(deferred) :
               deferred[i] = slots'[k].req => d.sampled[i] = Text(slots'[k].req, slots'[k].n)
        BY <1>13, <3>2
      <3>4. deferred' = <<>> => 1..Len(deferred') = {}
        OBVIOUS
      <3> QED BY <1>3, <3>3, <3>4 DEF DeferredText
    <2>5. StagedInputs(d)'
      BY <1>3 DEF StagedInputs
    <2> QED BY <2>3, <2>4, <2>5, SettledIs
  <1> QED BY <1>3, <1>14, <1>15, <1>16, QuietStep

LEMMA ExecuteStep ==
    ASSUME StaticInv, Execute
    PROVE  StaticInv'
  <1>1. /\ stream # <<>> /\ device' = Ran(device, Head(stream), staging, layout) /\ stream' = Tail(stream)
        /\ UNCHANGED <<todo, slots, cached, deferred, phase, step, staging, layout>>
    BY DEF Execute, host
  <1>2. HostInv' /\ PinnedInv'
    BY <1>1 DEF StaticInv, HostInv, PinnedInv
  <1>3. StepInv'
    BY <1>1 DEF StaticInv, StepInv, Counts, AllDeferred, DeviceRows, RowOf
  <1>4. StreamShape(stream)
    BY DEF StaticInv, StreamInv
  <1>5. StreamInv'
    <2>1. StreamShape(Tail(stream))
      BY <1>1, <1>4, StreamRest
    <2> QED BY <1>1, <2>1 DEF StreamInv
  <1>6. PICK e : Reaches(device, stream, staging, layout, e) /\ Settled(e)
    BY DEF StaticInv, DeviceInv
  <1>7. stream \in Seq(ToSet(stream))
    BY <1>4 DEF StreamShape
  <1>8. Reaches(Ran(device, Head(stream), staging, layout), Tail(stream), staging, layout, e)
    BY <1>1, <1>6, <1>7, ReachesRest
  <1>9. Settled(e)'
    <2>1. TextHeld(e, slots, cached) /\ DeferredText(e) /\ StagedInputs(e)
      BY <1>6, SettledIs
    <2>2. TextHeld(e, slots', cached')
      BY <1>1, <2>1
    <2>3. DeferredText(e)'
      BY <1>1, <2>1 DEF DeferredText
    <2>4. StagedInputs(e)'
      <3>1. Counts' = Counts
        BY <1>1 DEF Counts
      <3> QED BY <1>1, <2>1, <3>1 DEF StagedInputs
    <2> QED BY <2>2, <2>3, <2>4, SettledIs
  <1>10. DeviceInv'
    BY <1>1, <1>8, <1>9 DEF DeviceInv
  <1> QED BY <1>2, <1>3, <1>5, <1>10 DEF StaticInv

LEMMA UnchangedStep ==
    ASSUME StaticInv, UNCHANGED staticVars
    PROVE  StaticInv'
  <1>1. UNCHANGED <<todo, slots, cached, deferred, phase, step, staging, layout, stream, device>>
    BY DEF staticVars, host
  <1>2. HostInv'
    BY <1>1 DEF StaticInv, HostInv
  <1>3. StepInv'
    BY <1>1 DEF StaticInv, StepInv, Counts, AllDeferred, DeviceRows, RowOf
  <1>4. ASSUME NEW d, Settled(d) PROVE Settled(d)'
    <2>1. TextHeld(d, slots, cached) /\ DeferredText(d) /\ StagedInputs(d)
      BY <1>4, SettledIs
    <2>2. TextHeld(d, slots', cached')
      BY <1>1, <2>1
    <2>3. DeferredText(d)'
      BY <1>1, <2>1 DEF DeferredText
    <2>4. StagedInputs(d)'
      <3>1. Counts' = Counts
        BY <1>1 DEF Counts
      <3> QED BY <1>1, <2>1, <3>1 DEF StagedInputs
    <2> QED BY <2>2, <2>3, <2>4, SettledIs
  <1> QED BY <1>1, <1>2, <1>3, <1>4, QuietStep

\* f is a sequence of length m.
IndexedBy(f, m) == f = [i \in 1..m |-> f[i]]

LEMMA OverlayFacts ==
    ASSUME NEW m \in Nat, NEW zeros, DOMAIN zeros = 1..m, NEW s, NEW q \in Nat, Len(s) = q
    PROVE  /\ IndexedBy(Overlay(zeros, s), m)
           /\ \A i \in 1..q : i <= m => Overlay(zeros, s)[i] = s[i]
  <1>1. Overlay(zeros, s) = [i \in 1..m |-> IF i <= q THEN s[i] ELSE zeros[i]]
    BY DEF Overlay
  <1>2. PICK over : over = [i \in 1..m |-> IF i <= q THEN s[i] ELSE zeros[i]]
    OBVIOUS
  <1>3. over = [i \in 1..m |-> over[i]]
    BY <1>2
  <1>4. ASSUME NEW i \in 1..q, i <= m PROVE over[i] = s[i]
    <2>1. i \in 1..m /\ i <= q
      BY <1>4
    <2> QED BY <1>2, <2>1
  <1>5. IndexedBy(Overlay(zeros, s), m)
    BY <1>1, <1>2, <1>3 DEF IndexedBy
  <1> QED BY <1>1, <1>2, <1>4, <1>5

\* What Stage writes to the staging memory.
Staged(b, onDevice) ==
    [ids |-> IF onDevice THEN EmptyInputs(b).ids ELSE Overlay(EmptyInputs(b).ids, HostIds(Counts)),
     pos |-> Overlay(EmptyInputs(b).pos, Positions(Counts)),
     last |-> Overlay(EmptyInputs(b).last, Tail(Bounds(Counts)))]

\* Bucket b has room for the rows and slots of the step that Stage builds.
StagesFrom(b) ==
    /\ Pooled(slots, cached) /\ b \in Graph /\ Total(Counts) <= b.rows
    /\ b.kind = "prefill" => Len(slots) <= SlotsOf(b)

\* x has the staged step's rows, its ids only if they come from the host.
StagedRows(b, x, onDevice) ==
    /\ InputShape(b, x)
    /\ \A k \in 1..Len(slots) : \A j \in 1..Counts[k] :
          /\ x.pos[Bounds(Counts)[k] + j] = slots[k].n + j - 1
          /\ ~onDevice => x.ids[Bounds(Counts)[k] + j] = Text(slots[k].req, slots[k].n + j - 1)
    /\ b.kind = "prefill" => \A k \in 1..Len(slots) : x.last[k] = Bounds(Counts)[k + 1]

LEMMA StagedFacts ==
    ASSUME NEW b, StagesFrom(b), NEW onDevice \in BOOLEAN, NEW x, x = Staged(b, onDevice)
    PROVE  StagedRows(b, x, onDevice)
  <1> USE DEF StagesFrom
  <1>1. PICK c : c = Counts
    OBVIOUS
  <1>2. PICK n \in Nat : n = Len(slots)
    BY CountsFacts
  <1>3. c \in [1..n -> Nat] /\ \A k \in 1..n : c[k] \in Nat \ {0}
    BY <1>1, <1>2, CountsFacts
  <1>4. PICK total \in Nat : total = Total(c)
    BY <1>3, BoundsFacts
  <1>5. PICK rows \in Nat : rows = b.rows
    BY GraphFacts
  <1>6. total <= rows
    BY <1>1, <1>4, <1>5
  <1>7. /\ Len(HostIds(c)) = total /\ Len(Positions(c)) = total
        /\ \A k \in 1..n : \A j \in 1..c[k] :
              /\ HostIds(c)[Bounds(c)[k] + j] = Text(slots[k].req, slots[k].n + j - 1)
              /\ Positions(c)[Bounds(c)[k] + j] = slots[k].n + j - 1
    BY <1>2, <1>3, <1>4, HostRows
  <1>8. PICK ids, pos, last : ids = EmptyInputs(b).ids /\ pos = EmptyInputs(b).pos /\ last = EmptyInputs(b).last
    OBVIOUS
  <1>9. PICK places \in Nat : places = SlotsOf(b)
    BY GraphFacts
  <1>10. /\ DOMAIN ids = 1..rows /\ DOMAIN pos = 1..rows /\ DOMAIN last = 1..places
         /\ ids = [i \in 1..rows |-> ids[i]]
    BY <1>5, <1>8, <1>9 DEF EmptyInputs
  <1>11. /\ Overlay(ids, HostIds(c)) = [i \in 1..rows |-> Overlay(ids, HostIds(c))[i]]
         /\ \A i \in 1..total : i <= rows => Overlay(ids, HostIds(c))[i] = HostIds(c)[i]
    <2>1. /\ IndexedBy(Overlay(ids, HostIds(c)), rows)
          /\ \A i \in 1..total : i <= rows => Overlay(ids, HostIds(c))[i] = HostIds(c)[i]
      BY <1>7, <1>10, OverlayFacts
    <2> QED BY <2>1 DEF IndexedBy
  <1>12. \A i \in 1..total : i <= rows => Overlay(pos, Positions(c))[i] = Positions(c)[i]
    BY <1>7, <1>10, OverlayFacts
  <1>13. PICK tail : tail = Tail(Bounds(c))
    OBVIOUS
  <1>14. Len(tail) = n /\ \A k \in 1..n : tail[k] = Bounds(c)[k + 1]
    <2>1. Bounds(c) \in [1..(n + 1) -> Nat]
      BY <1>3, BoundsFacts
    <2>2. PICK s : s = Bounds(c)
      OBVIOUS
    <2>3. PICK m \in Nat : m = n + 1
      OBVIOUS
    <2>4. s \in [1..m -> Nat]
      BY <2>1, <2>2, <2>3
    <2>5. s \in Seq(Nat) /\ Len(s) = m
      BY <2>4, FunctionIsSeq
    <2>6. s # <<>>
      BY <2>3, <2>5, EmptySeq
    <2>7. Len(tail) = m - 1 /\ \A k \in 1..(m - 1) : tail[k] = s[k + 1]
      BY <1>13, <2>2, <2>5, <2>6, HeadTailProperties
    <2>8. m - 1 = n
      BY <2>3
    <2> QED BY <2>2, <2>7, <2>8
  <1>15. \A i \in 1..n : i <= places => Overlay(last, tail)[i] = tail[i]
    BY <1>10, <1>14, OverlayFacts
  <1>16. /\ x.ids = IF onDevice THEN ids ELSE Overlay(ids, HostIds(c))
         /\ x.pos = Overlay(pos, Positions(c)) /\ x.last = Overlay(last, tail)
         /\ x = [ids |-> x.ids, pos |-> x.pos, last |-> x.last]
    BY <1>1, <1>8, <1>13 DEF Staged
  <1>17. InputShape(b, x)
    <2>1. x.ids = [i \in 1..rows |-> x.ids[i]]
      <3>1. CASE onDevice
        BY <1>10, <1>16, <3>1
      <3>2. CASE ~onDevice
        BY <1>11, <1>16, <3>2
      <3> QED BY <3>1, <3>2
    <2> QED BY <1>5, <1>16, <2>1 DEF InputShape
  <1>18. ASSUME NEW k \in 1..n, NEW j \in 1..c[k]
         PROVE  /\ x.pos[Bounds(c)[k] + j] = slots[k].n + j - 1
                /\ ~onDevice => x.ids[Bounds(c)[k] + j] = Text(slots[k].req, slots[k].n + j - 1)
    <2>1. PICK i \in 1..total : i = Bounds(c)[k] + j
      BY <1>3, <1>4, SegmentIs
    <2>2. i <= rows
      BY <1>6
    <2>3. x.pos[i] = Positions(c)[i] /\ (~onDevice => x.ids[i] = HostIds(c)[i])
      BY <1>11, <1>12, <1>16, <2>2
    <2> QED BY <1>7, <2>1, <2>3
  <1>19. ASSUME b.kind = "prefill", NEW k \in 1..n PROVE x.last[k] = Bounds(c)[k + 1]
    <2>1. k <= places
      BY <1>2, <1>9, <1>19
    <2> QED BY <1>14, <1>15, <1>16, <2>1
  <1> QED BY <1>1, <1>2, <1>17, <1>18, <1>19 DEF StagedRows

\* The staging memory keeps its shape.
InputsPinned(now) == now = [g \in Graph |-> now[g]] /\ \A g \in Graph : InputShape(g, now[g])

\* New inputs in pinned memory.
LEMMA InputsWritten ==
    ASSUME StreamInv, PinnedInv, NEW b \in Graph, InputsCopied(b),
           NEW e, Reaches(device, stream, staging, layout, e), NEW x, InputShape(b, x),
           NEW now, Rewritten(staging, b, x, now)
    PROVE  /\ InputsPinned(now) /\ now[b] = x
           /\ Reaches(device, stream, now, layout, e) /\ Shaped(e) /\ e.sampled = e.wanted
  <1>1. now = [g \in Graph |-> now[g]] /\ now[b] = x /\ \A g \in Graph : g # b => now[g] = staging[g]
    BY DEF PinnedInv, Rewritten
  <1>2. \A g \in Graph : InputShape(g, now[g])
    BY <1>1 DEF PinnedInv
  <1>3. StreamShape(stream)
    BY DEF StreamInv
  <1>4. ASSUME NEW i \in 1..Len(stream)
        PROVE  \A y : Ran(y, stream[i], staging, layout) = Ran(y, stream[i], now, layout)
    <2>1. OperationShape(stream[i])
      BY <1>3 DEF StreamShape
    <2>2. stream[i].op \in {"inputs", "positions"} => now[stream[i].bucket] = staging[stream[i].bucket]
      <3>1. stream[i].op = "inputs" => stream[i].bucket # b
        BY DEF InputsCopied, Pending
      <3>2. ASSUME stream[i].op = "positions" PROVE stream[i].bucket # b
        <4>1. i < Len(stream) /\ stream[i + 1].op = "gather" /\ stream[i + 1].bucket = stream[i].bucket
          BY <1>3, <3>2 DEF StreamShape
        <4>2. Len(stream) \in Nat
          BY <1>3 DEF StreamShape
        <4>3. i + 1 \in 1..Len(stream)
          BY <4>1, <4>2
        <4>4. stream[i + 1].bucket # b
          BY <4>1, <4>3 DEF InputsCopied, Pending
        <4> QED BY <4>1, <4>4
      <3>3. stream[i].op \in {"inputs", "positions"} => stream[i].bucket \in Graph
        BY <2>1 DEF OperationShape
      <3> QED BY <1>1, <3>1, <3>2, <3>3
    <2>3. SameCopy({"inputs", "positions"}, stream[i], staging, now)
      BY <2>2 DEF SameCopy
    <2> QED BY <2>1, <2>3, RanSameInputs
  <1>5. Reaches(device, stream, now, layout, e)
    BY <1>4, ReachesSame
  <1>6. stream \in Seq(ToSet(stream))
    BY <1>3 DEF StreamShape
  <1>7. Shaped(e) /\ e.sampled = e.wanted
    BY <1>5, <1>6, ReachesEnds
  <1> QED BY <1>1, <1>2, <1>5, <1>7 DEF InputsPinned

\* The host's side of Stage.
LEMMA StageHost ==
    ASSUME StaticInv, NEW onDevice \in BOOLEAN, Stage(onDevice)
    PROVE  /\ HostInv' /\ StepInv' /\ Pooled(slots, cached)
           /\ phase' = "staged" /\ UNCHANGED <<todo, slots, cached, deferred, layout, device>> /\ Counts' = Counts
           /\ step'.bucket \in Graph \cup {Eager}
           /\ step'.bucket # Eager =>
                 /\ InputsCopied(step'.bucket)
                 /\ Rewritten(staging, step'.bucket, Staged(step'.bucket, onDevice), staging')
                 /\ stream' = stream \o
                      IF onDevice THEN << [op |-> "positions", bucket |-> step'.bucket],
                                          [op |-> "gather", bucket |-> step'.bucket, rows |-> DeviceRows] >>
                                  ELSE << [op |-> "inputs", bucket |-> step'.bucket] >>
                 /\ Total(Counts) <= step'.bucket.rows
                 /\ step'.bucket.kind = "prefill" => Len(slots) <= SlotsOf(step'.bucket) /\ ~onDevice
                 /\ step'.bucket.kind = "decode" =>
                       Len(slots) <= step'.bucket.rows /\ \A k \in 1..Len(slots) : Counts[k] = 1
           /\ step'.bucket = Eager => UNCHANGED <<staging, stream>>
           /\ onDevice => AllDeferred
  <1>1. PICK b : b = Route(Counts, onDevice)
    OBVIOUS
  <1>2. /\ phase = "idle" /\ (onDevice => AllDeferred) /\ slots # <<>>
        /\ \A k \in 1..Len(slots) : slots[k].n + Counts[k] <= MaxLen
        /\ step' = [bucket |-> b, count |-> Counts, rows |-> IF onDevice THEN DeviceRows ELSE <<>>]
        /\ phase' = "staged" /\ UNCHANGED <<todo, slots, cached, deferred, layout, device>>
    BY <1>1 DEF Stage, AllDeferred
  <1>3. IF b = Eager THEN UNCHANGED <<staging, stream>>
        ELSE /\ InputsCopied(b)
             /\ staging' = [staging EXCEPT ![b] = Staged(b, onDevice)]
             /\ stream' = stream \o
                  IF onDevice THEN << [op |-> "positions", bucket |-> b],
                                      [op |-> "gather", bucket |-> b, rows |-> DeviceRows] >>
                              ELSE << [op |-> "inputs", bucket |-> b] >>
    BY <1>1 DEF Stage, Staged
  <1>4. Pooled(slots, cached) /\ HostInv
    BY DEF StaticInv, HostInv
  <1>5. Counts' = Counts /\ AllDeferred' = AllDeferred /\ DeviceRows' = DeviceRows
    BY <1>2 DEF Counts, AllDeferred, DeviceRows, RowOf
  <1>6. HostInv'
    BY <1>2, <1>4 DEF HostInv
  <1>7. PICK n \in Nat : n = Len(slots)
    BY <1>4, CountsFacts
  <1>8. PICK c \in [1..n -> Nat] : c = Counts
    BY <1>4, <1>7, CountsFacts
  <1>9. /\ b \in Graph \cup {Eager}
        /\ b # Eager /\ b.kind = "decode" => n <= b.rows /\ \A k \in 1..n : c[k] = 1
        /\ b # Eager /\ b.kind = "prefill" => Holds(b, Total(c), n) /\ ~onDevice
    BY <1>1, <1>8, RouteFacts
  <1>10. step'.bucket = b /\ step'.count = c /\ step'.rows = IF onDevice THEN DeviceRows ELSE <<>>
    BY <1>2, <1>8
  <1>11. ASSUME b # Eager
         PROVE  /\ Total(c) <= b.rows /\ (b.kind = "prefill" => n <= SlotsOf(b))
                /\ b \in Graph /\ (b.kind = "decode" \/ b.kind = "prefill")
    <2>1. b \in Graph /\ (b.kind = "decode" \/ b.kind = "prefill") /\ b.rows \in Nat /\ SlotsOf(b) \in Nat
      BY <1>9, <1>11, GraphFacts
    <2>2. CASE b.kind = "decode"
      <3>1. n <= b.rows /\ \A k \in 1..n : c[k] = 1
        BY <1>9, <1>11, <2>2
      <3>2. Total(c) = n
        BY <3>1, Singles
      <3> QED BY <2>1, <2>2, <3>1, <3>2
    <2>3. CASE b.kind = "prefill"
      <3>1. Holds(b, Total(c), n)
        BY <1>9, <1>11, <2>3
      <3>2. Total(c) \in Nat
        BY BoundsFacts
      <3>3. Total(c) <= b.rows /\ n <= SlotsOf(b)
        BY <2>1, <3>1, <3>2 DEF Holds
      <3> QED BY <2>1, <3>3
    <2> QED BY <2>1, <2>2, <2>3
  <1>12. StepInv'
    <2>1. step'.count = Counts' /\ slots' # <<>> /\ step'.bucket \in Graph \cup {Eager}
      BY <1>2, <1>5, <1>8, <1>9, <1>10
    <2>2. \A k \in 1..Len(slots') : slots'[k].n + Counts'[k] <= MaxLen
      BY <1>2, <1>5
    <2>3. step'.bucket # Eager /\ step'.bucket.kind = "decode" =>
              Len(slots') <= step'.bucket.rows /\ \A k \in 1..Len(slots') : Counts'[k] = 1
      BY <1>2, <1>5, <1>7, <1>8, <1>9, <1>10
    <2>4. step'.bucket # Eager /\ step'.bucket.kind = "prefill" =>
              Holds(step'.bucket, Total(Counts'), Len(slots'))
      BY <1>2, <1>5, <1>7, <1>8, <1>9, <1>10
    <2>5. step'.rows # <<>> => /\ AllDeferred' /\ step'.rows = DeviceRows'
                               /\ (step'.bucket = Eager \/ step'.bucket.kind = "decode")
      <3>1. step'.rows # <<>> => onDevice
        BY <1>10
      <3>2. onDevice => b = Eager \/ b.kind = "decode"
        BY <1>9, <1>11
      <3> QED BY <1>2, <1>5, <1>10, <3>1, <3>2
    <2> QED BY <2>1, <2>2, <2>3, <2>4, <2>5 DEF StepInv
  <1>13. b = Eager => UNCHANGED <<staging, stream>>
    BY <1>3
  <1>14. b # Eager =>
            /\ InputsCopied(b) /\ Rewritten(staging, b, Staged(b, onDevice), staging')
            /\ stream' = stream \o
                  IF onDevice THEN << [op |-> "positions", bucket |-> b],
                                      [op |-> "gather", bucket |-> b, rows |-> DeviceRows] >>
                              ELSE << [op |-> "inputs", bucket |-> b] >>
            /\ Total(Counts) <= b.rows
            /\ b.kind = "prefill" => Len(slots) <= SlotsOf(b) /\ ~onDevice
            /\ b.kind = "decode" => Len(slots) <= b.rows /\ \A k \in 1..Len(slots) : Counts[k] = 1
    BY <1>3, <1>7, <1>8, <1>9, <1>11 DEF Rewritten
  <1> QED BY <1>2, <1>4, <1>5, <1>6, <1>9, <1>10, <1>12, <1>13, <1>14

\* A step of the eager path stages nothing.
LEMMA StageEagerStep ==
    ASSUME StaticInv, NEW onDevice \in BOOLEAN, Stage(onDevice), step'.bucket = Eager
    PROVE  StaticInv'
  <1>1. /\ HostInv' /\ StepInv' /\ UNCHANGED <<todo, slots, cached, deferred, layout, device>>
        /\ UNCHANGED <<staging, stream>>
    BY StageHost
  <1>2. ASSUME NEW d, Settled(d) PROVE Settled(d)'
    <2>1. TextHeld(d, slots, cached) /\ DeferredText(d)
      BY <1>2, SettledIs
    <2>2. TextHeld(d, slots', cached') /\ DeferredText(d)'
      BY <1>1, <2>1 DEF DeferredText
    <2>3. StagedInputs(d)'
      BY DEF StagedInputs
    <2> QED BY <2>2, <2>3, SettledIs
  <1> QED BY <1>1, <1>2, QuietStep

\* The inputs come from the host.
LEMMA StageHostStep ==
    ASSUME StaticInv, Stage(FALSE), step'.bucket # Eager
    PROVE  StaticInv'
  <1>1. PICK b \in Graph : b = step'.bucket
    BY StageHost
  <1>2. /\ HostInv' /\ StepInv' /\ Pooled(slots, cached)
        /\ phase' = "staged" /\ UNCHANGED <<todo, slots, cached, deferred, layout, device>> /\ Counts' = Counts
        /\ InputsCopied(b) /\ Rewritten(staging, b, Staged(b, FALSE), staging')
        /\ stream' = stream \o << [op |-> "inputs", bucket |-> b] >>
        /\ Total(Counts) <= b.rows /\ (b.kind = "prefill" => Len(slots) <= SlotsOf(b))
    BY <1>1, StageHost
  <1>3. PICK x : x = Staged(b, FALSE)
    OBVIOUS
  <1>4. /\ InputShape(b, x)
        /\ \A k \in 1..Len(slots) : \A j \in 1..Counts[k] :
              /\ x.pos[Bounds(Counts)[k] + j] = slots[k].n + j - 1
              /\ x.ids[Bounds(Counts)[k] + j] = Text(slots[k].req, slots[k].n + j - 1)
        /\ b.kind = "prefill" => \A k \in 1..Len(slots) : x.last[k] = Bounds(Counts)[k + 1]
    <2>1. StagesFrom(b)
      BY <1>2 DEF StagesFrom
    <2>2. StagedRows(b, x, FALSE)
      BY <1>3, <2>1, StagedFacts
    <2> QED BY <2>2 DEF StagedRows
  <1>5. PICK e : Reaches(device, stream, staging, layout, e) /\ Settled(e)
    BY DEF StaticInv, DeviceInv
  <1>6. StreamInv /\ PinnedInv /\ StreamShape(stream)
    BY DEF StaticInv, StreamInv
  <1>7. /\ InputsPinned(staging') /\ staging'[b] = x
        /\ Reaches(device, stream, staging', layout, e) /\ Shaped(e) /\ e.sampled = e.wanted
    <2>1. InputShape(b, x) /\ InputsCopied(b) /\ Rewritten(staging, b, x, staging')
      BY <1>2, <1>3, <1>4
    <2>2. Reaches(device, stream, staging, layout, e) /\ StreamInv /\ PinnedInv
      BY <1>5, <1>6
    <2> QED BY <2>1, <2>2, InputsWritten
  <1>8. PICK o : o = [op |-> "inputs", bucket |-> b]
    OBVIOUS
  <1>9. o.op = "inputs" /\ o.bucket = b
    BY <1>8
  <1>10. OperationShape(o) /\ IsOp(o, "inputs")
    BY <1>9 DEF OperationShape, IsOp
  <1>11. PICK S : S = ToSet(stream) \cup {o}
    OBVIOUS
  <1>12. stream \in Seq(S) /\ o \in S
    BY <1>6, <1>11 DEF StreamShape
  <1>13. stream' = Append(stream, o)
    BY <1>2, <1>8, <1>12, ConcatOnes
  <1>14. StreamShape(stream')
    <2>1. StreamShape(Append(stream, o))
      BY <1>6, <1>9, <1>10, StreamMore
    <2> QED BY <1>13, <2>1
  <1>15. PICK f : f = Ran(e, o, staging', layout)
    OBVIOUS
  <1>16. Shaped(f) /\ SameText(e, f) /\ f.inputs[b] = x
    <2>1. InputShape(o.bucket, staging'[o.bucket]) /\ staging'[o.bucket] = x
      BY <1>7, <1>9 DEF InputsPinned
    <2>2. Shaped(f) /\ SameText(e, f) /\ f.inputs[o.bucket] = staging'[o.bucket]
      BY <1>7, <1>10, <1>15, <2>1, InputsCopy
    <2> QED BY <1>9, <2>1, <2>2
  <1>17. f.sampled = f.wanted
    BY <1>7, <1>16, SameTextHeld
  <1>18. Reaches(device, Append(stream, o), staging', layout, f)
    BY <1>7, <1>12, <1>15, <1>16, <1>17, ReachesMore
  <1>19. Settled(f)'
    <2>1. TextHeld(e, slots, cached) /\ DeferredText(e)
      BY <1>5, SettledIs
    <2>2. TextHeld(f, slots, cached) /\ DeferredText(f)
      BY <1>16, <2>1, SameTextHeld
    <2>3. TextHeld(f, slots', cached') /\ DeferredText(f)'
      BY <1>2, <2>2 DEF DeferredText
    <2>4. StagedInputs(f)'
      <3>1. f.inputs[step'.bucket] = x /\ step'.bucket = b
        BY <1>1, <1>16
      <3> QED BY <1>2, <1>4, <3>1 DEF StagedInputs
    <2> QED BY <2>3, <2>4, SettledIs
  <1>20. DeviceInv'
    <2>1. Reaches(device', stream', staging', layout', f)
      BY <1>2, <1>13, <1>18
    <2> QED BY <1>19, <2>1 DEF DeviceInv
  <1>21. StreamInv' /\ PinnedInv'
    <2>1. layout' = layout
      BY <1>2
    <2>2. layout = [g \in Graph |-> layout[g]] /\ \A g \in Graph : LayoutShape(layout[g])
      BY <1>6 DEF PinnedInv
    <2> QED BY <1>7, <1>14, <2>1, <2>2 DEF StreamInv, PinnedInv, InputsPinned
  <1> QED BY <1>2, <1>20, <1>21 DEF StaticInv

\* y has the rows of x.
SameRows(x, y) == y.pos = x.pos /\ y.last = x.last

LEMMA PositionsCopied ==
    ASSUME NEW d, Shaped(d), NEW o, IsOp(o, "positions"),
           NEW inputs, InputShape(o.bucket, inputs[o.bucket]), NEW layouts, NEW e, e = Ran(d, o, inputs, layouts)
    PROVE  Shaped(e) /\ SameText(d, e) /\ SameRows(inputs[o.bucket], e.inputs[o.bucket])
  BY PositionsCopy DEF SameRows

\* t is the gather of these rows into bucket b.
GatherIssued(t, b, rows) ==
    t = stream \o << [op |-> "positions", bucket |-> b], [op |-> "gather", bucket |-> b, rows |-> rows] >>

\* The first n ids of x are those e sampled for these rows.
IdsGathered(e, x, rows, n) == \A k \in 1..n : x.ids[k] = e.sampled[rows[k]]

\* A copy and a gather, one after the other, with new inputs in pinned memory.
LEMMA GatherWritten ==
    ASSUME StreamShape(stream), NEW b \in Graph, NEW now, InputsPinned(now),
           NEW e, Reaches(device, stream, now, layout, e), Shaped(e), e.sampled = e.wanted,
           NEW n \in Nat, n <= b.rows, NEW rows, Len(rows) = n,
           NEW t, GatherIssued(t, b, rows)
    PROVE  /\ StreamShape(t)
           /\ \E f : /\ Reaches(device, t, now, layout, f) /\ SameText(e, f)
                     /\ SameRows(now[b], f.inputs[b]) /\ IdsGathered(e, f.inputs[b], rows, n)
  <1>1. PICK o : o = [op |-> "positions", bucket |-> b]
    OBVIOUS
  <1>2. PICK g : g = [op |-> "gather", bucket |-> b, rows |-> rows]
    OBVIOUS
  <1>3. o.op = "positions" /\ o.bucket = b /\ g.op = "gather" /\ g.bucket = b /\ g.rows = rows
    BY <1>1, <1>2
  <1>4. OperationShape(o) /\ OperationShape(g) /\ IsOp(o, "positions") /\ IsOp(g, "gather")
    BY <1>3 DEF OperationShape, IsOp
  <1>5. PICK S : S = ToSet(stream) \cup {o, g}
    OBVIOUS
  <1>6. stream \in Seq(S) /\ o \in S /\ g \in S
    BY <1>5 DEF StreamShape
  <1>7. PICK s : s = Append(stream, o)
    OBVIOUS
  <1>8. t = Append(s, g) /\ s \in Seq(S)
    <2>1. t = stream \o <<o, g>>
      BY <1>1, <1>2 DEF GatherIssued
    <2> QED BY <1>6, <1>7, <2>1, ConcatOnes, AppendProperties
  <1>9. StreamShape(t)
    BY <1>3, <1>4, <1>7, <1>8, StreamPair
  <1>10. PICK h : h = Ran(e, o, now, layout)
    OBVIOUS
  <1>11. /\ Shaped(h) /\ SameText(e, h)
         /\ SameRows(now[b], h.inputs[b])
    <2>1. InputShape(o.bucket, now[o.bucket])
      BY <1>3 DEF InputsPinned
    <2>2. Shaped(h) /\ SameText(e, h) /\ SameRows(now[o.bucket], h.inputs[o.bucket])
      BY <1>4, <1>10, <2>1, PositionsCopied
    <2> QED BY <1>3, <2>2
  <1>12. h.sampled = h.wanted
    BY <1>11, SameTextHeld
  <1>13. Reaches(device, s, now, layout, h)
    BY <1>6, <1>7, <1>10, <1>11, <1>12, ReachesMore
  <1>14. PICK f : f = Ran(h, g, now, layout)
    OBVIOUS
  <1>15. /\ Shaped(f) /\ SameText(h, f)
         /\ f.inputs[b].pos = h.inputs[b].pos /\ f.inputs[b].last = h.inputs[b].last
         /\ \A k \in 1..n : f.inputs[b].ids[k] = h.sampled[rows[k]]
    <2>1. Len(g.rows) = n /\ n <= g.bucket.rows
      BY <1>3
    <2>2. /\ Shaped(f) /\ SameText(h, f)
          /\ f.inputs[g.bucket].pos = h.inputs[g.bucket].pos
          /\ f.inputs[g.bucket].last = h.inputs[g.bucket].last
          /\ \A k \in 1..n : f.inputs[g.bucket].ids[k] = h.sampled[g.rows[k]]
      BY <1>4, <1>11, <1>14, <2>1, Gathered
    <2> QED BY <1>3, <2>2
  <1>16. f.sampled = f.wanted
    BY <1>12, <1>15, SameTextHeld
  <1>17. Reaches(device, t, now, layout, f)
    BY <1>6, <1>8, <1>13, <1>14, <1>15, <1>16, ReachesMore
  <1>18. SameText(e, f) /\ h.sampled = e.sampled
    BY <1>11, <1>15 DEF SameText
  <1>19. SameRows(now[b], f.inputs[b]) /\ IdsGathered(e, f.inputs[b], rows, n)
    BY <1>11, <1>15, <1>18 DEF SameRows, IdsGathered
  <1> QED BY <1>9, <1>17, <1>18, <1>19

\* The ids come from the rows of the last forward.
LEMMA StageDeviceStep ==
    ASSUME StaticInv, Stage(TRUE), step'.bucket # Eager
    PROVE  StaticInv'
  <1>1. PICK b \in Graph : b = step'.bucket
    BY StageHost
  <1>2. /\ HostInv' /\ StepInv' /\ Pooled(slots, cached) /\ AllDeferred
        /\ phase' = "staged" /\ UNCHANGED <<todo, slots, cached, deferred, layout, device>> /\ Counts' = Counts
        /\ InputsCopied(b) /\ Rewritten(staging, b, Staged(b, TRUE), staging')
        /\ stream' = stream \o << [op |-> "positions", bucket |-> b],
                                  [op |-> "gather", bucket |-> b, rows |-> DeviceRows] >>
        /\ Total(Counts) <= b.rows
        /\ b.kind = "prefill" => FALSE
        /\ b.kind = "decode" => Len(slots) <= b.rows /\ \A k \in 1..Len(slots) : Counts[k] = 1
    BY <1>1, StageHost
  <1>3. PICK x : x = Staged(b, TRUE)
    OBVIOUS
  <1>4. /\ InputShape(b, x)
        /\ \A k \in 1..Len(slots) : \A j \in 1..Counts[k] :
              x.pos[Bounds(Counts)[k] + j] = slots[k].n + j - 1
    <2>1. StagesFrom(b)
      BY <1>2 DEF StagesFrom
    <2>2. StagedRows(b, x, TRUE)
      BY <1>3, <2>1, StagedFacts
    <2> QED BY <2>2 DEF StagedRows
  <1>5. PICK e : Reaches(device, stream, staging, layout, e) /\ Settled(e)
    BY DEF StaticInv, DeviceInv
  <1>6. StreamInv /\ PinnedInv /\ StreamShape(stream) /\ HostInv
    BY DEF StaticInv, StreamInv
  <1>7. /\ InputsPinned(staging') /\ staging'[b] = x
        /\ Reaches(device, stream, staging', layout, e) /\ Shaped(e) /\ e.sampled = e.wanted
    <2>1. InputShape(b, x) /\ InputsCopied(b) /\ Rewritten(staging, b, x, staging')
      BY <1>2, <1>3, <1>4
    <2>2. Reaches(device, stream, staging, layout, e) /\ StreamInv /\ PinnedInv
      BY <1>5, <1>6
    <2> QED BY <2>1, <2>2, InputsWritten
  <1>8. b.kind = "decode"
    BY <1>2, GraphFacts
  <1>9. PICK n \in Nat : n = Len(slots)
    BY <1>2, CountsFacts
  <1>10. n <= b.rows /\ \A k \in 1..n : Counts[k] = 1
    BY <1>2, <1>8, <1>9
  <1>11. deferred \in Seq(RequestId)
    BY <1>6 DEF HostInv
  <1>12. /\ Len(DeviceRows) = n
         /\ \A k \in 1..n : DeviceRows[k] \in 1..Len(deferred) /\ deferred[DeviceRows[k]] = slots[k].req
    BY <1>2, <1>9, <1>11, DeviceRowsFacts
  <1>13. /\ StreamShape(stream')
         /\ \E f : /\ Reaches(device, stream', staging', layout, f) /\ SameText(e, f)
                   /\ f.inputs[b].pos = staging'[b].pos /\ f.inputs[b].last = staging'[b].last
                   /\ \A k \in 1..n : f.inputs[b].ids[k] = e.sampled[DeviceRows[k]]
    <2>1. PICK now : now = staging'
      OBVIOUS
    <2>2. PICK rows : rows = DeviceRows
      OBVIOUS
    <2>3. PICK t : t = stream'
      OBVIOUS
    <2>4. GatherIssued(t, b, rows)
      BY <1>2, <2>2, <2>3 DEF GatherIssued
    <2>5. /\ StreamShape(stream) /\ InputsPinned(now) /\ Len(rows) = n /\ n <= b.rows
          /\ Reaches(device, stream, now, layout, e) /\ Shaped(e) /\ e.sampled = e.wanted
      BY <1>6, <1>7, <1>10, <1>12, <2>1, <2>2
    <2>6. /\ StreamShape(t)
          /\ \E f : /\ Reaches(device, t, now, layout, f) /\ SameText(e, f)
                    /\ SameRows(now[b], f.inputs[b]) /\ IdsGathered(e, f.inputs[b], rows, n)
      BY <2>4, <2>5, GatherWritten
    <2> QED BY <2>1, <2>2, <2>3, <2>6 DEF SameRows, IdsGathered
  <1>14. PICK f : /\ Reaches(device, stream', staging', layout, f) /\ SameText(e, f)
                  /\ f.inputs[b].pos = staging'[b].pos
                  /\ \A k \in 1..n : f.inputs[b].ids[k] = e.sampled[DeviceRows[k]]
    BY <1>13
  <1>15. Settled(f)'
    <2>1. TextHeld(e, slots, cached) /\ DeferredText(e)
      BY <1>5, SettledIs
    <2>2. TextHeld(f, slots, cached) /\ DeferredText(f)
      BY <1>14, <2>1, SameTextHeld
    <2>3. TextHeld(f, slots', cached') /\ DeferredText(f)'
      BY <1>2, <2>2 DEF DeferredText
    <2>4. ASSUME NEW k \in 1..n, NEW j \in 1..Counts[k]
          PROVE  /\ f.inputs[b].ids[Bounds(Counts)[k] + j] = Text(slots[k].req, slots[k].n + j - 1)
                 /\ f.inputs[b].pos[Bounds(Counts)[k] + j] = slots[k].n + j - 1
      <3>1. f.inputs[b].pos[Bounds(Counts)[k] + j] = slots[k].n + j - 1
        BY <1>4, <1>7, <1>9, <1>14
      <3>2. PICK i \in 1..Len(deferred) : i = DeviceRows[k] /\ deferred[i] = slots[k].req
        BY <1>12
      <3>3. e.sampled[i] = Text(slots[k].req, slots[k].n)
        BY <1>9, <2>1, <3>2 DEF DeferredText
      <3>4. j = 1
        BY <1>10
      <3>5. PICK c \in [1..n -> Nat] : c = Counts
        BY <1>2, <1>9, CountsFacts
      <3>6. \A h \in 1..n : c[h] = 1
        BY <1>10, <3>5
      <3>7. Bounds(c)[k] = k - 1
        <4>1. k \in 1..(n + 1)
          OBVIOUS
        <4> QED BY <3>6, <4>1, Singles
      <3>8. Bounds(Counts)[k] + j = k
        BY <3>4, <3>5, <3>7
      <3>9. slots[k].n \in Nat
        BY <1>2, <1>9, SlotFacts DEF Pooled
      <3>10. slots[k].n + j - 1 = slots[k].n
        BY <3>4, <3>9
      <3>11. f.inputs[b].ids[k] = Text(slots[k].req, slots[k].n)
        BY <1>14, <3>2, <3>3
      <3> QED BY <3>1, <3>8, <3>10, <3>11
    <2>5. StagedInputs(f)'
      <3>1. step'.bucket = b
        BY <1>1
      <3> QED BY <1>2, <1>9, <2>4, <3>1 DEF StagedInputs
    <2> QED BY <2>3, <2>5, SettledIs
  <1>16. DeviceInv'
    <2>1. Reaches(device', stream', staging', layout', f)
      BY <1>2, <1>14
    <2> QED BY <1>15, <2>1 DEF DeviceInv
  <1>17. StreamInv' /\ PinnedInv'
    <2>1. layout' = layout
      BY <1>2
    <2>2. layout = [g \in Graph |-> layout[g]] /\ \A g \in Graph : LayoutShape(layout[g])
      BY <1>6 DEF PinnedInv
    <2> QED BY <1>7, <1>13, <2>1, <2>2 DEF StreamInv, PinnedInv, InputsPinned
  <1> QED BY <1>2, <1>16, <1>17 DEF StaticInv

-----------------------------------------------------------------------------
(* The forward.                                                            *)

LEMMA DecodersFacts ==
    ASSUME NEW ss, NEW cc, Pooled(ss, cc)
    PROVE  /\ Len(Decoders(ss)) \in Nat
           /\ \A i \in 1..Len(Decoders(ss)) :
                 Decoders(ss)[i] \in 1..Len(ss) /\ ss[Decoders(ss)[i]].n >= PromptLen
           /\ \A i, j \in 1..Len(Decoders(ss)) : Decoders(ss)[i] = Decoders(ss)[j] => i = j
  <1>1. PICK n \in Nat : n = Len(ss)
    BY DEF Pooled
  <1>2. PICK S \in SUBSET (1..n) : S = {k \in 1..n : ss[k].n >= PromptLen}
    OBVIOUS
  <1>3. Decoders(ss) = InOrder(S)
    BY <1>1, <1>2 DEF Decoders
  <1>4. PICK m \in Nat : m = Cardinality(S)
    BY InOrderFacts
  <1>5. /\ InOrder(S) \in Seq(S) /\ Len(InOrder(S)) = m
        /\ \A i, j \in 1..m : InOrder(S)[i] = InOrder(S)[j] => i = j
    BY <1>4, InOrderFacts
  <1>6. \A i \in 1..m : InOrder(S)[i] \in S
    BY <1>5, ElementOfSeq
  <1> QED BY <1>1, <1>2, <1>3, <1>5, <1>6

\* Operation o is the forward of the slots of r, that advanced by c.
ForwardOf(o, r, c) ==
    /\ Advanced(r.slots, r.cached, c)
    /\ \A k \in 1..Len(r.slots) : r.slots[k].published <= FilledPrompt(r.slots[k].n - c[k])
    /\ o.take = Decoders(r.slots)
    /\ o.want = [i \in 1..Len(o.take) |-> Text(r.slots[o.take[i]].req, r.slots[o.take[i]].n)]

\* What the device holds when the slots of r have reached their length.
ForwardDone(e, f, o, r) ==
    /\ Shaped(f) /\ f.sampled = f.wanted /\ TextHeld(f, r.slots, r.cached)
    /\ f.sampled = [i \in 1..Len(o.take) |-> Text(r.slots[o.take[i]].req, r.slots[o.take[i]].n)]

LEMMA ForwardRuns ==
    ASSUME NEW o, NEW r, NEW c, ForwardOf(o, r, c), NEW d, Shaped(d), NEW write, NEW p, NEW ids, NEW pos,
           Ready(d, r.slots, r.cached, c, write, p, ids, pos), NEW lastRow,
           \A k \in 1..Len(r.slots) : lastRow[k] = Bounds(c)[k] + c[k],
           NEW f, f = Run(d, o, write, p, ids, pos, lastRow)
    PROVE  ForwardDone(d, f, o, r)
  <1>1. PICK ss, cc : ss = r.slots /\ cc = r.cached
    OBVIOUS
  <1>2. /\ ForwardRan(d, f, o) /\ CacheText(f, cc)
        /\ \A k \in 1..Len(ss) : SlotText(f, ss[k], ss[k].n)
        /\ \A i \in 1..Len(o.take) : \A k \in 1..Len(ss) :
              o.take[i] = k /\ ss[k].n >= PromptLen /\ lastRow[k] = Bounds(c)[k] + c[k]
                  => f.sampled[i] = Text(ss[k].req, ss[k].n)
    <2>1. Ready(d, ss, cc, c, write, p, ids, pos)
      BY <1>1
    <2> QED BY <2>1, RunFacts
  <1>3. Pooled(ss, cc) /\ o.take = Decoders(ss)
    BY <1>1 DEF ForwardOf, Advanced
  <1>4. \A i \in 1..Len(o.take) : o.take[i] \in 1..Len(ss) /\ ss[o.take[i]].n >= PromptLen
    BY <1>3, DecodersFacts
  <1>5. \A i \in 1..Len(o.take) : f.sampled[i] = Text(ss[o.take[i]].req, ss[o.take[i]].n)
    BY <1>1, <1>2, <1>4
  <1>6. f.sampled = [i \in 1..Len(o.take) |-> f.sampled[i]] /\ Shaped(f) /\ f.wanted = o.want
    BY <1>2 DEF ForwardRan
  <1>7. f.sampled = [i \in 1..Len(o.take) |-> Text(ss[o.take[i]].req, ss[o.take[i]].n)]
    BY <1>5, <1>6
  <1>8. f.sampled = f.wanted
    BY <1>1, <1>6, <1>7 DEF ForwardOf
  <1>9. TextHeld(f, ss, cc)
    BY <1>2 DEF TextHeld
  <1> QED BY <1>1, <1>6, <1>7, <1>8, <1>9 DEF ForwardDone

\* What the host does in Launch, whichever way the forward takes.
LaunchHost(r) ==
    /\ phase = "staged" /\ r = Reserved(step.count) /\ ~OutOfMemory(step.count)
    /\ slots' = Published(r).slots /\ cached' = Published(r).cached
    /\ deferred' = [i \in 1..Len(Decoders(r.slots)) |-> r.slots[Decoders(r.slots)[i]].req]
    /\ phase' # "staged" /\ UNCHANGED <<todo, staging, device>>

LEMMA LaunchedHost ==
    ASSUME StaticInv, NEW r, LaunchHost(r)
    PROVE  HostInv' /\ StepInv' /\ ForwardOf(ForwardOperation(r.slots), r, Counts)
  <1>1. /\ Pooled(slots, cached) /\ step.count = Counts
        /\ Advanced(r.slots, r.cached, Counts) /\ Len(r.slots) = Len(slots)
        /\ \A k \in 1..Len(slots) :
                 /\ r.slots[k].req = slots[k].req /\ r.slots[k].n = slots[k].n + Counts[k]
                 /\ r.slots[k].published = FilledPrompt(slots[k].n)
    BY ReservedFacts DEF LaunchHost
  <1>2. PICK n \in Nat : n = Len(slots)
    BY <1>1, CountsFacts
  <1>3. Pooled(r.slots, r.cached)
    BY <1>1 DEF Advanced
  <1>4. /\ Pooled(slots', cached') /\ Len(slots') = n
        /\ \A k \in 1..n : /\ slots'[k].req = r.slots[k].req /\ slots'[k].n = r.slots[k].n
                           /\ slots'[k].published = FilledPrompt(r.slots[k].n)
    BY <1>1, <1>2, <1>3, PublishedPooled DEF LaunchHost
  <1>5. HostInv'
    <2>1. /\ todo \subseteq RequestId /\ \A k \in 1..n : slots[k].req \notin todo
      BY <1>2 DEF StaticInv, HostInv
    <2>2. \A k \in 1..n : slots[k].n + Counts[k] <= MaxLen
      BY <1>2 DEF StaticInv, StepInv, LaunchHost
    <2>3. \A k \in 1..n : /\ slots'[k].published = FilledPrompt(slots'[k].n)
                          /\ slots'[k].req \notin todo /\ slots'[k].n <= MaxLen
      BY <1>1, <1>2, <1>4, <2>1, <2>2
    <2>4. deferred' \in Seq(RequestId)
      <3>1. PICK take : take = Decoders(r.slots)
        OBVIOUS
      <3>2. PICK m \in Nat : m = Len(take)
        BY <1>3, <3>1, DecodersFacts
      <3>3. \A i \in 1..m : take[i] \in 1..n
        BY <1>1, <1>2, <1>3, <3>1, <3>2, DecodersFacts
      <3>4. \A k \in 1..n : r.slots[k].req \in RequestId
        BY <1>1, <1>2, <1>3, SlotFacts DEF Pooled
      <3>5. PICK f : f = [i \in 1..m |-> r.slots[take[i]].req]
        OBVIOUS
      <3>6. f \in [1..m -> RequestId]
        BY <3>3, <3>4, <3>5
      <3>7. f \in Seq(RequestId)
        BY <3>6, FunctionIsSeq
      <3>8. deferred' = f
        BY <3>1, <3>2, <3>5 DEF LaunchHost
      <3> QED BY <3>7, <3>8
    <2>5. todo' = todo
      BY DEF LaunchHost
    <2> QED BY <1>4, <2>1, <2>3, <2>4, <2>5 DEF HostInv
  <1>6. StepInv'
    BY DEF StepInv, LaunchHost
  <1>7. ForwardOf(ForwardOperation(r.slots), r, Counts)
    <2>1. ASSUME NEW k \in 1..n PROVE r.slots[k].published <= FilledPrompt(r.slots[k].n - Counts[k])
      <3>1. slots[k].n \in Nat /\ Counts[k] \in Nat
        BY <1>1, <1>2, CountsFacts, SlotFacts DEF Pooled
      <3>2. r.slots[k].n - Counts[k] = slots[k].n
        BY <1>1, <1>2, <3>1
      <3>3. FilledPrompt(slots[k].n) \in Nat
        BY <3>1, FilledFacts
      <3> QED BY <1>1, <1>2, <3>2, <3>3
    <2>2. PICK o : o = ForwardOperation(r.slots)
      OBVIOUS
    <2>3. PICK take : take = Decoders(r.slots)
      OBVIOUS
    <2>4. o.take = take /\ o.want = [i \in 1..Len(take) |-> Text(r.slots[take[i]].req, r.slots[take[i]].n)]
      BY <2>2, <2>3 DEF ForwardOperation
    <2>5. o.take = Decoders(r.slots) /\ o.want = [i \in 1..Len(o.take) |-> Text(r.slots[o.take[i]].req, r.slots[o.take[i]].n)]
      BY <2>3, <2>4
    <2> QED BY <1>1, <1>2, <2>1, <2>2, <2>5 DEF ForwardOf
  <1> QED BY <1>5, <1>6, <1>7

LEMMA LaunchedText ==
    ASSUME StaticInv, NEW r, LaunchHost(r), NEW o, ForwardOf(o, r, Counts), NEW e, NEW f, ForwardDone(e, f, o, r)
    PROVE  Settled(f)'
  <1>1. Pooled(r.slots, r.cached) /\ o.take = Decoders(r.slots)
    BY DEF ForwardOf, Advanced
  <1>2. PICK n \in Nat : n = Len(r.slots)
    BY <1>1 DEF Pooled
  <1>3. TextHeld(f, r.slots, r.cached)
    BY DEF ForwardDone
  <1>4. /\ CacheText(f, cached') /\ Len(slots') = n
        /\ \A k \in 1..n : SlotText(f, slots'[k], slots'[k].n)
    <2>1. PICK q : q = Published(r)
      OBVIOUS
    <2>2. CacheText(f, r.cached) /\ \A k \in 1..Len(r.slots) : SlotText(f, r.slots[k], r.slots[k].n)
      BY <1>3 DEF TextHeld
    <2>3. CacheText(f, q.cached) /\ \A k \in 1..n : SlotText(f, q.slots[k], q.slots[k].n)
      BY <1>1, <1>2, <2>1, <2>2, PublishedText
    <2>4. Len(q.slots) = n
      BY <1>1, <1>2, <2>1, PublishedPooled
    <2> QED BY <2>1, <2>3, <2>4 DEF LaunchHost
  <1>5. TextHeld(f, slots', cached')
    BY <1>4 DEF TextHeld
  <1>6. \A k \in 1..n : slots'[k].req = r.slots[k].req /\ slots'[k].n = r.slots[k].n
    BY <1>1, <1>2, PublishedPooled DEF LaunchHost
  <1>7. DeferredText(f)'
    <2>1. PICK take : take = Decoders(r.slots)
      OBVIOUS
    <2>2. PICK m \in Nat : m = Len(take)
      BY <1>1, <2>1, DecodersFacts
    <2>3. \A i \in 1..m : take[i] \in 1..n
      BY <1>1, <1>2, <2>1, <2>2, DecodersFacts
    <2>4. deferred' = [i \in 1..m |-> r.slots[take[i]].req]
      BY <2>1, <2>2 DEF LaunchHost
    <2>5. f.sampled = [i \in 1..m |-> Text(r.slots[take[i]].req, r.slots[take[i]].n)]
      BY <1>1, <2>1, <2>2 DEF ForwardDone
    <2>6. Len(deferred') = m
      BY <2>4
    <2>7. ASSUME NEW k \in 1..n, NEW i \in 1..m, deferred'[i] = slots'[k].req
          PROVE  f.sampled[i] = Text(slots'[k].req, slots'[k].n)
      <3>1. take[i] \in 1..n /\ r.slots[take[i]].req = r.slots[k].req
        BY <1>6, <2>3, <2>4, <2>7
      <3>2. take[i] = k
        BY <1>1, <1>2, <3>1 DEF Pooled, OneSlotEach
      <3> QED BY <1>6, <2>5, <3>2
    <2> QED BY <1>4, <2>6, <2>7 DEF DeferredText
  <1>8. StagedInputs(f)'
    BY DEF LaunchHost, StagedInputs
  <1> QED BY <1>5, <1>7, <1>8, SettledIs

\* The ids and positions of the slots' new tokens, before the slots advance.
StagedIds(ids, pos) ==
    \A k \in 1..Len(slots) : \A j \in 1..Counts[k] :
        /\ ids[Bounds(Counts)[k] + j] = Text(slots[k].req, slots[k].n + j - 1)
        /\ pos[Bounds(Counts)[k] + j] = slots[k].n + j - 1

LEMMA LaunchReady ==
    ASSUME StaticInv, NEW r, LaunchHost(r), NEW d, TextHeld(d, slots, cached), NEW write, NEW p,
           Describes(write, p, r.slots, Counts), NEW ids, NEW pos, StagedIds(ids, pos)
    PROVE  Ready(d, r.slots, r.cached, Counts, write, p, ids, pos)
  <1>1. /\ Pooled(slots, cached) /\ step.count = Counts
        /\ Advanced(r.slots, r.cached, Counts) /\ Len(r.slots) = Len(slots)
        /\ \A k \in 1..Len(slots) :
                 /\ r.slots[k].req = slots[k].req /\ r.slots[k].n = slots[k].n + Counts[k]
                 /\ r.slots[k].published = FilledPrompt(slots[k].n)
        /\ CacheText(d, r.cached)
        /\ \A k \in 1..Len(slots) : SlotText(d, r.slots[k], slots[k].n)
    BY ReservedFacts DEF LaunchHost
  <1>2. PICK n \in Nat : n = Len(slots)
    BY <1>1, CountsFacts
  <1>3. \A k \in 1..n : slots[k].n \in Nat /\ Counts[k] \in Nat
    BY <1>1, <1>2, CountsFacts, SlotFacts DEF Pooled
  <1>4. \A k \in 1..n : r.slots[k].n - Counts[k] = slots[k].n
    BY <1>1, <1>2, <1>3
  <1>5. RowsOf(r.slots, Counts, ids, pos)
    <2>1. ASSUME NEW k \in 1..n, NEW j \in 1..Counts[k]
          PROVE  /\ ids[Bounds(Counts)[k] + j] = Text(r.slots[k].req, r.slots[k].n - Counts[k] + j - 1)
                 /\ pos[Bounds(Counts)[k] + j] = r.slots[k].n - Counts[k] + j - 1
      <3>1. /\ ids[Bounds(Counts)[k] + j] = Text(slots[k].req, slots[k].n + j - 1)
            /\ pos[Bounds(Counts)[k] + j] = slots[k].n + j - 1
        BY <1>2 DEF StagedIds
      <3>2. r.slots[k].n - Counts[k] = slots[k].n /\ r.slots[k].req = slots[k].req
        BY <1>1, <1>2, <1>4
      <3> QED BY <3>1, <3>2
    <2> QED BY <1>1, <1>2, <2>1 DEF RowsOf
  <1>6. ASSUME NEW k \in 1..n
        PROVE  /\ r.slots[k].published <= FilledPrompt(r.slots[k].n - Counts[k])
               /\ SlotText(d, r.slots[k], r.slots[k].n - Counts[k])
    <2>1. FilledPrompt(slots[k].n) \in Nat
      BY <1>3, FilledFacts
    <2> QED BY <1>1, <1>2, <1>4, <2>1
  <1> QED BY <1>1, <1>2, <1>5, <1>6 DEF Ready

\* The last row of each slot is where the next starts.
LEMMA TailFacts ==
    ASSUME NEW n \in Nat, NEW c \in [1..n -> Nat]
    PROVE  \A k \in 1..n : Tail(Bounds(c))[k] = Bounds(c)[k] + c[k]
  <1>1. PICK m \in Nat : m = n + 1
    OBVIOUS
  <1>2. PICK s : s = Bounds(c)
    OBVIOUS
  <1>3. s \in [1..m -> Nat] /\ \A k \in 1..n : s[k + 1] = s[k] + c[k]
    BY <1>1, <1>2, BoundsFacts
  <1>4. s \in Seq(Nat) /\ Len(s) = m
    BY <1>3, FunctionIsSeq
  <1>5. s # <<>>
    BY <1>1, <1>4, EmptySeq
  <1>6. \A k \in 1..(m - 1) : Tail(s)[k] = s[k + 1]
    BY <1>4, <1>5, HeadTailProperties
  <1>7. m - 1 = n
    BY <1>1
  <1> QED BY <1>2, <1>3, <1>6, <1>7

\* The ids of an eager forward.
EagerIds(d, o) ==
    IF o.rows = <<>> THEN o.ids ELSE [k \in 1..Len(o.rows) |-> d.sampled[o.rows[k]]]

LEMMA EagerIdsFacts ==
    ASSUME StaticInv, phase = "staged", NEW d, DeferredText(d), NEW x, x.rows = step.rows, x.pos = Positions(Counts),
           x.ids = IF step.rows = <<>> THEN HostIds(Counts) ELSE <<>>
    PROVE  StagedIds(EagerIds(d, x), x.pos)
  <1>1. Pooled(slots, cached) /\ deferred \in Seq(RequestId)
    BY DEF StaticInv, HostInv
  <1>2. PICK n \in Nat : n = Len(slots)
    BY <1>1, CountsFacts
  <1>3. PICK c \in [1..n -> Nat] : c = Counts
    BY <1>1, <1>2, CountsFacts
  <1>4. \A k \in 1..n : \A j \in 1..c[k] :
              /\ HostIds(c)[Bounds(c)[k] + j] = Text(slots[k].req, slots[k].n + j - 1)
              /\ Positions(c)[Bounds(c)[k] + j] = slots[k].n + j - 1
    BY <1>1, <1>2, HostRows
  <1>5. CASE step.rows = <<>>
    <2>1. EagerIds(d, x) = HostIds(c)
      BY <1>3, <1>5 DEF EagerIds
    <2> QED BY <1>2, <1>3, <1>4, <2>1 DEF StagedIds
  <1>6. CASE step.rows # <<>>
    <2>1. AllDeferred /\ step.rows = DeviceRows
      BY <1>6 DEF StaticInv, StepInv
    <2>2. /\ Len(DeviceRows) = n
          /\ \A k \in 1..n : /\ DeviceRows[k] \in 1..Len(deferred)
                             /\ deferred[DeviceRows[k]] = slots[k].req
                             /\ slots[k].n >= PromptLen
      BY <1>1, <1>2, <2>1, DeviceRowsFacts
    <2>3. EagerIds(d, x) = [k \in 1..n |-> d.sampled[DeviceRows[k]]]
      BY <1>6, <2>1, <2>2 DEF EagerIds
    <2>4. \A k \in 1..n : slots[k].n \in Nat
      BY <1>1, <1>2, SlotFacts DEF Pooled
    <2>5. ASSUME NEW k \in 1..n PROVE c[k] = 1
      <3>1. slots[k].n >= PromptLen /\ slots[k].n \in Nat /\ PromptLen \in Nat
        BY <2>2, <2>4, Sizes
      <3> QED BY <1>2, <1>3, <3>1 DEF Counts
    <2>6. ASSUME NEW k \in 1..n, NEW j \in 1..c[k]
          PROVE  /\ EagerIds(d, x)[Bounds(c)[k] + j] = Text(slots[k].req, slots[k].n + j - 1)
                 /\ x.pos[Bounds(c)[k] + j] = slots[k].n + j - 1
      <3>1. j = 1
        BY <2>5
      <3>2. Bounds(c)[k] = k - 1
        <4>1. k \in 1..(n + 1)
          OBVIOUS
        <4> QED BY <2>5, <4>1, Singles
      <3>3. Bounds(c)[k] + j = k /\ slots[k].n + j - 1 = slots[k].n
        BY <2>4, <3>1, <3>2
      <3>4. PICK i \in 1..Len(deferred) : i = DeviceRows[k] /\ deferred[i] = slots[k].req
        BY <2>2
      <3>5. d.sampled[i] = Text(slots[k].req, slots[k].n)
        BY <1>2, <3>4 DEF DeferredText
      <3>6. EagerIds(d, x)[k] = Text(slots[k].req, slots[k].n)
        BY <2>3, <3>4, <3>5
      <3>7. x.pos[Bounds(c)[k] + j] = slots[k].n + j - 1
        BY <1>3, <1>4
      <3> QED BY <3>3, <3>6, <3>7
    <2> QED BY <1>2, <1>3, <2>6 DEF StagedIds
  <1> QED BY <1>5, <1>6

\* What a forward on the eager path carries.
EagerArguments(x, ss) ==
    /\ x.layout = Layout(ss, Counts) /\ x.rows = step.rows /\ x.pos = Positions(Counts)
    /\ x.last = Tail(Bounds(Counts))
    /\ x.ids = IF step.rows = <<>> THEN HostIds(Counts) ELSE <<>>

LEMMA EagerForward ==
    ASSUME step.bucket = Eager, step.count = Counts, NEW ss, NEW o, o = ForwardOperation(ss)
    PROVE  /\ o.op = "forward" /\ o.bucket = Eager /\ EagerArguments(o.eager[1], ss)
           /\ \A d, inputs, layouts : Ran(d, o, inputs, layouts) =
                 Run(d, o, o.eager[1].layout.write, o.eager[1].layout, EagerIds(d, o.eager[1]),
                     o.eager[1].pos, o.eager[1].last)
  <1>1. PICK x : x = [layout |-> Layout(ss, Counts),
                      ids |-> IF step.rows = <<>> THEN HostIds(Counts) ELSE <<>>,
                      rows |-> step.rows, pos |-> Positions(Counts), last |-> Tail(Bounds(Counts))]
    OBVIOUS
  <1>2. o.op = "forward" /\ o.bucket = Eager /\ o.eager = <<x>>
    BY <1>1 DEF ForwardOperation
  <1>3. o.eager[1] = x /\ EagerArguments(x, ss)
    BY <1>1, <1>2 DEF EagerArguments
  <1>4. \A d, inputs, layouts : Ran(d, o, inputs, layouts) = RunEager(d, o)
    BY <1>2 DEF Ran
  <1>5. \A d : RunEager(d, o) = Run(d, o, x.layout.write, x.layout, EagerIds(d, x), x.pos, x.last)
    BY <1>3 DEF RunEager, EagerIds
  <1> QED BY <1>2, <1>3, <1>4, <1>5

\* The forward of the eager path.
LEMMA LaunchEager ==
    ASSUME StaticInv, NEW r, LaunchHost(r), step.bucket = Eager,
           stream' = Append(stream, ForwardOperation(r.slots)), UNCHANGED layout
    PROVE  StaticInv'
  <1>1. HostInv' /\ StepInv' /\ ForwardOf(ForwardOperation(r.slots), r, Counts)
    BY LaunchedHost
  <1>2. PICK o : o = ForwardOperation(r.slots)
    OBVIOUS
  <1>3. step.count = Counts /\ Advanced(r.slots, r.cached, Counts)
    BY ReservedFacts DEF LaunchHost
  <1>4. /\ o.op = "forward" /\ o.bucket = Eager /\ EagerArguments(o.eager[1], r.slots)
        /\ \A d, inputs, layouts : Ran(d, o, inputs, layouts) =
                 Run(d, o, o.eager[1].layout.write, o.eager[1].layout, EagerIds(d, o.eager[1]),
                     o.eager[1].pos, o.eager[1].last)
    BY <1>2, <1>3, EagerForward
  <1>5. PICK e : Reaches(device, stream, staging, layout, e) /\ Settled(e)
    BY DEF StaticInv, DeviceInv
  <1>6. StreamShape(stream) /\ PinnedInv
    BY DEF StaticInv, StreamInv
  <1>7. PICK S : S = ToSet(stream) \cup {o}
    OBVIOUS
  <1>8. stream \in Seq(S) /\ o \in S
    BY <1>6, <1>7 DEF StreamShape
  <1>9. Shaped(e) /\ TextHeld(e, slots, cached) /\ DeferredText(e)
    BY <1>5, <1>8, ReachesEnds, SettledIs
  <1>10. PICK f : f = Ran(e, o, staging, layout)
    OBVIOUS
  <1>11. PICK x : x = o.eager[1]
    OBVIOUS
  <1>12. f = Run(e, o, x.layout.write, x.layout, EagerIds(e, x), x.pos, x.last) /\ EagerArguments(x, r.slots)
    BY <1>4, <1>10, <1>11
  <1>13. StagedIds(EagerIds(e, x), x.pos)
    <2>1. phase = "staged"
      BY DEF LaunchHost
    <2> QED BY <1>9, <1>12, <2>1, EagerIdsFacts DEF EagerArguments
  <1>14. Describes(x.layout.write, x.layout, r.slots, Counts)
    BY <1>3, <1>12, EagerDescribes DEF EagerArguments
  <1>15. Ready(e, r.slots, r.cached, Counts, x.layout.write, x.layout, EagerIds(e, x), x.pos)
    BY <1>9, <1>13, <1>14, LaunchReady
  <1>16. \A k \in 1..Len(r.slots) : x.last[k] = Bounds(Counts)[k] + Counts[k]
    <2>1. PICK n \in Nat : n = Len(r.slots)
      BY <1>3 DEF Advanced, Pooled
    <2>2. PICK c \in [1..n -> Nat] : c = Counts
      BY <1>3, <2>1 DEF Advanced
    <2> QED BY <1>12, <2>1, <2>2, TailFacts DEF EagerArguments
  <1>17. ForwardOf(o, r, Counts)
    BY <1>1, <1>2
  <1>18. ForwardDone(e, f, o, r)
    BY <1>9, <1>12, <1>15, <1>16, <1>17, ForwardRuns
  <1>19. Settled(f)'
    BY <1>17, <1>18, LaunchedText
  <1>20. Reaches(device, Append(stream, o), staging, layout, f)
    BY <1>5, <1>8, <1>10, <1>18, ReachesMore DEF ForwardDone
  <1>21. DeviceInv'
    <2>1. Reaches(device', stream', staging', layout', f)
      BY <1>2, <1>20 DEF LaunchHost
    <2> QED BY <1>19, <2>1 DEF DeviceInv
  <1>22. StreamInv'
    <2>1. OperationShape(o) /\ o.op # "positions"
      BY <1>4 DEF OperationShape
    <2>2. StreamShape(Append(stream, o))
      BY <1>6, <2>1, StreamMore
    <2> QED BY <1>2, <2>2 DEF StreamInv
  <1>23. PinnedInv'
    BY <1>6 DEF PinnedInv, LaunchHost
  <1> QED BY <1>1, <1>21, <1>22, <1>23 DEF StaticInv

\* The rows that a graph samples.
LastRows(d, b) == IF b.kind = "decode" THEN [k \in 1..b.rows |-> k] ELSE d.inputs[b].last

LEMMA GraphForward ==
    ASSUME NEW b \in Graph, step.bucket = b, NEW ss, NEW o, o = ForwardOperation(ss)
    PROVE  /\ o.op = "forward" /\ o.bucket = b
           /\ \A d, inputs, layouts : Ran(d, o, inputs, layouts) =
                 Run(d, o, d.table[b].write, d.plan[WrapperOf(b)], d.inputs[b].ids, d.inputs[b].pos,
                     LastRows(d, b))
  <1>1. o.op = "forward" /\ o.bucket = b
    BY DEF ForwardOperation
  <1>2. b # Eager
    BY GraphFacts
  <1>3. \A d, inputs, layouts : Ran(d, o, inputs, layouts) = Replay(d, o)
    BY <1>1, <1>2 DEF Ran
  <1>4. \A d : Replay(d, o) = Run(d, o, d.table[b].write, d.plan[WrapperOf(b)], d.inputs[b].ids,
                                  d.inputs[b].pos, LastRows(d, b))
    BY <1>1 DEF Replay, LastRows
  <1> QED BY <1>1, <1>3, <1>4

LEMMA LastRowsFacts ==
    ASSUME StaticInv, phase = "staged", NEW b \in Graph, step.bucket = b, NEW d, StagedInputs(d)
    PROVE  /\ StagedIds(d.inputs[b].ids, d.inputs[b].pos)
           /\ \A k \in 1..Len(slots) : LastRows(d, b)[k] = Bounds(Counts)[k] + Counts[k]
  <1>1. Pooled(slots, cached)
    BY DEF StaticInv, HostInv
  <1>2. PICK n \in Nat : n = Len(slots)
    BY <1>1, CountsFacts
  <1>3. PICK c \in [1..n -> Nat] : c = Counts
    BY <1>1, <1>2, CountsFacts
  <1>4. b # Eager /\ (b.kind = "decode" \/ b.kind = "prefill") /\ b.rows \in Nat
    BY GraphFacts
  <1>5. StagedIds(d.inputs[b].ids, d.inputs[b].pos)
    BY <1>4 DEF StagedInputs, StagedIds
  <1>6. CASE b.kind = "decode"
    <2>1. n <= b.rows /\ \A k \in 1..n : c[k] = 1
      BY <1>2, <1>3, <1>4, <1>6 DEF StaticInv, StepInv
    <2>2. \A k \in 1..n : Bounds(c)[k] = k - 1
      <3>1. \A k \in 1..n : k \in 1..(n + 1)
        OBVIOUS
      <3> QED BY <2>1, <3>1, Singles
    <2>3. LastRows(d, b) = [k \in 1..b.rows |-> k]
      BY <1>6 DEF LastRows
    <2>4. ASSUME NEW k \in 1..n PROVE LastRows(d, b)[k] = Bounds(c)[k] + c[k]
      <3>1. k \in 1..b.rows
        BY <1>4, <2>1
      <3>2. LastRows(d, b)[k] = k
        BY <2>3, <3>1
      <3>3. Bounds(c)[k] = k - 1 /\ c[k] = 1
        BY <2>1, <2>2
      <3>4. Bounds(c)[k] + c[k] = k
        BY <3>3
      <3> QED BY <3>2, <3>4
    <2> QED BY <1>2, <1>3, <1>5, <2>4
  <1>7. CASE b.kind = "prefill"
    <2>1. LastRows(d, b) = d.inputs[b].last
      BY <1>7 DEF LastRows
    <2>2. \A k \in 1..n : d.inputs[b].last[k] = Bounds(c)[k + 1]
      BY <1>2, <1>3, <1>4, <1>7 DEF StagedInputs
    <2>3. \A k \in 1..n : Bounds(c)[k + 1] = Bounds(c)[k] + c[k]
      BY BoundsFacts
    <2> QED BY <1>2, <1>3, <1>5, <2>1, <2>2, <2>3
  <1> QED BY <1>4, <1>6, <1>7

\* The replay of a graph.
LEMMA LaunchGraph ==
    ASSUME StaticInv, NEW r, LaunchHost(r), NEW b \in Graph, step.bucket = b, LayoutCopied(b),
           Fits(b, r.slots, step.count), layout' = [layout EXCEPT ![b] = StaticLayout(b, r.slots, step.count)],
           stream' = stream \o << [op |-> "layout", bucket |-> b], [op |-> "plan", bucket |-> b],
                                  ForwardOperation(r.slots) >>
    PROVE  StaticInv'
  <1>1. HostInv' /\ StepInv' /\ ForwardOf(ForwardOperation(r.slots), r, Counts)
    BY LaunchedHost
  <1>2. PICK o1 : o1 = [op |-> "layout", bucket |-> b]
    OBVIOUS
  <1>3. PICK o2 : o2 = [op |-> "plan", bucket |-> b]
    OBVIOUS
  <1>4. PICK o : o = ForwardOperation(r.slots)
    OBVIOUS
  <1>5. Issued(o1, "layout", b) /\ Issued(o2, "plan", b)
    BY <1>2, <1>3 DEF Issued
  <1>6. /\ o.op = "forward" /\ o.bucket = b
        /\ \A d, inputs, layouts : Ran(d, o, inputs, layouts) =
                 Run(d, o, d.table[b].write, d.plan[WrapperOf(b)], d.inputs[b].ids, d.inputs[b].pos,
                     LastRows(d, b))
    BY <1>4, GraphForward
  <1>7. step.count = Counts /\ Advanced(r.slots, r.cached, Counts) /\ phase = "staged" /\ Len(r.slots) = Len(slots)
    BY ReservedFacts DEF LaunchHost
  <1>8. PICK x : x = StaticLayout(b, r.slots, Counts)
    OBVIOUS
  <1>9. LayoutShape(x) /\ Describes(x.write, x, r.slots, Counts) /\ Rewritten(layout, b, x, layout')
    <2>1. Fits(b, r.slots, Counts)
      BY <1>7
    <2>2. Describes(x.write, x, r.slots, Counts) /\ LayoutShape(x)
      BY <1>7, <1>8, <2>1, StaticDescribes
    <2>3. Rewritten(layout, b, x, layout')
      BY <1>7, <1>8 DEF Rewritten
    <2> QED BY <2>2, <2>3
  <1>10. PICK e : Reaches(device, stream, staging, layout, e) /\ Settled(e)
    BY DEF StaticInv, DeviceInv
  <1>11. StreamInv /\ PinnedInv /\ StreamShape(stream)
    BY DEF StaticInv, StreamInv
  <1>12. PICK s1 : s1 = Append(stream, o1)
    OBVIOUS
  <1>13. PICK s2 : s2 = Append(s1, o2)
    OBVIOUS
  <1>14. PICK now : now = layout'
    OBVIOUS
  <1>15. /\ now = [g \in Graph |-> now[g]] /\ now[b] = x /\ \A g \in Graph : LayoutShape(now[g])
         /\ StreamShape(s1)
         /\ \E f : Reaches(device, s1, staging, now, f) /\ SameText(e, f) /\ f.inputs = e.inputs /\ f.table[b] = x
    <2>1. Rewritten(layout, b, x, now)
      BY <1>9, <1>14
    <2> QED BY <1>5, <1>9, <1>10, <1>11, <1>12, <2>1, LayoutWritten
  <1>16. PICK g : Reaches(device, s1, staging, now, g) /\ SameText(e, g) /\ g.inputs = e.inputs /\ g.table[b] = x
    BY <1>15
  <1>17. /\ StreamShape(s2)
         /\ \E f : Reaches(device, s2, staging, now, f) /\ PlanAdded(g, f, b, now[b])
    <2>1. LayoutShape(now[b]) /\ g.table[b] = now[b]
      BY <1>15, <1>16
    <2> QED BY <1>5, <1>13, <1>15, <1>16, <2>1, PlanIssued
  <1>18. PICK d : /\ Reaches(device, s2, staging, now, d) /\ SameText(g, d)
                  /\ d.inputs = g.inputs /\ d.table = g.table /\ d.plan[WrapperOf(b)] = now[b]
    BY <1>17 DEF PlanAdded
  <1>19. d.inputs = e.inputs /\ d.table[b] = x /\ d.plan[WrapperOf(b)] = x
    BY <1>15, <1>16, <1>18
  <1>20. TextHeld(d, slots, cached) /\ StagedInputs(d)
    <2>1. TextHeld(e, slots, cached) /\ StagedInputs(e)
      BY <1>10, SettledIs
    <2>2. TextHeld(g, slots, cached)
      BY <1>16, <2>1, SameTextHeld
    <2>3. TextHeld(d, slots, cached)
      BY <1>18, <2>2, SameTextHeld
    <2> QED BY <1>19, <2>1, <2>3 DEF StagedInputs
  <1>21. /\ StagedIds(d.inputs[b].ids, d.inputs[b].pos)
         /\ \A k \in 1..Len(slots) : LastRows(d, b)[k] = Bounds(Counts)[k] + Counts[k]
    BY <1>7, <1>20, LastRowsFacts
  <1>22. PICK f : f = Ran(d, o, staging, now)
    OBVIOUS
  <1>23. f = Run(d, o, x.write, x, d.inputs[b].ids, d.inputs[b].pos, LastRows(d, b))
    BY <1>6, <1>19, <1>22
  <1>24. Ready(d, r.slots, r.cached, Counts, x.write, x, d.inputs[b].ids, d.inputs[b].pos)
    BY <1>9, <1>20, <1>21, LaunchReady
  <1>25. PICK S : S = ToSet(stream) \cup {o1, o2, o}
    OBVIOUS
  <1>26. stream \in Seq(S) /\ o1 \in S /\ o2 \in S /\ o \in S
    BY <1>11, <1>25 DEF StreamShape
  <1>27. stream' = Append(s2, o) /\ s2 \in Seq(S)
    <2>1. stream' = stream \o <<o1, o2, o>>
      BY <1>2, <1>3, <1>4
    <2> QED BY <1>12, <1>13, <1>26, <2>1, ConcatOnes, AppendProperties
  <1>28. Shaped(d)
    BY <1>18, <1>27, ReachesEnds
  <1>29. ForwardOf(o, r, Counts)
    BY <1>1, <1>4
  <1>30. ForwardDone(d, f, o, r)
    BY <1>7, <1>21, <1>23, <1>24, <1>28, <1>29, ForwardRuns
  <1>31. Settled(f)'
    BY <1>29, <1>30, LaunchedText
  <1>32. Reaches(device, Append(s2, o), staging, now, f)
    BY <1>18, <1>22, <1>26, <1>27, <1>30, ReachesMore DEF ForwardDone
  <1>33. DeviceInv'
    <2>1. Reaches(device', stream', staging', layout', f)
      BY <1>14, <1>27, <1>32 DEF LaunchHost
    <2> QED BY <1>31, <2>1 DEF DeviceInv
  <1>34. StreamInv'
    <2>1. OperationShape(o) /\ o.op # "positions"
      BY <1>6 DEF OperationShape
    <2>2. StreamShape(Append(s2, o))
      BY <1>17, <2>1, StreamMore
    <2> QED BY <1>27, <2>2 DEF StreamInv
  <1>35. PinnedInv'
    BY <1>11, <1>14, <1>15 DEF PinnedInv, LaunchHost
  <1> QED BY <1>1, <1>33, <1>34, <1>35 DEF StaticInv

LEMMA LaunchStep ==
    ASSUME StaticInv, Launch
    PROVE  StaticInv'
  <1>1. PICK r : r = Reserved(step.count)
    OBVIOUS
  <1>2. LaunchHost(r)
    BY <1>1 DEF Launch, LaunchHost
  <1>3. CASE step.bucket = Eager
    <2>1. stream' = Append(stream, ForwardOperation(r.slots)) /\ UNCHANGED layout
      BY <1>1, <1>3 DEF Launch
    <2> QED BY <1>2, <1>3, <2>1, LaunchEager
  <1>4. CASE step.bucket # Eager
    <2>1. PICK b \in Graph : b = step.bucket
      BY <1>2, <1>4 DEF LaunchHost, StaticInv, StepInv
    <2>2. /\ LayoutCopied(b) /\ Fits(b, r.slots, step.count)
          /\ layout' = [layout EXCEPT ![b] = StaticLayout(b, r.slots, step.count)]
          /\ stream' = stream \o << [op |-> "layout", bucket |-> b], [op |-> "plan", bucket |-> b],
                                    ForwardOperation(r.slots) >>
      BY <1>1, <1>4, <2>1 DEF Launch
    <2> QED BY <1>2, <2>1, <2>2, LaunchGraph
  <1> QED BY <1>3, <1>4

\* No slots, and nothing cached.
EmptySlots(ss, cc) == ss = <<>> /\ cc = [key \in PromptKeys |-> 0]

LEMMA InitPooled ==
    ASSUME NEW ss, NEW cc, EmptySlots(ss, cc)
    PROVE  Pooled(ss, cc)
  <1>1. ss \in Seq(Slot) /\ Len(ss) = 0 /\ cc \in [PromptKeys -> Pool \cup {0}]
    BY DEF EmptySlots
  <1>2. \A k \in 1..Len(ss) : FALSE
    BY <1>1
  <1>3. Lengths(ss) /\ OneSlotEach(ss) /\ PublishedIsCached(ss, cc) /\ OthersUncached(ss, cc) /\ OthersOwned(ss)
    BY <1>2 DEF Lengths, OneSlotEach, PublishedIsCached, OthersUncached, OthersOwned
  <1>4. OneKeyEach(cc)
    BY DEF EmptySlots, OneKeyEach
  <1> QED BY <1>1, <1>3, <1>4 DEF Pooled

LEMMA EmptyShapes ==
    /\ LayoutShape(EmptyLayout) /\ \A b \in Graph : InputShape(b, EmptyInputs(b))
  <1>1. LayoutShape(EmptyLayout)
    BY DEF LayoutShape, EmptyLayout
  <1>2. ASSUME NEW b \in Graph PROVE InputShape(b, EmptyInputs(b))
    <2>1. PICK rows : rows = b.rows
      OBVIOUS
    <2>2. PICK ids, pos, last :
             /\ ids = [i \in 1..rows |-> Junk] /\ pos = [i \in 1..b.rows |-> 0]
             /\ last = [k \in 1..SlotsOf(b) |-> 1]
      OBVIOUS
    <2>3. EmptyInputs(b) = [ids |-> ids, pos |-> pos, last |-> last]
      BY <2>1, <2>2 DEF EmptyInputs
    <2>4. ids = [i \in 1..rows |-> ids[i]]
      BY <2>2
    <2>5. EmptyInputs(b).ids = ids /\ EmptyInputs(b).pos = pos /\ EmptyInputs(b).last = last
      BY <2>3
    <2> QED BY <2>1, <2>3, <2>4, <2>5 DEF InputShape
  <1> QED BY <1>1, <1>2

LEMMA InitHolds ==
    ASSUME StaticInit
    PROVE  StaticInv
  <1>1. /\ todo = RequestId /\ slots = <<>> /\ cached = [k \in PromptKeys |-> 0] /\ deferred = <<>>
        /\ phase = "idle" /\ stream = <<>>
        /\ staging = [b \in Graph |-> EmptyInputs(b)] /\ layout = [b \in Graph |-> EmptyLayout]
    BY DEF StaticInit
  <1>2. Len(<<>>) = 0 /\ \A k \in 1..Len(<<>>) : FALSE
    OBVIOUS
  <1>3. HostInv
    <2>1. Pooled(slots, cached)
      BY <1>1, InitPooled DEF EmptySlots
    <2> QED BY <1>1, <1>2, <2>1 DEF HostInv
  <1>4. StepInv
    BY <1>1 DEF StepInv
  <1>5. StreamInv
    <2>1. <<>> \in Seq(ToSet(<<>>))
      OBVIOUS
    <2> QED BY <1>1, <1>2, <2>1 DEF StreamInv, StreamShape
  <1>6. PinnedInv
    BY <1>1, EmptyShapes DEF PinnedInv
  <1>7. PICK inputs, table, plan, mem :
            /\ inputs = [b \in Graph |-> EmptyInputs(b)] /\ table = [b \in Graph |-> EmptyLayout]
            /\ plan = [w \in Wrapper |-> EmptyLayout] /\ mem = [a \in Address |-> Junk]
    OBVIOUS
  <1>8. device = [inputs |-> inputs, table |-> table, plan |-> plan,
                  sampled |-> <<>>, wanted |-> <<>>, mem |-> mem]
    BY <1>7 DEF StaticInit
  <1>9. Shaped(device) /\ device.sampled = device.wanted
    <2>1. /\ device.inputs = inputs /\ device.table = table /\ device.plan = plan
          /\ device.sampled = <<>> /\ device.wanted = <<>> /\ device.mem = mem
      BY <1>8
    <2>2. /\ inputs = [b \in Graph |-> inputs[b]] /\ table = [b \in Graph |-> table[b]]
          /\ plan = [w \in Wrapper |-> plan[w]]
          /\ \A b \in Graph : inputs[b] = EmptyInputs(b) /\ table[b] = EmptyLayout
      BY <1>7
    <2>3. \A b \in Graph : InputShape(b, inputs[b]) /\ LayoutShape(table[b])
      BY <2>2, EmptyShapes
    <2>4. device = [inputs |-> device.inputs, table |-> device.table, plan |-> device.plan,
                    sampled |-> device.sampled, wanted |-> device.wanted, mem |-> device.mem]
      BY <1>8
    <2> QED BY <2>1, <2>2, <2>3, <2>4 DEF Shaped
  <1>10. Reaches(device, stream, staging, layout, device)
    BY <1>1, <1>9, ReachesNothing
  <1>11. Settled(device)
    <2>1. CacheText(device, cached)
      BY <1>1 DEF CacheText
    <2>2. TextHeld(device, slots, cached) /\ DeferredText(device)
      BY <1>1, <1>2, <2>1 DEF TextHeld, DeferredText
    <2>3. StagedInputs(device)
      BY <1>1 DEF StagedInputs
    <2> QED BY <2>2, <2>3, SettledIs
  <1> QED BY <1>3, <1>4, <1>5, <1>6, <1>10, <1>11 DEF StaticInv, DeviceInv

LEMMA StageStep ==
    ASSUME StaticInv, NEW onDevice \in BOOLEAN, Stage(onDevice)
    PROVE  StaticInv'
  <1>1. CASE step'.bucket = Eager
    BY <1>1, StageEagerStep
  <1>2. CASE step'.bucket # Eager /\ onDevice = TRUE
    BY <1>2, StageDeviceStep
  <1>3. CASE step'.bucket # Eager /\ onDevice = FALSE
    BY <1>3, StageHostStep
  <1> QED BY <1>1, <1>2, <1>3

LEMMA NextHolds ==
    ASSUME StaticInv, [StaticNext]_staticVars
    PROVE  StaticInv'
  <1>1. CASE Admit
    BY <1>1, AdmitStep
  <1>2. CASE Reap
    BY <1>2, ReapStep
  <1>3. CASE ReadDeferred
    BY <1>3, ReadDeferredStep
  <1>4. CASE Stage(TRUE)
    BY <1>4, StageStep
  <1>5. CASE Stage(FALSE)
    BY <1>5, StageStep
  <1>6. CASE Launch
    BY <1>6, LaunchStep
  <1>7. CASE ReadPrevious
    BY <1>7, ReadPreviousStep
  <1>8. CASE RunOutOfMemory
    BY <1>8, RunOutOfMemoryStep
  <1>9. CASE Crash
    BY <1>9, CrashStep
  <1>10. CASE Execute
    BY <1>10, ExecuteStep
  <1>11. CASE Rest \/ UNCHANGED staticVars
    <2>1. UNCHANGED staticVars
      BY <1>11 DEF Rest
    <2> QED BY <2>1, UnchangedStep
  <1> QED BY <1>1, <1>2, <1>3, <1>4, <1>5, <1>6, <1>7, <1>8, <1>9, <1>10, <1>11 DEF StaticNext

\* Every reachable state of host, stream and device satisfies StaticInv.
THEOREM StaticInvariance == StaticSpec => []StaticInv
  <1>1. StaticInit => StaticInv
    BY InitHolds
  <1>2. StaticInv /\ [StaticNext]_staticVars => StaticInv'
    BY NextHolds
  <1> QED BY <1>1, <1>2, PTL DEF StaticSpec

LEMMA InvariantGivesText ==
    ASSUME StaticInv
    PROVE  SlotsHoldTheirText
  <1>1. SUFFICES ASSUME stream = <<>>
                 PROVE  \A k \in 1..Len(slots) : SlotText(device, slots[k], slots[k].n)
    BY DEF SlotsHoldTheirText, SlotText
  <1>2. PICK e : Reaches(device, stream, staging, layout, e) /\ Settled(e)
    BY DEF StaticInv, DeviceInv
  <1>3. e = device
    BY <1>1, <1>2, ReachesNothing
  <1> QED BY <1>2, <1>3 DEF Settled

LEMMA InvariantGivesSampled ==
    ASSUME StaticInv
    PROVE  SampledIsNext
  <1>1. PICK e : Reaches(device, stream, staging, layout, e) /\ Settled(e)
    BY DEF StaticInv, DeviceInv
  <1>2. stream \in Seq(ToSet(stream))
    BY DEF StaticInv, StreamInv, StreamShape
  <1> QED BY <1>1, <1>2, ReachesEnds DEF SampledIsNext

\* When the device has caught up, every position of every slot holds the K/V of
\* its own text: the events make staging and layout safe to rewrite, and no
\* padding, eviction or failed step leaves a trace.
THEOREM SlotsAlwaysHoldTheirText == StaticSpec => []SlotsHoldTheirText
  BY StaticInvariance, InvariantGivesText, PTL

\* Each forward samples the next ids of the requests the scheduler recorded.
THEOREM SampledIsAlwaysNext == StaticSpec => []SampledIsNext
  BY StaticInvariance, InvariantGivesSampled, PTL

-----------------------------------------------------------------------------
(* The pages of a step.                                                    *)

\* The places of all segments.
Places(cells, n, f) == \A x : x \in cells <=> \E k \in 1..n : \E j \in 1..f[k] : x = <<k, j>>

LEMMA TotalCells ==
    ASSUME NEW n \in Nat, NEW f \in [1..n -> Nat], NEW cells, cells = Cells(f, n + 1)
    PROVE  /\ Places(cells, n, f)
           /\ Total(f) = Cardinality(cells) /\ Total(f) \in Nat
  <1>1. ASSUME NEW x PROVE x \in cells <=> \E k \in 1..n : \E j \in 1..f[k] : x = <<k, j>>
    <2>1. PICK m : m = n + 1
      OBVIOUS
    <2>2. x \in Cells(f, m) <=> \E k \in 1..(m - 1) : \E j \in 1..f[k] : x = <<k, j>>
      BY CellFacts
    <2>3. m - 1 = n
      BY <2>1
    <2> QED BY <2>1, <2>2, <2>3
  <1>2. Total(f) = Cardinality(cells)
    <2>1. Len(f) = n
      BY FunctionIsSeq
    <2>2. Bounds(f) = [k \in 1..(n + 1) |-> Cardinality(Cells(f, k))]
      BY <2>1 DEF Bounds
    <2>3. n + 1 \in 1..(n + 1)
      OBVIOUS
    <2>4. Bounds(f)[n + 1] = Cardinality(cells)
      BY <2>2, <2>3
    <2> QED BY <2>1, <2>4 DEF Total
  <1> QED BY <1>1, <1>2, BoundsFacts DEF Places

LEMMA UpToIs ==
    ASSUME NEW n \in Nat
    PROVE  IsFiniteSet(1..n) /\ Cardinality(1..n) = n
  <1>1. 1 \in Int /\ n \in Int
    OBVIOUS
  <1>2. IsFiniteSet(1..n) /\ Cardinality(1..n) = IF 1 > n THEN 0 ELSE n - 1 + 1
    BY <1>1, FS_Interval
  <1> QED BY <1>2

LEMMA BoxSize ==
    ASSUME NEW n \in Nat, NEW m \in Nat
    PROVE  /\ IsFiniteSet((1..n) \X (1..m)) /\ Cardinality((1..n) \X (1..m)) = n * m
           /\ Cardinality((1..n) \X (1..m)) \in Nat
  <1>1. IsFiniteSet((1..n) \X (1..m)) /\ Cardinality((1..n) \X (1..m)) = Cardinality(1..n) * Cardinality(1..m)
    BY UpToIs, FS_Product
  <1>2. Cardinality((1..n) \X (1..m)) \in Nat
    BY <1>1, FS_CardinalityType
  <1> QED BY <1>1, <1>2, UpToIs

LEMMA PoolSize ==
    ASSUME NEW b \in Graph
    PROVE  IsFiniteSet(Pool) /\ Cardinality(Pool) \in Nat /\ Cardinality(Pool) + 1 <= NumBlocks
  <1>1. PICK m \in Nat \ {0} : m = NumBlocks
    BY Sizes
  <1>2. PICK g \in Graph : g.kind = "decode" \/ DecodeBuckets = {}
    <2>1. CASE DecodeBuckets = {}
      BY <2>1
    <2>2. ASSUME NEW rows \in DecodeBuckets PROVE [kind |-> "decode", rows |-> rows] \in Graph
      BY DEF Graph
    <2> QED BY <2>1, <2>2
  <1>3. PICK s \in Block : s = m /\ s \notin Pool
    <2>1. Scratch(g.kind) = m
      BY <1>1, <1>2 DEF Scratch
    <2>2. Scratch(g.kind) \notin Pool
      BY DEF Pool
    <2> QED BY <1>1, <2>1, <2>2 DEF Block
  <1>4. IsFiniteSet(Block) /\ Cardinality(Block) = m
    BY <1>1, UpToIs DEF Block
  <1>5. IsFiniteSet(Block \ {s}) /\ Cardinality(Block \ {s}) = m - 1
    BY <1>4, FS_RemoveElement
  <1>6. Pool \in SUBSET (Block \ {s})
    BY <1>3 DEF Pool
  <1>7. IsFiniteSet(Pool) /\ Cardinality(Pool) <= m - 1
    BY <1>5, <1>6, FS_Subset
  <1>8. Cardinality(Pool) \in Nat
    BY <1>7, FS_CardinalityType
  <1> QED BY <1>1, <1>7, <1>8

\* Every slot has blocks of its own, but those of the shared prefix.
LEMMA OwnPages ==
    ASSUME NEW b \in Graph, NEW ss, NEW cc, Pooled(ss, cc), NEW n \in Nat \ {0}, n = Len(ss),
           NEW f \in [1..n -> Nat], \A k \in 1..n : f[k] <= Len(ss[k].blocks)
    PROVE  \E shared \in Nat : shared = (n - 1) * PrefixBlocks /\ Total(f) + 1 <= NumBlocks + shared
  <1>1. PICK cells : cells = Cells(f, n + 1)
    OBVIOUS
  <1>2. \A x : x \in cells <=> \E k \in 1..n : \E j \in 1..f[k] : x = <<k, j>>
    <2>1. Places(cells, n, f)
      BY <1>1, TotalCells
    <2> QED BY <2>1 DEF Places
  <1>3. Total(f) = Cardinality(cells) /\ Total(f) \in Nat
    BY <1>1, TotalCells
  <1>4. PICK own : own = {x \in cells : x[1] = 1 \/ x[2] > PrefixBlocks}
    OBVIOUS
  <1>5. PICK rest : rest = (2..n) \X (1..PrefixBlocks)
    OBVIOUS
  <1>6. cells \subseteq own \cup rest
    <2>1. ASSUME NEW x \in cells, x \notin own PROVE x \in rest
      <3>1. PICK k \in 1..n : \E j \in 1..f[k] : x = <<k, j>>
        BY <1>2
      <3>2. PICK j \in 1..f[k] : x = <<k, j>>
        BY <3>1
      <3>3. k # 1 /\ ~(j > PrefixBlocks)
        BY <1>4, <2>1, <3>2
      <3>4. k \in 2..n /\ j \in 1..PrefixBlocks
        BY <3>3, Sizes
      <3> QED BY <1>5, <3>2, <3>4
    <2> QED BY <2>1
  <1>7. /\ IsFiniteSet(rest) /\ Cardinality(rest) = (n - 1) * PrefixBlocks
    <2>1. IsFiniteSet(2..n) /\ Cardinality(2..n) = n - 1
      <3>1. 2 \in Int /\ n \in Int
        OBVIOUS
      <3>2. IsFiniteSet(2..n) /\ Cardinality(2..n) = IF 2 > n THEN 0 ELSE n - 2 + 1
        BY <3>1, FS_Interval
      <3> QED BY <3>2
    <2>2. IsFiniteSet(1..PrefixBlocks) /\ Cardinality(1..PrefixBlocks) = PrefixBlocks
      BY UpToIs, Sizes
    <2>3. IsFiniteSet(rest) /\ Cardinality(rest) = Cardinality(2..n) * Cardinality(1..PrefixBlocks)
      BY <1>5, <2>1, <2>2, FS_Product
    <2> QED BY <2>1, <2>2, <2>3
  <1>8. /\ OthersOwned(ss) /\ PublishedIsCached(ss, cc) /\ OneKeyEach(cc) /\ OneSlotEach(ss)
        /\ ss \in Seq(Slot)
    BY DEF Pooled
  <1>9. PICK g : g = [x \in own |-> ss[x[1]].blocks[x[2]]]
    OBVIOUS
  <1>10. ASSUME NEW x \in own
         PROVE  \E k \in 1..n : \E j \in 1..Len(ss[k].blocks) :
                   /\ x = <<k, j>> /\ (k = 1 \/ j > PrefixBlocks) /\ g[x] = ss[k].blocks[j] /\ g[x] \in Pool
    <2>1. x \in cells
      BY <1>4
    <2>2. PICK k \in 1..n : \E j \in 1..f[k] : x = <<k, j>>
      BY <1>2, <2>1
    <2>3. PICK j \in 1..f[k] : x = <<k, j>>
      BY <2>2
    <2>4. Len(ss[k].blocks) \in Nat /\ f[k] <= Len(ss[k].blocks)
      BY <1>8, SlotFacts
    <2>5. j \in 1..Len(ss[k].blocks)
      BY <2>4
    <2>6. (k = 1 \/ j > PrefixBlocks) /\ g[x] = ss[k].blocks[j]
      BY <1>4, <1>9, <2>3
    <2>7. ss[k].blocks[j] \in Pool
      BY <1>8, <2>5, SlotFacts
    <2> QED BY <2>3, <2>5, <2>6, <2>7
  <1>11. ASSUME NEW x \in own, NEW y \in own, g[x] = g[y]
         PROVE  x = y
    <2>1. PICK k \in 1..n : \E j \in 1..Len(ss[k].blocks) :
                   x = <<k, j>> /\ (k = 1 \/ j > PrefixBlocks) /\ g[x] = ss[k].blocks[j]
      BY <1>10
    <2>2. PICK j \in 1..Len(ss[k].blocks) :
                   x = <<k, j>> /\ (k = 1 \/ j > PrefixBlocks) /\ g[x] = ss[k].blocks[j]
      BY <2>1
    <2>3. PICK l \in 1..n : \E h \in 1..Len(ss[l].blocks) :
                   y = <<l, h>> /\ (l = 1 \/ h > PrefixBlocks) /\ g[y] = ss[l].blocks[h]
      BY <1>10
    <2>4. PICK h \in 1..Len(ss[l].blocks) :
                   y = <<l, h>> /\ (l = 1 \/ h > PrefixBlocks) /\ g[y] = ss[l].blocks[h]
      BY <2>3
    <2>5. ss[k].blocks[j] = ss[l].blocks[h]
      BY <1>11, <2>2, <2>4
    <2>6. /\ ss[k].published \in Nat /\ ss[l].published \in Nat
          /\ Len(ss[k].blocks) \in Nat /\ Len(ss[l].blocks) \in Nat
          /\ ss[k].req \in RequestId /\ ss[l].req \in RequestId
          /\ ss[k].blocks[j] # 0
      BY <1>8, SlotFacts
    <2>7. CASE j > ss[k].published
      <3>1. j \in (ss[k].published + 1)..Len(ss[k].blocks)
        BY <2>6, <2>7
      <3>2. l = k /\ h = j
        BY <1>8, <2>5, <3>1 DEF OthersOwned
      <3> QED BY <2>2, <2>4, <3>2
    <2>8. CASE h > ss[l].published
      <3>1. h \in (ss[l].published + 1)..Len(ss[l].blocks)
        BY <2>6, <2>8
      <3>2. k = l /\ j = h
        BY <1>8, <2>5, <3>1 DEF OthersOwned
      <3> QED BY <2>2, <2>4, <3>2
    <2>9. CASE ~(j > ss[k].published) /\ ~(h > ss[l].published)
      <3>1. j \in 1..ss[k].published /\ h \in 1..ss[l].published
        BY <2>6, <2>9
      <3>2. cc[Key(ss[k].req, j)] = ss[k].blocks[j] /\ cc[Key(ss[l].req, h)] = ss[l].blocks[h]
        BY <1>8, <3>1 DEF PublishedIsCached
      <3>3. j \in 1..(PromptLen \div BlockSize) /\ h \in 1..(PromptLen \div BlockSize)
        <4>1. Lengths(ss)
          BY DEF Pooled
        <4>2. /\ FilledPrompt(ss[k].n) \in Nat /\ FilledPrompt(ss[k].n) <= PromptLen \div BlockSize
              /\ ss[k].published <= FilledPrompt(ss[k].n)
          BY <1>8, <4>1, FilledSlot
        <4>3. /\ FilledPrompt(ss[l].n) \in Nat /\ FilledPrompt(ss[l].n) <= PromptLen \div BlockSize
              /\ ss[l].published <= FilledPrompt(ss[l].n)
          BY <1>8, <4>1, FilledSlot
        <4>4. PromptLen \div BlockSize \in Nat
          BY Sizes, Split
        <4> QED BY <2>6, <3>1, <4>2, <4>3, <4>4
      <3>4. Key(ss[k].req, j) \in PromptKeys /\ Key(ss[l].req, h) \in PromptKeys
        BY <2>6, <3>3, KeyFacts
      <3>5. Key(ss[k].req, j) = Key(ss[l].req, h)
        BY <1>8, <2>5, <2>6, <3>2, <3>4 DEF OneKeyEach
      <3>6. j = h /\ (j > PrefixBlocks => ss[k].req = ss[l].req)
        BY <2>6, <3>3, <3>5, KeyFacts
      <3>7. k = l
        <4>1. CASE j > PrefixBlocks
          BY <1>8, <3>6, <4>1 DEF OneSlotEach
        <4>2. CASE ~(j > PrefixBlocks)
          BY <2>2, <2>4, <3>6, <4>2
        <4> QED BY <4>1, <4>2
      <3> QED BY <2>2, <2>4, <3>6, <3>7
    <2> QED BY <2>7, <2>8, <2>9
  <1>12. IsFiniteSet(Pool) /\ Cardinality(Pool) \in Nat /\ Cardinality(Pool) + 1 <= NumBlocks
    BY PoolSize
  <1>13. IsFiniteSet(own) /\ Cardinality(own) <= Cardinality(Pool)
    <2>1. g \in [own -> Pool]
      BY <1>9, <1>10
    <2>2. g \in Injection(own, Pool)
      BY <1>11, <2>1 DEF Injection, IsInjective
    <2> QED BY <1>12, <2>2, FS_Injection
  <1>14. IsFiniteSet(own \cup rest) /\ Cardinality(own \cup rest) <= Cardinality(own) + Cardinality(rest)
    <2>1. /\ IsFiniteSet(own \cup rest)
          /\ Cardinality(own \cup rest) = Cardinality(own) + Cardinality(rest) - Cardinality(own \cap rest)
      BY <1>7, <1>13, FS_Union
    <2>2. Cardinality(own \cap rest) \in Nat
      BY <1>7, FS_Intersection, FS_CardinalityType
    <2>3. Cardinality(own) \in Nat /\ Cardinality(rest) \in Nat
      BY <1>7, <1>13, FS_CardinalityType
    <2> QED BY <2>1, <2>2, <2>3
  <1>15. Cardinality(cells) <= Cardinality(own \cup rest)
    BY <1>6, <1>14, FS_Subset
  <1>16. PICK shared \in Nat : shared = (n - 1) * PrefixBlocks
    BY <1>7, FS_CardinalityType
  <1>17. Total(f) + 1 <= NumBlocks + shared
    <2>1. Cardinality(own) \in Nat /\ Cardinality(own \cup rest) \in Nat /\ Cardinality(rest) = shared
      BY <1>7, <1>13, <1>14, <1>16, FS_CardinalityType
    <2> QED BY <1>3, <1>12, <1>13, <1>14, <1>15, <2>1, Sizes
  <1> QED BY <1>16, <1>17

\* Slots of bounded length.
LEMMA FewPages ==
    ASSUME NEW n \in Nat, NEW m \in Nat, NEW f \in [1..n -> Nat], \A k \in 1..n : f[k] <= m
    PROVE  \E all \in Nat : all = n * m /\ Total(f) <= all
  <1>1. PICK cells : cells = Cells(f, n + 1)
    OBVIOUS
  <1>2. \A x : x \in cells <=> \E k \in 1..n : \E j \in 1..f[k] : x = <<k, j>>
    <2>1. Places(cells, n, f)
      BY <1>1, TotalCells
    <2> QED BY <2>1 DEF Places
  <1>3. Total(f) = Cardinality(cells) /\ Total(f) \in Nat
    BY <1>1, TotalCells
  <1>4. PICK box : box = (1..n) \X (1..m)
    OBVIOUS
  <1>5. cells \in SUBSET box
    <2>1. ASSUME NEW x \in cells PROVE x \in box
      <3>1. PICK k \in 1..n : \E j \in 1..f[k] : x = <<k, j>>
        BY <1>2
      <3>2. PICK j \in 1..f[k] : x = <<k, j>>
        BY <3>1
      <3>3. j \in 1..m
        OBVIOUS
      <3> QED BY <1>4, <3>2, <3>3
    <2> QED BY <2>1
  <1>6. IsFiniteSet(box) /\ Cardinality(box) = n * m /\ Cardinality(box) \in Nat
    BY <1>4, BoxSize
  <1>7. Cardinality(cells) <= Cardinality(box) /\ Cardinality(box) \in Nat
    BY <1>5, <1>6, FS_Subset, FS_CardinalityType
  <1> QED BY <1>3, <1>6, <1>7

\* Segments of one place after the first n ones.
OnesBetween(f, m, n, q) ==
    /\ {m, n, q} \subseteq Nat /\ f \in [1..m -> Nat] /\ n <= q /\ q <= m
    /\ \A k \in (n + 1)..q : f[k] = 1

LEMMA OnesFrom ==
    ASSUME NEW m, NEW f, NEW n, NEW q, OnesBetween(f, m, n, q)
    PROVE  Bounds(f)[q + 1] = Bounds(f)[n + 1] + (q - n)
  <1>0. {m, n, q} \subseteq Nat /\ f \in [1..m -> Nat] /\ n <= q /\ q <= m /\ \A k \in (n + 1)..q : f[k] = 1
    BY DEF OnesBetween
  <1> DEFINE S == {k \in (n + 1)..(q + 1) : Bounds(f)[k] # Bounds(f)[n + 1] + (k - n - 1)}
  <1>1. S = {}
    <2>1. SUFFICES ASSUME S # {} PROVE FALSE
      OBVIOUS
    <2>2. S \in SUBSET Nat
      BY <1>0
    <2>3. PICK x \in S : \A y \in S : x <= y
      BY <2>1, <2>2, Least
    <2>4. x \in (n + 1)..(q + 1) /\ Bounds(f)[x] # Bounds(f)[n + 1] + (x - n - 1)
      OBVIOUS
    <2>5. Bounds(f)[n + 1] \in Nat
      <3>1. n + 1 \in 1..(m + 1)
        BY <1>0
      <3> QED BY <1>0, <3>1, BoundsFacts
    <2>6. x # n + 1
      BY <1>0, <2>4, <2>5
    <2>7. PICK h \in (n + 1)..q : x = h + 1
      <3>1. x - 1 \in (n + 1)..q /\ x = (x - 1) + 1
        BY <1>0, <2>4, <2>6
      <3> QED BY <3>1
    <2>8. h \notin S
      BY <1>0, <2>3, <2>7
    <2>9. Bounds(f)[h] = Bounds(f)[n + 1] + (h - n - 1)
      BY <1>0, <2>8
    <2>10. h \in 1..m /\ f[h] = 1
      BY <1>0, <2>7
    <2>11. Bounds(f)[h + 1] = Bounds(f)[h] + f[h]
      <3>1. \A k \in 1..m : Bounds(f)[k + 1] = Bounds(f)[k] + f[k]
        BY <1>0, BoundsFacts
      <3> QED BY <2>10, <3>1
    <2> QED BY <1>0, <2>4, <2>5, <2>7, <2>9, <2>10, <2>11
  <1>2. q + 1 \in (n + 1)..(q + 1)
    BY <1>0
  <1>3. Bounds(f)[q + 1] = Bounds(f)[n + 1] + ((q + 1) - n - 1)
    BY <1>1, <1>2
  <1> QED BY <1>0, <1>3

LEMMA PagesOfFew ==
    ASSUME NEW q \in Nat
    PROVE  /\ q <= 1 => PagesOf(q) = 1
           /\ PagesOf(q) \in Nat \ {0} /\ (q # 0 => PagesOf(q) <= q)
  <1>1. BlocksFor(q) \in Nat /\ BlocksFor(q) <= q
    BY BlocksForFacts
  <1>2. q # 0 => BlocksFor(q) \in 1..q
    <2>1. ASSUME q # 0 PROVE BlocksFor(q) # 0
      <3>1. 0 \in 0..(q - 1)
        BY <2>1
      <3>2. 0 \div BlockSize + 1 \in 1..BlocksFor(q)
        BY <3>1, BlocksForFacts
      <3> QED BY <1>1, <3>2
    <2> QED BY <1>1, <2>1
  <1> QED BY <1>1, <1>2 DEF PagesOf

\* The padding of a step behind n slots: left rows over free slots, and f counts
\* its pages.
PaddedWith(n, free, left, pad, f) ==
    /\ pad = [i \in 1..free |-> IF i = free /\ left >= free THEN left - free + 1
                                ELSE IF i <= left THEN 1 ELSE 0]
    /\ f \in [1..(n + free) -> Nat] /\ \A i \in 1..free : f[n + i] = PagesOf(pad[i])

\* The pages of the padding are those of its slots, or of its rows.
LEMMA PaddingPages ==
    ASSUME NEW n \in Nat, NEW free \in Nat \ {0}, NEW left \in Nat, NEW pad, NEW f,
           PaddedWith(n, free, left, pad, f)
    PROVE  Total(f) <= Bounds(f)[n + 1] + (IF left >= free THEN left ELSE free)
  <1> USE DEF PaddedWith
  <1>1. PICK q \in Nat : q + 1 = n + free
    <2>1. n + free - 1 \in Nat /\ (n + free - 1) + 1 = n + free
      OBVIOUS
    <2> QED BY <2>1
  <1>2. \A k \in (n + 1)..q : f[k] = 1
    <2> TAKE k \in (n + 1)..q
    <2>1. PICK i \in 1..free : k = n + i /\ i # free
      <3>1. k - n \in 1..free /\ k = n + (k - n) /\ k - n # free
        BY <1>1
      <3> QED BY <3>1
    <2>2. pad[i] \in Nat /\ pad[i] <= 1
      BY <2>1
    <2>3. PICK x \in Nat : x = pad[i] /\ x <= 1
      BY <2>2
    <2>4. PagesOf(x) = 1
      BY <2>3, PagesOfFew
    <2> QED BY <2>1, <2>3, <2>4
  <1>3. PICK m \in Nat : m = n + free
    OBVIOUS
  <1>4. f \in [1..m -> Nat] /\ n <= q /\ q <= m /\ m = q + 1
    BY <1>1, <1>3
  <1>5. Bounds(f)[q + 1] = Bounds(f)[n + 1] + (q - n)
    <2>1. OnesBetween(f, m, n, q)
      BY <1>2, <1>4 DEF OnesBetween
    <2> QED BY <2>1, OnesFrom
  <1>6. Bounds(f)[m + 1] = Bounds(f)[m] + f[m] /\ Total(f) = Bounds(f)[m + 1]
    <2>1. m \in 1..m
      BY <1>4
    <2>2. /\ \A k \in 1..m : Bounds(f)[k + 1] = Bounds(f)[k] + f[k]
          /\ Total(f) = Bounds(f)[m + 1]
      BY <1>4, BoundsFacts
    <2> QED BY <2>1, <2>2
  <1>7. f[m] <= IF left >= free THEN left - free + 1 ELSE 1
    <2>1. PICK x : x = pad[free]
      OBVIOUS
    <2>2. f[m] = PagesOf(x)
      BY <1>3, <2>1
    <2>3. CASE left >= free
      <3>1. x = left - free + 1 /\ x \in Nat /\ x # 0
        BY <2>1, <2>3
      <3> QED BY <2>2, <2>3, <3>1, PagesOfFew
    <2>4. CASE ~(left >= free)
      <3>1. x \in Nat /\ x <= 1
        BY <2>1, <2>4
      <3>2. PagesOf(x) = 1
        BY <3>1, PagesOfFew
      <3> QED BY <2>2, <2>4, <3>2
    <2> QED BY <2>3, <2>4
  <1>8. Bounds(f)[n + 1] \in Nat /\ f[m] \in Nat
    <2>1. n + 1 \in 1..(m + 1) /\ m \in 1..m
      BY <1>3, <1>4
    <2> QED BY <1>4, <2>1, BoundsFacts
  <1>9. PICK first, last \in Nat : first = Bounds(f)[n + 1] /\ last = f[m]
    BY <1>8
  <1>10. Total(f) = first + (q - n) + last
    BY <1>4, <1>5, <1>6, <1>9
  <1>11. q - n = free - 1 /\ last <= IF left >= free THEN left - free + 1 ELSE 1
    BY <1>1, <1>7, <1>9
  <1>12. Total(f) <= first + (IF left >= free THEN left ELSE free)
    BY <1>10, <1>11
  <1> QED BY <1>9, <1>12

\* The tables of every graph have room for the pages of a step, whichever slots
\* share the prefix: at most PrefixBlocks pages of each slot but one are shared,
\* or the pool has room for that many slots of the longest length.
RoomInTables ==
    \A b \in Graph : \A n \in 1..SlotsOf(b) :
        \/ (n - 1) * PrefixBlocks <= SlotsOf(b) + n + 1
        \/ n * BlocksFor(MaxLen) <= NumBlocks + SlotsOf(b) + n

\* What the host knows of a step when it has advanced the slots.
AdvancedInGraph(b, ss, cc, count, n) ==
    /\ Advanced(ss, cc, count) /\ n \in Nat \ {0} /\ n = Len(ss)
    /\ \A k \in 1..n : ss[k].n <= MaxLen
    /\ n <= SlotsOf(b) /\ Total(count) <= b.rows
    /\ Total(count) < b.rows => n < SlotsOf(b)

LEMMA SlotPages ==
    ASSUME RoomInTables, NEW b \in Graph, NEW ss, NEW cc, NEW count, NEW n, AdvancedInGraph(b, ss, cc, count, n),
           NEW f, f = [k \in 1..n |-> BlocksFor(ss[k].n)]
    PROVE  f \in [1..n -> Nat] /\ Total(f) \in Nat /\ Total(f) <= NumBlocks + SlotsOf(b) + n
  <1>1. /\ n \in Nat \ {0} /\ n = Len(ss) /\ Pooled(ss, cc) /\ n <= SlotsOf(b)
        /\ \A k \in 1..n : ss[k].n <= MaxLen
    BY DEF AdvancedInGraph, Advanced
  <1>2. \A k \in 1..n : ss[k].n \in Nat /\ BlocksFor(ss[k].n) <= Len(ss[k].blocks)
    BY <1>1, SlotFacts DEF Pooled, Lengths
  <1>3. \A k \in 1..n : BlocksFor(ss[k].n) \in Nat
    BY <1>2, BlocksForFacts
  <1>4. f \in [1..n -> Nat] /\ \A k \in 1..n : f[k] <= Len(ss[k].blocks)
    BY <1>2, <1>3
  <1>5. PICK t \in Nat : t = Total(f)
    BY <1>1, <1>4, BoundsFacts
  <1>6. PICK m \in Nat : m = SlotsOf(b)
    BY GraphFacts
  <1>7. n \in 1..m /\ n \in Nat
    BY <1>1, <1>6
  <1>10. PICK size \in Nat : size = NumBlocks
    BY Sizes
  <1>11. ASSUME t <= size + m + n
             PROVE  Total(f) \in Nat /\ Total(f) <= NumBlocks + SlotsOf(b) + n
    BY <1>5, <1>6, <1>10, <1>11
  <1>8. CASE (n - 1) * PrefixBlocks <= m + n + 1
    <2>1. PICK shared \in Nat : shared = (n - 1) * PrefixBlocks /\ t + 1 <= NumBlocks + shared
      BY <1>1, <1>4, <1>5, OwnPages
    <2>2. shared <= m + n + 1
      BY <1>8, <2>1
    <2>3. t + 1 <= size + shared
      BY <2>1, <1>10
    <2>4. t <= size + m + n
      BY <1>7, <2>2, <2>3
    <2> QED BY <1>4, <1>11, <2>4
  <1>9. CASE n * BlocksFor(MaxLen) <= NumBlocks + m + n
    <2>1. PICK h \in Nat : h = BlocksFor(MaxLen)
      BY BlocksForFacts, Sizes
    <2>2. ASSUME NEW k \in 1..n PROVE f[k] <= h
      <3>1. PICK x \in Nat : x = ss[k].n /\ x <= MaxLen
        BY <1>1, <1>2
      <3>2. f[k] = BlocksFor(x)
        BY <3>1
      <3>3. CASE x = 0
        BY <2>1, <3>2, <3>3, BlocksForFacts
      <3>4. CASE x # 0
        <4>1. x - 1 \in Nat /\ MaxLen - 1 \in Nat /\ x - 1 <= MaxLen - 1 /\ MaxLen # 0
          BY <3>1, <3>4, Sizes
        <4>2. (x - 1) \div BlockSize <= (MaxLen - 1) \div BlockSize
          BY <4>1, LaterBlock
        <4>3. (x - 1) \div BlockSize \in Nat /\ (MaxLen - 1) \div BlockSize \in Nat
          BY <4>1, Split
        <4>4. BlocksFor(x) = (x - 1) \div BlockSize + 1 /\ h = (MaxLen - 1) \div BlockSize + 1
          BY <2>1, <3>4, <4>1, BlocksForFacts, Sizes
        <4> QED BY <3>2, <4>2, <4>3, <4>4
      <3> QED BY <3>3, <3>4
    <2>3. PICK all \in Nat : all = n * h /\ t <= all
      BY <1>1, <1>4, <1>5, <2>2, FewPages
    <2>4. all <= size + m + n
      BY <1>9, <1>10, <2>1, <2>3
    <2>5. t <= size + m + n
      BY <1>7, <2>3, <2>4
    <2> QED BY <1>4, <1>11, <2>5
  <1> QED BY <1>6, <1>7, <1>8, <1>9 DEF RoomInTables

\* Every slot brings a row.
LEMMA RowPerSlot ==
    ASSUME NEW n \in Nat, NEW c \in [1..n -> Nat], \A k \in 1..n : c[k] # 0
    PROVE  n <= Total(c)
  <1>1. PICK ones : ones = [k \in 1..n |-> 1]
    OBVIOUS
  <1>2. ones \in [1..n -> Nat] /\ \A k \in 1..n : ones[k] = 1 /\ ones[k] <= c[k]
    BY <1>1
  <1>3. Total(ones) = n
    BY <1>2, Singles
  <1>4. Total(ones) <= Total(c)
    BY <1>2, LongerSegments
  <1> QED BY <1>3, <1>4

LEMMA StepPages ==
    ASSUME RoomInTables, NEW b \in Graph, NEW ss, NEW cc, NEW count, NEW n, AdvancedInGraph(b, ss, cc, count, n)
    PROVE  Fits(b, ss, count)
  <1>1. /\ n \in Nat \ {0} /\ n = Len(ss) /\ Pooled(ss, cc) /\ n <= SlotsOf(b)
        /\ Advanced(ss, cc, count) /\ count \in [1..n -> Nat] /\ \A k \in 1..n : count[k] \in 1..ss[k].n
        /\ Total(count) <= b.rows /\ (Total(count) < b.rows => n < SlotsOf(b))
    BY DEF AdvancedInGraph, Advanced
  <1>2. Len(count) = n
    BY <1>1, FunctionIsSeq
  <1>3. PICK m \in Nat : m = SlotsOf(b)
    BY GraphFacts
  <1>4. PICK rows \in Nat : rows = b.rows /\ m <= rows
    BY <1>3, GraphFacts
  <1>5. PICK total \in Nat : total = Total(count)
    BY <1>1, BoundsFacts
  <1>6. n <= total /\ total <= rows /\ n <= m /\ (total < rows => n < m)
    <2>1. n \in Nat /\ \A k \in 1..n : count[k] # 0
      BY <1>1
    <2>2. n <= total
      BY <1>1, <1>5, <2>1, RowPerSlot
    <2> QED BY <1>1, <1>3, <1>4, <1>5, <2>2
  <1>7. PICK xs, c : StaticItems(b, ss, count, xs, c)
    <2>1. Len(count) <= SlotsOf(b) /\ Total(count) <= b.rows
      BY <1>1, <1>2
    <2> QED BY <1>1, <2>1, StaticServes
  <1>8. /\ StaticLayout(b, ss, count) = Layout(xs, c) /\ Len(xs) = m
        /\ \A k \in 1..n : xs[k].n = ss[k].n
        /\ \A i \in 1..(m - n) : xs[n + i].n = PaddingRows(b, count)[i]
        /\ Items(xs, c, m)
    BY <1>1, <1>3, <1>7 DEF StaticItems, Serves, Items
  <1>9. PICK pages : pages = Pages(xs)
    OBVIOUS
  <1>10. pages \in [1..m -> Nat] /\ Len(Layout(xs, c).indices) = Total(pages)
    BY <1>8, <1>9, LayoutFacts
  <1>11. PICK f : f = [k \in 1..n |-> BlocksFor(ss[k].n)]
    OBVIOUS
  <1>12. f \in [1..n -> Nat] /\ Total(f) \in Nat /\ Total(f) <= NumBlocks + m + n
    BY <1>3, <1>11, SlotPages
  <1>13. PICK t \in Nat : t = Total(f) /\ t <= NumBlocks + m + n
    BY <1>12
  <1>14. Bounds(pages)[n + 1] = t
    <2>1. \A k \in 1..n : f[k] = pages[k]
      <3> TAKE k \in 1..n
      <3>1. ss[k].n \in Nat /\ ss[k].n # 0
        BY <1>1, SlotFacts DEF Pooled
      <3>2. k \in 1..m
        <4>1. n \in Nat /\ n <= m
          BY <1>1, <1>6
        <4> QED BY <4>1
      <3>3. pages[k] = PagesOf(ss[k].n)
        BY <1>8, <1>9, <3>2 DEF Pages
      <3> QED BY <1>11, <3>1, <3>3 DEF PagesOf
    <2>2. \A k \in 1..(n + 1) : Bounds(f)[k] = Bounds(pages)[k]
      <3>1. n \in Nat /\ m \in Nat /\ n <= m
        BY <1>1, <1>6
      <3>2. pages \in [1..m -> Nat] /\ f \in [1..n -> Nat]
        BY <1>10, <1>12
      <3> QED BY <3>1, <3>2, <2>1, SameBounds
    <2>3. n + 1 \in 1..(n + 1)
      BY <1>1
    <2>4. Bounds(f)[n + 1] = Total(f)
      BY <1>1, <1>12, BoundsFacts
    <2> QED BY <1>13, <2>2, <2>3, <2>4
  <1>15. PICK held \in Nat : held = Total(pages)
    BY <1>10, BoundsFacts
  <1>16. held <= NumBlocks + m + rows
    <2>1. CASE n = m
      <3>1. Bounds(pages)[m + 1] = Total(pages)
        BY <1>10, BoundsFacts
      <3> QED BY <1>4, <1>13, <1>14, <1>15, <2>1, <3>1, Sizes
    <2>2. CASE n # m
      <3>1. PICK free \in Nat \ {0} : free = m - n
        BY <1>1, <1>6, <2>2
      <3>2. PICK left \in Nat : left = rows - total
        BY <1>6
      <3>3. PICK pad : pad = PaddingRows(b, count)
        OBVIOUS
      <3>4. pad = [i \in 1..free |-> IF i = free /\ left >= free THEN left - free + 1
                                     ELSE IF i <= left THEN 1 ELSE 0]
        BY <1>2, <1>3, <1>4, <1>5, <3>1, <3>2, <3>3 DEF PaddingRows
      <3>5. m = n + free
        BY <1>1, <3>1
      <3>6. pages \in [1..(n + free) -> Nat]
        BY <1>10, <3>5
      <3>7. \A i \in 1..free : pages[n + i] = PagesOf(pad[i])
        <4> TAKE i \in 1..free
        <4>1. xs[n + i].n = pad[i]
          BY <1>8, <3>1, <3>3
        <4>2. n + i \in 1..m
          BY <1>1, <3>5
        <4> QED BY <1>8, <1>9, <4>1, <4>2 DEF Pages
      <3>8. Total(pages) <= Bounds(pages)[n + 1] + (IF left >= free THEN left ELSE free)
        <4>1. n \in Nat
          BY <1>1
        <4>2. PaddedWith(n, free, left, pad, pages)
          BY <3>4, <3>6, <3>7 DEF PaddedWith
        <4> QED BY <4>1, <4>2, PaddingPages
      <3>9. held <= t + (IF left >= free THEN left ELSE free)
        BY <1>14, <1>15, <3>8
      <3>10. PICK size \in Nat : size = NumBlocks
        BY Sizes
      <3>11. t <= size + m + n
        BY <1>13, <3>10
      <3>12. n \in Nat /\ n + free = m /\ n <= total /\ left + total = rows /\ m <= rows
        BY <1>1, <1>4, <1>6, <3>1, <3>2
      <3>13. CASE left >= free
        <4>1. held <= t + left
          BY <3>9, <3>13
        <4>2. held <= size + m + rows
          BY <3>11, <3>12, <4>1
        <4> QED BY <3>10, <4>2
      <3>14. CASE ~(left >= free)
        <4>1. held <= t + free
          BY <3>9, <3>14
        <4>2. held <= size + m + rows
          BY <3>11, <3>12, <4>1
        <4> QED BY <3>10, <4>2
      <3> QED BY <3>13, <3>14
    <2> QED BY <2>1, <2>2
  <1>17. Len(StaticLayout(b, ss, count).indices) <= Capacity(b)
    BY <1>3, <1>4, <1>8, <1>10, <1>15, <1>16 DEF Capacity
  <1> QED BY <1>1, <1>2, <1>17 DEF Fits

LEMMA InvariantGivesFit ==
    ASSUME RoomInTables, StaticInv
    PROVE  AcceptedStepsFit
  <1>1. SUFFICES ASSUME phase = "staged", step.bucket # Eager, ~OutOfMemory(step.count)
                 PROVE  Fits(step.bucket, Reserved(step.count).slots, step.count)
    BY DEF AcceptedStepsFit
  <1>2. PICK r : r = Reserved(step.count)
    OBVIOUS
  <1>3. PICK b \in Graph : b = step.bucket
    BY <1>1 DEF StaticInv, StepInv
  <1>4. /\ Pooled(slots, cached) /\ step.count = Counts /\ slots # <<>>
        /\ Advanced(r.slots, r.cached, step.count) /\ Len(r.slots) = Len(slots)
        /\ \A k \in 1..Len(slots) : r.slots[k].n = slots[k].n + Counts[k]
    BY <1>1, <1>2, ReservedFacts
  <1>5. PICK n \in Nat : n = Len(slots)
    BY <1>4, CountsFacts
  <1>6. n # 0
    BY <1>4, <1>5, EmptySeq DEF Pooled
  <1>7. PICK c \in [1..n -> Nat] : c = Counts
    BY <1>4, <1>5, CountsFacts
  <1>8. \A k \in 1..n : r.slots[k].n <= MaxLen
    BY <1>1, <1>4, <1>5 DEF StaticInv, StepInv
  <1>9. n <= SlotsOf(b) /\ Total(c) <= b.rows /\ (Total(c) < b.rows => n < SlotsOf(b))
    <2>1. b # Eager /\ (b.kind = "decode" \/ b.kind = "prefill") /\ b.rows \in Nat /\ SlotsOf(b) \in Nat
      BY GraphFacts
    <2>2. Total(c) \in Nat
      BY BoundsFacts
    <2>3. CASE b.kind = "decode"
      <3>1. n <= b.rows /\ \A k \in 1..n : c[k] = 1
        BY <1>1, <1>3, <1>5, <1>7, <2>1, <2>3 DEF StaticInv, StepInv
      <3>2. Total(c) = n
        BY <3>1, Singles
      <3>3. SlotsOf(b) = b.rows
        BY <2>3, GraphFacts
      <3> QED BY <3>1, <3>2, <3>3
    <2>4. CASE b.kind = "prefill"
      <3>1. Holds(b, Total(c), n)
        BY <1>1, <1>3, <1>5, <1>7, <2>1, <2>4 DEF StaticInv, StepInv
      <3> QED BY <2>1, <2>2, <3>1 DEF Holds
    <2> QED BY <2>1, <2>3, <2>4
  <1>10. AdvancedInGraph(b, r.slots, r.cached, c, n)
    BY <1>4, <1>5, <1>6, <1>7, <1>8, <1>9 DEF AdvancedInGraph
  <1>11. Fits(b, r.slots, c)
    BY <1>10, StepPages
  <1> QED BY <1>2, <1>3, <1>4, <1>7, <1>11

\* Where the tables have room, begin_static_step refuses no step a graph took.
THEOREM AcceptedStepsAlwaysFit == RoomInTables => (StaticSpec => []AcceptedStepsFit)
  <1> SUFFICES ASSUME RoomInTables PROVE StaticSpec => []AcceptedStepsFit
    OBVIOUS
  <1>1. StaticInv => AcceptedStepsFit
    BY InvariantGivesFit
  <1> QED BY <1>1, StaticInvariance, PTL

-----------------------------------------------------------------------------
(* TPLockstep: its inductive invariant.                                    *)

Bye == [op |-> "shutdown"]
Generate(r) == [op |-> "generate", request |-> r]
Decision(c, t) == [op |-> "decision", cont |-> c, token |-> t]

\* What the leader sent since its last generation ended, and the same after d.
Upcoming ==
    IF control = "released" THEN <<Bye>>
    ELSE IF pc = "forward" THEN <<Generate(current)>> ELSE <<>>
UpcomingAfter(d) ==
    IF control = "released" THEN <<d, Bye>>
    ELSE IF pc = "forward" THEN <<d, Generate(current)>> ELSE <<d>>

\* The requests that wait are distinct, and nobody served them.
Unserved(r) == generated[r] = <<>> /\ r \notin failed
QueueInv ==
    /\ \A i \in 1..Len(waiting) : waiting[i] \in submitted /\ Unserved(waiting[i])
    /\ \A i, j \in 1..Len(waiting) : waiting[i] = waiting[j] => i = j
    /\ \A r \in Request \ submitted : Unserved(r)

\* Where the leader's thread is, and the generation it runs.
LeaderInv ==
    /\ pc \in {"serve", "forward", "sample", "ended"} =>
          /\ current \in Request \cap submitted /\ current \notin failed
          /\ \A i \in 1..Len(waiting) : waiting[i] # current
    /\ pc = "serve" => generated[current] = <<>>
    /\ pc \in {"forward", "sample"} =>
          /\ current \notin Refused /\ gen[Leader].request = current
          /\ gen[Leader].emitted = Len(generated[current])
          /\ Len(generated[current]) < MaxTokens[current]
    /\ pc = "forward" =>
          /\ gen[Leader].next \in Token \cup {"prompt"}
          /\ gen[Leader].cache \o <<gen[Leader].next>> = <<"prompt">> \o generated[current]
    /\ pc = "sample" => gen[Leader].cache = <<"prompt">> \o generated[current]
    /\ control \in {"joined", "released"} => pc = "exit"

\* No generation goes on, or none of its forwards has begun.
Between == pc # "sample" /\ (pc = "forward" => gen[Leader] = Begin(current))

\* The leader, at p, is in no generation.
Resting == {"idle", "serve", "exit"}

\* The decision that a follower will wait for at the end of w does not come.
Stale(p, w) == IF w = <<>> THEN p \in Resting ELSE Head(w).op # "decision"

\* The last decision of the generation g.
LastDecision(d, g) == ~d.cont \/ Full(Taken(g, d.token))

\* A follower at a place before, in or behind a forward of a generation that the
\* leader left, at the decision before that forward or the one that ends the
\* generation before, or raised.
Behind(p, place, w, g) ==
    \/ place = "op" /\ w # <<>> /\ Head(w).op = "generate" /\ Stale(p, Tail(w))
    \/ place \in {"forward", "decision"} /\ Stale(p, w)
    \/ /\ place = "decision" /\ w # <<>> /\ Head(w).op = "decision"
       /\ IF LastDecision(Head(w), g)
          THEN Tail(w) # <<>> /\ Head(Tail(w)).op = "generate" /\ Stale(p, Tail(Tail(w)))
          ELSE Stale(p, Tail(w))
    \/ place = "raised"

\* Out of step: it runs or will run a generation that failed on the leader.
Lost(f) ==
    /\ LeftBehind # {}
    /\ Behind(pc, fpc[f], wire[f], gen[f])
    /\ fpc[f] = "forward" => gen[f].next \in Token \cup {"prompt"}

\* On the wire is the decision to go on with the leader's next input.
GoingOn(f) ==
    \E t \in Token : wire[f] = <<Decision(TRUE, t)>> /\ Taken(gen[f], t) = gen[Leader]

\* On the wire is the follower's last decision of a generation that is over.
Ending(f) ==
    \E t \in Token, c \in BOOLEAN :
        wire[f] = UpcomingAfter(Decision(c, t)) /\ (c => Full(Taken(gen[f], t)))

\* How far a follower is in the leader's generation: before it, in a forward,
\* waiting for the decision that follows, before one to go on, before the last
\* one, or out of the loop.
InStep(f) ==
    \/ fpc[f] = "op" /\ Between /\ wire[f] = Upcoming
    \/ fpc[f] = "forward" /\ pc = "forward" /\ gen[f] = gen[Leader] /\ wire[f] = <<>>
    \/ fpc[f] = "decision" /\ pc = "sample" /\ gen[f] = gen[Leader] /\ wire[f] = <<>>
    \/ fpc[f] = "decision" /\ pc = "forward" /\ ~Full(gen[Leader]) /\ GoingOn(f)
    \/ fpc[f] = "decision" /\ Between /\ Ending(f)
    \/ fpc[f] = "left" /\ control = "released" /\ wire[f] = <<>>

FollowerInv == \A f \in Follower : InStep(f) \/ Lost(f)

\* The inductive invariant.
IInv == TypeOK /\ QueueInv /\ LeaderInv /\ FollowerInv

\* A follower raises only after a generation failed on the leader before its last
\* token.
RaisesOnlyAfterFailure ==
    \A f \in Follower : fpc[f] = "raised" => LeftBehind # {}

-----------------------------------------------------------------------------
(* Short sequences.                                                        *)

\* A second message on a wire.
LEMMA AppendToOne == ASSUME NEW x, NEW y PROVE Append(<<x>>, y) = <<x, y>>
<1> DEFINE S == {x, y}
           s == Append(<<x>>, y)
           t == <<x, y>>
<1>1. <<x>> \in Seq(S) /\ y \in S /\ Len(<<x>>) = 1 /\ <<x>>[1] = x
  OBVIOUS
<1>2. t \in Seq(S) /\ Len(t) = 2 /\ t[1] = x /\ t[2] = y
  OBVIOUS
<1>3. s \in Seq(S) /\ Len(s) = 2 /\ s[1] = x /\ s[2] = y
  BY <1>1, AppendProperties
<1> HIDE DEF S, s, t
<1>4. s = t
  BY <1>2, <1>3, SeqEqual
<1> QED
  BY <1>4 DEF s, t

\* What is on a wire of one or two messages, and behind the first.
LEMMA Messages ==
    ASSUME NEW d, NEW m
    PROVE  /\ Append(<<>>, m) = <<m>> /\ Append(<<d>>, m) = <<d, m>>
           /\ Head(<<d>>) = d /\ Tail(<<d>>) = <<>> /\ <<d>> # <<>>
           /\ Head(<<d, m>>) = d /\ Tail(<<d, m>>) = <<m>> /\ <<d, m>> # <<>>
<1>1. Append(<<d>>, m) = <<d, m>>
  BY AppendToOne
<1> QED
  BY <1>1

\* A sequence over a set is one over a larger set.
LEMMA SeqWidens == ASSUME NEW S, NEW T, S \subseteq T, NEW s \in Seq(S) PROVE s \in Seq(T)
<1>1. Len(s) \in Nat /\ s \in [1..Len(s) -> S]
  BY LenProperties
<1>2. s \in [1..Len(s) -> T]
  BY <1>1
<1> QED
  BY <1>1, <1>2, SeqDef

\* A decision to go on leaves a generation, with the token as its next input.
LEMMA TakenType ==
    ASSUME NEW l \in Generation, NEW t \in Token
    PROVE  /\ Taken(l, t) \in Generation
           /\ Taken(l, t).next = t /\ Taken(l, t).cache = l.cache
           /\ Taken(l, t).request = l.request /\ Taken(l, t).emitted = l.emitted + 1
<1>1. /\ l = [request |-> l.request, emitted |-> l.emitted, cache |-> l.cache, next |-> l.next]
      /\ l.request \in Request \cup {None} /\ l.emitted \in Nat
      /\ l.cache \in Seq(Token \cup {"prompt"})
  BY DEF Generation
<1> DEFINE k == [request |-> l.request, emitted |-> l.emitted + 1, cache |-> l.cache, next |-> t]
<1>2. DOMAIN l = {"request", "emitted", "cache", "next"}
  BY <1>1
<1>3. /\ DOMAIN Taken(l, t) = DOMAIN l
      /\ Taken(l, t) = [x \in DOMAIN Taken(l, t) |-> Taken(l, t)[x]]
      /\ Taken(l, t).request = l.request /\ Taken(l, t).emitted = l.emitted + 1
      /\ Taken(l, t).cache = l.cache /\ Taken(l, t).next = t
  BY <1>2 DEF Taken
<1>4. k = [x \in {"request", "emitted", "cache", "next"} |-> k[x]]
  OBVIOUS
<1>5. \A x \in {"request", "emitted", "cache", "next"} : Taken(l, t)[x] = k[x]
  BY <1>3
<1>6. Taken(l, t) = k
  BY <1>2, <1>3, <1>4, <1>5
<1>7. k \in Generation
  BY <1>1 DEF Generation
<1> QED
  BY <1>3, <1>6, <1>7

\* The cache of a forward and its next input are one text, a token further.
LEMMA TextGrows ==
    ASSUME NEW S, NEW p \in S, NEW s \in Seq(S), NEW t \in S
    PROVE  (<<p>> \o s) \o <<t>> = <<p>> \o Append(s, t)
<1>1. <<p>> \in Seq(S) /\ <<t>> \in Seq(S)
  OBVIOUS
<1>2. Append(s, t) = s \o <<t>>
  BY AppendIsConcat
<1> QED
  BY <1>1, <1>2, ConcatAssociative

-----------------------------------------------------------------------------
(* Followers out of step.                                                  *)

\* The leader may go to any place that is not inside a generation.
LEMMA BehindStays ==
    ASSUME NEW p, NEW q, p \in Resting => q \in Resting,
           NEW place, NEW w, NEW g, Behind(p, place, w, g)
    PROVE  Behind(q, place, w, g)
<1>1. \A v : Stale(p, v) => Stale(q, v)
  BY DEF Stale
<1> HIDE DEF Stale
<1> QED
  BY <1>1 DEF Behind

\* A message that is not the awaited decision makes no wire less stale.
LEMMA StaleGrows ==
    ASSUME NEW p, NEW q, NEW w \in Seq(Message), NEW m \in Message,
           m.op = "decision" => p \notin Resting, Stale(p, w)
    PROVE  Stale(q, Append(w, m))
<1>1. CASE w = <<>>
  <2>1. Append(w, m) # <<>> /\ Head(Append(w, m)) = m
    BY <1>1, Messages
  <2> QED
    BY <1>1, <2>1 DEF Stale
<1>2. CASE w # <<>>
  <2>1. Append(w, m) # <<>> /\ Head(Append(w, m)) = Head(w)
    BY <1>2, HeadTailAppend, AppendProperties
  <2> QED
    BY <1>2, <2>1 DEF Stale
<1> QED
  BY <1>1, <1>2

\* Nor does it bring a follower back.
LEMMA BehindGrows ==
    ASSUME NEW p, NEW q, NEW place, NEW w \in Seq(Message), NEW g, NEW m \in Message,
           m.op = "decision" => p \notin Resting, Behind(p, place, w, g)
    PROVE  Behind(q, place, Append(w, m), g)
<1> DEFINE v == Append(w, m)
<1>1. \A u \in Seq(Message) : Stale(p, u) => Stale(q, Append(u, m))
  BY StaleGrows
<1>2. ASSUME NEW u \in Seq(Message), u # <<>>
      PROVE  /\ Tail(u) \in Seq(Message) /\ Append(u, m) # <<>>
             /\ Head(Append(u, m)) = Head(u) /\ Tail(Append(u, m)) = Append(Tail(u), m)
  BY <1>2, HeadTailProperties, HeadTailAppend, AppendProperties
<1>3. CASE place = "op" /\ w # <<>> /\ Head(w).op = "generate" /\ Stale(p, Tail(w))
  <2>1. v # <<>> /\ Head(v) = Head(w) /\ Stale(q, Tail(v))
    BY <1>1, <1>2, <1>3
  <2> HIDE DEF v
  <2> QED
    BY <1>3, <2>1 DEF Behind, v
<1>4. CASE place \in {"forward", "decision"} /\ Stale(p, w)
  BY <1>1, <1>4 DEF Behind
<1>5. CASE /\ place = "decision" /\ w # <<>> /\ Head(w).op = "decision"
           /\ LastDecision(Head(w), g)
           /\ Tail(w) # <<>> /\ Head(Tail(w)).op = "generate" /\ Stale(p, Tail(Tail(w)))
  <2>1. v # <<>> /\ Head(v) = Head(w) /\ Tail(v) = Append(Tail(w), m) /\ Tail(w) \in Seq(Message)
    BY <1>2, <1>5
  <2>2. Tail(v) # <<>> /\ Head(Tail(v)) = Head(Tail(w)) /\ Tail(Tail(v)) = Append(Tail(Tail(w)), m)
        /\ Tail(Tail(w)) \in Seq(Message)
    BY <1>2, <1>5, <2>1
  <2>3. Stale(q, Tail(Tail(v)))
    BY <1>1, <1>5, <2>2
  <2> HIDE DEF v
  <2> QED
    BY <1>5, <2>1, <2>2, <2>3 DEF Behind, v
<1>6. CASE /\ place = "decision" /\ w # <<>> /\ Head(w).op = "decision"
           /\ ~LastDecision(Head(w), g) /\ Stale(p, Tail(w))
  <2>1. v # <<>> /\ Head(v) = Head(w) /\ Stale(q, Tail(v))
    BY <1>1, <1>2, <1>6
  <2> HIDE DEF v
  <2> QED
    BY <1>6, <2>1 DEF Behind, v
<1>7. CASE place = "raised"
  BY <1>7 DEF Behind
<1> QED
  BY <1>3, <1>4, <1>5, <1>6, <1>7 DEF Behind

\* A failed generation stays one.
LEMMA FailedStays ==
    ASSUME failed \subseteq failed', UNCHANGED generated
    PROVE  LeftBehind # {} => LeftBehind' # {}
BY DEF LeftBehind

\* A follower out of step stays there until it receives.
LEMMA LostStays ==
    ASSUME NEW f, Lost(f), LeftBehind # {} => LeftBehind' # {},
           wire'[f] = wire[f], fpc'[f] = fpc[f], gen'[f] = gen[f],
           pc \in Resting => pc' \in Resting
    PROVE  Lost(f)'
<1>1. Behind(pc', fpc[f], wire[f], gen[f])
  BY BehindStays DEF Lost
<1> QED
  BY <1>1 DEF Lost

-----------------------------------------------------------------------------
(* Each action keeps the invariant.                                        *)

\* A step that no rank sees keeps the followers in step.
LEMMA Unseen ==
    ASSUME FollowerInv, UNCHANGED <<gen, wire, fpc, failed, generated, control, pc, current>>
    PROVE  FollowerInv'
<1> SUFFICES ASSUME NEW f \in Follower PROVE (InStep(f) \/ Lost(f))'
  BY DEF FollowerInv
<1>1. InStep(f) \/ Lost(f)
  BY DEF FollowerInv
<1>2. GoingOn(f) => GoingOn(f)'
  BY DEF GoingOn
<1>3. Ending(f) => Ending(f)'
  BY DEF Ending, UpcomingAfter, Full
<1>4. Lost(f) => Lost(f)'
  BY FailedStays, LostStays
<1>5. InStep(f) => InStep(f)'
  BY <1>2, <1>3 DEF InStep, Between, Upcoming, Full
<1> QED
  BY <1>1, <1>4, <1>5

\* A follower's place depends on the leader's only as far as it is in a forward.
LEMMA LeaderMoves ==
    ASSUME FollowerInv, UNCHANGED <<wire, fpc, control>>,
           \A f \in Follower : gen'[f] = gen[f],
           pc \in {"idle", "serve", "ended"}, pc' \in Resting,
           failed \subseteq failed', UNCHANGED generated
    PROVE  FollowerInv'
<1> SUFFICES ASSUME NEW f \in Follower PROVE (InStep(f) \/ Lost(f))'
  BY DEF FollowerInv
<1>1. InStep(f) \/ Lost(f)
  BY DEF FollowerInv
<1>2. Ending(f) => Ending(f)'
  BY DEF Ending, UpcomingAfter, Full, Resting
<1>3. Lost(f) => Lost(f)'
  BY FailedStays, LostStays
<1>4. InStep(f) => InStep(f)'
  BY <1>2 DEF InStep, Between, Upcoming, Resting
<1> QED
  BY <1>1, <1>3, <1>4

\* The leader's entry in gen is not a follower's.
LEMMA OthersStay ==
    ASSUME TypeOK, NEW g, gen' = [gen EXCEPT ![Leader] = g]
    PROVE  gen'[Leader] = g /\ \A f \in Follower : gen'[f] = gen[f]
BY TPLAssumption DEF TypeOK, Rank, Leader

\* The leader takes the next request, or ends.
LEMMA LoopKeeps == ASSUME IInv, Loop PROVE IInv'
<1> USE DEF output, clients, lifecycle
<1>0. TypeOK /\ QueueInv /\ LeaderInv /\ FollowerInv
  BY DEF IInv
<1>1. CASE stop_event /\ pc' = "exit" /\ UNCHANGED <<waiting, current>>
  <2>1. TypeOK'
    BY <1>0, <1>1 DEF Loop, TypeOK
  <2>2. QueueInv' /\ LeaderInv'
    BY <1>0, <1>1 DEF Loop, QueueInv, Unserved, LeaderInv
  <2>3. FollowerInv'
    BY <1>0, <1>1, LeaderMoves DEF Loop, Resting
  <2> QED
    BY <2>1, <2>2, <2>3 DEF IInv
<1>2. CASE /\ waiting # <<>> /\ current' = Head(waiting) /\ waiting' = Tail(waiting)
           /\ pc' = "serve"
  <2>0. waiting \in Seq(Request)
    BY <1>0 DEF TypeOK
  <2>1. /\ Len(waiting) \in Nat \ {0} /\ current' = waiting[1] /\ current' \in Request
        /\ waiting' \in Seq(Request) /\ Len(waiting') = Len(waiting) - 1
        /\ \A i \in 1..Len(waiting') : waiting'[i] = waiting[i + 1]
    BY <1>2, <2>0, HeadTailProperties, EmptySeq
  <2>2. TypeOK'
    BY <1>0, <1>2, <2>1 DEF Loop, TypeOK
  <2>3. QueueInv'
    <3>1. \A i \in 1..Len(waiting') : i + 1 \in 1..Len(waiting)
      BY <2>1
    <3>2. UNCHANGED <<submitted, generated, failed>>
      BY DEF Loop
    <3>3. \A i \in 1..Len(waiting') : waiting'[i] \in submitted /\ Unserved(waiting'[i])
      BY <1>0, <2>1, <3>1 DEF QueueInv
    <3>4. ASSUME NEW i \in 1..Len(waiting'), NEW j \in 1..Len(waiting'), waiting'[i] = waiting'[j]
          PROVE  i = j
      <4>1. i + 1 = j + 1
        BY <1>0, <2>1, <3>1, <3>4 DEF QueueInv
      <4> QED
        BY <4>1, <2>1
    <3> QED
      BY <1>0, <3>2, <3>3, <3>4 DEF QueueInv, Unserved
  <2>4. LeaderInv'
    <3>1. 1 \in 1..Len(waiting)
      BY <2>1
    <3>2. current' \in submitted /\ generated[current'] = <<>> /\ current' \notin failed
      BY <1>0, <2>1, <3>1 DEF QueueInv, Unserved
    <3>3. ASSUME NEW i \in 1..Len(waiting') PROVE waiting'[i] # current'
      <4>1. i + 1 \in 1..Len(waiting) /\ i + 1 # 1
        BY <2>1
      <4> QED
        BY <1>0, <2>1, <3>1, <4>1 DEF QueueInv
    <3>4. control' \notin {"joined", "released"}
      BY <1>0 DEF Loop, LeaderInv
    <3> QED
      BY <1>2, <2>1, <3>2, <3>3, <3>4 DEF Loop, LeaderInv
  <2>5. FollowerInv'
    BY <1>0, <1>2, LeaderMoves DEF Loop, Resting
  <2> QED
    BY <2>2, <2>3, <2>4, <2>5 DEF IInv
<1> QED
  BY <1>1, <1>2 DEF Loop

\* A broadcast reaches every follower's wire.
LEMMA BroadcastType ==
    ASSUME TypeOK, NEW m \in Message, Broadcast(m)
    PROVE  wire' \in [Follower -> Seq(Message)] /\ \A f \in Follower : wire'[f] = Append(wire[f], m)
BY AppendProperties DEF TypeOK, Broadcast

\* The request goes out when the followers are done with the last one, or have
\* its last decision on their wires.
LEMMA ServeKeeps == ASSUME IInv, Serve PROVE IInv'
<1> USE DEF output, clients, lifecycle
<1>0. TypeOK /\ QueueInv /\ LeaderInv /\ FollowerInv
  BY DEF IInv
<1>1. /\ pc = "serve" /\ current \in Request /\ current \in submitted
      /\ generated[current] = <<>> /\ control \notin {"joined", "released"}
      /\ current \notin failed /\ \A i \in 1..Len(waiting) : waiting[i] # current
  BY <1>0 DEF Serve, LeaderInv
<1>2. CASE pc' = "idle"
  <2>1. /\ UNCHANGED <<waiting, generated, submitted, cancelled, wire, fpc, control, stop_event>>
        /\ finish' = [finish EXCEPT ![current] = "cancelled"]
        /\ failed' \in {failed, failed \cup {current}} /\ current' = None
        /\ gen' = gen \/ gen' = [gen EXCEPT ![Leader] = NoGeneration]
    BY <1>2 DEF Serve, Fail, Finish
  <2>2. TypeOK'
    <3>1. NoGeneration \in Generation
      BY DEF NoGeneration, Generation
    <3>2. gen' \in [Rank -> Generation]
      BY <1>0, <2>1, <3>1 DEF TypeOK
    <3>3. finish' \in [Request -> {"none", "cancelled", "stop", "length"}]
          /\ failed' \subseteq Request
      BY <1>0, <1>1, <2>1 DEF TypeOK
    <3> QED
      BY <1>0, <1>2, <2>1, <3>2, <3>3 DEF TypeOK
  <2>3. QueueInv' /\ LeaderInv'
    BY <1>0, <1>1, <1>2, <2>1 DEF QueueInv, Unserved, LeaderInv
  <2>4. \A f \in Follower : gen'[f] = gen[f]
    BY <1>0, <2>1, OthersStay
  <2>5. FollowerInv'
    BY <1>0, <1>1, <1>2, <2>1, <2>4, LeaderMoves DEF Resting
  <2> QED
    BY <2>2, <2>3, <2>5 DEF IInv
<1>3. CASE pc' # "idle"
  <2> DEFINE m == Generate(current)
  <2>1. /\ current \notin Refused /\ Broadcast(m) /\ pc' = "forward"
        /\ gen' = [gen EXCEPT ![Leader] = Begin(current)]
        /\ UNCHANGED <<finish, failed, current, waiting, generated, submitted, cancelled, fpc,
                       control, stop_event>>
    BY <1>3 DEF Serve, Fail, Generate
  <2>2. m \in Message
    BY <1>1 DEF Message, Generate
  <2>3. Begin(current) \in Generation
    BY <1>1 DEF Begin, Generation
  <2>4. TypeOK'
    <3>1. wire' \in [Follower -> Seq(Message)]
      BY <1>0, <2>1, <2>2, BroadcastType
    <3> QED
      BY <1>0, <2>1, <2>3, <3>1 DEF TypeOK, Rank
  <2>5. gen'[Leader] = Begin(current) /\ \A f \in Follower : gen'[f] = gen[f]
    BY <1>0, <2>1, OthersStay
  <2>6. QueueInv' /\ LeaderInv'
    <3>1. <<>> \o <<"prompt">> = <<"prompt">> \o <<>>
      OBVIOUS
    <3>2. gen'[Leader].cache = <<>> /\ gen'[Leader].next = "prompt"
      BY <2>5 DEF Begin
    <3>3. /\ gen'[Leader].next \in Token \cup {"prompt"}
          /\ gen'[Leader].cache \o <<gen'[Leader].next>> = <<"prompt">> \o generated'[current']
      BY <1>1, <2>1, <3>1, <3>2
    <3>4. QueueInv'
      BY <1>0, <2>1 DEF QueueInv, Unserved
    <3>5. /\ gen'[Leader].request = current' /\ gen'[Leader].emitted = Len(generated'[current'])
          /\ Len(generated'[current']) < MaxTokens[current']
      BY <1>1, <2>1, <2>5, TPLAssumption DEF Begin
    <3> QED
      BY <1>0, <1>1, <2>1, <3>3, <3>4, <3>5 DEF LeaderInv
  <2>7. ASSUME NEW f \in Follower PROVE (InStep(f) \/ Lost(f))'
    <3>1. wire'[f] = Append(wire[f], m)
      BY <1>0, <2>1, <2>2, BroadcastType
    <3>2. CASE fpc[f] = "op" /\ wire[f] = <<>>
      BY <1>1, <2>1, <2>5, <3>1, <3>2, Messages DEF InStep, Between, Upcoming
    <3>3. CASE /\ fpc[f] = "decision"
               /\ Ending(f)
      <4>1. PICK t \in Token, c \in BOOLEAN :
                  wire[f] = <<Decision(c, t)>> /\ (c => Full(Taken(gen[f], t)))
        BY <1>1, <3>3 DEF Ending, UpcomingAfter
      <4>2. wire'[f] = <<Decision(c, t), m>>
        BY <3>1, <4>1, Messages
      <4>3. (UpcomingAfter(Decision(c, t)))' = <<Decision(c, t), m>>
        BY <1>1, <2>1 DEF UpcomingAfter
      <4>4. (c => Full(Taken(gen[f], t)))'
        BY <2>5, <4>1 DEF Full, Taken
      <4> QED
        BY <1>1, <2>1, <2>5, <3>3, <4>2, <4>3, <4>4 DEF InStep, Ending, Between
    <3>4. CASE Lost(f)
      <4>1. wire[f] \in Seq(Message)
        BY <1>0 DEF TypeOK
      <4>2. m.op = "generate"
        BY DEF Generate
      <4> HIDE DEF m
      <4>3. Behind(pc', fpc[f], Append(wire[f], m), gen[f])
        BY <2>2, <3>4, <4>1, <4>2, BehindGrows DEF Lost
      <4>4. LeftBehind' = LeftBehind
        BY <2>1 DEF LeftBehind
      <4> QED
        BY <2>1, <2>5, <3>1, <3>4, <4>3, <4>4 DEF Lost
    <3> QED
      BY <1>0, <1>1, <3>2, <3>3, <3>4 DEF FollowerInv, InStep, Upcoming
  <2> QED
    BY <2>4, <2>6, <2>7 DEF IInv, FollowerInv
<1> QED
  BY <1>2, <1>3

\* All ranks are in a forward: those in step in one, with the same cache and
\* input.
LEMMA CollectiveKeeps == ASSUME IInv, Collective PROVE IInv'
<1> USE DEF output, clients, lifecycle
<1>0. TypeOK /\ QueueInv /\ LeaderInv /\ FollowerInv
  BY DEF IInv
<1>1. /\ pc = "forward" /\ pc' = "sample" /\ control \notin {"joined", "released"}
      /\ \A f \in Follower : fpc[f] = "forward" /\ fpc'[f] = "decision"
      /\ UNCHANGED <<waiting, current, generated, finish, failed, submitted, cancelled, wire,
                     control, stop_event>>
      /\ \A k \in Rank : gen'[k] = [gen[k] EXCEPT !.cache = Append(@, gen[k].next)]
      /\ fpc' = [f \in Follower |-> fpc'[f]] /\ gen' = [k \in Rank |-> gen'[k]]
  BY <1>0 DEF Collective, LeaderInv
<1>2. \A f \in Follower : (gen[f] = gen[Leader] /\ wire[f] = <<>>) \/ Lost(f)
  BY <1>0, <1>1 DEF FollowerInv, InStep
<1>3. \A k \in Rank : gen[k] \in Generation /\ gen[k].next \in Token \cup {"prompt"}
  <2>1. gen[Leader].next \in Token \cup {"prompt"}
    BY <1>0, <1>1 DEF LeaderInv
  <2>2. \A f \in Follower : gen[f].next \in Token \cup {"prompt"}
    BY <1>1, <1>2, <2>1 DEF Lost
  <2> QED
    BY <1>0, <2>1, <2>2 DEF TypeOK, Rank
<1>4. ASSUME NEW k \in Rank PROVE gen'[k] \in Generation
  <2>1. Append(gen[k].cache, gen[k].next) \in Seq(Token \cup {"prompt"})
    BY <1>3, AppendProperties DEF Generation
  <2>2. gen'[k] = [gen[k] EXCEPT !.cache = Append(gen[k].cache, gen[k].next)]
    BY <1>1
  <2> QED
    BY <1>3, <2>1, <2>2 DEF Generation
<1>5. TypeOK'
  BY <1>0, <1>1, <1>4 DEF TypeOK
<1>6. QueueInv'
  BY <1>0, <1>1 DEF QueueInv, Unserved
<1>7. gen'[Leader].cache = <<"prompt">> \o generated[current]
  <2>1. Leader \in Rank /\ gen[Leader].cache \in Seq(Token \cup {"prompt"})
    BY <1>3 DEF Rank, Generation
  <2>2. gen'[Leader].cache = Append(gen[Leader].cache, gen[Leader].next)
    BY <1>1, <1>3, <2>1 DEF Generation
  <2>3. @ = gen[Leader].cache \o <<gen[Leader].next>>
    BY <1>3, <2>1, AppendIsConcat
  <2> QED
    BY <1>0, <1>1, <2>2, <2>3 DEF LeaderInv
<1>8. LeaderInv'
  <2>1. /\ current \in Request \cap submitted /\ current \notin Refused \cup failed
        /\ \A i \in 1..Len(waiting) : waiting[i] # current
        /\ gen[Leader].request = current /\ gen[Leader].emitted = Len(generated[current])
        /\ Len(generated[current]) < MaxTokens[current]
    BY <1>0, <1>1 DEF LeaderInv
  <2>2. gen'[Leader].request = current /\ gen'[Leader].emitted = Len(generated[current])
    <3>1. Leader \in Rank
      BY DEF Rank
    <3>2. gen'[Leader] = [gen[Leader] EXCEPT !.cache = Append(@, gen[Leader].next)]
      BY <1>1, <3>1
    <3> QED
      BY <1>3, <2>1, <3>1, <3>2 DEF Generation
  <2> QED
    BY <1>1, <1>7, <2>1, <2>2 DEF LeaderInv
<1>9. FollowerInv'
  <2>1. ASSUME NEW f \in Follower, gen[f] = gen[Leader] PROVE gen'[f] = gen'[Leader]
    <3>1. f \in Rank /\ Leader \in Rank
      BY DEF Rank
    <3>2. gen'[f] = [gen[f] EXCEPT !.cache = Append(@, gen[f].next)]
      BY <1>1, <3>1
    <3>3. gen'[Leader] = [gen[Leader] EXCEPT !.cache = Append(@, gen[Leader].next)]
      BY <1>1, <3>1
    <3> QED
      BY <2>1, <3>2, <3>3
  <2>2. ASSUME NEW f \in Follower PROVE (InStep(f) \/ Lost(f))'
    <3>1. CASE gen[f] = gen[Leader] /\ wire[f] = <<>>
      BY <1>1, <2>1, <2>2, <3>1 DEF InStep
    <3>2. CASE Lost(f)
      <4>1. Stale(pc, wire[f]) /\ pc \notin Resting
        BY <1>1, <2>2, <3>2 DEF Lost, Behind, Resting
      <4>2. Stale(pc', wire[f])
        BY <4>1 DEF Stale
      <4>3. Behind(pc', "decision", wire[f], gen'[f])
        BY <4>2 DEF Behind
      <4>4. LeftBehind' = LeftBehind
        BY <1>1 DEF LeftBehind
      <4> QED
        BY <1>1, <2>2, <3>2, <4>3, <4>4 DEF Lost
    <3> QED
      BY <1>2, <2>2, <3>1, <3>2
  <2> QED
    BY <2>2 DEF FollowerInv
<1> QED
  BY <1>5, <1>6, <1>8, <1>9 DEF IInv

\* The decision goes to every follower of the forward.
LEMMA SampleKeeps == ASSUME IInv, Sample PROVE IInv'
<1> USE DEF output, clients, lifecycle
<1>0. TypeOK /\ QueueInv /\ LeaderInv /\ FollowerInv
  BY DEF IInv
<1>1. PICK t \in Token, eos \in BOOLEAN :
        LET stop == eos \/ current \in cancelled
            g == IF stop THEN gen[Leader] ELSE Taken(gen[Leader], t)
        IN /\ Broadcast([op |-> "decision", cont |-> ~stop, token |-> t])
           /\ generated' = [generated EXCEPT ![current] = IF stop THEN @ ELSE Append(@, t)]
           /\ gen' = [gen EXCEPT ![Leader] = g]
           /\ pc' = IF stop \/ Full(g) THEN "ended" ELSE "forward"
  BY DEF Sample
<1> DEFINE stop == eos \/ current \in cancelled
           g == IF stop THEN gen[Leader] ELSE Taken(gen[Leader], t)
           m == Decision(~stop, t)
<1>2. /\ pc = "sample" /\ Broadcast(m) /\ pc' = IF stop \/ Full(g) THEN "ended" ELSE "forward"
      /\ generated' = [generated EXCEPT ![current] = IF stop THEN @ ELSE Append(@, t)]
      /\ gen' = [gen EXCEPT ![Leader] = g]
      /\ UNCHANGED <<waiting, current, finish, failed, submitted, cancelled, fpc, control, stop_event>>
  BY <1>1 DEF Sample, Decision
<1>3. /\ current \in Request \cap submitted /\ current \notin Refused /\ current \notin failed
      /\ \A i \in 1..Len(waiting) : waiting[i] # current
      /\ control \notin {"joined", "released"}
  BY <1>0, <1>2 DEF LeaderInv
<1>4. m \in Message
  BY DEF Message, Decision
<1>5. /\ wire' \in [Follower -> Seq(Message)]
      /\ \A f \in Follower : wire'[f] = Append(wire[f], m)
  BY <1>0, <1>2, <1>4, BroadcastType
<1>6. gen'[Leader] = g /\ \A f \in Follower : gen'[f] = gen[f]
  BY <1>0, <1>2, OthersStay
<1>7. gen[Leader] \in Generation
  BY <1>0 DEF TypeOK, Rank
<1>8. /\ Taken(gen[Leader], t) \in Generation /\ Taken(gen[Leader], t).next = t
      /\ Taken(gen[Leader], t).cache = gen[Leader].cache
      /\ Taken(gen[Leader], t).request = gen[Leader].request
      /\ Taken(gen[Leader], t).emitted = gen[Leader].emitted + 1
  BY <1>7, TakenType
<1>9. g \in Generation
  BY <1>7, <1>8
<1>10. generated[current] \in Seq(Token) /\ Append(generated[current], t) \in Seq(Token)
  BY <1>0, <1>3, AppendProperties DEF TypeOK
<1>11. generated' \in [Request -> Seq(Token)] /\ gen' \in [Rank -> Generation]
  BY <1>0, <1>2, <1>9, <1>10 DEF TypeOK
<1>12. TypeOK'
  <2>1. pc' \in {"forward", "ended"}
    BY <1>2
  <2> QED
    BY <1>0, <1>2, <1>5, <1>11, <2>1 DEF TypeOK
<1>13. QueueInv'
  <2>1. \A r \in Request \ {current} : generated'[r] = generated[r]
    BY <1>0, <1>2 DEF TypeOK
  <2>2. waiting \in Seq(Request) /\ \A i \in 1..Len(waiting) : waiting[i] \in Request
    <3>1. waiting \in Seq(Request)
      BY <1>0 DEF TypeOK
    <3> QED
      BY <3>1, LenProperties
  <2> QED
    BY <1>0, <1>2, <1>3, <2>1, <2>2 DEF QueueInv, Unserved
<1>14. LeaderInv'
  <2>1. CASE pc' = "ended"
    BY <1>2, <1>3, <2>1 DEF LeaderInv
  <2>2. CASE pc' = "forward"
    <3>1. ~stop /\ g = Taken(gen[Leader], t)
      BY <1>2, <2>2
    <3>2. generated'[current] = Append(generated[current], t)
      BY <1>0, <1>2, <1>3, <3>1 DEF TypeOK
    <3>3. gen'[Leader].next = t /\ gen'[Leader].cache = <<"prompt">> \o generated[current]
      BY <1>0, <1>2, <1>6, <1>8, <3>1 DEF LeaderInv
    <3>4. (<<"prompt">> \o generated[current]) \o <<t>>
             = <<"prompt">> \o Append(generated[current], t)
      <4> DEFINE W == Token \cup {"prompt"}
                 text == generated[current]
      <4>1. text \in Seq(W) /\ "prompt" \in W /\ t \in W
        BY <1>10, SeqWidens
      <4> HIDE DEF W, text
      <4>2. (<<"prompt">> \o text) \o <<t>> = <<"prompt">> \o Append(text, t)
        BY <4>1, TextGrows
      <4> QED
        BY <4>2 DEF text
    <3>5. gen'[Leader].cache \o <<gen'[Leader].next>> = <<"prompt">> \o generated'[current']
      BY <1>2, <3>2, <3>3, <3>4
    <3>6. gen'[Leader].next \in Token \cup {"prompt"}
      BY <3>3
    <3>7. gen[Leader].request = current /\ gen[Leader].emitted = Len(generated[current])
      BY <1>0, <1>2 DEF LeaderInv
    <3>8. Len(generated'[current]) = Len(generated[current]) + 1
      BY <1>10, <3>2, AppendProperties
    <3>9. gen'[Leader].request = current /\ gen'[Leader].emitted = Len(generated'[current])
      BY <1>6, <1>8, <3>1, <3>7, <3>8
    <3>10. ~Full(gen'[Leader])
      BY <1>2, <1>6, <2>2 DEF Full
    <3>11. Len(generated'[current]) \in Nat /\ MaxTokens[current] \in Nat
      BY <1>3, <1>10, <3>2, LenProperties, TPLAssumption
    <3>12. Len(generated'[current]) < MaxTokens[current]
      BY <3>9, <3>10, <3>11 DEF Full
    <3> HIDE DEF g, stop, m
    <3> QED
      BY <1>2, <1>3, <2>2, <3>5, <3>6, <3>9, <3>12 DEF LeaderInv
  <2> QED
    BY <1>2, <2>1, <2>2
<1>15. ASSUME NEW f \in Follower, Lost(f) PROVE Lost(f)'
  <2>1. m.op = "decision" /\ pc \notin Resting /\ wire[f] \in Seq(Message)
    BY <1>0, <1>2 DEF TypeOK, Decision, Resting
  <2> HIDE DEF m
  <2>2. Behind(pc', fpc[f], Append(wire[f], m), gen[f])
    BY <1>4, <1>15, <2>1, BehindGrows DEF Lost
  <2>3. LeftBehind' = LeftBehind
    <3>1. \A r \in failed : generated'[r] = generated[r]
      BY <1>0, <1>2, <1>3 DEF TypeOK
    <3> QED
      BY <1>2, <3>1 DEF LeftBehind
  <2> QED
    BY <1>2, <1>5, <1>6, <1>15, <2>2, <2>3 DEF Lost
<1>16. ASSUME NEW f \in Follower, InStep(f) PROVE InStep(f)'
  <2>1. fpc'[f] = "decision" /\ gen[f] = gen[Leader] /\ wire[f] = <<>>
    BY <1>2, <1>3, <1>16 DEF InStep, Between
  <2>2. wire'[f] = <<m>>
    BY <1>5, <2>1, Messages
  <2>3. CASE pc' = "forward"
    <3>1. ~stop /\ ~Full(g) /\ g = Taken(gen[Leader], t)
      BY <1>2, <2>3
    <3>2. m = Decision(TRUE, t)
      BY <3>1
    <3>3. ~Full(gen'[Leader]) /\ Taken(gen'[f], t) = gen'[Leader]
      BY <1>6, <2>1, <3>1
    <3> HIDE DEF g, stop, m
    <3> QED
      BY <2>1, <2>2, <2>3, <3>2, <3>3 DEF InStep, GoingOn, Full
  <2>4. CASE pc' = "ended"
    <3>1. ~stop => Full(Taken(gen'[f], t))
      BY <1>2, <1>6, <2>1, <2>4
    <3>2. \A c \in BOOLEAN : UpcomingAfter(Decision(c, t))' = <<Decision(c, t)>>
      BY <1>2, <1>3, <2>4 DEF UpcomingAfter
    <3>3. Ending(f)'
      <4>1. CASE stop
        <5>1. m = Decision(FALSE, t)
          BY <4>1
        <5>2. wire'[f] = UpcomingAfter(Decision(FALSE, t))'
          <6>1. UpcomingAfter(Decision(FALSE, t))' = <<Decision(FALSE, t)>>
            BY <3>2
          <6> QED
            BY <2>2, <5>1, <6>1
        <5> HIDE DEF stop, g, m
        <5> QED
          BY <5>2 DEF Ending
      <4>2. CASE ~stop
        <5>1. m = Decision(TRUE, t) /\ Full(Taken(gen'[f], t))
          BY <3>1, <4>2
        <5>2. wire'[f] = UpcomingAfter(Decision(TRUE, t))'
          <6>1. UpcomingAfter(Decision(TRUE, t))' = <<Decision(TRUE, t)>>
            BY <3>2
          <6> QED
            BY <2>2, <5>1, <6>1
        <5> HIDE DEF stop, g, m
        <5> QED
          BY <5>1, <5>2 DEF Ending, Full
      <4> QED
        BY <4>1, <4>2
    <3> QED
      BY <2>1, <2>4, <3>3 DEF InStep, Between
  <2> QED
    BY <1>2, <2>3, <2>4
<1> QED
  BY <1>0, <1>12, <1>13, <1>14, <1>15, <1>16 DEF IInv, FollowerInv

\* The followers of the forward, and those before it, wait for a decision that
\* does not come.
LEMMA GenerationFailsKeeps == ASSUME IInv, GenerationFails PROVE IInv'
<1> USE DEF output, clients, lifecycle
<1>0. TypeOK /\ QueueInv /\ LeaderInv /\ FollowerInv
  BY DEF IInv
<1>1. /\ pc \in {"forward", "sample"} \/ pc = "ended"
      /\ pc' = "idle" /\ finish' = [finish EXCEPT ![current] = "cancelled"]
      /\ failed' = failed \cup {current} /\ gen' = [gen EXCEPT ![Leader] = NoGeneration]
      /\ current' = None
      /\ UNCHANGED <<waiting, generated, submitted, cancelled, wire, fpc, control, stop_event>>
  BY DEF GenerationFails, Fail, Finish
<1>2. /\ current \in Request \cap submitted /\ control \notin {"joined", "released"}
      /\ \A i \in 1..Len(waiting) : waiting[i] # current
  BY <1>0, <1>1 DEF LeaderInv
<1>3. TypeOK'
  <2>1. NoGeneration \in Generation
    BY DEF NoGeneration, Generation
  <2>2. gen' \in [Rank -> Generation]
    BY <1>0, <1>1, <2>1 DEF TypeOK
  <2>3. finish' \in [Request -> {"none", "cancelled", "stop", "length"}]
        /\ failed' \subseteq Request
    BY <1>0, <1>1, <1>2 DEF TypeOK
  <2> QED
    BY <1>0, <1>1, <2>2, <2>3 DEF TypeOK
<1>4. QueueInv' /\ LeaderInv'
  BY <1>0, <1>1, <1>2 DEF QueueInv, Unserved, LeaderInv
<1>5. \A f \in Follower : gen'[f] = gen[f]
  BY <1>0, <1>1, OthersStay
<1>6. CASE pc = "ended"
  <2>1. FollowerInv'
    BY <1>0, <1>1, <1>5, <1>6, LeaderMoves DEF Resting
  <2> QED
    BY <1>3, <1>4, <2>1 DEF IInv
<1>7. CASE pc \in {"forward", "sample"}
  <2>1. LeftBehind' # {}
    BY <1>0, <1>1, <1>2, <1>7 DEF LeaderInv, LeftBehind
  <2>2. Stale(pc', <<>>)
    BY <1>1 DEF Stale, Resting
  <2>3. ASSUME NEW f \in Follower, InStep(f) PROVE Lost(f)'
    <3>1. fpc[f] = "forward" => gen[f].next \in Token \cup {"prompt"}
      BY <1>0, <1>7, <2>3 DEF InStep, LeaderInv
    <3>2. Behind(pc', fpc[f], wire[f], gen[f])
      <4>1. CASE fpc[f] = "op" /\ Between /\ wire[f] = Upcoming
        <5>1. wire[f] = <<Generate(current)>>
          BY <1>2, <1>7, <4>1 DEF Between, Upcoming
        <5>2. wire[f] # <<>> /\ Head(wire[f]).op = "generate" /\ Tail(wire[f]) = <<>>
          BY <5>1, Messages DEF Generate
        <5> QED
          BY <2>2, <4>1, <5>2 DEF Behind
      <4>2. CASE fpc[f] \in {"forward", "decision"} /\ wire[f] = <<>>
        BY <2>2, <4>2 DEF Behind
      <4>3. CASE fpc[f] = "decision" /\ ~Full(gen[Leader]) /\ GoingOn(f)
        <5>1. PICK t \in Token :
                  wire[f] = <<Decision(TRUE, t)>> /\ Taken(gen[f], t) = gen[Leader]
          BY <4>3 DEF GoingOn
        <5>2. wire[f] # <<>> /\ Head(wire[f]) = Decision(TRUE, t) /\ Tail(wire[f]) = <<>>
          BY <5>1, Messages
        <5>3. ~LastDecision(Head(wire[f]), gen[f]) /\ Head(wire[f]).op = "decision"
          BY <4>3, <5>1, <5>2 DEF LastDecision, Decision
        <5> QED
          BY <2>2, <4>3, <5>2, <5>3 DEF Behind
      <4>4. CASE fpc[f] = "decision" /\ Between /\ Ending(f)
        <5>1. PICK t \in Token, c \in BOOLEAN :
                  /\ wire[f] = <<Decision(c, t), Generate(current)>>
                  /\ c => Full(Taken(gen[f], t))
          BY <1>2, <1>7, <4>4 DEF Between, Ending, UpcomingAfter
        <5>2. /\ wire[f] # <<>> /\ Head(wire[f]) = Decision(c, t)
              /\ Tail(wire[f]) = <<Generate(current)>>
          BY <5>1, Messages
        <5>3. LastDecision(Head(wire[f]), gen[f]) /\ Head(wire[f]).op = "decision"
          BY <5>1, <5>2 DEF LastDecision, Decision
        <5>4. /\ Tail(wire[f]) # <<>> /\ Head(Tail(wire[f])).op = "generate"
              /\ Tail(Tail(wire[f])) = <<>>
          <6>1. \A d : <<d>> # <<>> /\ Head(<<d>>) = d /\ Tail(<<d>>) = <<>>
            OBVIOUS
          <6>2. Generate(current).op = "generate"
            BY DEF Generate
          <6> QED
            BY <5>2, <6>1, <6>2
        <5> QED
          BY <2>2, <4>4, <5>2, <5>3, <5>4 DEF Behind
      <4> QED
        BY <1>2, <1>7, <2>3, <4>1, <4>2, <4>3, <4>4 DEF InStep
    <3> QED
      BY <1>1, <1>5, <2>1, <3>1, <3>2 DEF Lost
  <2>4. ASSUME NEW f \in Follower, Lost(f) PROVE Lost(f)'
    BY <1>1, <1>5, <1>7, <2>1, <2>4, LostStays DEF Resting
  <2> QED
    BY <1>0, <1>3, <1>4, <2>3, <2>4 DEF IInv, FollowerInv
<1> QED
  BY <1>1, <1>6, <1>7

\* The generation ended: nothing a follower waits for changes.
LEMMA EndKeeps == ASSUME IInv, End PROVE IInv'
<1> USE DEF output, clients, lifecycle
<1>0. TypeOK /\ QueueInv /\ LeaderInv /\ FollowerInv
  BY DEF IInv
<1>1. /\ pc = "ended" /\ pc' = "idle" /\ finish' = [finish EXCEPT ![current] = Reason(current)]
      /\ gen' = [gen EXCEPT ![Leader] = NoGeneration] /\ current' = None
      /\ UNCHANGED <<waiting, generated, failed, submitted, cancelled, wire, fpc, control, stop_event>>
  BY DEF End, Finish
<1>2. Reason(current) \in {"none", "cancelled", "stop", "length"}
  BY DEF Reason
<1>3. TypeOK'
  <2>1. NoGeneration \in Generation
    BY DEF NoGeneration, Generation
  <2>2. gen' \in [Rank -> Generation]
    BY <1>0, <1>1, <2>1 DEF TypeOK
  <2>3. finish' \in [Request -> {"none", "cancelled", "stop", "length"}]
    BY <1>0, <1>1, <1>2 DEF TypeOK
  <2> QED
    BY <1>0, <1>1, <2>2, <2>3 DEF TypeOK
<1>4. QueueInv' /\ LeaderInv'
  BY <1>0, <1>1 DEF QueueInv, Unserved, LeaderInv
<1>5. \A f \in Follower : gen'[f] = gen[f]
  BY <1>0, <1>1, OthersStay
<1>6. FollowerInv'
  BY <1>0, <1>1, <1>5, LeaderMoves DEF Resting
<1> QED
  BY <1>3, <1>4, <1>6 DEF IInv

\* A follower takes the next message.
LEMMA ReceiveKeeps == ASSUME IInv, NEW h \in Follower, Receive(h) PROVE IInv'
<1> USE DEF output, clients, lifecycle
<1> DEFINE m == Head(wire[h])
<1>0. TypeOK /\ QueueInv /\ LeaderInv /\ FollowerInv
  BY DEF IInv
<1>1. /\ fpc[h] \in {"op", "decision"} /\ wire[h] # <<>> /\ wire' = [wire EXCEPT ![h] = Tail(@)]
      /\ UNCHANGED <<waiting, current, generated, finish, failed, submitted, cancelled, pc,
                     control, stop_event>>
  BY DEF Receive
<1>2. wire[h] \in Seq(Message) /\ m \in Message /\ Tail(wire[h]) \in Seq(Message)
  <2>1. wire[h] \in Seq(Message)
    BY <1>0 DEF TypeOK
  <2> QED
    BY <1>1, <2>1, HeadTailProperties
<1>3. h # Leader /\ h \in Rank /\ gen[h] \in Generation
  BY <1>0, TPLAssumption DEF TypeOK, Rank, Leader
<1>4. /\ wire' \in [Follower -> Seq(Message)] /\ wire'[h] = Tail(wire[h])
      /\ \A f \in Follower \ {h} : wire'[f] = wire[f]
  BY <1>0, <1>1, <1>2 DEF TypeOK
<1>5. ASSUME NEW g, gen' = gen \/ gen' = [gen EXCEPT ![h] = g]
      PROVE  gen'[Leader] = gen[Leader] /\ \A f \in Follower \ {h} : gen'[f] = gen[f]
  BY <1>0, <1>3, <1>5 DEF TypeOK, Rank
<1> DEFINE Moves(place) ==
        /\ fpc' = [fpc EXCEPT ![h] = place]
        /\ gen'[Leader] = gen[Leader] /\ \A f \in Follower \ {h} : gen'[f] = gen[f]
        /\ gen' \in [Rank -> Generation]
<1>6. ASSUME NEW place \in {"op", "forward", "decision", "left", "raised"}, Moves(place),
             (InStep(h) \/ Lost(h))'
      PROVE  IInv'
  <2>1. TypeOK'
    BY <1>0, <1>1, <1>4, <1>6 DEF TypeOK
  <2>2. QueueInv' /\ LeaderInv'
    BY <1>0, <1>1, <1>6 DEF QueueInv, Unserved, LeaderInv
  <2>3. ASSUME NEW f \in Follower \ {h} PROVE (InStep(f) \/ Lost(f))'
    <3>1. wire'[f] = wire[f] /\ gen'[f] = gen[f] /\ fpc'[f] = fpc[f]
      BY <1>0, <1>4, <1>6 DEF TypeOK
    <3>2. (GoingOn(f) => GoingOn(f)') /\ (Ending(f) => Ending(f)') /\ (Lost(f) => Lost(f)')
      <4>1. GoingOn(f) => GoingOn(f)'
        BY <1>6, <3>1 DEF GoingOn
      <4>2. Ending(f) => Ending(f)'
        BY <1>1, <3>1 DEF Ending, UpcomingAfter, Full
      <4>3. Lost(f) => Lost(f)'
        BY <1>1, <3>1, FailedStays, LostStays
      <4> QED
        BY <4>1, <4>2, <4>3
    <3>3. InStep(f) => InStep(f)'
      BY <1>1, <1>6, <3>1, <3>2 DEF InStep, Between, Upcoming, Full
    <3> QED
      BY <1>0, <3>2, <3>3 DEF FollowerInv
  <2> QED
    BY <1>6, <2>1, <2>2, <2>3 DEF IInv, FollowerInv
<1>7. CASE fpc[h] = "op" /\ Between /\ wire[h] = Upcoming
  <2>1. Between /\ wire[h] = Upcoming
    BY <1>7
  <2>2. CASE control = "released"
    <3>1. m = Bye /\ wire'[h] = <<>>
      BY <1>4, <2>1, <2>2, Messages DEF Upcoming
    <3>2. Moves("left")
      <4>1. fpc' = [fpc EXCEPT ![h] = "left"] /\ gen' = gen
        BY <1>7, <3>1 DEF Receive, Bye
      <4> QED
        BY <1>0, <4>1 DEF TypeOK
    <3>3. fpc'[h] = "left"
      BY <1>0, <3>2 DEF TypeOK
    <3> QED
      BY <1>1, <1>6, <2>2, <3>1, <3>2, <3>3 DEF InStep
  <2>3. CASE control # "released"
    <3>0. pc = "forward" /\ wire[h] = <<Generate(current)>>
      BY <1>1, <2>1, <2>3 DEF Upcoming
    <3>1. m = Generate(current) /\ wire'[h] = <<>>
      BY <1>4, <3>0, Messages
    <3>2. fpc' = [fpc EXCEPT ![h] = "forward"] /\ gen' = [gen EXCEPT ![h] = Begin(current)]
      BY <1>7, <3>1 DEF Receive, Generate
    <3>3. Moves("forward")
      <4>1. Begin(current) \in Generation
        BY <1>0, <3>0 DEF LeaderInv, Begin, Generation
      <4> QED
        BY <1>0, <1>3, <1>5, <3>2, <4>1 DEF TypeOK
    <3>4. fpc'[h] = "forward" /\ gen'[h] = gen[Leader]
      BY <1>0, <1>3, <2>1, <3>0, <3>2 DEF TypeOK, Between
    <3> QED
      BY <1>1, <1>6, <3>0, <3>1, <3>3, <3>4 DEF InStep
  <2> QED
    BY <2>2, <2>3
<1>8. CASE fpc[h] = "decision" /\ pc = "forward" /\ ~Full(gen[Leader]) /\ GoingOn(h)
  <2>1. PICK t \in Token : wire[h] = <<Decision(TRUE, t)>> /\ Taken(gen[h], t) = gen[Leader]
    BY <1>8 DEF GoingOn
  <2>2. m = Decision(TRUE, t) /\ wire'[h] = <<>>
    BY <1>4, <2>1, Messages
  <2>3. m.op = "decision" /\ m.cont /\ m.token = t
    BY <2>2 DEF Decision
  <2>4. /\ fpc' = [fpc EXCEPT ![h] = IF Full(gen[Leader]) THEN "op" ELSE "forward"]
        /\ gen' = [gen EXCEPT ![h] = IF Full(gen[Leader]) THEN NoGeneration ELSE gen[Leader]]
    <3> HIDE DEF m
    <3> QED
      BY <1>8, <2>1, <2>3 DEF Receive, m
  <2>5. Moves("forward")
    <3>1. gen[Leader] \in Generation
      BY <1>0 DEF TypeOK, Rank
    <3> QED
      BY <1>0, <1>3, <1>5, <1>8, <2>4, <3>1 DEF TypeOK
  <2>6. fpc'[h] = "forward" /\ gen'[h] = gen[Leader]
    BY <1>0, <1>3, <1>8, <2>4 DEF TypeOK
  <2> QED
    BY <1>1, <1>6, <1>8, <2>2, <2>5, <2>6 DEF InStep
<1>9. CASE fpc[h] = "decision" /\ Between /\ Ending(h)
  <2>1. PICK t \in Token, c \in BOOLEAN :
            wire[h] = UpcomingAfter(Decision(c, t)) /\ (c => Full(Taken(gen[h], t)))
    BY <1>9 DEF Ending
  <2>2. m = Decision(c, t) /\ wire'[h] = Upcoming
    <3> HIDE DEF m
    <3>1. wire[h] # <<>> /\ Head(wire[h]) = Decision(c, t) /\ Tail(wire[h]) = Upcoming
      <4>1. CASE control = "released"
        BY <2>1, <4>1, Messages DEF UpcomingAfter, Upcoming
      <4>2. CASE control # "released" /\ pc = "forward"
        BY <2>1, <4>2, Messages DEF UpcomingAfter, Upcoming
      <4>3. CASE control # "released" /\ pc # "forward"
        BY <2>1, <4>3, Messages DEF UpcomingAfter, Upcoming
      <4> QED
        BY <4>1, <4>2, <4>3
    <3> QED
      BY <1>4, <3>1 DEF m
  <2>3. m.op = "decision" /\ m.cont = c /\ m.token = t
    BY <2>2 DEF Decision
  <2>4. fpc' = [fpc EXCEPT ![h] = "op"] /\ gen' = [gen EXCEPT ![h] = NoGeneration]
    <3> HIDE DEF m
    <3>1. CASE c
      BY <1>9, <2>1, <2>3, <3>1 DEF Receive, m
    <3>2. CASE ~c
      BY <1>9, <2>1, <2>3, <3>2 DEF Receive, m
    <3> QED
      BY <3>1, <3>2
  <2>5. Moves("op")
    <3>1. NoGeneration \in Generation
      BY DEF NoGeneration, Generation
    <3> QED
      BY <1>0, <1>3, <1>5, <2>4, <3>1 DEF TypeOK
  <2>6. fpc'[h] = "op"
    BY <1>0, <2>4 DEF TypeOK
  <2>7. Between' /\ Upcoming' = Upcoming
    BY <1>1, <1>9, <2>5 DEF Between, Upcoming
  <2> QED
    BY <1>6, <2>2, <2>5, <2>6, <2>7 DEF InStep
<1>10. CASE Lost(h)
  <2>1. LeftBehind' # {} /\ pc' = pc
    BY <1>1, <1>10, FailedStays DEF Lost
  <2>2. ASSUME NEW place \in {"op", "forward", "raised"}, Moves(place),
               Behind(pc, place, wire'[h], gen'[h]),
               place = "forward" => gen'[h].next \in Token \cup {"prompt"}
        PROVE  IInv'
    <3>1. fpc'[h] = place
      BY <1>0, <2>2 DEF TypeOK
    <3>2. Lost(h)'
      BY <2>1, <2>2, <3>1 DEF Lost
    <3> QED
      BY <1>6, <2>2, <3>2
  <2>3. CASE fpc[h] = "op" /\ m.op = "generate" /\ Stale(pc, Tail(wire[h]))
    <3>1. m.request \in Request
      BY <1>2, <2>3 DEF Message
    <3>2. fpc' = [fpc EXCEPT ![h] = "forward"] /\ gen' = [gen EXCEPT ![h] = Begin(m.request)]
      <4> HIDE DEF m
      <4> QED
        BY <2>3 DEF Receive, m
    <3>3. Begin(m.request) \in Generation /\ Begin(m.request).next = "prompt"
      BY <3>1 DEF Begin, Generation
    <3> HIDE DEF m
    <3>4. Moves("forward") /\ gen'[h] = Begin(m.request)
      BY <1>0, <1>3, <1>5, <3>2, <3>3 DEF TypeOK
    <3>5. Behind(pc, "forward", wire'[h], gen'[h])
      BY <1>4, <2>3 DEF Behind
    <3> QED
      BY <2>2, <3>3, <3>4, <3>5
  <2>4. CASE fpc[h] = "decision" /\ m.op # "decision"
    <3>1. fpc' = [fpc EXCEPT ![h] = "raised"] /\ gen' = gen
      <4> HIDE DEF m
      <4> QED
        BY <2>4 DEF Receive, m
    <3>2. Moves("raised")
      BY <1>0, <3>1 DEF TypeOK
    <3> QED
      BY <2>2, <3>2 DEF Behind
  <2>5. CASE /\ fpc[h] = "decision" /\ m.op = "decision"
             /\ LastDecision(m, gen[h])
             /\ Tail(wire[h]) # <<>> /\ Head(Tail(wire[h])).op = "generate"
             /\ Stale(pc, Tail(Tail(wire[h])))
    <3>1. fpc' = [fpc EXCEPT ![h] = "op"] /\ gen' = [gen EXCEPT ![h] = NoGeneration]
      <4> HIDE DEF m
      <4>1. CASE m.cont
        BY <2>5, <4>1 DEF Receive, LastDecision, m
      <4>2. CASE ~m.cont
        BY <2>5, <4>2 DEF Receive, m
      <4> QED
        BY <4>1, <4>2
    <3>2. NoGeneration \in Generation
      BY DEF NoGeneration, Generation
    <3>3. Moves("op")
      BY <1>0, <1>3, <1>5, <3>1, <3>2 DEF TypeOK
    <3>4. Behind(pc, "op", wire'[h], gen'[h])
      BY <1>4, <2>5 DEF Behind
    <3> QED
      BY <2>2, <3>3, <3>4
  <2>6. CASE /\ fpc[h] = "decision" /\ m.op = "decision"
             /\ ~LastDecision(m, gen[h]) /\ Stale(pc, Tail(wire[h]))
    <3>1. m.cont /\ ~Full(Taken(gen[h], m.token))
      BY <2>6 DEF LastDecision
    <3>2. /\ fpc' = [fpc EXCEPT ![h] = "forward"]
          /\ gen' = [gen EXCEPT ![h] = Taken(gen[h], m.token)]
      <4> HIDE DEF m
      <4> QED
        BY <2>6, <3>1 DEF Receive, m
    <3>3. m.token \in Token
      BY <1>2, <2>6 DEF Message
    <3>4. Taken(gen[h], m.token) \in Generation /\ Taken(gen[h], m.token).next = m.token
      BY <1>3, <3>3, TakenType
    <3> HIDE DEF m
    <3>5. Moves("forward") /\ gen'[h] = Taken(gen[h], m.token)
      BY <1>0, <1>3, <1>5, <3>2, <3>4 DEF TypeOK
    <3>6. Behind(pc, "forward", wire'[h], gen'[h])
      BY <1>4, <2>6 DEF Behind
    <3> QED
      BY <2>2, <3>3, <3>4, <3>5, <3>6
  <2> QED
    BY <1>1, <1>10, <2>3, <2>4, <2>5, <2>6 DEF Lost, Behind, Stale
<1> QED
  BY <1>0, <1>1, <1>7, <1>8, <1>9, <1>10 DEF FollowerInv, InStep

\* A new request goes behind those that wait.
LEMMA SubmitKeeps == ASSUME IInv, NEW r \in Request, Submit(r) PROVE IInv'
<1> USE DEF output, clients, lifecycle
<1>0. TypeOK /\ QueueInv /\ LeaderInv /\ FollowerInv
  BY DEF IInv
<1>1. /\ r \notin submitted /\ submitted' = submitted \cup {r} /\ waiting' = Append(waiting, r)
      /\ UNCHANGED <<current, generated, finish, failed, cancelled, pc, gen, wire, fpc, control, stop_event>>
  BY DEF Submit
<1>2. /\ waiting \in Seq(Request) /\ Len(waiting) \in Nat /\ waiting' \in Seq(Request)
      /\ Len(waiting') = Len(waiting) + 1 /\ waiting'[Len(waiting) + 1] = r
      /\ \A i \in 1..Len(waiting) : waiting'[i] = waiting[i]
  <2>1. waiting \in Seq(Request)
    BY <1>0 DEF TypeOK
  <2>2. Len(waiting) \in Nat
    BY <2>1, LenProperties
  <2>3. /\ Append(waiting, r) \in Seq(Request) /\ Len(Append(waiting, r)) = Len(waiting) + 1
        /\ Append(waiting, r)[Len(waiting) + 1] = r
        /\ \A i \in 1..Len(waiting) : Append(waiting, r)[i] = waiting[i]
    BY <2>1, AppendProperties
  <2> QED
    BY <1>1, <2>1, <2>2, <2>3
<1>3. TypeOK'
  BY <1>0, <1>1, <1>2 DEF TypeOK
<1>4. \A i \in 1..Len(waiting') : i \in 1..Len(waiting) \/ i = Len(waiting) + 1
  BY <1>2
<1>5. \A i \in 1..Len(waiting) : waiting[i] \in submitted /\ waiting[i] # r
  BY <1>0, <1>1 DEF QueueInv
<1>6. QueueInv'
  <2>1. Unserved(r) /\ UNCHANGED <<generated, failed>>
    BY <1>0, <1>1 DEF QueueInv
  <2>2. \A i \in 1..Len(waiting') : waiting'[i] \in submitted' /\ Unserved(waiting'[i])
    BY <1>0, <1>1, <1>2, <1>4, <2>1 DEF QueueInv
  <2>3. \A i, j \in 1..Len(waiting') : waiting'[i] = waiting'[j] => i = j
    BY <1>0, <1>2, <1>4, <1>5 DEF QueueInv
  <2>4. \A q \in Request \ submitted' : Unserved(q)
    BY <1>0, <1>1 DEF QueueInv
  <2> QED
    BY <2>1, <2>2, <2>3, <2>4 DEF QueueInv, Unserved
<1>7. LeaderInv'
  BY <1>0, <1>1, <1>2, <1>4 DEF LeaderInv
<1>8. FollowerInv'
  BY <1>0, <1>1, Unseen
<1> QED
  BY <1>3, <1>6, <1>7, <1>8 DEF IInv

\* A cancellation is seen by the leader only.
LEMMA CancelKeeps == ASSUME IInv, NEW r \in Request, Cancel(r) PROVE IInv'
<1> USE DEF output, lifecycle, Cancel
<1>1. TypeOK' /\ QueueInv' /\ LeaderInv'
  BY DEF IInv, TypeOK, QueueInv, Unserved, LeaderInv
<1>2. FollowerInv'
  BY Unseen DEF IInv
<1> QED
  BY <1>1, <1>2 DEF IInv

\* The calls of stop() before its shutdown change nothing a follower sees.
LEMMA StopKeeps == ASSUME IInv, Stop \/ Join PROVE IInv'
<1> USE DEF output, clients
<1>0. TypeOK /\ QueueInv /\ LeaderInv /\ FollowerInv
  BY DEF IInv
<1>1. /\ control \in {"idle", "join"} /\ control' \in {"join", "joined", "timed out"}
      /\ control' = "joined" => pc = "exit"
      /\ UNCHANGED <<current, generated, failed, submitted, cancelled, pc, gen, wire, fpc>>
      /\ stop_event' \in {stop_event, TRUE}
      /\ waiting' = waiting \/ waiting' = <<>>
      /\ finish' = finish
         \/ finish' = [r \in Request |-> IF r \in Leftover THEN "cancelled" ELSE finish[r]]
  BY DEF Stop, Join
<1>2. TypeOK'
  <2>1. finish' \in [Request -> {"none", "cancelled", "stop", "length"}]
    BY <1>0, <1>1 DEF TypeOK
  <2>2. waiting' \in Seq(Request)
    <3>1. waiting \in Seq(Request)
      BY <1>0 DEF TypeOK
    <3> QED
      BY <1>1, <3>1, EmptySeq
  <2> QED
    BY <1>0, <1>1, <2>1, <2>2 DEF TypeOK
<1>3. QueueInv' /\ LeaderInv'
  <2>1. CASE waiting' = waiting
    BY <1>0, <1>1, <2>1 DEF QueueInv, Unserved, LeaderInv
  <2>2. CASE waiting' = <<>>
    <3>1. 1..Len(waiting') = {}
      BY <2>2
    <3> QED
      BY <1>0, <1>1, <3>1 DEF QueueInv, Unserved, LeaderInv
  <2> QED
    BY <1>1, <2>1, <2>2
<1>4. ASSUME NEW f \in Follower PROVE (InStep(f) \/ Lost(f))'
  <2>1. InStep(f) \/ Lost(f)
    BY <1>0 DEF FollowerInv
  <2>2. GoingOn(f) => GoingOn(f)'
    BY <1>1 DEF GoingOn
  <2>3. Ending(f) => Ending(f)'
    BY <1>1 DEF Ending, UpcomingAfter, Full
  <2>4. Lost(f) => Lost(f)'
    BY <1>1, FailedStays, LostStays
  <2>5. InStep(f) => InStep(f)'
    BY <1>1, <2>2, <2>3 DEF InStep, Between, Upcoming, Full
  <2> QED
    BY <2>1, <2>4, <2>5
<1> QED
  BY <1>2, <1>3, <1>4 DEF IInv, FollowerInv

\* The shutdown follows whatever the thread had sent before it ended.
LEMMA ShutdownKeeps == ASSUME IInv, Shutdown PROVE IInv'
<1> USE DEF output, clients
<1>0. TypeOK /\ QueueInv /\ LeaderInv /\ FollowerInv
  BY DEF IInv
<1>1. /\ control = "joined" /\ pc = "exit" /\ control' = "released" /\ Broadcast(Bye)
      /\ UNCHANGED <<waiting, current, generated, finish, failed, submitted, cancelled, pc, gen,
                     fpc, stop_event>>
  BY <1>0 DEF Shutdown, LeaderInv, Bye
<1>2. Bye \in Message
  BY DEF Bye, Message
<1>3. /\ wire' \in [Follower -> Seq(Message)]
      /\ \A f \in Follower : wire'[f] = Append(wire[f], Bye)
  BY <1>0, <1>1, <1>2, BroadcastType
<1>4. TypeOK'
  BY <1>0, <1>1, <1>3 DEF TypeOK
<1>5. QueueInv' /\ LeaderInv'
  BY <1>0, <1>1 DEF QueueInv, Unserved, LeaderInv
<1>6. ASSUME NEW f \in Follower PROVE (InStep(f) \/ Lost(f))'
  <2>1. wire'[f] = Append(wire[f], Bye)
    BY <1>3
  <2>2. CASE fpc[f] = "op" /\ wire[f] = <<>>
    <3>1. wire'[f] = <<Bye>>
      BY <2>1, <2>2, Messages
    <3> QED
      BY <1>1, <2>2, <3>1 DEF InStep, Between, Upcoming
  <2>3. CASE fpc[f] = "decision" /\ Ending(f)
    <3>1. PICK t \in Token, c \in BOOLEAN :
              wire[f] = <<Decision(c, t)>> /\ (c => Full(Taken(gen[f], t)))
      BY <1>1, <2>3 DEF Ending, UpcomingAfter
    <3>2. wire'[f] = <<Decision(c, t), Bye>>
      BY <2>1, <3>1, Messages
    <3>3. Ending(f)'
      BY <1>1, <3>1, <3>2 DEF Ending, UpcomingAfter, Full
    <3> QED
      BY <1>1, <2>3, <3>3 DEF InStep, Between
  <2>4. CASE Lost(f)
    <3>1. wire[f] \in Seq(Message)
      BY <1>0 DEF TypeOK
    <3>2. Bye.op = "shutdown"
      BY DEF Bye
    <3>3. Behind(pc', fpc[f], Append(wire[f], Bye), gen[f])
      BY <1>2, <2>4, <3>1, <3>2, BehindGrows DEF Lost
    <3>4. LeftBehind' = LeftBehind
      BY <1>1 DEF LeftBehind
    <3> QED
      BY <1>1, <2>1, <2>4, <3>3, <3>4 DEF Lost
  <2> QED
    BY <1>0, <1>1, <2>2, <2>3, <2>4 DEF FollowerInv, InStep, Upcoming
<1> QED
  BY <1>4, <1>5, <1>6 DEF IInv, FollowerInv

-----------------------------------------------------------------------------
(* The theorems.                                                           *)

\* The invariant holds before the first request.
LEMMA Initially == Init => IInv
<1> SUFFICES ASSUME Init PROVE IInv
  OBVIOUS
<1>1. NoGeneration \in Generation
  BY DEF NoGeneration, Generation
<1>2. TypeOK
  <2>1. /\ waiting \in Seq(Request) /\ generated \in [Request -> Seq(Token)]
        /\ wire \in [Follower -> Seq(Message)]
    BY DEF Init
  <2>2. gen \in [Rank -> Generation] /\ finish \in [Request -> {"none", "cancelled", "stop", "length"}]
    BY <1>1 DEF Init
  <2> QED
    BY <2>1, <2>2 DEF Init, TypeOK
<1>3. QueueInv /\ LeaderInv
  BY DEF Init, QueueInv, Unserved, LeaderInv
<1>4. FollowerInv
  BY DEF Init, FollowerInv, InStep, Between, Upcoming
<1> QED
  BY <1>2, <1>3, <1>4 DEF IInv

\* Every step keeps the invariant.
LEMMA Consecution == ASSUME IInv, [Next]_vars PROVE IInv'
<1>1. CASE UNCHANGED vars
  <2> USE <1>1 DEF vars, output, clients, lifecycle
  <2>1. TypeOK' /\ QueueInv' /\ LeaderInv'
    BY DEF IInv, TypeOK, QueueInv, Unserved, LeaderInv
  <2>2. FollowerInv'
    BY Unseen DEF IInv
  <2> QED
    BY <2>1, <2>2 DEF IInv
<1>2. CASE Engine
  BY <1>2, LoopKeeps, ServeKeeps, SampleKeeps, EndKeeps DEF Engine
<1>3. CASE Forward \/ ForwardMixed \/ GenerationFails
  BY <1>3, CollectiveKeeps, GenerationFailsKeeps DEF Forward, ForwardMixed
<1>4. CASE \E f \in Follower : Receive(f)
  BY <1>4, ReceiveKeeps
<1>5. CASE \E r \in Request : Submit(r) \/ Cancel(r)
  BY <1>5, SubmitKeeps, CancelKeeps
<1>6. CASE Stop \/ Join \/ Shutdown
  BY <1>6, StopKeeps, ShutdownKeeps
<1> QED
  BY <1>1, <1>2, <1>3, <1>4, <1>5, <1>6 DEF Next

\* Each follower is at one of six places in the leader's generation, with just
\* the rest of its messages on the wire, or out of step in a generation that
\* failed on the leader before its last token.
THEOREM Invariance == Spec => []IInv
BY Initially, Consecution, PTL DEF Spec

\* Every variable keeps its type.
THEOREM TypeCorrect == Spec => []TypeOK
<1>1. IInv => TypeOK
  BY DEF IInv
<1> QED
  BY <1>1, Invariance, PTL

\* Ranks that meet in a forward run the same one, over the request's prompt and
\* the tokens its client got.
THEOREM RanksRunTheSame == Spec => []SameForward
<1>1. ASSUME IInv PROVE SameForward
  <2> SUFFICES ASSUME pc = "forward"
               PROVE  /\ gen[Leader].cache \o <<gen[Leader].next>> = <<"prompt">> \o generated[current]
                      /\ \A f \in Follower : fpc[f] = "forward" /\ wire[f] = <<>> =>
                                                gen[f] = gen[Leader]
    BY DEF SameForward
  <2>1. \A f \in Follower : fpc[f] = "forward" /\ wire[f] = <<>> => ~Lost(f)
    BY DEF Lost, Behind, Stale, Resting
  <2>2. \A f \in Follower : fpc[f] = "forward" /\ wire[f] = <<>> => gen[f] = gen[Leader]
    BY <1>1, <2>1 DEF IInv, FollowerInv, InStep
  <2> QED
    BY <1>1, <2>2 DEF IInv, LeaderInv
<1> QED
  BY <1>1, Invariance, PTL

\* A follower takes a message for another kind only after a generation failed on
\* the leader before its last token.
THEOREM RaisesAfterFailure == Spec => []RaisesOnlyAfterFailure
<1>1. IInv => RaisesOnlyAfterFailure
  BY DEF IInv, FollowerInv, InStep, Lost, RaisesOnlyAfterFailure
<1> QED
  BY <1>1, Invariance, PTL

=============================================================================
