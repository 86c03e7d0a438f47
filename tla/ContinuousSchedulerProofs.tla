---------------------- MODULE ContinuousSchedulerProofs ----------------------
(***************************************************************************)
(* Proofs about ContinuousScheduler for every pool, batch, chunk size and    *)
(* set of requests, with and without async sampling.                       *)
(***************************************************************************)
EXTENDS ContinuousScheduler, SequenceTheorems, FiniteSetTheorems, TLAPS

\* The requests of the queues, and what a state says of its request.
QueueInv ==
    /\ \A i \in 1..Len(waiting) : state[waiting[i]] = "waiting"
    /\ \A i, j \in 1..Len(waiting) : waiting[i] = waiting[j] => i = j
    /\ \A i \in 1..Len(running) : state[running[i]] \notin {"new", "waiting"}
    /\ \A i, j \in 1..Len(running) : running[i] = running[j] => i = j
    /\ \A r \in Request : InFlight(r) => r \in ToSet(running) /\ batch_idx[r] # None

\* Rows grow with the place in _running, and every slot is somebody's row.
RowsInv ==
    /\ \A i \in 1..Len(running) : batch_idx[running[i]] \in 1..Len(slots) \cup {None}
    /\ \A i, j \in 1..Len(running) :
          i < j /\ batch_idx[running[i]] # None /\ batch_idx[running[j]] # None =>
              batch_idx[running[i]] < batch_idx[running[j]]
    /\ \A k \in 1..Len(slots) : \E i \in 1..Len(running) : batch_idx[running[i]] = k

\* How far a request is.
RequestInv ==
    \A r \in Request :
        /\ ~Decoding(r) /\ state[r] # "done" => tokens_generated[r] = <<>> /\ pending[r] = None
        /\ state[r] \in {"new", "waiting"} => tokens_prefilled[r] = 0 /\ batch_idx[r] = None
        /\ Prefilling(r) => tokens_prefilled[r] < PromptLen[r]
        /\ InFlight(r) => Len(tokens_generated[r]) < MaxTokens[r]
        /\ terminals[r] = IF state[r] = "done" THEN 1 ELSE 0

\* The tokens at the end of a decoder's text: the one it resends, the one its
\* logits come from, and the one that was sampled ahead.
TokenInv ==
    \A r \in Request : Decoding(r) =>
        /\ pending[r] # None =>
              pending[r] = TokenOf(r, PromptLen[r] + Len(tokens_generated[r]), FALSE)
        /\ pending[r] = None =>
              /\ last_logits[r].req = r
              /\ last_logits[r].pos = PromptLen[r] + Len(tokens_generated[r])
        /\ pending[r] = None /\ deferred # None /\ r \in DOMAIN deferred =>
              /\ deferred[r].req = r
              /\ deferred[r].pos = PromptLen[r] + Len(tokens_generated[r]) + 1

\* What each phase relies on.
PhaseInv ==
    /\ pc \in {"reap", "admit", "reap_rejected", "forward"} =>
          deferred = None /\ \A r \in Request : Decoding(r) => pending[r] # None
    /\ pc \in {"choose", "async"} => deferred # None
    /\ pc \in {"forward", "async"} => Finished = {}
    /\ pc = "async" => \A r \in ToSet(running) :
                          Decoding(r) /\ pending[r] = None /\ r \in DOMAIN deferred
    /\ pc = "oom" => /\ snapshot \in [1..Len(slots) -> Nat]
                     /\ \A i \in 1..Len(slots) : snapshot[i] <= Len(slots[i].kv)

\* The inductive invariant.
IInv == /\ TypeOK /\ QueueInv /\ RowsInv /\ RequestInv /\ TokenInv /\ PhaseInv
        /\ EveryTokenOnce /\ SlotHoldsItsRequest

-----------------------------------------------------------------------------
(* Sequences given by functions, and selections from a sequence.            *)

\* A function on 1..n is a sequence of length n.
LEMMA FunctionIsSeq ==
    ASSUME NEW S, NEW n \in Nat, NEW f \in [1..n -> S]
    PROVE  f \in Seq(S) /\ Len(f) = n /\ DOMAIN f = 1..n
  OBVIOUS

\* A sequence is one over its own elements.
LEMMA SeqOverItself ==
    ASSUME NEW S, NEW s \in Seq(S)
    PROVE  s \in Seq(ToSet(s)) /\ ToSet(s) = {s[i] : i \in 1..Len(s)} /\ ToSet(s) \subseteq S
  <1>1. s \in [1..Len(s) -> S] /\ Len(s) \in Nat /\ DOMAIN s = 1..Len(s)
    BY LenProperties
  <1>2. ToSet(s) = {s[i] : i \in 1..Len(s)}
    BY <1>1 DEF ToSet
  <1>3. s \in [1..Len(s) -> ToSet(s)]
    BY <1>1, <1>2
  <1>4. s \in Seq(ToSet(s))
    BY <1>1, <1>3, FunctionIsSeq
  <1>5. ToSet(s) \subseteq S
    BY <1>1, <1>2
  <1> QED BY <1>2, <1>4, <1>5

\* The place of i in a set of indices.
Rank(at, i) == Cardinality({j \in at : j <= i})

\* Ranks number a set of indices in its order.
LEMMA RankFacts ==
    ASSUME NEW n \in Nat, NEW at \in SUBSET (1..n)
    PROVE  /\ IsFiniteSet(at) /\ Cardinality(at) \in Nat
           /\ \A i \in at : Rank(at, i) \in 1..Cardinality(at)
           /\ \A i, j \in at : i < j => Rank(at, i) < Rank(at, j)
           /\ \A k \in 1..Cardinality(at) : \E i \in at : Rank(at, i) = k
  <1>1. at \subseteq Nat
    OBVIOUS
  <1>2. IsFiniteSet(at) /\ Cardinality(at) \in Nat
    <2>1. IsFiniteSet(1..n)
      BY FS_Interval
    <2> QED BY <2>1, FS_Subset, FS_CardinalityType
  <1>3. \A i \in at : IsFiniteSet({j \in at : j <= i})
    BY <1>2, FS_Subset
  <1>4. \A i \in at : Rank(at, i) \in Nat /\ Rank(at, i) \in 1..Cardinality(at)
    <2> TAKE i \in at
    <2>1. Rank(at, i) \in Nat /\ Rank(at, i) <= Cardinality(at)
      BY <1>2, <1>3, FS_Subset, FS_CardinalityType DEF Rank
    <2>2. i \in {j \in at : j <= i}
      BY <1>1
    <2>3. Rank(at, i) # 0
      BY <1>3, <2>2, FS_EmptySet DEF Rank
    <2> QED BY <1>2, <2>1, <2>3
  <1>5. \A i, k \in at : i < k => Rank(at, i) < Rank(at, k)
    <2> SUFFICES ASSUME NEW i \in at, NEW k \in at, i < k PROVE Rank(at, i) < Rank(at, k)
      OBVIOUS
    <2> DEFINE A == {j \in at : j <= i}
               B == {j \in at : j <= k}
    <2>1. i \in Nat /\ k \in Nat /\ k \in B /\ k \notin A
      BY <1>1
    <2>2. \A j \in A : j \in Nat /\ j \in B
      BY <1>1, <2>1
    <2>3. A \in SUBSET B
      BY <2>2
    <2>4. Cardinality(A) <= Cardinality(B) /\ Cardinality(A) # Cardinality(B)
      BY <2>1, <2>3, <1>3, FS_Subset
    <2>5. Rank(at, i) \in Nat /\ Rank(at, k) \in Nat
      BY <1>4
    <2> QED BY <2>4, <2>5 DEF Rank
  <1>6. \A k \in 1..Cardinality(at) : \E i \in at : Rank(at, i) = k
    <2> DEFINE f == [i \in at |-> Rank(at, i)]
    <2>1. f \in [at -> 1..Cardinality(at)]
      BY <1>4
    <2>2. \A i, j \in at : f[i] = f[j] => i = j
      <3> SUFFICES ASSUME NEW i \in at, NEW j \in at, i # j PROVE Rank(at, i) # Rank(at, j)
        OBVIOUS
      <3>1. i < j \/ j < i
        BY <1>1
      <3>2. Rank(at, i) \in Nat /\ Rank(at, j) \in Nat
        BY <1>4
      <3> QED BY <3>1, <3>2, <1>5
    <2>3. f \in Injection(at, 1..Cardinality(at))
      BY <2>1, <2>2 DEF Injection, IsInjective
    <2>4. IsFiniteSet(1..Cardinality(at)) /\ Cardinality(1..Cardinality(at)) = Cardinality(at)
      BY <1>2, FS_Interval
    <2>5. f \in Surjection(at, 1..Cardinality(at))
      BY <2>3, <2>4, FS_Injection
    <2> QED BY <2>5 DEF Surjection
  <1> QED BY <1>2, <1>4, <1>5, <1>6

\* b numbers a set of indices from 1 to m in its order.
Numbers(b, at, m) ==
    /\ b \in [at -> 1..m]
    /\ \A i, j \in at : i < j => b[i] < b[j]
    /\ \A k \in 1..m : \E i \in at : b[i] = k

\* There is one way to number a set of indices, its rank.
LEMMA IncreasingIsRank ==
    ASSUME NEW n \in Nat, NEW at \in SUBSET (1..n), NEW m \in Nat, NEW b, Numbers(b, at, m)
    PROVE  Cardinality(at) = m /\ \A i \in at : b[i] = Rank(at, i)
  <1>0. /\ b \in [at -> 1..m]
        /\ \A i, j \in at : i < j => b[i] < b[j]
        /\ \A k \in 1..m : \E i \in at : b[i] = k
    BY DEF Numbers
  <1>1. \A i, j \in at : (i <= j) <=> (b[i] <= b[j])
    <2> TAKE i, j \in at
    <2>1. i < j \/ i = j \/ j < i
      OBVIOUS
    <2> QED BY <2>1, <1>0
  <1>2. ASSUME NEW A \in SUBSET at, NEW l \in 0..m, \A i \in at : i \in A <=> b[i] <= l
        PROVE  Cardinality(A) = l
    <2> DEFINE f == [i \in A |-> b[i]]
    <2>1. f \in [A -> 1..l]
      BY <1>0, <1>2
    <2>2. \A i, j \in A : f[i] = f[j] => i = j
      BY <1>0, <1>1
    <2>3. \A k \in 1..l : \E i \in A : f[i] = k
      BY <1>0, <1>2
    <2>4. f \in Injection(A, 1..l) /\ f \in Surjection(A, 1..l)
      BY <2>1, <2>2, <2>3 DEF Injection, IsInjective, Surjection
    <2>5. IsFiniteSet(1..l) /\ Cardinality(1..l) = l
      BY FS_Interval
    <2> QED BY <2>4, <2>5, FS_Injection
  <1>3. Cardinality(at) = m
    BY <1>0, <1>2
  <1>4. ASSUME NEW i \in at PROVE b[i] = Rank(at, i)
    BY <1>0, <1>1, <1>2 DEF Rank
  <1> QED BY <1>3, <1>4

\* A selection has the chosen elements in their order.
LEMMA SelectedFacts ==
    ASSUME NEW S, NEW s \in Seq(S), NEW at \in SUBSET (1..Len(s))
    PROVE  /\ Cardinality(at) \in Nat
           /\ Selected(s, at) \in Seq(S) /\ Len(Selected(s, at)) = Cardinality(at)
           /\ \A i \in at : /\ Rank(at, i) \in 1..Cardinality(at)
                            /\ Selected(s, at)[Rank(at, i)] = s[i]
           /\ \A k \in 1..Cardinality(at) : \E i \in at : Rank(at, i) = k /\ Selected(s, at)[k] = s[i]
           /\ ToSet(Selected(s, at)) = {s[i] : i \in at}
  <1> DEFINE pick(k) == CHOOSE i \in at : Rank(at, i) = k
             t == Selected(s, at)
  <1>1. Len(s) \in Nat /\ \A i \in at : s[i] \in S
    BY LenProperties, ElementOfSeq
  <1>2. /\ Cardinality(at) \in Nat
        /\ \A i \in at : Rank(at, i) \in 1..Cardinality(at)
        /\ \A i, j \in at : i < j => Rank(at, i) < Rank(at, j)
        /\ \A k \in 1..Cardinality(at) : \E i \in at : Rank(at, i) = k
    BY <1>1, RankFacts
  <1>3. t = [k \in 1..Cardinality(at) |-> s[pick(k)]]
    BY DEF Selected, Rank
  <1> HIDE DEF t
  <1>4. \A k \in 1..Cardinality(at) : pick(k) \in at /\ Rank(at, pick(k)) = k
    BY <1>2
  <1>5. \A i \in at : pick(Rank(at, i)) = i
    <2> TAKE i \in at
    <2> DEFINE p == pick(Rank(at, i))
    <2>1. p \in at /\ Rank(at, p) = Rank(at, i)
      BY <1>2, <1>4
    <2> HIDE DEF p
    <2>2. ~(p < i) /\ ~(i < p) /\ p \in Nat /\ i \in Nat
      BY <2>1, <1>1, <1>2
    <2>3. p = i
      BY <2>2
    <2> QED BY <2>3 DEF p
  <1> HIDE DEF pick
  <1>6. t \in [1..Cardinality(at) -> S]
    BY <1>1, <1>3, <1>4
  <1>7. t \in Seq(S) /\ Len(t) = Cardinality(at)
    BY <1>2, <1>6, FunctionIsSeq
  <1>8. \A i \in at : t[Rank(at, i)] = s[i]
    BY <1>2, <1>3, <1>5
  <1>9. \A k \in 1..Cardinality(at) : \E i \in at : Rank(at, i) = k /\ t[k] = s[i]
    BY <1>3, <1>4
  <1>10. ToSet(t) = {s[i] : i \in at}
    <2>1. ToSet(t) = {t[k] : k \in 1..Cardinality(at)}
      BY <1>7, SeqOverItself
    <2>2. ASSUME NEW k \in 1..Cardinality(at) PROVE t[k] \in {s[i] : i \in at}
      BY <1>9
    <2>3. ASSUME NEW i \in at PROVE s[i] \in {t[k] : k \in 1..Cardinality(at)}
      BY <1>2, <1>8
    <2> HIDE DEF t
    <2> QED BY <2>1, <2>2, <2>3
  <1> QED BY <1>2, <1>7, <1>8, <1>9, <1>10 DEF t

-----------------------------------------------------------------------------
(* Rows of the batch.                                                      *)

\* The requests of _running in a set are a sequence of them.
LEMMA RunningInFacts ==
    ASSUME running \in Seq(Request), NEW R
    PROVE  /\ RunningIn(R) \in Seq(Request) /\ Len(RunningIn(R)) \in Nat
           /\ ToSet(RunningIn(R)) = ToSet(running) \cap R
  <1> DEFINE at == {i \in 1..Len(running) : running[i] \in R}
  <1>1. RunningIn(R) = Selected(running, at)
    BY DEF RunningIn
  <1>2. at \in SUBSET (1..Len(running))
    OBVIOUS
  <1>3. /\ Selected(running, at) \in Seq(Request)
        /\ Len(Selected(running, at)) \in Nat
        /\ ToSet(Selected(running, at)) = {running[i] : i \in at}
    <2> HIDE DEF at
    <2>1. Len(Selected(running, at)) = Cardinality(at) /\ Cardinality(at) \in Nat
      BY <1>2, SelectedFacts
    <2>2. Selected(running, at) \in Seq(Request)
      BY <1>2, SelectedFacts
    <2>3. ToSet(Selected(running, at)) = {running[i] : i \in at}
      BY <1>2, SelectedFacts
    <2> QED BY <2>1, <2>2, <2>3
  <1>4. {running[i] : i \in at} = ToSet(running) \cap R
    <2>1. ToSet(running) = {running[i] : i \in 1..Len(running)}
      BY SeqOverItself
    <2> QED BY <2>1
  <1> QED BY <1>1, <1>3, <1>4

\* The rows of _running in order are 1, 2, ..., one for each slot.
LEMMA RowsAreRanks ==
    ASSUME running \in Seq(Request), slots \in Seq(ToSet(slots)), RowsInv,
           NEW at, at = {i \in 1..Len(running) : batch_idx[running[i]] # None}
    PROVE  /\ Cardinality(at) = Len(slots) /\ Len(slots) \in Nat
           /\ \A i \in at : batch_idx[running[i]] = Rank(at, i)
  <1> DEFINE b == [i \in at |-> batch_idx[running[i]]]
  <1>1. Len(running) \in Nat /\ Len(slots) \in Nat
    BY LenProperties
  <1>2. at \in SUBSET (1..Len(running))
    OBVIOUS
  <1>3. b \in [at -> 1..Len(slots)]
    BY DEF RowsInv
  <1>4. \A i, j \in at : i < j => b[i] < b[j]
    BY DEF RowsInv
  <1>5. \A k \in 1..Len(slots) : \E i \in at : b[i] = k
    <2> TAKE k \in 1..Len(slots)
    <2>1. PICK i \in 1..Len(running) : batch_idx[running[i]] = k
      BY DEF RowsInv
    <2>2. k # None
      BY <1>1, SchedulerAssumption
    <2> QED BY <2>1, <2>2
  <1> HIDE DEF b
  <1>6. Cardinality(at) = Len(slots) /\ \A i \in at : b[i] = Rank(at, i)
    <2>1. Numbers(b, at, Len(slots))
      BY <1>3, <1>4, <1>5 DEF Numbers
    <2> QED BY <1>1, <1>2, <2>1, IncreasingIsRank
  <1> QED BY <1>1, <1>6 DEF b

\* Two requests of _running have the same row only if they are the same.
LEMMA RowsDiffer ==
    ASSUME running \in Seq(Request), slots \in Seq(ToSet(slots)), RowsInv,
           NEW r \in ToSet(running), NEW s \in ToSet(running),
           batch_idx[r] # None, batch_idx[r] = batch_idx[s]
    PROVE  r = s
  <1>1. Len(running) \in Nat /\ Len(slots) \in Nat
    BY LenProperties
  <1>2. PICK i \in 1..Len(running), j \in 1..Len(running) : r = running[i] /\ s = running[j]
    BY SeqOverItself
  <1>3. batch_idx[r] \in Nat /\ batch_idx[s] \in Nat
    BY <1>1, <1>2 DEF RowsInv
  <1>4. ~(i < j) /\ ~(j < i)
    BY <1>2, <1>3 DEF RowsInv
  <1> QED BY <1>2, <1>4

\* With no finished request in _running, row k of the forward is the request
\* whose slot is k.
LEMMA AliveRows ==
    ASSUME TypeOK, QueueInv, RowsInv, Finished = {}
    PROVE  /\ Len(Alive) = Len(slots) /\ Len(slots) \in Nat
           /\ ToSet(Alive) = ToSet(running)
           /\ \A r \in ToSet(running) : /\ batch_idx[r] \in 1..Len(slots)
                                        /\ Alive[batch_idx[r]] = r
           /\ \A k \in 1..Len(slots) : Alive[k] \in ToSet(running) /\ batch_idx[Alive[k]] = k
  <1> DEFINE at == {i \in 1..Len(running) : batch_idx[running[i]] # None}
             al == {i \in 1..Len(running) : running[i] \in {r \in Request : state[r] # "done"}}
  <1>1. running \in Seq(Request) /\ slots \in Seq(ToSet(slots)) /\ Len(running) \in Nat
    BY LenProperties DEF TypeOK
  <1>2. ToSet(running) = {running[i] : i \in 1..Len(running)} /\ ToSet(running) \subseteq Request
    BY <1>1, SeqOverItself
  <1>3. \A r \in ToSet(running) : state[r] # "done" /\ InFlight(r) /\ batch_idx[r] # None
    BY <1>2 DEF Finished, QueueInv, TypeOK, InFlight
  <1>4. al = 1..Len(running) /\ at = 1..Len(running)
    BY <1>2, <1>3
  <1>5. Alive = Selected(running, at)
    BY <1>4 DEF Alive, RunningIn
  <1>6. /\ Cardinality(at) = Len(slots) /\ Len(slots) \in Nat
        /\ \A i \in at : batch_idx[running[i]] = Rank(at, i)
    BY <1>1, RowsAreRanks
  <1>7. /\ Len(Alive) = Cardinality(at)
        /\ \A i \in at : Rank(at, i) \in 1..Cardinality(at) /\ Alive[Rank(at, i)] = running[i]
        /\ \A k \in 1..Cardinality(at) : \E i \in at : Rank(at, i) = k /\ Alive[k] = running[i]
        /\ ToSet(Alive) = {running[i] : i \in at}
    <2>1. at \in SUBSET (1..Len(running))
      OBVIOUS
    <2> HIDE DEF at
    <2> QED BY <1>1, <1>5, <2>1, SelectedFacts
  <1>8. ToSet(Alive) = ToSet(running)
    BY <1>2, <1>4, <1>7
  <1> HIDE DEF at
  <1>9. \A r \in ToSet(running) : batch_idx[r] \in 1..Len(slots) /\ Alive[batch_idx[r]] = r
    BY <1>2, <1>4, <1>6, <1>7
  <1>10. \A k \in 1..Len(slots) : Alive[k] \in ToSet(running) /\ batch_idx[Alive[k]] = k
    <2> TAKE k \in 1..Len(slots)
    <2>1. PICK i \in at : Rank(at, i) = k /\ Alive[k] = running[i]
      BY <1>6, <1>7
    <2> QED BY <2>1, <1>2, <1>4, <1>6
  <1> QED BY <1>6, <1>7, <1>8, <1>9, <1>10

\* What _reap_done leaves when it removes D, with every finished request in it:
\* the other requests in their order, each with its own slot.
LEMMA ReapFacts ==
    ASSUME TypeOK, QueueInv, RowsInv,
           NEW D \in SUBSET ToSet(running), Finished \subseteq D,
           NEW S, NEW held \in Seq(S), Len(held) = Len(slots), Reap(D, held)
    PROVE  /\ running' \in Seq(Request) /\ ToSet(running') = ToSet(running) \ D
           /\ \A i, j \in 1..Len(running') : running'[i] = running'[j] => i = j
           /\ slots' \in Seq(S) /\ batch_idx' \in [Request -> Nat \cup {None}]
           /\ \A r \in ToSet(running) \ D : /\ batch_idx[r] \in 1..Len(slots)
                                            /\ batch_idx'[r] \in 1..Len(slots')
                                            /\ slots'[batch_idx'[r]] = held[batch_idx[r]]
           /\ \A r \in Request \ (ToSet(running) \ D) : batch_idx'[r] = batch_idx[r]
           /\ RowsInv'
           /\ deferred' = None \/ deferred' = deferred
           /\ ToSet(running) \ D # {} => deferred' = deferred
  <1> DEFINE n == Len(slots)
             rows == {batch_idx[r] : r \in {x \in D : batch_idx[x] # None}}
             K == (1..n) \ rows
             left == RunningIn(Request \ D)
             at == {i \in 1..Len(running) : running[i] \in Request \ D}
             below(k) == {i \in rows : i < k}
  <1>1. /\ running \in Seq(Request) /\ slots \in Seq(ToSet(slots))
        /\ Len(running) \in Nat /\ n \in Nat
        /\ ToSet(running) = {running[i] : i \in 1..Len(running)} /\ ToSet(running) \subseteq Request
        /\ batch_idx \in [Request -> Nat \cup {None}]
    BY LenProperties, SeqOverItself DEF TypeOK
  <1>2. \A r \in ToSet(running) : batch_idx[r] # None => batch_idx[r] \in 1..n
    BY <1>1 DEF RowsInv
  <1>3. rows \in SUBSET (1..n) /\ K \in SUBSET (1..n)
    BY <1>2
  <1>4. \A r \in ToSet(running) \ D : batch_idx[r] # None /\ batch_idx[r] \in K
    <2> TAKE r \in ToSet(running) \ D
    <2>1. r \in Request /\ state[r] # "done" /\ state[r] \notin {"new", "waiting"}
      BY <1>1 DEF Finished, QueueInv
    <2>2. batch_idx[r] # None
      BY <2>1 DEF QueueInv, InFlight, TypeOK
    <2>3. batch_idx[r] \notin rows
      <3> SUFFICES ASSUME NEW d \in D, batch_idx[d] = batch_idx[r] PROVE FALSE
        OBVIOUS
      <3>1. r = d
        BY <1>1, <2>2, RowsDiffer
      <3> QED BY <3>1
    <2> QED BY <1>2, <2>2, <2>3
  <1>5. \A k \in K : \E i \in at : batch_idx[running[i]] = k
    <2> TAKE k \in K
    <2>1. PICK i \in 1..Len(running) : batch_idx[running[i]] = k
      BY DEF RowsInv
    <2>2. k # None
      BY <1>1, SchedulerAssumption
    <2>3. running[i] \notin D
      BY <2>1, <2>2
    <2> QED BY <1>1, <2>1, <2>3
  <1>6. \A k \in K : k - Cardinality(below(k)) = Rank(K, k)
    <2> TAKE k \in K
    <2> DEFINE A == {j \in K : j <= k}
    <2>1. k \in Nat /\ k >= 1 /\ k \notin rows
      BY <1>3
    <2>2. A \cup below(k) = 1..k /\ A \cap below(k) = {}
      BY <1>1, <1>3, <2>1
    <2>3. IsFiniteSet(1..k) /\ Cardinality(1..k) = k
      BY <2>1, FS_Interval
    <2>4. /\ IsFiniteSet(A) /\ IsFiniteSet(below(k))
          /\ Cardinality(A) \in Nat /\ Cardinality(below(k)) \in Nat
      BY <2>2, <2>3, FS_Subset, FS_CardinalityType
    <2>5. Cardinality(A \cup below(k)) = Cardinality(A) + Cardinality(below(k)) - Cardinality(A \cap below(k))
      BY <2>4, FS_Union
    <2>6. k = Cardinality(A) + Cardinality(below(k)) - 0
      BY <2>2, <2>3, <2>5, FS_EmptySet
    <2>7. Rank(K, k) = Cardinality(A)
      BY DEF Rank
    <2> HIDE DEF A, below
    <2> QED BY <2>1, <2>4, <2>6, <2>7
  <1>7. at \in SUBSET (1..Len(running))
    OBVIOUS
  <1>8. left = Selected(running, at)
    BY DEF RunningIn
  <1>9. /\ running' = left /\ slots' = Selected(held, K)
        /\ batch_idx' = [r \in Request |-> IF r \in ToSet(left)
                            THEN batch_idx[r] - Cardinality(below(batch_idx[r])) ELSE batch_idx[r]]
        /\ deferred' = IF left = <<>> THEN None ELSE deferred
    BY DEF Reap
  <1>10. ToSet(left) = ToSet(running) \ D /\ {running[i] : i \in at} = ToSet(running) \ D
    BY <1>1, RunningInFacts
  <1> HIDE DEF rows, K, left, at, below
  <1>11. /\ Cardinality(at) \in Nat /\ left \in Seq(Request) /\ Len(left) = Cardinality(at)
         /\ \A i \in at : Rank(at, i) \in 1..Cardinality(at) /\ left[Rank(at, i)] = running[i]
         /\ \A k \in 1..Cardinality(at) : \E i \in at : Rank(at, i) = k /\ left[k] = running[i]
    BY <1>1, <1>7, <1>8, SelectedFacts
  <1>12. \A i, j \in at : i < j => Rank(at, i) < Rank(at, j)
    BY <1>1, <1>7, RankFacts
  <1>13. K \in SUBSET (1..Len(held))
    BY <1>3
  <1>14. /\ Cardinality(K) \in Nat /\ slots' \in Seq(S) /\ Len(slots') = Cardinality(K)
         /\ \A k \in K : Rank(K, k) \in 1..Cardinality(K) /\ slots'[Rank(K, k)] = held[k]
    BY <1>9, <1>13, SelectedFacts
  <1>15. /\ \A i, j \in K : i < j => Rank(K, i) < Rank(K, j)
         /\ \A k \in 1..Cardinality(K) : \E c \in K : Rank(K, c) = k
    BY <1>1, <1>3, RankFacts
  <1>16. \A r \in ToSet(running) \ D : batch_idx'[r] = Rank(K, batch_idx[r])
    BY <1>1, <1>4, <1>6, <1>9, <1>10
  <1>17. \A i, j \in 1..Len(left) : left[i] = left[j] => i = j
    <2> SUFFICES ASSUME NEW i \in 1..Len(left), NEW j \in 1..Len(left), left[i] = left[j] PROVE i = j
      OBVIOUS
    <2>1. PICK p \in at : Rank(at, p) = i /\ left[i] = running[p]
      BY <1>11
    <2>2. PICK q \in at : Rank(at, q) = j /\ left[j] = running[q]
      BY <1>11
    <2>3. p = q
      BY <1>7, <2>1, <2>2 DEF QueueInv
    <2> QED BY <2>1, <2>2, <2>3
  <1>18. \A i \in 1..Len(left) : left[i] \in ToSet(running) \ D
    BY <1>10, <1>11
  <1>19. \A r \in ToSet(running) \ D : /\ batch_idx[r] \in 1..n
                                       /\ batch_idx'[r] \in 1..Len(slots')
                                       /\ slots'[batch_idx'[r]] = held[batch_idx[r]]
    BY <1>3, <1>4, <1>14, <1>16
  <1>20. RowsInv'
    <2>1. \A i \in 1..Len(left) : batch_idx'[left[i]] \in 1..Len(slots')
      BY <1>18, <1>19
    <2>2. ASSUME NEW i \in 1..Len(left), NEW j \in 1..Len(left), i < j
          PROVE  batch_idx'[left[i]] < batch_idx'[left[j]]
      <3>1. PICK p \in at : Rank(at, p) = i /\ left[i] = running[p]
        BY <1>11
      <3>2. PICK q \in at : Rank(at, q) = j /\ left[j] = running[q]
        BY <1>11
      <3>3. p \in 1..Len(running) /\ q \in 1..Len(running)
        BY <1>7
      <3>4. ~(q < p) /\ p # q
        BY <2>2, <3>1, <3>2, <1>11, <1>12
      <3>5. p < q
        BY <1>1, <3>3, <3>4
      <3>6. batch_idx[left[i]] < batch_idx[left[j]]
        BY <1>4, <1>18, <3>1, <3>2, <3>3, <3>5 DEF RowsInv
      <3> QED BY <1>4, <1>15, <1>16, <1>18, <3>6
    <2>3. \A k \in 1..Len(slots') : \E i \in 1..Len(left) : batch_idx'[left[i]] = k
      <3> TAKE k \in 1..Len(slots')
      <3>1. PICK c \in K : Rank(K, c) = k
        BY <1>14, <1>15
      <3>2. PICK i \in at : batch_idx[running[i]] = c
        BY <1>5 DEF at, K
      <3>3. Rank(at, i) \in 1..Len(left) /\ left[Rank(at, i)] = running[i]
        BY <1>11
      <3> QED BY <1>16, <1>18, <3>1, <3>2, <3>3
    <2> QED BY <2>1, <2>2, <2>3, <1>9 DEF RowsInv
  <1>21. batch_idx' \in [Request -> Nat \cup {None}]
    <2>1. \A r \in Request : batch_idx'[r] \in Nat \cup {None}
      <3> TAKE r \in Request
      <3>1. CASE r \in ToSet(running) \ D
        BY <3>1, <1>14, <1>19
      <3>2. CASE r \notin ToSet(running) \ D
        BY <3>2, <1>1, <1>9, <1>10
      <3> QED BY <3>1, <3>2
    <2> QED BY <2>1, <1>9
  <1>22. \A r \in Request \ (ToSet(running) \ D) : batch_idx'[r] = batch_idx[r]
    BY <1>9, <1>10
  <1>23. ToSet(running) \ D # {} => deferred' = deferred
    <2>1. left = <<>> => Len(left) = 0
      OBVIOUS
    <2>2. ToSet(left) = {left[i] : i \in 1..Len(left)}
      BY <1>11, SeqOverItself
    <2> QED BY <1>9, <1>10, <2>1, <2>2
  <1> QED BY <1>9, <1>10, <1>11, <1>14, <1>17, <1>19, <1>20, <1>21, <1>22, <1>23

-----------------------------------------------------------------------------
(* The steps of API threads.                                               *)

\* The invariant holds before the first step.
LEMMA InitiallyInv == Init => IInv
  <1> SUFFICES ASSUME Init PROVE IInv
    OBVIOUS
  <1>1. \A S : <<>> \in Seq(S) /\ Len(<<>>) = 0
    BY EmptySeq
  <1>2. ToSet(running) = {}
    BY <1>1 DEF Init, ToSet
  <1>3. TypeOK
    BY <1>1 DEF Init, TypeOK
  <1>4. QueueInv /\ RowsInv
    BY <1>1 DEF Init, QueueInv, RowsInv, InFlight
  <1>5. RequestInv /\ TokenInv
    BY <1>1, SchedulerAssumption DEF Init, RequestInv, TokenInv, InFlight, Prefilling, Decoding
  <1>6. PhaseInv
    BY DEF Init, PhaseInv
  <1>7. EveryTokenOnce /\ SlotHoldsItsRequest
    BY <1>1, SchedulerAssumption DEF Init, EveryTokenOnce, SlotHoldsItsRequest, InFlight
  <1> QED BY <1>3, <1>4, <1>5, <1>6, <1>7 DEF IInv

\* What most steps need to know of the queues.
LEMMA Queues ==
    ASSUME IInv
    PROVE  /\ waiting \in Seq(Request) /\ Len(waiting) \in Nat
           /\ running \in Seq(Request) /\ Len(running) \in Nat
           /\ slots \in Seq(ToSet(slots)) /\ Len(slots) \in Nat
           /\ ToSet(running) = {running[i] : i \in 1..Len(running)} /\ ToSet(running) \subseteq Request
           /\ \A i \in 1..Len(running) : running[i] \in Request
           /\ \A i \in 1..Len(waiting) : waiting[i] \in Request
           /\ \A r \in ToSet(running) : state[r] \notin {"new", "waiting"}
           /\ \A r \in Request : InFlight(r) => r \in ToSet(running) /\ batch_idx[r] \in 1..Len(slots)
  <1>1. /\ waiting \in Seq(Request) /\ Len(waiting) \in Nat
        /\ running \in Seq(Request) /\ Len(running) \in Nat
        /\ slots \in Seq(ToSet(slots)) /\ Len(slots) \in Nat
    BY LenProperties DEF IInv, TypeOK
  <1>2. /\ ToSet(running) = {running[i] : i \in 1..Len(running)} /\ ToSet(running) \subseteq Request
        /\ \A i \in 1..Len(running) : running[i] \in Request
        /\ \A i \in 1..Len(waiting) : waiting[i] \in Request
    BY <1>1, SeqOverItself, ElementOfSeq
  <1>3. \A r \in ToSet(running) : state[r] \notin {"new", "waiting"}
    BY <1>2 DEF IInv, QueueInv
  <1>4. \A r \in Request : InFlight(r) => r \in ToSet(running) /\ batch_idx[r] \in 1..Len(slots)
    BY <1>2 DEF IInv, QueueInv, RowsInv
  <1> QED BY <1>1, <1>2, <1>3, <1>4

\* A submitted request joins the back of the queue.
LEMMA SubmitKeeps ==
    ASSUME IInv, NEW r \in Request, Submit(r)
    PROVE  IInv'
  <1>1. /\ state[r] = "new" /\ state' = [state EXCEPT ![r] = "waiting"]
        /\ waiting' = Append(waiting, r)
        /\ UNCHANGED <<running, progress, finish_reason, terminals, cache, cancel_event, deferred, pc>>
    BY DEF Submit
  <1>2. /\ waiting \in Seq(Request) /\ running \in Seq(Request)
        /\ ToSet(running) = {running[i] : i \in 1..Len(running)} /\ ToSet(running) \subseteq Request
        /\ \A i \in 1..Len(running) : running[i] \in Request /\ running[i] # r
        /\ \A i \in 1..Len(waiting) : waiting[i] \in Request /\ waiting[i] # r
        /\ Len(waiting) \in Nat
    BY <1>1, Queues DEF IInv, QueueInv
  <1>3. /\ waiting' \in Seq(Request) /\ Len(waiting') = Len(waiting) + 1
        /\ \A i \in 1..Len(waiting) : waiting'[i] = waiting[i]
        /\ waiting'[Len(waiting) + 1] = r
    BY <1>1, <1>2, AppendProperties
  <1>4. /\ state' \in [Request -> {"new", "waiting", "prefilling", "chunked_prefilling",
                              "decoding", "done"}]
        /\ \A q \in Request : q # r => state'[q] = state[q]
        /\ state'[r] = "waiting" /\ r \notin ToSet(running)
    BY <1>1, <1>2 DEF IInv, TypeOK
  <1>5. TypeOK'
    BY <1>1, <1>3, <1>4 DEF IInv, TypeOK, progress, cache
  <1>6. QueueInv'
    BY <1>1, <1>2, <1>3, <1>4 DEF IInv, QueueInv, InFlight, cache
  <1>7. RowsInv'
    BY <1>1 DEF IInv, RowsInv, cache
  <1>8. RequestInv'
    BY <1>1, <1>4 DEF IInv, RequestInv, InFlight, Prefilling, Decoding, progress, cache
  <1>9. TokenInv'
    BY <1>1, <1>4 DEF IInv, TokenInv, Decoding, progress
  <1>10. PhaseInv'
    BY <1>1, <1>2, <1>4 DEF IInv, PhaseInv, Finished, Decoding, progress, cache
  <1>11. EveryTokenOnce' /\ SlotHoldsItsRequest'
    BY <1>1, <1>4 DEF IInv, EveryTokenOnce, SlotHoldsItsRequest, InFlight, Prefilling, progress, cache
  <1> QED BY <1>5, <1>6, <1>7, <1>8, <1>9, <1>10, <1>11 DEF IInv

\* A cancel sets an event that the engine reads later.
LEMMA CancelKeeps ==
    ASSUME IInv, NEW r \in Request, Cancel(r)
    PROVE  IInv'
  <1>1. /\ cancel_event' = [cancel_event EXCEPT ![r] = TRUE]
        /\ UNCHANGED <<queues, progress, ending, cache, deferred, pc>>
    BY DEF Cancel
  <1>2. TypeOK'
    BY <1>1 DEF IInv, TypeOK, queues, progress, ending, cache
  <1>3. QueueInv' /\ RowsInv'
    BY <1>1 DEF IInv, QueueInv, RowsInv, InFlight, queues, ending, cache
  <1>4. RequestInv' /\ TokenInv'
    BY <1>1 DEF IInv, RequestInv, TokenInv, InFlight, Prefilling, Decoding, progress, ending, cache
  <1>5. PhaseInv'
    BY <1>1 DEF IInv, PhaseInv, Finished, Decoding, queues, progress, ending, cache
  <1>6. EveryTokenOnce' /\ SlotHoldsItsRequest'
    BY <1>1 DEF IInv, EveryTokenOnce, SlotHoldsItsRequest, InFlight, Prefilling, progress, ending, cache
  <1> QED BY <1>2, <1>3, <1>4, <1>5, <1>6 DEF IInv

-----------------------------------------------------------------------------
(* The steps of the engine, up to the forward.                             *)

\* Ending requests leaves their tokens and rows alone.
LEMMA CancelPendingKeeps ==
    ASSUME IInv, CancelPending
    PROVE  IInv'
  <1> DEFINE D == CancelledNow
  <1>1. /\ pc = "idle" /\ pc' = IF deferred # None THEN "choose" ELSE "sample"
        /\ Finish([r \in D |-> "cancelled"])
        /\ UNCHANGED <<queues, progress, cache, cancel_event, deferred>>
    BY DEF CancelPending
  <1>2. /\ state' = [r \in Request |-> IF r \in D THEN "done" ELSE state[r]]
        /\ finish_reason' = [r \in Request |-> IF r \in D THEN "cancelled" ELSE finish_reason[r]]
        /\ terminals' = [r \in Request |-> terminals[r] + IF r \in D THEN 1 ELSE 0]
    BY <1>1 DEF Finish
  <1>3. \A r \in D : state[r] # "done" /\ r \in ToSet(running)
    BY DEF CancelledNow
  <1>4. /\ \A i \in 1..Len(running) : running[i] \in Request
        /\ \A i \in 1..Len(waiting) : waiting[i] \in Request
        /\ \A r \in ToSet(running) : state[r] \notin {"new", "waiting"}
    BY Queues
  <1> HIDE DEF D
  <1>5. TypeOK'
    BY <1>1, <1>2 DEF IInv, TypeOK, queues, progress, cache
  <1>6. QueueInv' /\ RowsInv'
    BY <1>1, <1>2, <1>3, <1>4 DEF IInv, QueueInv, RowsInv, InFlight, queues, cache
  <1>7. RequestInv'
    <2> SUFFICES ASSUME NEW r \in Request
                 PROVE  /\ ~Decoding(r)' /\ state'[r] # "done" =>
                               tokens_generated'[r] = <<>> /\ pending'[r] = None
                        /\ state'[r] \in {"new", "waiting"} => tokens_prefilled'[r] = 0 /\ batch_idx'[r] = None
                        /\ Prefilling(r)' => tokens_prefilled'[r] < PromptLen[r]
                        /\ InFlight(r)' => Len(tokens_generated'[r]) < MaxTokens[r]
                        /\ terminals'[r] = IF state'[r] = "done" THEN 1 ELSE 0
      BY DEF RequestInv
    <2>1. terminals'[r] = IF state'[r] = "done" THEN 1 ELSE 0
      BY <1>2, <1>3 DEF IInv, RequestInv
    <2> QED BY <2>1, <1>1, <1>2 DEF IInv, RequestInv, InFlight, Prefilling, Decoding, progress, cache
  <1>8. TokenInv'
    BY <1>1, <1>2 DEF IInv, TokenInv, Decoding, progress
  <1>9. PhaseInv'
    BY <1>1 DEF PhaseInv
  <1>10. EveryTokenOnce' /\ SlotHoldsItsRequest'
    BY <1>1, <1>2 DEF IInv, EveryTokenOnce, SlotHoldsItsRequest, InFlight, Prefilling, progress, cache
  <1> QED BY <1>5, <1>6, <1>7, <1>8, <1>9, <1>10 DEF IInv

\* Admission ends without a change of the batch.
LEMMA AdmitDoneKeeps ==
    ASSUME IInv, AdmitDone
    PROVE  IInv'
  <1>1. /\ pc = "admit" /\ pc' = "reap_rejected"
        /\ UNCHANGED <<queues, progress, ending, cache, cancel_event, deferred>>
    BY DEF AdmitDone
  <1>2. TypeOK'
    BY <1>1 DEF IInv, TypeOK, queues, progress, ending, cache
  <1>3. QueueInv' /\ RowsInv'
    BY <1>1 DEF IInv, QueueInv, RowsInv, InFlight, queues, ending, cache
  <1>4. RequestInv' /\ TokenInv'
    BY <1>1 DEF IInv, RequestInv, TokenInv, InFlight, Prefilling, Decoding, progress, ending, cache
  <1>5. PhaseInv'
    BY <1>1 DEF IInv, PhaseInv, Decoding, progress, ending
  <1>6. EveryTokenOnce' /\ SlotHoldsItsRequest'
    BY <1>1 DEF IInv, EveryTokenOnce, SlotHoldsItsRequest, InFlight, Prefilling, progress, ending, cache
  <1> QED BY <1>2, <1>3, <1>4, <1>5, <1>6 DEF IInv

\* An empty batch has no forward.
LEMMA NothingToForwardKeeps ==
    ASSUME IInv, NothingToForward
    PROVE  IInv'
  <1>1. /\ pc = "forward" /\ pc' = "idle"
        /\ UNCHANGED <<queues, progress, ending, cache, cancel_event, deferred>>
    BY DEF NothingToForward
  <1>2. TypeOK'
    BY <1>1 DEF IInv, TypeOK, queues, progress, ending, cache
  <1>3. QueueInv' /\ RowsInv'
    BY <1>1 DEF IInv, QueueInv, RowsInv, InFlight, queues, ending, cache
  <1>4. RequestInv' /\ TokenInv'
    BY <1>1 DEF IInv, RequestInv, TokenInv, InFlight, Prefilling, Decoding, progress, ending, cache
  <1>5. PhaseInv'
    BY <1>1 DEF PhaseInv
  <1>6. EveryTokenOnce' /\ SlotHoldsItsRequest'
    BY <1>1 DEF IInv, EveryTokenOnce, SlotHoldsItsRequest, InFlight, Prefilling, progress, ending, cache
  <1> QED BY <1>2, <1>3, <1>4, <1>5, <1>6 DEF IInv

\* A reap of the finished requests, between two phases.
LEMMA ReapKeeps ==
    ASSUME IInv, Reap(Finished, slots), pc # "oom", pc' # "oom",
           UNCHANGED <<waiting, progress, ending, cancel_event, snapshot>>
    PROVE  /\ QueueInv' /\ RowsInv' /\ RequestInv' /\ TokenInv'
           /\ EveryTokenOnce' /\ SlotHoldsItsRequest'
           /\ pc' \in {"idle", "choose", "sample", "reap", "admit", "reap_rejected", "forward",
                       "async", "oom"} => TypeOK'
           /\ Finished' = {}
           /\ ToSet(running') = ToSet(running) \ Finished
           /\ deferred' = None \/ deferred' = deferred
           /\ ToSet(running) \ Finished # {} => deferred' = deferred
  <1>1. /\ waiting \in Seq(Request) /\ slots \in Seq(ToSet(slots))
        /\ ToSet(running) \subseteq Request
        /\ \A r \in ToSet(running) : state[r] \notin {"new", "waiting"}
        /\ \A r \in Request : InFlight(r) => r \in ToSet(running) /\ batch_idx[r] \in 1..Len(slots)
    BY Queues
  <1>2. /\ TypeOK /\ QueueInv /\ RowsInv
        /\ Finished \in SUBSET ToSet(running)
    BY DEF IInv, Finished
  <1>3. /\ running' \in Seq(Request) /\ ToSet(running') = ToSet(running) \ Finished
        /\ \A i, j \in 1..Len(running') : running'[i] = running'[j] => i = j
        /\ slots' \in Seq(ToSet(slots)) /\ batch_idx' \in [Request -> Nat \cup {None}]
        /\ \A r \in ToSet(running) \ Finished : /\ batch_idx[r] \in 1..Len(slots)
                                                /\ batch_idx'[r] \in 1..Len(slots')
                                                /\ slots'[batch_idx'[r]] = slots[batch_idx[r]]
        /\ \A r \in Request \ (ToSet(running) \ Finished) : batch_idx'[r] = batch_idx[r]
        /\ RowsInv'
        /\ deferred' = None \/ deferred' = deferred
        /\ ToSet(running) \ Finished # {} => deferred' = deferred
    BY <1>1, <1>2, ReapFacts
  <1>4. /\ Len(running') \in Nat /\ ToSet(running') = {running'[i] : i \in 1..Len(running')}
        /\ Len(slots') \in Nat /\ slots' \in Seq(ToSet(slots'))
        /\ \A i \in 1..Len(slots') : slots'[i] \in ToSet(slots)
        /\ ToSet(slots) = {slots[i] : i \in 1..Len(slots)}
    BY <1>1, <1>3, SeqOverItself, LenProperties, ElementOfSeq
  <1>5. \A r \in Request : InFlight(r) => r \in ToSet(running) \ Finished
    BY <1>1 DEF InFlight, Finished
  <1>6. TypeOK' \/ pc' \notin {"idle", "choose", "sample", "reap", "admit", "reap_rejected",
                               "forward", "async", "oom"}
    <2>1. \A i \in 1..Len(slots') : /\ slots'[i] = [kv |-> slots'[i].kv, blocks |-> slots'[i].blocks]
                                     /\ slots'[i].kv \in Seq(Tokens)
      <3> TAKE i \in 1..Len(slots')
      <3>1. PICK j \in 1..Len(slots) : slots'[i] = slots[j]
        BY <1>4
      <3> QED BY <1>2, <3>1 DEF TypeOK
    <2>2. deferred' # None =>
             DOMAIN deferred' \subseteq Request /\ deferred' \in [DOMAIN deferred' -> Tokens]
      BY <1>2, <1>3 DEF TypeOK
    <2> QED BY <1>2, <1>3, <1>4, <2>1, <2>2 DEF TypeOK, progress, ending
  <1>7. QueueInv'
    <2>1. \A i \in 1..Len(waiting') : state'[waiting'[i]] = "waiting"
      BY <1>2 DEF QueueInv, ending
    <2>2. \A i, j \in 1..Len(waiting') : waiting'[i] = waiting'[j] => i = j
      BY <1>2 DEF QueueInv
    <2>3. \A i \in 1..Len(running') : state'[running'[i]] \notin {"new", "waiting"}
      BY <1>1, <1>3, <1>4 DEF ending
    <2>4. \A r \in Request : InFlight(r)' => r \in ToSet(running') /\ batch_idx'[r] # None
      BY <1>3, <1>4, <1>5, SchedulerAssumption DEF InFlight, ending
    <2> QED BY <1>3, <2>1, <2>2, <2>3, <2>4 DEF QueueInv
  <1>8. RequestInv'
    BY <1>1, <1>3 DEF IInv, RequestInv, InFlight, Prefilling, Decoding, progress, ending
  <1>9. TokenInv'
    BY <1>3 DEF IInv, TokenInv, Decoding, progress, ending
  <1>10. EveryTokenOnce'
    BY DEF IInv, EveryTokenOnce, progress
  <1>11. SlotHoldsItsRequest'
    <2> SUFFICES ASSUME NEW r \in Request, InFlight(r)'
                 PROVE  LET kv == slots'[batch_idx'[r]].kv
                            n == IF pc' = "oom" THEN snapshot'[batch_idx'[r]] ELSE Len(kv)
                        IN /\ \A i \in 1..n : kv[i] = TokenOf(r, i, FALSE)
                           /\ n = IF Prefilling(r)' THEN tokens_prefilled'[r]
                                  ELSE PromptLen[r] + Len(tokens_generated'[r])
                                         - (IF pending'[r] = None THEN 0 ELSE 1)
      BY DEF SlotHoldsItsRequest
    <2>1. /\ InFlight(r) /\ (Prefilling(r)' <=> Prefilling(r))
          /\ tokens_prefilled'[r] = tokens_prefilled[r] /\ pending'[r] = pending[r]
          /\ tokens_generated'[r] = tokens_generated[r]
      BY DEF InFlight, Prefilling, progress, ending
    <2>2. slots'[batch_idx'[r]] = slots[batch_idx[r]]
      BY <1>3, <1>5, <2>1
    <2>3. SlotHoldsItsRequest
      BY DEF IInv
    <2> QED BY <2>1, <2>2, <2>3 DEF SlotHoldsItsRequest
  <1>12. Finished' = {}
    BY <1>3 DEF Finished, ending
  <1> QED BY <1>3, <1>6, <1>7, <1>8, <1>9, <1>10, <1>11, <1>12

\* The two reaps of a step leave no finished request in _running.
LEMMA ReapFinishedKeeps ==
    ASSUME IInv, ReapFinished
    PROVE  IInv'
  <1>1. /\ pc \in {"reap", "reap_rejected"} /\ pc' = IF pc = "reap" THEN "admit" ELSE "forward"
        /\ Reap(Finished, slots)
        /\ UNCHANGED <<waiting, progress, ending, cancel_event, snapshot>>
    BY DEF ReapFinished
  <1>2. /\ QueueInv' /\ RowsInv' /\ RequestInv' /\ TokenInv' /\ EveryTokenOnce' /\ SlotHoldsItsRequest'
        /\ TypeOK' /\ Finished' = {} /\ (deferred' = None \/ deferred' = deferred)
    BY <1>1, ReapKeeps
  <1>3. PhaseInv'
    BY <1>1, <1>2 DEF IInv, PhaseInv, Decoding, progress, ending
  <1> QED BY <1>2, <1>3 DEF IInv

\* A step runs ahead only with a plain decoder in every row.
LEMMA ChooseStepKeeps ==
    ASSUME IInv, ChooseStep
    PROVE  IInv'
  <1>1. /\ pc = "choose" /\ pc' = IF NextStepIsAsync THEN "async" ELSE "sample"
        /\ Reap(Finished, slots)
        /\ UNCHANGED <<waiting, progress, ending, cancel_event, snapshot>>
    BY DEF ChooseStep
  <1>2. /\ QueueInv' /\ RowsInv' /\ RequestInv' /\ TokenInv' /\ EveryTokenOnce' /\ SlotHoldsItsRequest'
        /\ TypeOK' /\ Finished' = {} /\ (deferred' = None \/ deferred' = deferred)
        /\ ToSet(running') = ToSet(running) \ Finished
        /\ (ToSet(running) \ Finished # {} => deferred' = deferred)
    BY <1>1, ReapKeeps
  <1>3. ToSet(Alive) = ToSet(running) \ Finished /\ Alive \in Seq(Request)
    BY Queues, RunningInFacts DEF Alive, Finished
  <1>4. PhaseInv'
    <2>1. CASE NextStepIsAsync
      <3>1. ToSet(Alive) # {}
        BY <2>1, <1>3, SeqOverItself, EmptySeq DEF NextStepIsAsync
      <3>2. deferred' = deferred /\ deferred # None
        BY <1>1, <1>2, <1>3, <3>1 DEF IInv, PhaseInv
      <3> QED BY <1>1, <1>2, <1>3, <2>1, <3>2 DEF PhaseInv, NextStepIsAsync, Decoding, progress, ending
    <2>2. CASE ~NextStepIsAsync
      BY <1>1, <2>2 DEF PhaseInv
    <2> QED BY <2>1, <2>2
  <1> QED BY <1>2, <1>4 DEF IInv

\* `next` has the next token of every decoder of R.
NextTokens(R, next) ==
    \A r \in R : /\ Decoding(r)
                 /\ next[r] \in Tokens
                 /\ next[r].req = r
                 /\ next[r].pos = PromptLen[r] + Len(tokens_generated[r]) + 1

\* A request goes on after a token, with that token at the end of its text, or
\* it ends.
LEMMA ConsumeFacts ==
    ASSUME IInv, NEW R \in SUBSET Request, NEW next, NextTokens(R, next), Consume(R, next)
    PROVE  /\ state' \in [Request -> {"new", "waiting", "prefilling", "chunked_prefilling",
                              "decoding", "done"}]
           /\ finish_reason' \in [Request -> {None, "stop", "length", "cancelled"}]
           /\ terminals' \in [Request -> Nat]
           /\ tokens_generated' \in [Request -> Seq(Tokens)]
           /\ \A r \in Request \ R : state'[r] = state[r] /\ tokens_generated'[r] = tokens_generated[r]
           /\ \A r \in R : Ends(r, next[r]) # None => state'[r] = "done"
           /\ \A r \in R : Ends(r, next[r]) = None =>
                 /\ state'[r] = state[r]
                 /\ next[r] = TokenOf(r, PromptLen[r] + Len(tokens_generated[r]) + 1, FALSE)
                 /\ Len(tokens_generated'[r]) = Len(tokens_generated[r]) + 1
                 /\ Len(tokens_generated'[r]) < MaxTokens[r]
           /\ \A r \in Request : Len(tokens_generated[r]) \in Nat /\ Len(tokens_generated'[r]) \in Nat
           /\ \A r \in Request : terminals'[r] = IF state'[r] = "done" THEN 1 ELSE 0
           /\ EveryTokenOnce'
  <1> DEFINE G == {x \in R : Ends(x, next[x]) # None}
             m(r) == Len(tokens_generated[r])
  <1>0. \A r \in R : /\ Decoding(r)
                     /\ next[r] \in Tokens
                     /\ next[r].req = r
                     /\ next[r].pos = PromptLen[r] + m(r) + 1
    BY DEF NextTokens
  <1>1. /\ state' = [r \in Request |-> IF r \in G THEN "done" ELSE state[r]]
        /\ finish_reason' = [r \in Request |-> IF r \in G THEN Ends(r, next[r]) ELSE finish_reason[r]]
        /\ terminals' = [r \in Request |-> terminals[r] + IF r \in G THEN 1 ELSE 0]
    BY DEF Consume, Finish
  <1>2. tokens_generated' = [r \in Request |->
           IF r \in R /\ ~next[r].eos THEN Append(tokens_generated[r], next[r])
           ELSE tokens_generated[r]]
    BY DEF Consume
  <1>3. \A r \in Request : tokens_generated[r] \in Seq(Tokens) /\ m(r) \in Nat
    BY LenProperties DEF IInv, TypeOK
  <1>4. \A r \in R : state[r] # "done" /\ m(r) < MaxTokens[r]
    BY <1>0 DEF IInv, RequestInv, InFlight, Decoding
  <1>5. \A r \in Request : PromptLen[r] \in Nat /\ MaxTokens[r] \in Nat
    BY SchedulerAssumption
  <1>6. \A r \in R : Ends(r, next[r]) \in {None, "stop", "length", "cancelled"}
    BY DEF Ends
  <1>7. \A r \in R : ~next[r].eos =>
           /\ next[r] = TokenOf(r, PromptLen[r] + m(r) + 1, FALSE)
           /\ Append(tokens_generated[r], next[r]) \in Seq(Tokens)
           /\ Len(Append(tokens_generated[r], next[r])) = m(r) + 1
           /\ \A i \in 1..m(r) : Append(tokens_generated[r], next[r])[i] = tokens_generated[r][i]
           /\ Append(tokens_generated[r], next[r])[m(r) + 1] = next[r]
    <2> TAKE r \in R
    <2> HAVE ~next[r].eos
    <2>1. next[r] = TokenOf(r, PromptLen[r] + m(r) + 1, FALSE)
      BY <1>0 DEF Tokens, TokenOf
    <2>2. tokens_generated[r] \in Seq(Tokens) /\ next[r] \in Tokens /\ r \in Request
      BY <1>0, <1>3
    <2> HIDE DEF m
    <2>3. /\ Append(tokens_generated[r], next[r]) \in Seq(Tokens)
          /\ Len(Append(tokens_generated[r], next[r])) = Len(tokens_generated[r]) + 1
          /\ \A i \in 1..Len(tokens_generated[r]) :
                Append(tokens_generated[r], next[r])[i] = tokens_generated[r][i]
          /\ Append(tokens_generated[r], next[r])[Len(tokens_generated[r]) + 1] = next[r]
      BY <2>2, AppendProperties
    <2> QED BY <2>1, <2>3 DEF m
  <1>8. \A r \in R : Ends(r, next[r]) = None => ~next[r].eos /\ m(r) + 1 < MaxTokens[r]
    BY <1>3, <1>5, SchedulerAssumption DEF Ends
  <1>9. \A r \in Request :
           \/ tokens_generated'[r] = tokens_generated[r]
           \/ r \in R /\ ~next[r].eos /\ tokens_generated'[r] = Append(tokens_generated[r], next[r])
    BY <1>2
  <1>10. EveryTokenOnce'
    <2> SUFFICES ASSUME NEW r \in Request
                 PROVE  /\ Len(tokens_generated'[r]) <= MaxTokens[r]
                        /\ \A j \in 1..Len(tokens_generated'[r]) :
                              tokens_generated'[r][j] = TokenOf(r, PromptLen[r] + j, FALSE)
      BY DEF EveryTokenOnce
    <2>1. CASE tokens_generated'[r] = tokens_generated[r]
      BY <2>1 DEF IInv, EveryTokenOnce
    <2>2. CASE r \in R /\ ~next[r].eos /\ tokens_generated'[r] = Append(tokens_generated[r], next[r])
      <3>1. Len(tokens_generated'[r]) = m(r) + 1
        BY <2>2, <1>7
      <3>2. \A j \in 1..m(r) : tokens_generated'[r][j] = TokenOf(r, PromptLen[r] + j, FALSE)
        <4>1. \A j \in 1..m(r) : tokens_generated[r][j] = TokenOf(r, PromptLen[r] + j, FALSE)
          BY DEF IInv, EveryTokenOnce
        <4>2. \A j \in 1..m(r) : tokens_generated'[r][j] = tokens_generated[r][j]
          BY <2>2, <1>7
        <4> HIDE DEF m
        <4> QED BY <4>1, <4>2
      <3>3. tokens_generated'[r][m(r) + 1] = TokenOf(r, PromptLen[r] + (m(r) + 1), FALSE)
        <4>1. PromptLen[r] + m(r) + 1 = PromptLen[r] + (m(r) + 1)
          BY <1>3, <1>5
        <4>2. tokens_generated'[r][m(r) + 1] = next[r]
          BY <2>2, <1>7
        <4>3. next[r] = TokenOf(r, PromptLen[r] + m(r) + 1, FALSE)
          BY <2>2, <1>7
        <4> HIDE DEF m
        <4> QED BY <4>1, <4>2, <4>3
      <3>4. m(r) \in Nat /\ MaxTokens[r] \in Nat /\ m(r) < MaxTokens[r]
        BY <2>2, <1>3, <1>4, <1>5
      <3> HIDE DEF m
      <3>5. \A j \in 1..m(r) + 1 : j \in 1..m(r) \/ j = m(r) + 1
        BY <3>4
      <3>6. \A j \in 1..m(r) + 1 : tokens_generated'[r][j] = TokenOf(r, PromptLen[r] + j, FALSE)
        BY <3>2, <3>3, <3>5
      <3>7. m(r) + 1 <= MaxTokens[r]
        BY <3>4
      <3> QED BY <3>1, <3>6, <3>7
    <2> QED BY <1>9, <2>1, <2>2
  <1>11. tokens_generated' \in [Request -> Seq(Tokens)]
    BY <1>2, <1>3, <1>7
  <1>12. \A r \in Request : terminals'[r] = IF state'[r] = "done" THEN 1 ELSE 0
    BY <1>1, <1>4 DEF IInv, RequestInv
  <1>13. /\ state' \in [Request -> {"new", "waiting", "prefilling", "chunked_prefilling",
                               "decoding", "done"}]
         /\ finish_reason' \in [Request -> {None, "stop", "length", "cancelled"}]
         /\ terminals' \in [Request -> Nat]
    BY <1>1, <1>6 DEF IInv, TypeOK
  <1>14. \A r \in Request \ R : state'[r] = state[r] /\ tokens_generated'[r] = tokens_generated[r]
    BY <1>1, <1>2
  <1>15. \A r \in R : Ends(r, next[r]) # None => state'[r] = "done"
    BY <1>1
  <1>16. \A r \in R : Ends(r, next[r]) = None =>
            /\ state'[r] = state[r]
            /\ next[r] = TokenOf(r, PromptLen[r] + m(r) + 1, FALSE)
            /\ Len(tokens_generated'[r]) = m(r) + 1
            /\ Len(tokens_generated'[r]) < MaxTokens[r]
    <2> TAKE r \in R
    <2> HAVE Ends(r, next[r]) = None
    <2>1. tokens_generated'[r] = Append(tokens_generated[r], next[r]) /\ r \notin G
      BY <1>2, <1>8
    <2>2. state'[r] = state[r]
      BY <1>1, <2>1
    <2>3. ~next[r].eos /\ m(r) + 1 < MaxTokens[r]
      BY <1>8
    <2>4. /\ next[r] = TokenOf(r, PromptLen[r] + m(r) + 1, FALSE)
          /\ Len(Append(tokens_generated[r], next[r])) = m(r) + 1
      BY <1>7, <2>3
    <2> HIDE DEF m
    <2> QED BY <2>1, <2>2, <2>3, <2>4
  <1>17. \A r \in Request : Len(tokens_generated'[r]) \in Nat
    BY <1>11, LenProperties
  <1> QED BY <1>3, <1>10, <1>11, <1>12, <1>13, <1>14, <1>15, <1>16, <1>17

\* Sampling gives every decoder one token to feed, or ends it.
LEMMA SampleDecodersKeeps ==
    ASSUME IInv, SampleDecoders
    PROVE  IInv'
  <1> DEFINE fresh == Fresh
             read == IF deferred = None THEN {} ELSE fresh \cap DOMAIN deferred
  <1>1. /\ pc = "sample" /\ pc' = "reap" /\ deferred' = None
        /\ UNCHANGED <<queues, tokens_prefilled, last_logits, cache, cancel_event>>
    BY DEF SampleDecoders
  <1>2. PICK ends \in SUBSET (fresh \ read) :
           LET next == [r \in fresh |-> IF r \in read THEN deferred[r] ELSE SampleFrom(r, ends)]
           IN /\ Consume(fresh, next)
              /\ pending' = [r \in Request |->
                    IF r \in fresh /\ Ends(r, next[r]) = None THEN next[r] ELSE pending[r]]
    BY DEF SampleDecoders
  <1> DEFINE next == [r \in fresh |-> IF r \in read THEN deferred[r] ELSE SampleFrom(r, ends)]
             m(r) == Len(tokens_generated[r])
  <1>3. /\ fresh \in SUBSET Request
        /\ \A r \in fresh : Decoding(r) /\ pending[r] = None
        /\ \A r \in Request : Decoding(r) /\ pending[r] = None => r \in fresh
    BY Queues DEF Fresh, Decoders, Decoding, InFlight
  <1>4. \A r \in Request : PromptLen[r] \in Nat /\ m(r) \in Nat
    BY SchedulerAssumption, LenProperties DEF IInv, TypeOK
  <1>5. \A r \in fresh : /\ next[r] \in Tokens
                         /\ next[r].req = r
                         /\ next[r].pos = PromptLen[r] + m(r) + 1
    <2> TAKE r \in fresh
    <2>1. r \in Request /\ Decoding(r) /\ pending[r] = None
      BY <1>3
    <2>2. CASE r \in read
      BY <2>1, <2>2 DEF IInv, TypeOK, TokenInv
    <2>3. CASE r \notin read
      <3>1. last_logits[r].req = r /\ last_logits[r].pos = PromptLen[r] + m(r)
        BY <2>1 DEF IInv, TokenInv
      <3>2. next[r] = TokenOf(r, PromptLen[r] + m(r) + 1, r \in ends)
        BY <2>3, <3>1 DEF SampleFrom
      <3>3. PromptLen[r] + m(r) + 1 \in Nat /\ (r \in ends) \in BOOLEAN
        BY <1>4, <2>1
      <3> HIDE DEF next, m
      <3> QED BY <2>1, <3>2, <3>3 DEF TokenOf, Tokens
    <2> QED BY <2>2, <2>3
  <1>6. /\ Consume(fresh, next)
        /\ pending' = [r \in Request |->
              IF r \in fresh /\ Ends(r, next[r]) = None THEN next[r] ELSE pending[r]]
    BY <1>2
  <1> HIDE DEF fresh, next, read
  <1>7. /\ state' \in [Request -> {"new", "waiting", "prefilling", "chunked_prefilling",
                              "decoding", "done"}]
        /\ finish_reason' \in [Request -> {None, "stop", "length", "cancelled"}]
        /\ terminals' \in [Request -> Nat]
        /\ tokens_generated' \in [Request -> Seq(Tokens)]
        /\ \A r \in Request \ fresh : state'[r] = state[r] /\ tokens_generated'[r] = tokens_generated[r]
        /\ \A r \in fresh : Ends(r, next[r]) # None => state'[r] = "done"
        /\ \A r \in fresh : Ends(r, next[r]) = None =>
              /\ state'[r] = state[r]
              /\ next[r] = TokenOf(r, PromptLen[r] + m(r) + 1, FALSE)
              /\ Len(tokens_generated'[r]) = m(r) + 1
              /\ Len(tokens_generated'[r]) < MaxTokens[r]
        /\ \A r \in Request : m(r) \in Nat /\ Len(tokens_generated'[r]) \in Nat
        /\ \A r \in Request : terminals'[r] = IF state'[r] = "done" THEN 1 ELSE 0
        /\ EveryTokenOnce'
    <2>1. NextTokens(fresh, next)
      BY <1>3, <1>5 DEF NextTokens
    <2> QED BY <1>3, <1>6, <2>1, ConsumeFacts
  <1>8. TypeOK'
    BY <1>1, <1>5, <1>6, <1>7 DEF IInv, TypeOK, queues, cache
  \* What a step does to one request.
  <1>9. ASSUME NEW r \in Request
        PROVE  \/ /\ r \notin fresh
                  /\ state'[r] = state[r] /\ tokens_generated'[r] = tokens_generated[r]
                  /\ pending'[r] = pending[r]
               \/ r \in fresh /\ state'[r] = "done"
               \/ /\ r \in fresh /\ state'[r] = state[r]
                  /\ pending'[r] = TokenOf(r, PromptLen[r] + Len(tokens_generated'[r]), FALSE)
                  /\ pending'[r] # None
                  /\ Len(tokens_generated'[r]) = m(r) + 1
                  /\ Len(tokens_generated'[r]) < MaxTokens[r]
    <2>1. CASE r \notin fresh
      BY <2>1, <1>6, <1>7
    <2>2. CASE r \in fresh /\ Ends(r, next[r]) # None
      BY <2>2, <1>7
    <2>3. CASE r \in fresh /\ Ends(r, next[r]) = None
      <3>1. pending'[r] = next[r] /\ next[r] # None
        BY <2>3, <1>5, <1>6, SchedulerAssumption DEF Tokens
      <3>2. PromptLen[r] + (m(r) + 1) = PromptLen[r] + m(r) + 1
        BY <1>4
      <3> HIDE DEF m
      <3> QED BY <2>3, <1>7, <3>1, <3>2
    <2> QED BY <2>1, <2>2, <2>3
  <1>10. QueueInv' /\ RowsInv'
    <2>1. \A r \in Request : state[r] \in {"new", "waiting", "done"} => state'[r] = state[r]
      BY <1>3, <1>9 DEF Decoding
    <2>2. \A r \in Request : state'[r] = state[r] \/ state'[r] = "done"
      BY <1>9
    <2>3. RowsInv'
      BY <1>1 DEF IInv, RowsInv, queues, cache
    <2>4. \A i \in 1..Len(waiting) : state'[waiting[i]] = "waiting"
      BY <2>1, Queues DEF IInv, QueueInv
    <2>5. \A i \in 1..Len(running) : state'[running[i]] \notin {"new", "waiting"}
      BY <2>2, Queues DEF IInv, QueueInv
    <2>6. \A r \in Request : InFlight(r)' => InFlight(r)
      BY <2>2 DEF InFlight
    <2> QED BY <1>1, <2>3, <2>4, <2>5, <2>6 DEF IInv, QueueInv, queues, cache
  <1>11. RequestInv'
    <2> SUFFICES ASSUME NEW r \in Request
                 PROVE  /\ ~Decoding(r)' /\ state'[r] # "done" =>
                               tokens_generated'[r] = <<>> /\ pending'[r] = None
                        /\ state'[r] \in {"new", "waiting"} => tokens_prefilled'[r] = 0 /\ batch_idx'[r] = None
                        /\ Prefilling(r)' => tokens_prefilled'[r] < PromptLen[r]
                        /\ InFlight(r)' => Len(tokens_generated'[r]) < MaxTokens[r]
      BY <1>7 DEF RequestInv
    <2> QED BY <1>1, <1>3, <1>9 DEF IInv, RequestInv, InFlight, Prefilling, Decoding, cache
  <1>12. TokenInv'
    BY <1>1, <1>3, <1>9 DEF IInv, TokenInv, Decoding
  <1>13. PhaseInv'
    BY <1>1, <1>3, <1>9 DEF PhaseInv, Decoding
  <1>14. SlotHoldsItsRequest'
    <2> SUFFICES ASSUME NEW r \in Request, InFlight(r)'
                 PROVE  LET kv == slots[batch_idx[r]].kv
                            n == Len(kv)
                        IN /\ \A i \in 1..n : kv[i] = TokenOf(r, i, FALSE)
                           /\ n = IF Prefilling(r)' THEN tokens_prefilled[r]
                                  ELSE PromptLen[r] + Len(tokens_generated'[r])
                                         - (IF pending'[r] = None THEN 0 ELSE 1)
      BY <1>1 DEF SlotHoldsItsRequest, cache
    <2>1. InFlight(r) /\ state'[r] = state[r]
      BY <1>9 DEF InFlight
    <2> DEFINE kv == slots[batch_idx[r]].kv
    <2>2. /\ \A i \in 1..Len(kv) : kv[i] = TokenOf(r, i, FALSE)
          /\ Len(kv) = IF Prefilling(r) THEN tokens_prefilled[r]
                       ELSE PromptLen[r] + m(r) - (IF pending[r] = None THEN 0 ELSE 1)
      BY <1>1, <2>1 DEF IInv, SlotHoldsItsRequest
    <2>3. CASE r \notin fresh
      BY <1>9, <2>1, <2>2, <2>3 DEF Prefilling
    <2>4. CASE r \in fresh
      <3>1. ~Prefilling(r) /\ ~Prefilling(r)' /\ pending[r] = None
        BY <1>3, <2>1, <2>4 DEF Prefilling, Decoding
      <3>2. pending'[r] # None /\ Len(tokens_generated'[r]) = m(r) + 1
        BY <1>9, <2>1, <2>4 DEF InFlight
      <3>3. PromptLen[r] + (m(r) + 1) - 1 = PromptLen[r] + m(r) - 0
        BY <1>4
      <3> HIDE DEF m
      <3> QED BY <2>2, <3>1, <3>2, <3>3
    <2> QED BY <2>3, <2>4
  <1> QED BY <1>7, <1>8, <1>10, <1>11, <1>12, <1>13, <1>14 DEF IInv

-----------------------------------------------------------------------------
(* Admission.                                                              *)

\* The head of the queue and the queue without it.
LEMMA HeadOfQueue ==
    ASSUME IInv, waiting # <<>>
    PROVE  /\ Head(waiting) \in Request /\ Tail(waiting) \in Seq(Request)
           /\ Len(Tail(waiting)) = Len(waiting) - 1 /\ Len(waiting) \in Nat \ {0}
           /\ \A i \in 1..Len(Tail(waiting)) : Tail(waiting)[i] = waiting[i + 1]
           /\ Head(waiting) = waiting[1]
           /\ state[Head(waiting)] = "waiting" /\ Head(waiting) \notin ToSet(running)
           /\ \A i \in 1..Len(Tail(waiting)) : /\ Tail(waiting)[i] # Head(waiting)
                                               /\ state[Tail(waiting)[i]] = "waiting"
           /\ \A i, j \in 1..Len(Tail(waiting)) : Tail(waiting)[i] = Tail(waiting)[j] => i = j
           /\ batch_idx[Head(waiting)] = None /\ tokens_prefilled[Head(waiting)] = 0
           /\ tokens_generated[Head(waiting)] = <<>> /\ pending[Head(waiting)] = None
  <1>1. waiting \in Seq(Request)
    BY Queues
  <1>2. /\ Head(waiting) \in Request /\ Tail(waiting) \in Seq(Request)
        /\ Len(Tail(waiting)) = Len(waiting) - 1
        /\ \A i \in 1..Len(Tail(waiting)) : Tail(waiting)[i] = waiting[i + 1]
        /\ Len(waiting) \in Nat \ {0}
    BY <1>1, HeadTailProperties, EmptySeq
  <1>3. Head(waiting) = waiting[1]
    BY <1>1
  <1>4. /\ \A i \in 1..Len(waiting) : state[waiting[i]] = "waiting"
        /\ \A i, j \in 1..Len(waiting) : waiting[i] = waiting[j] => i = j
    BY DEF IInv, QueueInv
  <1>5. state[Head(waiting)] = "waiting" /\ Head(waiting) \notin ToSet(running)
    BY <1>2, <1>3, <1>4, Queues
  <1>6. \A i \in 1..Len(Tail(waiting)) : i + 1 \in 1..Len(waiting) /\ i + 1 # 1
    BY <1>2
  <1>7. \A i \in 1..Len(Tail(waiting)) : /\ Tail(waiting)[i] # Head(waiting)
                                         /\ state[Tail(waiting)[i]] = "waiting"
    BY <1>2, <1>3, <1>4, <1>6
  <1>8. \A i, j \in 1..Len(Tail(waiting)) : Tail(waiting)[i] = Tail(waiting)[j] => i = j
    BY <1>2, <1>4, <1>6
  <1>9. /\ batch_idx[Head(waiting)] = None /\ tokens_prefilled[Head(waiting)] = 0
        /\ tokens_generated[Head(waiting)] = <<>> /\ pending[Head(waiting)] = None
    BY <1>2, <1>5 DEF IInv, RequestInv, Decoding
  <1> QED BY <1>2, <1>3, <1>5, <1>7, <1>8, <1>9

\* A request ended at admission has no row to remove.
LEMMA EndAtAdmissionKeeps ==
    ASSUME IInv, Admitting, NEW reason \in {"stop", "cancelled"}, EndAtAdmission(Head(waiting), reason)
    PROVE  IInv'
  <1> DEFINE r == Head(waiting)
  <1>1. /\ waiting' = Tail(waiting) /\ running' = Append(running, r)
        /\ Finish([x \in {r} |-> reason])
        /\ UNCHANGED <<progress, cache, cancel_event, deferred, pc>>
        /\ pc = "admit" /\ waiting # <<>>
    BY DEF EndAtAdmission, Admitting
  <1>2. /\ r \in Request /\ waiting' \in Seq(Request)
        /\ state[r] = "waiting" /\ r \notin ToSet(running)
        /\ \A i \in 1..Len(waiting') : waiting'[i] # r /\ state[waiting'[i]] = "waiting"
        /\ \A i, j \in 1..Len(waiting') : waiting'[i] = waiting'[j] => i = j
        /\ batch_idx[r] = None
    BY <1>1, HeadOfQueue
  <1> HIDE DEF r
  <1>3. /\ state' = [q \in Request |-> IF q = r THEN "done" ELSE state[q]]
        /\ finish_reason' = [q \in Request |-> IF q = r THEN reason ELSE finish_reason[q]]
        /\ terminals' = [q \in Request |-> terminals[q] + IF q = r THEN 1 ELSE 0]
    BY <1>1 DEF Finish
  <1>4. /\ running \in Seq(Request) /\ Len(running) \in Nat
        /\ ToSet(running) = {running[i] : i \in 1..Len(running)}
        /\ \A i \in 1..Len(running) : running[i] \in Request /\ running[i] # r
    BY <1>2, Queues
  <1>5. /\ running' \in Seq(Request) /\ Len(running') = Len(running) + 1
        /\ \A i \in 1..Len(running) : running'[i] = running[i]
        /\ running'[Len(running) + 1] = r
    BY <1>1, <1>2, <1>4, AppendProperties
  <1>6. ToSet(running') = {running'[i] : i \in 1..Len(running')} /\ ToSet(running) \subseteq ToSet(running')
    <2>1. ToSet(running') = {running'[i] : i \in 1..Len(running')}
      BY <1>5, SeqOverItself
    <2> QED BY <2>1, <1>4, <1>5
  <1>7. TypeOK'
    <2>1. /\ state' \in [Request -> {"new", "waiting", "prefilling", "chunked_prefilling",
                              "decoding", "done"}]
          /\ finish_reason' \in [Request -> {None, "stop", "length", "cancelled"}]
      BY <1>3 DEF IInv, TypeOK
    <2>2. terminals' \in [Request -> Nat]
      BY <1>3 DEF IInv, TypeOK
    <2> QED BY <1>1, <1>2, <1>5, <2>1, <2>2 DEF IInv, TypeOK, progress, cache
  <1>8. QueueInv'
    <2>1. \A i \in 1..Len(waiting') : state'[waiting'[i]] = "waiting"
      BY <1>2, <1>3, ElementOfSeq
    <2>2. \A i \in 1..Len(running') : state'[running'[i]] \notin {"new", "waiting"}
      <3> TAKE i \in 1..Len(running')
      <3>1. CASE i \in 1..Len(running)
        <4>1. running'[i] = running[i] /\ running[i] \in Request /\ running[i] # r
          BY <1>4, <1>5, <3>1
        <4>2. state[running[i]] \notin {"new", "waiting"}
          BY <3>1 DEF IInv, QueueInv
        <4> QED BY <1>3, <4>1, <4>2
      <3>2. CASE i \notin 1..Len(running)
        <4>1. running'[i] = r
          BY <1>4, <1>5, <3>2
        <4> QED BY <1>2, <1>3, <4>1
      <3> QED BY <3>1, <3>2
    <2>3. \A i, j \in 1..Len(running') : running'[i] = running'[j] => i = j
      BY <1>4, <1>5 DEF IInv, QueueInv
    <2>4. \A q \in Request : InFlight(q)' => q \in ToSet(running') /\ batch_idx'[q] # None
      BY <1>1, <1>3, <1>6 DEF IInv, QueueInv, InFlight, cache
    <2> QED BY <1>2, <2>1, <2>2, <2>3, <2>4 DEF QueueInv
  <1>9. RowsInv'
    <2>1. /\ slots' = slots /\ batch_idx' = batch_idx
          /\ \A i \in 1..Len(running') : i \in 1..Len(running) \/ (i = Len(running) + 1 /\ running'[i] = r)
      BY <1>1, <1>4, <1>5 DEF cache
    <2>2. \A k \in 1..Len(slots) : \E i \in 1..Len(running') : batch_idx[running'[i]] = k
      BY <1>4, <1>5 DEF IInv, RowsInv
    <2>3. \A i, j \in 1..Len(running') :
             i < j /\ batch_idx[running'[i]] # None /\ batch_idx[running'[j]] # None =>
                 batch_idx[running'[i]] < batch_idx[running'[j]]
      <3>1. ASSUME NEW i \in 1..Len(running'), batch_idx[running'[i]] # None
            PROVE  i \in 1..Len(running) /\ running'[i] = running[i]
        BY <2>1, <1>2, <1>5, <3>1
      <3>2. \A i, j \in 1..Len(running) :
               i < j /\ batch_idx[running[i]] # None /\ batch_idx[running[j]] # None =>
                   batch_idx[running[i]] < batch_idx[running[j]]
        BY DEF IInv, RowsInv
      <3> QED BY <3>1, <3>2
    <2>4. \A i \in 1..Len(running') : batch_idx[running'[i]] \in 1..Len(slots) \cup {None}
      BY <2>1, <1>2, <1>5 DEF IInv, RowsInv
    <2> QED BY <2>1, <2>2, <2>3, <2>4 DEF RowsInv
  <1>10. RequestInv'
    <2>1. \A q \in Request : terminals'[q] = IF state'[q] = "done" THEN 1 ELSE 0
      BY <1>2, <1>3 DEF IInv, RequestInv
    <2> QED BY <2>1, <1>1, <1>3 DEF IInv, RequestInv, InFlight, Prefilling, Decoding, progress, cache
  <1>11. TokenInv'
    BY <1>1, <1>3 DEF IInv, TokenInv, Decoding, progress
  <1>12. PhaseInv'
    BY <1>1, <1>3 DEF IInv, PhaseInv, Decoding, progress
  <1>13. EveryTokenOnce' /\ SlotHoldsItsRequest'
    BY <1>1, <1>3 DEF IInv, EveryTokenOnce, SlotHoldsItsRequest, InFlight, Prefilling, progress, cache
  <1> QED BY <1>7, <1>8, <1>9, <1>10, <1>11, <1>12, <1>13 DEF IInv

\* Requeueing only reorders the queue.
LEMMA AdmitLaterKeeps ==
    ASSUME IInv, AdmitLater
    PROVE  IInv'
  <1> DEFINE r == Head(waiting)
             t == Tail(waiting)
  <1>1. /\ waiting' = Append(t, r) /\ pc = "admit" /\ pc' = "reap_rejected" /\ waiting # <<>>
        /\ UNCHANGED <<running, progress, ending, cache, cancel_event, deferred>>
    BY DEF AdmitLater, Admitting, Requeued
  <1>2. /\ r \in Request /\ t \in Seq(Request) /\ state[r] = "waiting" /\ Len(t) \in Nat
        /\ \A i \in 1..Len(t) : t[i] # r /\ state[t[i]] = "waiting"
        /\ \A i, j \in 1..Len(t) : t[i] = t[j] => i = j
    BY <1>1, HeadOfQueue
  <1> HIDE DEF r, t
  <1>3. /\ waiting' \in Seq(Request) /\ Len(waiting') = Len(t) + 1
        /\ \A i \in 1..Len(t) : waiting'[i] = t[i]
        /\ waiting'[Len(t) + 1] = r
    BY <1>1, <1>2, AppendProperties
  <1>4. TypeOK'
    BY <1>1, <1>3 DEF IInv, TypeOK, progress, ending, cache
  <1>5. QueueInv' /\ RowsInv'
    <2>1. \A i \in 1..Len(waiting') : state[waiting'[i]] = "waiting"
      BY <1>2, <1>3
    <2>2. \A i, j \in 1..Len(waiting') : waiting'[i] = waiting'[j] => i = j
      BY <1>2, <1>3
    <2> QED BY <1>1, <2>1, <2>2 DEF IInv, QueueInv, RowsInv, InFlight, ending, cache
  <1>6. RequestInv' /\ TokenInv'
    BY <1>1 DEF IInv, RequestInv, TokenInv, InFlight, Prefilling, Decoding, progress, ending, cache
  <1>7. PhaseInv'
    BY <1>1 DEF IInv, PhaseInv, Decoding, progress, ending
  <1>8. EveryTokenOnce' /\ SlotHoldsItsRequest'
    BY <1>1 DEF IInv, EveryTokenOnce, SlotHoldsItsRequest, InFlight, Prefilling, progress, ending, cache
  <1> QED BY <1>4, <1>5, <1>6, <1>7, <1>8 DEF IInv

\* A seated request takes a new last row and an empty slot.
LEMMA AdmitSeatKeeps ==
    ASSUME IInv, AdmitSeat
    PROVE  IInv'
  <1> DEFINE r == Head(waiting)
             new == [kv |-> <<>>, blocks |-> 0]
             n == Len(slots)
  <1>1. /\ slots' = Append(slots, new) /\ batch_idx' = [batch_idx EXCEPT ![r] = n + 1]
        /\ state' = [state EXCEPT ![r] = "prefilling"]
        /\ waiting' = Tail(waiting) /\ running' = Append(running, r)
        /\ UNCHANGED <<progress, finish_reason, terminals, snapshot, cancel_event, deferred, pc>>
        /\ pc = "admit" /\ waiting # <<>> /\ PromptLen[r] # 0
    BY DEF AdmitSeat, Admitting, Admissible
  <1>2. /\ r \in Request /\ waiting' \in Seq(Request)
        /\ state[r] = "waiting" /\ r \notin ToSet(running)
        /\ \A i \in 1..Len(waiting') : waiting'[i] # r /\ state[waiting'[i]] = "waiting"
        /\ \A i, j \in 1..Len(waiting') : waiting'[i] = waiting'[j] => i = j
        /\ tokens_prefilled[r] = 0 /\ tokens_generated[r] = <<>> /\ pending[r] = None
    BY <1>1, HeadOfQueue
  <1> HIDE DEF r
  <1>3. /\ running \in Seq(Request) /\ Len(running) \in Nat /\ n \in Nat
        /\ slots \in Seq(ToSet(slots))
        /\ ToSet(running) = {running[i] : i \in 1..Len(running)}
        /\ \A i \in 1..Len(running) : running[i] \in Request /\ running[i] # r
        /\ \A q \in Request : InFlight(q) => q \in ToSet(running) /\ batch_idx[q] \in 1..n
    BY <1>2, Queues
  <1>4. /\ running' \in Seq(Request) /\ Len(running') = Len(running) + 1
        /\ \A i \in 1..Len(running) : running'[i] = running[i]
        /\ running'[Len(running) + 1] = r
    BY <1>1, <1>2, <1>3, AppendProperties
  <1>5. ToSet(running') = {running'[i] : i \in 1..Len(running')} /\ ToSet(running) \subseteq ToSet(running')
        /\ r \in ToSet(running')
    <2>1. ToSet(running') = {running'[i] : i \in 1..Len(running')}
      BY <1>4, SeqOverItself
    <2> QED BY <2>1, <1>3, <1>4
  <1>6. /\ Len(slots') = n + 1 /\ \A i \in 1..n : slots'[i] = slots[i]
        /\ slots'[n + 1] = new /\ slots' \in Seq(ToSet(slots'))
    <2> DEFINE S == ToSet(slots) \cup {new}
    <2>1. slots \in Seq(S)
      BY <1>3, SeqMonotonic
    <2> HIDE DEF new
    <2>2. new \in S
      OBVIOUS
    <2> HIDE DEF S
    <2>3. /\ slots' \in Seq(S) /\ Len(slots') = n + 1 /\ \A i \in 1..n : slots'[i] = slots[i]
          /\ slots'[n + 1] = new
      BY <1>1, <2>1, <2>2, AppendProperties
    <2> QED BY <2>3, SeqOverItself
  <1>7. /\ state' \in [Request -> {"new", "waiting", "prefilling", "chunked_prefilling",
                              "decoding", "done"}]
        /\ batch_idx' \in [Request -> Nat \cup {None}]
        /\ \A q \in Request : q # r => state'[q] = state[q] /\ batch_idx'[q] = batch_idx[q]
        /\ state'[r] = "prefilling" /\ batch_idx'[r] = n + 1
    <2>1. state \in [Request -> {"new", "waiting", "prefilling", "chunked_prefilling",
                              "decoding", "done"}]
      BY DEF IInv, TypeOK
    <2>2. batch_idx \in [Request -> Nat \cup {None}] /\ n + 1 \in Nat
      BY <1>3 DEF IInv, TypeOK
    <2> HIDE DEF n
    <2>3. /\ batch_idx' \in [Request -> Nat \cup {None}] /\ batch_idx'[r] = n + 1
          /\ \A q \in Request : q # r => batch_idx'[q] = batch_idx[q]
      BY <1>1, <1>2, <2>2
    <2> QED BY <1>1, <1>2, <2>1, <2>3
  <1>8. TypeOK'
    <2>1. \A i \in 1..Len(slots') : /\ slots'[i] = [kv |-> slots'[i].kv, blocks |-> slots'[i].blocks]
                                    /\ slots'[i].kv \in Seq(Tokens)
      <3> TAKE i \in 1..Len(slots')
      <3>1. i \in 1..n \/ i = n + 1
        BY <1>3, <1>6
      <3>2. new = [kv |-> new.kv, blocks |-> new.blocks] /\ new.kv \in Seq(Tokens)
        BY EmptySeq
      <3> HIDE DEF new
      <3> QED BY <3>1, <3>2, <1>6 DEF IInv, TypeOK
    <2> QED BY <1>1, <1>2, <1>4, <1>6, <1>7, <2>1 DEF IInv, TypeOK, progress
  <1>9. QueueInv'
    <2>1. \A i \in 1..Len(waiting') : state'[waiting'[i]] = "waiting"
      BY <1>2, <1>7, ElementOfSeq
    <2>2. \A i \in 1..Len(running') : state'[running'[i]] \notin {"new", "waiting"}
      <3> TAKE i \in 1..Len(running')
      <3>1. i \in 1..Len(running) \/ running'[i] = r
        BY <1>3, <1>4
      <3> QED BY <3>1, <1>3, <1>4, <1>7 DEF IInv, QueueInv
    <2>3. \A i, j \in 1..Len(running') : running'[i] = running'[j] => i = j
      BY <1>3, <1>4 DEF IInv, QueueInv
    <2>4. \A q \in Request : InFlight(q)' => q \in ToSet(running') /\ batch_idx'[q] # None
      <3> SUFFICES ASSUME NEW q \in Request, InFlight(q)'
                   PROVE  q \in ToSet(running') /\ batch_idx'[q] # None
        OBVIOUS
      <3>1. CASE q = r
        BY <3>1, <1>3, <1>5, <1>7, SchedulerAssumption
      <3>2. CASE q # r
        BY <3>2, <1>5, <1>7 DEF IInv, QueueInv, InFlight
      <3> QED BY <3>1, <3>2
    <2> QED BY <1>2, <2>1, <2>2, <2>3, <2>4 DEF QueueInv
  <1>10. RowsInv'
    <2>1. \A i \in 1..Len(running') :
             \/ i \in 1..Len(running) /\ batch_idx'[running'[i]] = batch_idx[running[i]]
             \/ i = Len(running) + 1 /\ batch_idx'[running'[i]] = n + 1
      BY <1>3, <1>4, <1>7
    <2>2. \A i \in 1..Len(running) : batch_idx'[running'[i]] = batch_idx[running[i]]
      BY <1>3, <1>4, <1>7
    <2>3. \A k \in 1..Len(slots') : \E i \in 1..Len(running') : batch_idx'[running'[i]] = k
      <3> TAKE k \in 1..Len(slots')
      <3>1. CASE k \in 1..n
        <4>1. PICK i \in 1..Len(running) : batch_idx[running[i]] = k
          BY <3>1 DEF IInv, RowsInv
        <4>2. i \in 1..Len(running')
          BY <1>3, <1>4
        <4> QED BY <2>2, <4>1, <4>2
      <3>2. CASE k = n + 1
        BY <3>2, <1>3, <1>4, <1>7
      <3> QED BY <3>1, <3>2, <1>3, <1>6
    <2>4. \A i \in 1..Len(running') : batch_idx'[running'[i]] \in 1..Len(slots') \cup {None}
      BY <2>1, <1>3, <1>6 DEF IInv, RowsInv
    <2>5. \A i, j \in 1..Len(running') :
             i < j /\ batch_idx'[running'[i]] # None /\ batch_idx'[running'[j]] # None =>
                 batch_idx'[running'[i]] < batch_idx'[running'[j]]
      <3> SUFFICES ASSUME NEW i \in 1..Len(running'), NEW j \in 1..Len(running'), i < j,
                          batch_idx'[running'[i]] # None, batch_idx'[running'[j]] # None
                   PROVE  batch_idx'[running'[i]] < batch_idx'[running'[j]]
        OBVIOUS
      <3>1. i \in 1..Len(running) /\ batch_idx'[running'[i]] = batch_idx[running[i]]
        BY <1>3, <1>4, <2>2
      <3>2. batch_idx[running[i]] \in 1..n
        BY <3>1 DEF IInv, RowsInv
      <3>3. CASE j \in 1..Len(running) /\ batch_idx'[running'[j]] = batch_idx[running[j]]
        BY <3>1, <3>3 DEF IInv, RowsInv
      <3>4. CASE batch_idx'[running'[j]] = n + 1
        BY <3>1, <3>2, <3>4, <1>3
      <3> QED BY <2>1, <3>3, <3>4
    <2> QED BY <2>3, <2>4, <2>5 DEF RowsInv
  <1>11. RequestInv'
    <2> SUFFICES ASSUME NEW q \in Request
                 PROVE  /\ ~Decoding(q)' /\ state'[q] # "done" =>
                               tokens_generated'[q] = <<>> /\ pending'[q] = None
                        /\ state'[q] \in {"new", "waiting"} => tokens_prefilled'[q] = 0 /\ batch_idx'[q] = None
                        /\ Prefilling(q)' => tokens_prefilled'[q] < PromptLen[q]
                        /\ InFlight(q)' => Len(tokens_generated'[q]) < MaxTokens[q]
                        /\ terminals'[q] = IF state'[q] = "done" THEN 1 ELSE 0
      BY DEF RequestInv
    <2>1. CASE q = r
      <3>1. Len(<<>>) = 0 /\ MaxTokens[r] \in Nat \ {0} /\ PromptLen[r] \in Nat
        BY <1>2, EmptySeq, SchedulerAssumption
      <3>2. terminals[r] = 0
        BY <1>2 DEF IInv, RequestInv
      <3> QED BY <2>1, <3>1, <3>2, <1>1, <1>2, <1>7 DEF Decoding, Prefilling, InFlight, progress
    <2>2. CASE q # r
      BY <2>2, <1>1, <1>7 DEF IInv, RequestInv, Decoding, Prefilling, InFlight, progress
    <2> QED BY <2>1, <2>2
  <1>12. TokenInv'
    BY <1>1, <1>7 DEF IInv, TokenInv, Decoding, progress
  <1>13. PhaseInv'
    BY <1>1, <1>7 DEF IInv, PhaseInv, Decoding, progress
  <1>14. EveryTokenOnce'
    BY <1>1 DEF IInv, EveryTokenOnce, progress
  <1>15. SlotHoldsItsRequest'
    <2> SUFFICES ASSUME NEW q \in Request, InFlight(q)'
                 PROVE  LET kv == slots'[batch_idx'[q]].kv
                            l == Len(kv)
                        IN /\ \A i \in 1..l : kv[i] = TokenOf(q, i, FALSE)
                           /\ l = IF Prefilling(q)' THEN tokens_prefilled[q]
                                  ELSE PromptLen[q] + Len(tokens_generated[q])
                                         - (IF pending[q] = None THEN 0 ELSE 1)
      BY <1>1 DEF SlotHoldsItsRequest, progress
    <2>1. CASE q = r
      <3>1. slots'[batch_idx'[q]].kv = <<>> /\ Len(<<>>) = 0
        BY <2>1, <1>6, <1>7, EmptySeq
      <3> QED BY <2>1, <3>1, <1>2, <1>7 DEF Prefilling
    <2>2. CASE q # r
      <3>1. InFlight(q) /\ state'[q] = state[q] /\ slots'[batch_idx'[q]] = slots[batch_idx[q]]
        BY <2>2, <1>3, <1>6, <1>7 DEF InFlight
      <3> QED BY <3>1, <1>1 DEF IInv, SlotHoldsItsRequest, Prefilling
    <2> QED BY <2>1, <2>2
  <1> QED BY <1>8, <1>9, <1>10, <1>11, <1>12, <1>13, <1>14, <1>15 DEF IInv

-----------------------------------------------------------------------------
(* The forward.                                                            *)

\* What holds of the slots: each is a record whose K/V is a text.
LEMMA SlotFacts ==
    ASSUME IInv
    PROVE  \A i \in 1..Len(slots) : /\ slots[i].kv \in Seq(Tokens) /\ Len(slots[i].kv) \in Nat
                                    /\ slots[i] = [kv |-> slots[i].kv, blocks |-> slots[i].blocks]
  BY LenProperties DEF IInv, TypeOK

\* The fields of a slot.
LEMMA SlotRecord ==
    ASSUME NEW x, NEW kv, NEW blocks, x = [kv |-> kv, blocks |-> blocks]
    PROVE  x.kv = kv /\ x = [kv |-> x.kv, blocks |-> x.blocks]
  OBVIOUS

\* A sequence of one element.
LEMMA OneElement ==
    ASSUME NEW S, NEW e \in S
    PROVE  <<e>> \in Seq(S) /\ Len(<<e>>) = 1 /\ <<e>>[1] = e
  OBVIOUS

\* A forward gives row i the tokens feed[i].
LEMMA AppendFacts ==
    ASSUME IInv, NEW feed, \A i \in 1..Len(slots) : feed[i] \in Seq(Tokens), AppendTokens(feed)
    PROVE  /\ Len(slots') = Len(slots) /\ slots' \in Seq(ToSet(slots'))
           /\ \A i \in 1..Len(slots) :
                 /\ slots'[i].kv = slots[i].kv \o feed[i]
                 /\ slots'[i].kv \in Seq(Tokens)
                 /\ slots'[i] = [kv |-> slots'[i].kv, blocks |-> slots'[i].blocks]
                 /\ Len(slots'[i].kv) = Len(slots[i].kv) + Len(feed[i])
                 /\ \A k \in 1..Len(slots[i].kv) + Len(feed[i]) : slots'[i].kv[k] =
                       IF k <= Len(slots[i].kv) THEN slots[i].kv[k] ELSE feed[i][k - Len(slots[i].kv)]
  <1> DEFINE n == Len(slots)
             b(i) == slots[i].blocks + Demand(feed)[i]
  <1>1. slots' = [i \in 1..n |-> [kv |-> slots[i].kv \o feed[i], blocks |-> b(i)]]
    BY DEF AppendTokens
  <1> HIDE DEF b
  <1>2. n \in Nat /\ \A i \in 1..n : slots[i].kv \in Seq(Tokens)
    BY Queues, SlotFacts
  <1>4. Len(slots') = n /\ slots' \in Seq(ToSet(slots'))
    <2> DEFINE S == {slots'[i] : i \in 1..n}
    <2>1. slots' \in [1..n -> S]
      BY <1>1
    <2> HIDE DEF S, n
    <2>2. slots' \in Seq(S) /\ Len(slots') = n
      BY <1>2, <2>1, FunctionIsSeq
    <2> QED BY <2>2, SeqOverItself
  <1>5. ASSUME NEW i \in 1..n
        PROVE  /\ slots'[i].kv = slots[i].kv \o feed[i]
               /\ slots'[i].kv \in Seq(Tokens)
               /\ slots'[i] = [kv |-> slots'[i].kv, blocks |-> slots'[i].blocks]
               /\ Len(slots'[i].kv) = Len(slots[i].kv) + Len(feed[i])
               /\ \A k \in 1..Len(slots[i].kv) + Len(feed[i]) : slots'[i].kv[k] =
                     IF k <= Len(slots[i].kv) THEN slots[i].kv[k] ELSE feed[i][k - Len(slots[i].kv)]
    <2>1. slots'[i] = [kv |-> slots[i].kv \o feed[i], blocks |-> b(i)]
      BY <1>1
    <2> DEFINE s == slots[i].kv
               f == feed[i]
               t == s \o f
    <2>2. s \in Seq(Tokens) /\ f \in Seq(Tokens)
      BY <1>2
    <2>3. slots'[i].kv = t /\ slots'[i] = [kv |-> slots'[i].kv, blocks |-> slots'[i].blocks]
      <3> DEFINE bl == b(i)
      <3>1. slots'[i] = [kv |-> t, blocks |-> bl]
        BY <2>1
      <3> HIDE DEF t, bl
      <3> QED BY <3>1, SlotRecord
    <2> HIDE DEF s, f
    <2>4. /\ t \in Seq(Tokens) /\ Len(t) = Len(s) + Len(f)
          /\ \A k \in 1..Len(s) + Len(f) : t[k] = IF k <= Len(s) THEN s[k] ELSE f[k - Len(s)]
      BY <2>2, ConcatProperties
    <2> HIDE DEF t
    <2>5. /\ slots'[i].kv \in Seq(Tokens)
          /\ Len(slots'[i].kv) = Len(s) + Len(f)
          /\ \A k \in 1..Len(s) + Len(f) :
                slots'[i].kv[k] = IF k <= Len(s) THEN s[k] ELSE f[k - Len(s)]
      BY <2>3, <2>4
    <2> QED BY <2>3, <2>5 DEF s, f, t
  <1> QED BY <1>4, <1>5

\* A forward that runs out of blocks leaves claimed positions behind what the
\* snapshot bounds.
LEMMA OutOfMemoryKeeps ==
    ASSUME IInv, pc \in {"forward", "async"}, NEW feed,
           \A i \in 1..Len(slots) : feed[i] \in Seq(Tokens), OutOfMemory(feed)
    PROVE  IInv'
  <1> DEFINE n == Len(slots)
             before(k) == TotalOf(SubSeq(Demand(feed), 1, k))
             claim(i) == [k \in 1..Len(feed[i]) |-> Unwritten]
  <1>1. /\ snapshot' = [i \in 1..n |-> Len(slots[i].kv)] /\ pc' = "oom"
        /\ UNCHANGED <<queues, progress, ending, batch_idx, cancel_event, deferred>>
    BY DEF OutOfMemory
  <1>2. PICK j \in 1..n :
           slots' = [i \in 1..n |->
              CASE i < j -> [kv |-> slots[i].kv \o claim(i), blocks |-> slots[i].blocks + Demand(feed)[i]]
                [] i = j -> [slots[i] EXCEPT !.blocks = @ + Available - before(j - 1)]
                [] i > j -> slots[i]]
    BY DEF OutOfMemory, AppendFails
  <1> HIDE DEF before
  <1>3. n \in Nat /\ pc # "oom"
    BY Queues
  <1>4. \A i \in 1..n : /\ slots[i].kv \in Seq(Tokens) /\ Len(slots[i].kv) \in Nat
                        /\ slots[i] = [kv |-> slots[i].kv, blocks |-> slots[i].blocks]
    BY SlotFacts
  <1>5. ASSUME NEW i \in 1..n
        PROVE  /\ slots'[i].kv \in Seq(Tokens) /\ Len(slots'[i].kv) \in Nat
               /\ slots'[i] = [kv |-> slots'[i].kv, blocks |-> slots'[i].blocks]
               /\ Len(slots[i].kv) <= Len(slots'[i].kv)
               /\ \A k \in 1..Len(slots[i].kv) : slots'[i].kv[k] = slots[i].kv[k]
    <2>1. CASE i < j
      <3>1. slots'[i] = [kv |-> slots[i].kv \o claim(i), blocks |-> slots[i].blocks + Demand(feed)[i]]
        BY <1>2, <1>3, <2>1
      <3> DEFINE kv == slots[i].kv
                 c == claim(i)
                 t == kv \o c
      <3>2. Len(feed[i]) \in Nat /\ Unwritten \in Tokens
        BY LenProperties DEF Unwritten, Tokens, TokenOf
      <3>3. c \in Seq(Tokens) /\ kv \in Seq(Tokens)
        <4>1. c \in [1..Len(feed[i]) -> Tokens]
          BY <3>2
        <4> HIDE DEF c
        <4> QED BY <1>4, <3>2, <4>1, FunctionIsSeq
      <3>4. slots'[i].kv = t /\ slots'[i] = [kv |-> slots'[i].kv, blocks |-> slots'[i].blocks]
        BY <3>1
      <3> HIDE DEF kv, c
      <3>5. /\ t \in Seq(Tokens) /\ Len(t) = Len(kv) + Len(c) /\ Len(kv) \in Nat /\ Len(c) \in Nat
            /\ \A k \in 1..Len(kv) + Len(c) : t[k] = IF k <= Len(kv) THEN kv[k] ELSE c[k - Len(kv)]
        BY <3>3, ConcatProperties, LenProperties
      <3> HIDE DEF t
      <3>6. /\ Len(t) \in Nat /\ Len(kv) <= Len(t)
            /\ \A k \in 1..Len(kv) : t[k] = kv[k]
        BY <3>5
      <3> QED BY <3>4, <3>5, <3>6 DEF kv
    <2>2. CASE i = j
      <3>1. slots'[i] = [slots[i] EXCEPT !.blocks = @ + Available - before(j - 1)]
        BY <1>2, <1>3, <2>2
      <3>2. slots'[i] = [kv |-> slots[i].kv, blocks |-> slots[i].blocks + Available - before(j - 1)]
        BY <1>4, <3>1
      <3>3. slots'[i].kv = slots[i].kv
            /\ slots'[i] = [kv |-> slots'[i].kv, blocks |-> slots'[i].blocks]
        BY <3>2, SlotRecord
      <3> DEFINE kv == slots[i].kv
      <3>4. kv \in Seq(Tokens) /\ Len(kv) \in Nat /\ slots'[i].kv = kv
        BY <1>4, <3>3
      <3> HIDE DEF kv
      <3>5. Len(kv) <= Len(slots'[i].kv) /\ \A k \in 1..Len(kv) : slots'[i].kv[k] = kv[k]
        BY <3>4
      <3> QED BY <3>3, <3>4, <3>5 DEF kv
    <2>3. CASE i > j
      <3>1. slots'[i] = slots[i]
        BY <1>2, <1>3, <2>3
      <3> QED BY <1>4, <3>1
    <2> QED BY <1>3, <2>1, <2>2, <2>3
  <1>6. Len(slots') = n /\ slots' \in Seq(ToSet(slots'))
    <2> DEFINE S == {slots'[i] : i \in 1..n}
    <2>1. slots' \in [1..n -> S]
      BY <1>2
    <2> HIDE DEF S, n
    <2>2. slots' \in Seq(S) /\ Len(slots') = n
      BY <1>3, <2>1, FunctionIsSeq
    <2> QED BY <2>2, SeqOverItself
  <1>7. TypeOK'
    BY <1>1, <1>5, <1>6 DEF IInv, TypeOK, queues, progress, ending
  <1>8. QueueInv' /\ RowsInv'
    BY <1>1, <1>6 DEF IInv, QueueInv, RowsInv, InFlight, queues, ending
  <1>9. RequestInv' /\ TokenInv'
    BY <1>1 DEF IInv, RequestInv, TokenInv, InFlight, Prefilling, Decoding, progress, ending
  <1>10. PhaseInv'
    BY <1>1, <1>4, <1>5, <1>6 DEF PhaseInv
  <1>11. EveryTokenOnce'
    BY <1>1 DEF IInv, EveryTokenOnce, progress
  <1>12. SlotHoldsItsRequest'
    <2> SUFFICES ASSUME NEW r \in Request, InFlight(r)'
                 PROVE  LET kv == slots'[batch_idx[r]].kv
                            l == snapshot'[batch_idx[r]]
                        IN /\ \A i \in 1..l : kv[i] = TokenOf(r, i, FALSE)
                           /\ l = IF Prefilling(r)' THEN tokens_prefilled[r]
                                  ELSE PromptLen[r] + Len(tokens_generated[r])
                                         - (IF pending[r] = None THEN 0 ELSE 1)
      BY <1>1 DEF SlotHoldsItsRequest, progress
    <2>1. InFlight(r) /\ state' = state
      BY <1>1 DEF InFlight, ending
    <2>2. batch_idx[r] \in 1..n
      BY <2>1, Queues
    <2> DEFINE b == batch_idx[r]
    <2>3. snapshot'[b] = Len(slots[b].kv) /\ \A k \in 1..Len(slots[b].kv) : slots'[b].kv[k] = slots[b].kv[k]
      BY <1>1, <1>5, <2>2
    <2> QED BY <1>3, <2>1, <2>3 DEF IInv, SlotHoldsItsRequest, Prefilling
  <1> QED BY <1>7, <1>8, <1>9, <1>10, <1>11, <1>12 DEF IInv

\* What a request contributes to a packed forward continues its slot.
LEMMA FeedFacts ==
    ASSUME IInv, pc = "forward", NEW r \in ToSet(Alive)
    PROVE  /\ r \in Request /\ InFlight(r) /\ batch_idx[r] \in 1..Len(slots)
           /\ Feed(r) \in Seq(Tokens) /\ Len(Feed(r)) \in Nat \ {0}
           /\ \A k \in 1..Len(Feed(r)) :
                 Feed(r)[k] = TokenOf(r, Len(slots[batch_idx[r]].kv) + k, FALSE)
           /\ Prefilling(r) => tokens_prefilled[r] + Len(Feed(r)) <= PromptLen[r]
           /\ Decoding(r) => /\ Len(Feed(r)) = 1
                             /\ Len(slots[batch_idx[r]].kv) + 1 = PromptLen[r] + Len(tokens_generated[r])
  <1> DEFINE l == Len(slots[batch_idx[r]].kv)
             m == Len(tokens_generated[r])
  <1>1. TypeOK /\ QueueInv /\ RowsInv /\ Finished = {}
    BY DEF IInv, PhaseInv
  <1>2. r \in ToSet(running)
    BY <1>1, AliveRows
  <1>3. r \in Request /\ state[r] \notin {"new", "waiting", "done"}
    BY <1>1, <1>2, Queues DEF Finished
  <1>4. InFlight(r)
    BY <1>3 DEF IInv, TypeOK, InFlight
  <1>5. batch_idx[r] \in 1..Len(slots)
    BY <1>3, <1>4, Queues
  <1>6. /\ PromptLen[r] \in Nat /\ tokens_prefilled[r] \in Nat /\ m \in Nat /\ l \in Nat
        /\ ChunkSize \in Nat \ {0}
    <2>1. tokens_generated[r] \in Seq(Tokens)
      BY <1>3 DEF IInv, TypeOK
    <2> QED BY <1>3, <1>5, <2>1, SlotFacts, SchedulerAssumption, LenProperties DEF IInv, TypeOK
  <1>7. l = IF Prefilling(r) THEN tokens_prefilled[r]
            ELSE PromptLen[r] + m - (IF pending[r] = None THEN 0 ELSE 1)
    BY <1>3, <1>4 DEF IInv, SlotHoldsItsRequest
  <1>8. CASE Prefilling(r)
    <2> DEFINE room == PromptLen[r] - tokens_prefilled[r]
               c == IF room < ChunkSize THEN room ELSE ChunkSize
    <2>1. tokens_prefilled[r] < PromptLen[r]
      BY <1>3, <1>8 DEF IInv, RequestInv
    <2>2. c \in Nat \ {0} /\ tokens_prefilled[r] + c <= PromptLen[r]
      BY <1>6, <2>1
    <2>3. Feed(r) = [k \in 1..c |-> TokenOf(r, tokens_prefilled[r] + k, FALSE)]
      BY <1>8 DEF Feed, Chunk
    <2> HIDE DEF c
    <2>4. \A k \in 1..c : TokenOf(r, tokens_prefilled[r] + k, FALSE) \in Tokens
      BY <1>3, <1>6, <2>2 DEF TokenOf, Tokens
    <2>5. Feed(r) \in [1..c -> Tokens]
      BY <2>3, <2>4
    <2>6. Feed(r) \in Seq(Tokens) /\ Len(Feed(r)) = c
      BY <2>2, <2>5, FunctionIsSeq
    <2>7. ~Decoding(r) /\ l = tokens_prefilled[r]
      BY <1>7, <1>8 DEF Prefilling, Decoding
    <2> HIDE DEF l
    <2>8. \A k \in 1..c : Feed(r)[k] = TokenOf(r, l + k, FALSE)
      BY <2>3, <2>7
    <2> QED BY <1>3, <1>4, <1>5, <2>2, <2>6, <2>7, <2>8 DEF l
  <1>9. CASE ~Prefilling(r)
    <2>1. Decoding(r)
      BY <1>4, <1>9 DEF InFlight, Prefilling, Decoding
    <2>2. pending[r] # None
      BY <1>3, <2>1 DEF IInv, PhaseInv
    <2>3. pending[r] = TokenOf(r, PromptLen[r] + m, FALSE) /\ pending[r] \in Tokens
      <3>1. TokenInv
        BY DEF IInv
      <3>2. pending[r] = TokenOf(r, PromptLen[r] + m, FALSE)
        BY <1>3, <2>1, <2>2, <3>1 DEF TokenInv
      <3>3. pending[r] \in Tokens
        BY <1>1, <1>3, <2>2 DEF TypeOK
      <3> QED BY <3>2, <3>3
    <2>4. l = PromptLen[r] + m - 1
      BY <1>7, <1>9, <2>2
    <2>5. PromptLen[r] + m = l + 1
      BY <1>6, <2>4
    <2>6. Feed(r) = <<pending[r]>>
      BY <1>9 DEF Feed
    <2> DEFINE t == pending[r]
    <2> HIDE DEF l, m, t
    <2>7. <<t>> \in Seq(Tokens) /\ Len(<<t>>) = 1 /\ <<t>>[1] = t
      <3>1. t \in Tokens
        BY <2>3 DEF t
      <3> QED BY <3>1, OneElement
    <2>8. Feed(r) \in Seq(Tokens) /\ Len(Feed(r)) = 1 /\ Feed(r)[1] = TokenOf(r, l + 1, FALSE)
      BY <2>3, <2>5, <2>6, <2>7 DEF t
    <2>9. \A k \in 1..1 : k = 1
      OBVIOUS
    <2>10. \A k \in 1..Len(Feed(r)) : Feed(r)[k] = TokenOf(r, l + k, FALSE)
      BY <2>8, <2>9
    <2>11. Len(Feed(r)) = 1 /\ l + 1 = PromptLen[r] + m
      BY <2>5, <2>8
    <2>12. Len(Feed(r)) \in Nat \ {0}
      BY <2>11
    <2> QED BY <1>3, <1>4, <1>5, <1>9, <2>8, <2>10, <2>11, <2>12 DEF l, m
  <1> QED BY <1>8, <1>9

\* Row i of the packed forward is fed by the request of row i.
LEMMA PackedFacts ==
    ASSUME IInv, pc = "forward"
    PROVE  /\ \A i \in 1..Len(slots) : Packed[i] \in Seq(Tokens)
           /\ \A r \in ToSet(Alive) : Packed[batch_idx[r]] = Feed(r)
  <1>1. TypeOK /\ QueueInv /\ RowsInv /\ Finished = {}
    BY DEF IInv, PhaseInv
  <1>2. /\ Len(Alive) = Len(slots) /\ ToSet(Alive) = ToSet(running)
        /\ \A r \in ToSet(running) : batch_idx[r] \in 1..Len(slots) /\ Alive[batch_idx[r]] = r
        /\ \A k \in 1..Len(slots) : Alive[k] \in ToSet(running)
    BY <1>1, AliveRows
  <1>3. \A i \in 1..Len(slots) : Packed[i] = Feed(Alive[i])
    BY <1>2 DEF Packed
  <1>4. \A i \in 1..Len(slots) : Packed[i] \in Seq(Tokens)
    BY <1>2, <1>3, FeedFacts
  <1> QED BY <1>2, <1>3, <1>4

\* A packed forward that runs out of blocks.
LEMMA ForwardFailsKeeps ==
    ASSUME IInv, ForwardFails
    PROVE  IInv'
  BY PackedFacts, OutOfMemoryKeeps DEF ForwardFails

\* A packed forward extends each slot with its own request's text.
LEMMA ForwardKeeps ==
    ASSUME IInv, Forward
    PROVE  IInv'
  <1> DEFINE batch == ToSet(Alive)
             filled(r) == tokens_prefilled[r] + Len(Feed(r))
             decoders == {r \in batch : Decoding(r) \/ filled(r) = PromptLen[r]}
             row(r) == Last(Feed(r))
             b(r) == batch_idx[r]
             m(r) == Len(tokens_generated[r])
             l(r) == Len(slots[b(r)].kv)
  <1>1. /\ pc = "forward" /\ pc' = "idle" /\ AppendTokens(Packed)
        /\ UNCHANGED <<queues, tokens_generated, finish_reason, terminals, batch_idx, snapshot,
                   cancel_event>>
    BY DEF Forward
  <1>2. /\ tokens_prefilled' = [r \in Request |->
              IF r \in batch /\ Prefilling(r) THEN filled(r) ELSE tokens_prefilled[r]]
        /\ state' = [r \in Request |->
              CASE r \in decoders -> "decoding"
                [] r \in batch \ decoders -> "chunked_prefilling"
                [] OTHER -> state[r]]
        /\ last_logits' = [r \in Request |-> IF r \in decoders THEN row(r) ELSE last_logits[r]]
        /\ pending' = [r \in Request |-> IF r \in batch THEN None ELSE pending[r]]
    BY DEF Forward
  <1>3. PICK ends \in SUBSET decoders :
           deferred' = IF AsyncSampling /\ decoders # {}
                       THEN [r \in decoders |-> TokenOf(row(r).req, row(r).pos + 1, r \in ends)]
                       ELSE None
    BY DEF Forward
  <1>4. /\ TypeOK /\ QueueInv /\ RowsInv /\ Finished = {}
        /\ ToSet(Alive) = ToSet(running)
    BY <1>1, AliveRows DEF IInv, PhaseInv
  <1>5. \A r \in batch :
           /\ r \in Request /\ InFlight(r) /\ b(r) \in 1..Len(slots)
           /\ Feed(r) \in Seq(Tokens) /\ Len(Feed(r)) \in Nat \ {0}
           /\ \A k \in 1..Len(Feed(r)) : Feed(r)[k] = TokenOf(r, l(r) + k, FALSE)
           /\ Prefilling(r) => filled(r) <= PromptLen[r]
           /\ Decoding(r) => Len(Feed(r)) = 1 /\ l(r) + 1 = PromptLen[r] + m(r)
    BY <1>1, FeedFacts
  <1>6. \A r \in Request : InFlight(r) <=> r \in batch
    BY <1>4, <1>5, Queues
  <1>7. \A r \in batch : l(r) \in Nat
    BY <1>5, SlotFacts
  <1>8. \A r \in Request : /\ PromptLen[r] \in Nat /\ tokens_prefilled[r] \in Nat /\ m(r) \in Nat
                           /\ MaxTokens[r] \in Nat \ {0}
    <2>1. \A r \in Request : tokens_generated[r] \in Seq(Tokens)
      BY DEF IInv, TypeOK
    <2> QED BY <2>1, SchedulerAssumption, LenProperties DEF IInv, TypeOK
  <1>9. \A r \in batch : /\ row(r) = TokenOf(r, l(r) + Len(Feed(r)), FALSE)
                         /\ row(r) \in Tokens /\ l(r) + Len(Feed(r)) \in Nat
    <2> TAKE r \in batch
    <2> DEFINE c == Len(Feed(r))
               t == l(r)
    <2>1. c \in Nat \ {0} /\ t \in Nat /\ r \in Request
      BY <1>5, <1>7
    <2>2. \A k \in 1..c : Feed(r)[k] = TokenOf(r, t + k, FALSE)
      BY <1>5
    <2>3. row(r) = Feed(r)[c]
      BY DEF Last
    <2> HIDE DEF c, t, row
    <2>4. row(r) = TokenOf(r, t + c, FALSE) /\ t + c \in Nat
      <3>1. c \in 1..c /\ t + c \in Nat
        BY <2>1
      <3>2. Feed(r)[c] = TokenOf(r, t + c, FALSE)
        BY <2>2, <3>1
      <3> QED BY <2>3, <3>1, <3>2
    <2>5. row(r) \in Tokens
      BY <2>1, <2>4 DEF Tokens, TokenOf
    <2> QED BY <2>4, <2>5 DEF c, t
  <1>10. \A r \in batch : l(r) = IF Prefilling(r) THEN tokens_prefilled[r]
                                 ELSE PromptLen[r] + m(r) - (IF pending[r] = None THEN 0 ELSE 1)
    BY <1>1, <1>5 DEF IInv, SlotHoldsItsRequest
  <1>11. \A r \in Request : Prefilling(r) => m(r) = 0 /\ tokens_generated[r] = <<>>
    <2>1. Len(<<>>) = 0
      OBVIOUS
    <2> QED BY <2>1 DEF IInv, RequestInv, Prefilling, Decoding
  \* What the step does to one request of the batch.
  <1>12. ASSUME NEW r \in batch
         PROVE  /\ pending'[r] = None
                /\ \/ /\ r \in decoders /\ state'[r] = "decoding" /\ last_logits'[r] = row(r)
                      /\ l(r) + Len(Feed(r)) = PromptLen[r] + m(r)
                   \/ /\ r \notin decoders /\ state'[r] = "chunked_prefilling"
                      /\ tokens_prefilled'[r] < PromptLen[r] /\ Prefilling(r)
                      /\ l(r) + Len(Feed(r)) = tokens_prefilled'[r]
    <2>1. /\ r \in Request /\ pending'[r] = None
          /\ Prefilling(r) \/ Decoding(r)
      BY <1>2, <1>5 DEF InFlight, Prefilling, Decoding
    <2>2. CASE Decoding(r)
      BY <1>2, <1>5, <2>1, <2>2
    <2>3. CASE Prefilling(r)
      <3>1. /\ ~Decoding(r) /\ l(r) = tokens_prefilled[r] /\ m(r) = 0
            /\ filled(r) <= PromptLen[r] /\ tokens_prefilled'[r] = filled(r)
        BY <1>2, <1>5, <1>10, <1>11, <2>1, <2>3 DEF Prefilling, Decoding
      <3>2. Len(Feed(r)) \in Nat /\ tokens_prefilled[r] \in Nat /\ PromptLen[r] \in Nat
        BY <1>5, <1>8, <2>1
      <3>3. CASE filled(r) = PromptLen[r]
        BY <1>2, <2>1, <3>1, <3>2, <3>3
      <3>4. CASE filled(r) # PromptLen[r]
        BY <1>2, <2>1, <2>3, <3>1, <3>2, <3>4
      <3> QED BY <3>3, <3>4
    <2> QED BY <2>1, <2>2, <2>3
  <1>13. \A r \in Request \ batch : /\ state'[r] = state[r] /\ pending'[r] = pending[r]
                                    /\ last_logits'[r] = last_logits[r]
                                    /\ tokens_prefilled'[r] = tokens_prefilled[r]
    BY <1>2
  <1>14. decoders \subseteq batch /\ batch \subseteq Request
    BY <1>5
  <1>15. /\ state' \in [Request -> {"new", "waiting", "prefilling", "chunked_prefilling",
                              "decoding", "done"}]
         /\ tokens_prefilled' \in [Request -> Nat]
         /\ pending' \in [Request -> Tokens \cup {None}]
         /\ last_logits' \in [Request -> Tokens \cup {None}]
    <2>1. \A r \in batch : filled(r) \in Nat
      <3> TAKE r \in batch
      <3>1. tokens_prefilled[r] \in Nat /\ Len(Feed(r)) \in Nat
        BY <1>5, <1>8
      <3> QED BY <3>1
    <2>2. \A r \in decoders : row(r) \in Tokens
      BY <1>9
    <2>3. tokens_prefilled' \in [Request -> Nat]
      BY <1>2, <1>8, <2>1
    <2> HIDE DEF decoders, batch, filled, row
    <2> QED BY <1>2, <2>2, <2>3 DEF IInv, TypeOK
  <1>16. deferred' # None =>
            /\ DOMAIN deferred' = decoders
            /\ \A r \in decoders : /\ deferred'[r] = TokenOf(r, l(r) + Len(Feed(r)) + 1, r \in ends)
                                   /\ deferred'[r] \in Tokens
            /\ deferred' \in [decoders -> Tokens]
    <2> HAVE deferred' # None
    <2>1. deferred' = [r \in decoders |-> TokenOf(row(r).req, row(r).pos + 1, r \in ends)]
      BY <1>3
    <2>2. \A r \in decoders : row(r).req = r /\ row(r).pos = l(r) + Len(Feed(r))
      BY <1>9 DEF TokenOf
    <2>3. \A r \in decoders : l(r) + Len(Feed(r)) + 1 \in Nat /\ r \in Request
      BY <1>9, <1>14
    <2>4. \A r \in decoders : /\ deferred'[r] = TokenOf(r, l(r) + Len(Feed(r)) + 1, r \in ends)
                              /\ (r \in ends) \in BOOLEAN
      BY <2>1, <2>2
    <2>5. \A r \in decoders : deferred'[r] \in Tokens
      <3> TAKE r \in decoders
      <3> DEFINE p == l(r) + Len(Feed(r)) + 1
                 e == r \in ends
      <3>1. p \in Nat /\ r \in Request /\ e \in BOOLEAN /\ deferred'[r] = TokenOf(r, p, e)
        BY <2>3, <2>4
      <3> HIDE DEF p, e
      <3> QED BY <3>1 DEF TokenOf, Tokens
    <2>6. DOMAIN deferred' = decoders /\ deferred' = [r \in decoders |-> deferred'[r]]
      BY <2>1
    <2> HIDE DEF decoders, l
    <2>7. deferred' \in [decoders -> Tokens]
      BY <2>5, <2>6
    <2> QED BY <2>4, <2>5, <2>6, <2>7
  <1>17. /\ Len(slots') = Len(slots) /\ slots' \in Seq(ToSet(slots'))
         /\ \A i \in 1..Len(slots) :
                 /\ slots'[i].kv = slots[i].kv \o Packed[i]
                 /\ slots'[i].kv \in Seq(Tokens)
                 /\ slots'[i] = [kv |-> slots'[i].kv, blocks |-> slots'[i].blocks]
                 /\ Len(slots'[i].kv) = Len(slots[i].kv) + Len(Packed[i])
                 /\ \A k \in 1..Len(slots[i].kv) + Len(Packed[i]) : slots'[i].kv[k] =
                       IF k <= Len(slots[i].kv) THEN slots[i].kv[k] ELSE Packed[i][k - Len(slots[i].kv)]
    <2>1. AppendTokens(Packed) /\ \A i \in 1..Len(slots) : Packed[i] \in Seq(Tokens)
      BY <1>1, PackedFacts
    <2> HIDE DEF l, batch, decoders, filled, row, m
    <2> QED BY <2>1, AppendFacts
  <1>18. \A r \in batch :
            /\ Len(slots'[b(r)].kv) = l(r) + Len(Feed(r))
            /\ \A k \in 1..l(r) + Len(Feed(r)) : slots'[b(r)].kv[k] = TokenOf(r, k, FALSE)
    <2> TAKE r \in batch
    <2> DEFINE t == l(r)
               c == Len(Feed(r))
               kv == slots[b(r)].kv
               new == slots'[b(r)].kv
    <2>1. Packed[b(r)] = Feed(r) /\ b(r) \in 1..Len(slots) /\ t \in Nat /\ c \in Nat
      BY <1>1, <1>5, <1>7, PackedFacts
    <2>2. Len(new) = t + c
          /\ \A k \in 1..t + c : new[k] = IF k <= t THEN kv[k] ELSE Feed(r)[k - t]
      <3> DEFINE i == b(r)
      <3>1. /\ Len(slots'[i].kv) = Len(slots[i].kv) + Len(Packed[i])
            /\ \A k \in 1..Len(slots[i].kv) + Len(Packed[i]) : slots'[i].kv[k] =
                 IF k <= Len(slots[i].kv) THEN slots[i].kv[k] ELSE Packed[i][k - Len(slots[i].kv)]
        BY <1>17, <2>1
      <3>2. Packed[i] = Feed(r)
        BY <2>1
      <3> QED BY <3>1, <3>2
    <2>3. \A k \in 1..t : kv[k] = TokenOf(r, k, FALSE)
      BY <1>1, <1>5 DEF IInv, SlotHoldsItsRequest
    <2>4. \A k \in 1..c : Feed(r)[k] = TokenOf(r, t + k, FALSE)
      BY <1>5
    <2> HIDE DEF t, c, kv, new
    <2>5. \A k \in 1..t + c : new[k] = TokenOf(r, k, FALSE)
      <3> TAKE k \in 1..t + c
      <3>1. CASE k <= t
        <4>1. k \in 1..t
          BY <2>1, <3>1
        <4> QED BY <2>2, <2>3, <3>1, <4>1
      <3>2. CASE ~(k <= t)
        <4>1. k - t \in 1..c /\ t + (k - t) = k
          BY <2>1, <3>2
        <4> QED BY <2>1, <2>2, <2>4, <3>2, <4>1
      <3> QED BY <3>1, <3>2
    <2> QED BY <2>2, <2>5 DEF t, c, new
  <1> HIDE DEF batch, filled, decoders, row, l
  <1>19. TypeOK'
    <2>1. deferred' # None =>
             DOMAIN deferred' \subseteq Request /\ deferred' \in [DOMAIN deferred' -> Tokens]
      BY <1>14, <1>16
    <2> QED BY <1>1, <1>15, <1>17, <2>1 DEF IInv, TypeOK, queues
  <1>20. /\ \A r \in Request : InFlight(r)' <=> InFlight(r)
         /\ \A r \in Request \ batch : ~InFlight(r)'
         /\ \A r \in Request \ batch : Prefilling(r)' = Prefilling(r) /\ Decoding(r)' = Decoding(r)
    BY <1>6, <1>12, <1>13 DEF InFlight, Prefilling, Decoding
  <1>21. QueueInv' /\ RowsInv'
    <2>1. \A i \in 1..Len(waiting) : state'[waiting[i]] = "waiting"
      <3> TAKE i \in 1..Len(waiting)
      <3>1. waiting[i] \in Request /\ state[waiting[i]] = "waiting"
        BY Queues DEF IInv, QueueInv
      <3> QED BY <3>1, <1>6, <1>13 DEF InFlight
    <2>2. \A i \in 1..Len(running) : state'[running[i]] \notin {"new", "waiting"}
      <3> TAKE i \in 1..Len(running)
      <3>1. running[i] \in Request /\ state[running[i]] \notin {"new", "waiting"}
        BY Queues DEF IInv, QueueInv
      <3> QED BY <3>1, <1>12, <1>13
    <2>3. RowsInv'
      BY <1>1, <1>17 DEF IInv, RowsInv, queues
    <2> QED BY <1>1, <1>20, <2>1, <2>2, <2>3 DEF IInv, QueueInv, queues
  <1>22. RequestInv'
    <2> SUFFICES ASSUME NEW r \in Request
                 PROVE  /\ ~Decoding(r)' /\ state'[r] # "done" =>
                               tokens_generated'[r] = <<>> /\ pending'[r] = None
                        /\ state'[r] \in {"new", "waiting"} => tokens_prefilled'[r] = 0 /\ batch_idx'[r] = None
                        /\ Prefilling(r)' => tokens_prefilled'[r] < PromptLen[r]
                        /\ InFlight(r)' => Len(tokens_generated'[r]) < MaxTokens[r]
                        /\ terminals'[r] = IF state'[r] = "done" THEN 1 ELSE 0
      BY DEF RequestInv
    <2>1. CASE r \notin batch
      BY <1>1, <1>13, <2>1 DEF IInv, RequestInv, InFlight, Prefilling, Decoding
    <2>2. CASE r \in batch
      <3>1. InFlight(r) /\ state[r] # "done"
        BY <1>6, <2>2 DEF InFlight
      <3>2. terminals'[r] = 0 /\ Len(tokens_generated'[r]) < MaxTokens[r]
        BY <1>1, <3>1 DEF IInv, RequestInv
      <3> QED BY <1>1, <1>11, <1>12, <2>2, <3>2 DEF Prefilling, Decoding
    <2> QED BY <2>1, <2>2
  <1>23. TokenInv'
    <2> SUFFICES ASSUME NEW r \in Request, Decoding(r)'
                 PROVE  /\ pending'[r] = None
                        /\ last_logits'[r].req = r
                        /\ last_logits'[r].pos = PromptLen[r] + Len(tokens_generated'[r])
                        /\ deferred' # None /\ r \in DOMAIN deferred' =>
                              /\ deferred'[r].req = r
                              /\ deferred'[r].pos = PromptLen[r] + Len(tokens_generated'[r]) + 1
      BY DEF TokenInv
    <2>1. r \in batch
      BY <1>20 DEF InFlight, Decoding
    <2>2. /\ r \in decoders /\ last_logits'[r] = row(r) /\ pending'[r] = None
          /\ l(r) + Len(Feed(r)) = PromptLen[r] + m(r)
      BY <1>12, <2>1 DEF Decoding
    <2>3. row(r) = TokenOf(r, PromptLen[r] + m(r), FALSE)
      BY <1>9, <2>1, <2>2
    <2>4. deferred' # None => deferred'[r] = TokenOf(r, PromptLen[r] + m(r) + 1, r \in ends)
      BY <1>16, <2>2
    <2> QED BY <1>1, <2>2, <2>3, <2>4 DEF TokenOf
  <1>24. PhaseInv'
    BY <1>1 DEF PhaseInv
  <1>25. EveryTokenOnce'
    BY <1>1 DEF IInv, EveryTokenOnce
  <1>26. SlotHoldsItsRequest'
    <2> SUFFICES ASSUME NEW r \in Request, InFlight(r)'
                 PROVE  LET kv == slots'[b(r)].kv
                            n == Len(kv)
                        IN /\ \A i \in 1..n : kv[i] = TokenOf(r, i, FALSE)
                           /\ n = IF Prefilling(r)' THEN tokens_prefilled'[r]
                                  ELSE PromptLen[r] + m(r) - (IF pending'[r] = None THEN 0 ELSE 1)
      BY <1>1 DEF SlotHoldsItsRequest
    <2>1. r \in batch
      BY <1>20
    <2>2. /\ Len(slots'[b(r)].kv) = l(r) + Len(Feed(r))
          /\ \A k \in 1..l(r) + Len(Feed(r)) : slots'[b(r)].kv[k] = TokenOf(r, k, FALSE)
      BY <1>18, <2>1
    <2>3. l(r) + Len(Feed(r)) = IF Prefilling(r)' THEN tokens_prefilled'[r] ELSE PromptLen[r] + m(r)
      BY <1>12, <2>1 DEF Prefilling
    <2>4. PromptLen[r] + m(r) - 0 = PromptLen[r] + m(r) /\ pending'[r] = None
      BY <1>8, <1>12, <2>1
    <2> HIDE DEF m, b
    <2> QED BY <2>2, <2>3, <2>4
  <1> QED BY <1>19, <1>21, <1>22, <1>23, <1>24, <1>25, <1>26 DEF IInv

\* In a step that runs ahead every row is a decoder with its token on the device.
LEMMA AsyncFacts ==
    ASSUME IInv, pc = "async"
    PROVE  /\ deferred # None /\ DOMAIN deferred \subseteq Request
           /\ ToSet(Alive) = ToSet(running)
           /\ \A r \in Request : InFlight(r) <=> r \in ToSet(running)
           /\ \A r \in ToSet(running) :
                 /\ r \in Request /\ Decoding(r) /\ pending[r] = None
                 /\ r \in DOMAIN deferred /\ deferred[r] \in Tokens
                 /\ deferred[r].req = r
                 /\ deferred[r].pos = PromptLen[r] + Len(tokens_generated[r]) + 1
                 /\ batch_idx[r] \in 1..Len(slots)
                 /\ AsyncFeed[batch_idx[r]] = <<deferred[r]>>
                 /\ Len(slots[batch_idx[r]].kv) = PromptLen[r] + Len(tokens_generated[r])
                 /\ \A k \in 1..Len(slots[batch_idx[r]].kv) :
                       slots[batch_idx[r]].kv[k] = TokenOf(r, k, FALSE)
           /\ \A i \in 1..Len(slots) : AsyncFeed[i] \in Seq(Tokens)
           /\ ReadNow = ToSet(running)
  <1>1. /\ TypeOK /\ QueueInv /\ RowsInv /\ Finished = {} /\ deferred # None
        /\ \A r \in ToSet(running) : Decoding(r) /\ pending[r] = None /\ r \in DOMAIN deferred
    BY DEF IInv, PhaseInv
  <1>2. /\ Len(Alive) = Len(slots) /\ ToSet(Alive) = ToSet(running)
        /\ \A r \in ToSet(running) : batch_idx[r] \in 1..Len(slots) /\ Alive[batch_idx[r]] = r
        /\ \A k \in 1..Len(slots) : Alive[k] \in ToSet(running)
    BY <1>1, AliveRows
  <1>3. DOMAIN deferred \subseteq Request /\ deferred \in [DOMAIN deferred -> Tokens]
    BY <1>1 DEF TypeOK
  <1>4. /\ ToSet(running) \subseteq Request
        /\ \A r \in Request : InFlight(r) <=> r \in ToSet(running)
    BY <1>1, Queues DEF InFlight, Decoding
  <1>5. \A i \in 1..Len(slots) : AsyncFeed[i] = <<deferred[Alive[i]]>>
    BY <1>2 DEF AsyncFeed
  <1>6. \A r \in ToSet(running) : deferred[r] \in Tokens
    BY <1>1, <1>3
  <1>7. \A i \in 1..Len(slots) : AsyncFeed[i] \in Seq(Tokens)
    <2> TAKE i \in 1..Len(slots)
    <2> DEFINE e == deferred[Alive[i]]
    <2>1. e \in Tokens
      BY <1>2, <1>6
    <2> HIDE DEF e
    <2>2. <<e>> \in Seq(Tokens)
      BY <2>1, OneElement
    <2> QED BY <1>5, <2>2 DEF e
  <1>8. ASSUME NEW r \in ToSet(running)
        PROVE  /\ deferred[r].req = r
               /\ deferred[r].pos = PromptLen[r] + Len(tokens_generated[r]) + 1
               /\ AsyncFeed[batch_idx[r]] = <<deferred[r]>>
               /\ Len(slots[batch_idx[r]].kv) = PromptLen[r] + Len(tokens_generated[r])
               /\ \A k \in 1..Len(slots[batch_idx[r]].kv) :
                     slots[batch_idx[r]].kv[k] = TokenOf(r, k, FALSE)
    <2>1. r \in Request /\ InFlight(r) /\ Decoding(r) /\ ~Prefilling(r) /\ pending[r] = None
      BY <1>1, <1>4 DEF Prefilling, Decoding
    <2>2. /\ deferred[r].req = r
          /\ deferred[r].pos = PromptLen[r] + Len(tokens_generated[r]) + 1
      BY <1>1, <2>1 DEF IInv, TokenInv
    <2>3. AsyncFeed[batch_idx[r]] = <<deferred[r]>>
      BY <1>2, <1>5
    <2>4. /\ \A k \in 1..Len(slots[batch_idx[r]].kv) :
                slots[batch_idx[r]].kv[k] = TokenOf(r, k, FALSE)
          /\ Len(slots[batch_idx[r]].kv) = PromptLen[r] + Len(tokens_generated[r]) - 0
      BY <2>1 DEF IInv, SlotHoldsItsRequest
    <2>5. PromptLen[r] \in Nat /\ Len(tokens_generated[r]) \in Nat
      <3>1. tokens_generated[r] \in Seq(Tokens)
        BY <1>1, <2>1 DEF TypeOK
      <3> QED BY <2>1, <3>1, LenProperties, SchedulerAssumption
    <2>6. PromptLen[r] + Len(tokens_generated[r]) - 0 = PromptLen[r] + Len(tokens_generated[r])
      BY <2>5
    <2> QED BY <2>2, <2>3, <2>4, <2>6
  <1>9. ReadNow = ToSet(running)
    <2>1. \A r \in ReadNow : r \in ToSet(running)
      BY <1>3, <1>4 DEF ReadNow, InFlight, Decoding
    <2>2. \A r \in ToSet(running) : r \in ReadNow
      BY <1>1 DEF ReadNow
    <2> QED BY <2>1, <2>2
  <1> QED BY <1>1, <1>2, <1>3, <1>4, <1>6, <1>7, <1>8, <1>9

\* A step that runs ahead and runs out of blocks.
LEMMA AsyncForwardFailsKeeps ==
    ASSUME IInv, AsyncForwardFails
    PROVE  IInv'
  BY AsyncFacts, OutOfMemoryKeeps DEF AsyncForwardFails

\* A step that runs ahead feeds each row its own token and emits it.
LEMMA AsyncForwardKeeps ==
    ASSUME IInv, AsyncForward
    PROVE  IInv'
  <1> DEFINE batch == ToSet(running)
             m(r) == Len(tokens_generated[r])
             l(r) == Len(slots[batch_idx[r]].kv)
  <1>1. /\ pc = "async" /\ pc' = "idle" /\ AppendTokens(AsyncFeed)
        /\ UNCHANGED <<queues, tokens_prefilled, pending, batch_idx, snapshot, cancel_event>>
    BY DEF AsyncForward
  <1>2. /\ deferred # None /\ DOMAIN deferred \subseteq Request
        /\ ToSet(Alive) = batch /\ ReadNow = batch
        /\ \A r \in Request : InFlight(r) <=> r \in batch
        /\ \A i \in 1..Len(slots) : AsyncFeed[i] \in Seq(Tokens)
    BY <1>1, AsyncFacts
  <1>3. \A r \in batch :
           /\ r \in Request /\ Decoding(r) /\ pending[r] = None
           /\ deferred[r] \in Tokens /\ deferred[r].req = r
           /\ deferred[r].pos = PromptLen[r] + m(r) + 1
           /\ batch_idx[r] \in 1..Len(slots)
           /\ AsyncFeed[batch_idx[r]] = <<deferred[r]>>
           /\ l(r) = PromptLen[r] + m(r)
           /\ \A k \in 1..l(r) : slots[batch_idx[r]].kv[k] = TokenOf(r, k, FALSE)
    BY <1>1, AsyncFacts
  <1>4. /\ last_logits' = [r \in Request |-> IF r \in batch THEN deferred[r] ELSE last_logits[r]]
        /\ Consume(batch, deferred)
    BY <1>2 DEF AsyncForward
  <1>5. PICK ends \in SUBSET batch :
           deferred' = [r \in batch |-> TokenOf(deferred[r].req, deferred[r].pos + 1, r \in ends)]
    BY <1>2 DEF AsyncForward
  <1>6. batch \in SUBSET Request
    BY <1>3
  <1>7. NextTokens(batch, deferred)
    BY <1>3 DEF NextTokens
  <1> HIDE DEF batch
  <1>8. /\ state' \in [Request -> {"new", "waiting", "prefilling", "chunked_prefilling",
                              "decoding", "done"}]
        /\ finish_reason' \in [Request -> {None, "stop", "length", "cancelled"}]
        /\ terminals' \in [Request -> Nat]
        /\ tokens_generated' \in [Request -> Seq(Tokens)]
        /\ \A r \in Request \ batch : state'[r] = state[r] /\ tokens_generated'[r] = tokens_generated[r]
        /\ \A r \in batch : Ends(r, deferred[r]) # None => state'[r] = "done"
        /\ \A r \in batch : Ends(r, deferred[r]) = None =>
              /\ state'[r] = state[r]
              /\ deferred[r] = TokenOf(r, PromptLen[r] + m(r) + 1, FALSE)
              /\ Len(tokens_generated'[r]) = m(r) + 1
              /\ Len(tokens_generated'[r]) < MaxTokens[r]
        /\ \A r \in Request : m(r) \in Nat /\ Len(tokens_generated'[r]) \in Nat
        /\ \A r \in Request : terminals'[r] = IF state'[r] = "done" THEN 1 ELSE 0
        /\ EveryTokenOnce'
    BY <1>4, <1>6, <1>7, ConsumeFacts
  <1>9. \A r \in Request : PromptLen[r] \in Nat
    BY SchedulerAssumption
  \* What the step does to one request.
  <1>10. ASSUME NEW r \in batch
         PROVE  \/ state'[r] = "done"
                \/ /\ state'[r] = "decoding" /\ last_logits'[r] = deferred[r]
                   /\ deferred[r] = TokenOf(r, PromptLen[r] + Len(tokens_generated'[r]), FALSE)
                   /\ Len(tokens_generated'[r]) = m(r) + 1
                   /\ Len(tokens_generated'[r]) < MaxTokens[r]
    <2>1. CASE Ends(r, deferred[r]) # None
      BY <1>8, <2>1
    <2>2. CASE Ends(r, deferred[r]) = None
      <3>1. /\ state'[r] = "decoding" /\ last_logits'[r] = deferred[r]
            /\ deferred[r] = TokenOf(r, PromptLen[r] + m(r) + 1, FALSE)
            /\ Len(tokens_generated'[r]) = m(r) + 1
            /\ Len(tokens_generated'[r]) < MaxTokens[r]
        BY <1>3, <1>4, <1>8, <2>2 DEF Decoding
      <3>2. PromptLen[r] + (m(r) + 1) = PromptLen[r] + m(r) + 1
        BY <1>6, <1>8, <1>9
      <3> HIDE DEF m
      <3> QED BY <3>1, <3>2
    <2> QED BY <2>1, <2>2
  <1>11. \A r \in Request \ batch : state'[r] = state[r] /\ ~InFlight(r) /\ ~InFlight(r)'
    BY <1>2, <1>8 DEF InFlight
  <1>12. /\ deferred' # None /\ DOMAIN deferred' = batch /\ deferred' \in [batch -> Tokens]
         /\ \A r \in batch : deferred'[r].req = r /\ deferred'[r].pos = PromptLen[r] + (m(r) + 1) + 1
    <2>1. \A r \in batch : deferred'[r] = TokenOf(r, PromptLen[r] + (m(r) + 1) + 1, r \in ends)
      <3> TAKE r \in batch
      <3> DEFINE k == m(r)
      <3>1. k \in Nat /\ PromptLen[r] \in Nat
        BY <1>6, <1>8, <1>9
      <3>2. deferred[r].pos = PromptLen[r] + k + 1 /\ deferred[r].req = r
        BY <1>3
      <3> HIDE DEF k
      <3>3. deferred[r].pos + 1 = PromptLen[r] + (k + 1) + 1
        BY <3>1, <3>2
      <3> QED BY <1>5, <3>2, <3>3 DEF k
    <2>2. \A r \in batch : /\ deferred'[r].req = r
                           /\ deferred'[r].pos = PromptLen[r] + (m(r) + 1) + 1
                           /\ deferred'[r] \in Tokens
      <3> TAKE r \in batch
      <3> DEFINE p == PromptLen[r] + (m(r) + 1) + 1
                 e == r \in ends
      <3>1. p \in Nat /\ r \in Request /\ e \in BOOLEAN /\ deferred'[r] = TokenOf(r, p, e)
        BY <1>6, <1>8, <1>9, <2>1
      <3> HIDE DEF p, e
      <3>2. deferred'[r].req = r /\ deferred'[r].pos = p /\ deferred'[r] \in Tokens
        BY <3>1 DEF TokenOf, Tokens
      <3> QED BY <3>2 DEF p
    <2>3. DOMAIN deferred' = batch /\ deferred' = [r \in batch |-> deferred'[r]]
      BY <1>5
    <2> HIDE DEF m
    <2>4. deferred' \in [batch -> Tokens]
      BY <2>2, <2>3
    <2>5. deferred' # None
      <3>1. \A D \in SUBSET Request :
               None \notin [D -> [req : Request \cup {None}, pos : Nat, eos : BOOLEAN]]
        BY SchedulerAssumption
      <3> QED BY <1>6, <2>4, <3>1 DEF Tokens
    <2> QED BY <2>2, <2>3, <2>4, <2>5
  <1>13. /\ Len(slots') = Len(slots) /\ slots' \in Seq(ToSet(slots'))
         /\ \A i \in 1..Len(slots) :
                 /\ slots'[i].kv = slots[i].kv \o AsyncFeed[i]
                 /\ slots'[i].kv \in Seq(Tokens)
                 /\ slots'[i] = [kv |-> slots'[i].kv, blocks |-> slots'[i].blocks]
                 /\ Len(slots'[i].kv) = Len(slots[i].kv) + Len(AsyncFeed[i])
                 /\ \A k \in 1..Len(slots[i].kv) + Len(AsyncFeed[i]) : slots'[i].kv[k] =
                       IF k <= Len(slots[i].kv) THEN slots[i].kv[k]
                       ELSE AsyncFeed[i][k - Len(slots[i].kv)]
    BY <1>1, <1>2, AppendFacts
  <1>14. ASSUME NEW r \in batch, state'[r] # "done"
         PROVE  /\ Len(slots'[batch_idx[r]].kv) = PromptLen[r] + Len(tokens_generated'[r])
                /\ \A k \in 1..Len(slots'[batch_idx[r]].kv) :
                      slots'[batch_idx[r]].kv[k] = TokenOf(r, k, FALSE)
    <2> DEFINE i == batch_idx[r]
               t == l(r)
               kv == slots[i].kv
               new == slots'[i].kv
               g == deferred[r]
               p == PromptLen[r] + Len(tokens_generated'[r])
    <2>1. t \in Nat /\ p = t + 1 /\ g = TokenOf(r, p, FALSE) /\ g \in Tokens
      <3>1. Len(tokens_generated'[r]) = m(r) + 1 /\ g = TokenOf(r, p, FALSE)
        BY <1>10, <1>14
      <3>2. t = PromptLen[r] + m(r) /\ PromptLen[r] \in Nat /\ m(r) \in Nat /\ g \in Tokens
        BY <1>3, <1>6, <1>8, <1>9
      <3> HIDE DEF m, t
      <3>3. p = t + 1 /\ t \in Nat
        BY <3>1, <3>2
      <3> QED BY <3>1, <3>2, <3>3
    <2>2. AsyncFeed[i] = <<g>> /\ i \in 1..Len(slots)
      BY <1>3
    <2>3. \A k \in 1..t : kv[k] = TokenOf(r, k, FALSE)
      BY <1>3
    <2>4. /\ Len(new) = Len(kv) + Len(AsyncFeed[i])
          /\ \A k \in 1..Len(kv) + Len(AsyncFeed[i]) :
                new[k] = IF k <= Len(kv) THEN kv[k] ELSE AsyncFeed[i][k - Len(kv)]
      BY <1>13, <2>2
    <2>5. t = Len(kv)
      OBVIOUS
    <2> HIDE DEF i, t, kv, new, g, p
    <2>6. Len(<<g>>) = 1 /\ <<g>>[1] = g
      BY <2>1, OneElement
    <2>7. Len(new) = t + 1 /\ \A k \in 1..t + 1 : new[k] = IF k <= t THEN kv[k] ELSE <<g>>[k - t]
      BY <2>2, <2>4, <2>5, <2>6
    <2>8. \A k \in 1..t + 1 : new[k] = TokenOf(r, k, FALSE)
      <3> TAKE k \in 1..t + 1
      <3>1. CASE k <= t
        <4>1. k \in 1..t
          BY <2>1, <3>1
        <4> QED BY <2>3, <2>7, <3>1, <4>1
      <3>2. CASE ~(k <= t)
        <4>1. k = p /\ k - t = 1
          BY <2>1, <3>2
        <4> QED BY <2>1, <2>6, <2>7, <3>2, <4>1
      <3> QED BY <3>1, <3>2
    <2> QED BY <2>1, <2>7, <2>8 DEF i, new, p
  <1>15. TypeOK'
    <2>1. last_logits' \in [Request -> Tokens \cup {None}]
      BY <1>3, <1>4 DEF IInv, TypeOK
    <2>2. DOMAIN deferred' \subseteq Request /\ deferred' \in [DOMAIN deferred' -> Tokens]
      BY <1>6, <1>12
    <2> QED BY <1>1, <1>8, <1>13, <2>1, <2>2 DEF IInv, TypeOK, queues
  <1>16. QueueInv' /\ RowsInv'
    <2>1. \A i \in 1..Len(waiting) : state'[waiting[i]] = "waiting"
      <3> TAKE i \in 1..Len(waiting)
      <3>1. waiting[i] \in Request /\ state[waiting[i]] = "waiting"
        BY Queues DEF IInv, QueueInv
      <3> QED BY <3>1, <1>2, <1>11 DEF InFlight
    <2>2. \A i \in 1..Len(running) : state'[running[i]] \notin {"new", "waiting"}
      <3> TAKE i \in 1..Len(running)
      <3>1. running[i] \in Request /\ state[running[i]] \notin {"new", "waiting"}
        BY Queues DEF IInv, QueueInv
      <3> QED BY <3>1, <1>10, <1>11
    <2>3. RowsInv'
      BY <1>1, <1>13 DEF IInv, RowsInv, queues
    <2>4. \A r \in Request : InFlight(r)' => InFlight(r)
      BY <1>2, <1>11
    <2> QED BY <1>1, <2>1, <2>2, <2>3, <2>4 DEF IInv, QueueInv, queues
  <1>17. RequestInv'
    <2> SUFFICES ASSUME NEW r \in Request
                 PROVE  /\ ~Decoding(r)' /\ state'[r] # "done" =>
                               tokens_generated'[r] = <<>> /\ pending'[r] = None
                        /\ state'[r] \in {"new", "waiting"} => tokens_prefilled'[r] = 0 /\ batch_idx'[r] = None
                        /\ Prefilling(r)' => tokens_prefilled'[r] < PromptLen[r]
                        /\ InFlight(r)' => Len(tokens_generated'[r]) < MaxTokens[r]
      BY <1>8 DEF RequestInv
    <2>1. CASE r \notin batch
      BY <1>1, <1>8, <1>11, <2>1 DEF IInv, RequestInv, InFlight, Prefilling, Decoding
    <2>2. CASE r \in batch
      BY <1>10, <2>2 DEF InFlight, Prefilling, Decoding
    <2> QED BY <2>1, <2>2
  <1>18. TokenInv'
    <2> SUFFICES ASSUME NEW r \in Request, Decoding(r)'
                 PROVE  /\ pending'[r] = None
                        /\ last_logits'[r].req = r
                        /\ last_logits'[r].pos = PromptLen[r] + Len(tokens_generated'[r])
                        /\ deferred'[r].req = r
                        /\ deferred'[r].pos = PromptLen[r] + Len(tokens_generated'[r]) + 1
      BY DEF TokenInv
    <2>1. r \in batch /\ state'[r] # "done"
      BY <1>11 DEF InFlight, Decoding
    <2>2. /\ last_logits'[r] = TokenOf(r, PromptLen[r] + Len(tokens_generated'[r]), FALSE)
          /\ Len(tokens_generated'[r]) = m(r) + 1
      BY <1>10, <2>1
    <2>3. pending'[r] = None
      BY <1>1, <1>3, <2>1
    <2>4. deferred'[r].req = r /\ deferred'[r].pos = PromptLen[r] + (m(r) + 1) + 1
      BY <1>12, <2>1
    <2> HIDE DEF m
    <2> QED BY <2>2, <2>3, <2>4 DEF TokenOf
  <1>19. PhaseInv'
    BY <1>1 DEF PhaseInv
  <1>20. SlotHoldsItsRequest'
    <2> SUFFICES ASSUME NEW r \in Request, InFlight(r)'
                 PROVE  LET kv == slots'[batch_idx[r]].kv
                            n == Len(kv)
                        IN /\ \A i \in 1..n : kv[i] = TokenOf(r, i, FALSE)
                           /\ n = IF Prefilling(r)' THEN tokens_prefilled'[r]
                                  ELSE PromptLen[r] + Len(tokens_generated'[r])
                                         - (IF pending'[r] = None THEN 0 ELSE 1)
      BY <1>1 DEF SlotHoldsItsRequest
    <2>1. r \in batch /\ state'[r] = "decoding" /\ pending'[r] = None
      BY <1>1, <1>3, <1>10, <1>11 DEF InFlight
    <2>2. ~Prefilling(r)'
      BY <2>1 DEF Prefilling
    <2>3. /\ Len(slots'[batch_idx[r]].kv) = PromptLen[r] + Len(tokens_generated'[r])
          /\ \A k \in 1..Len(slots'[batch_idx[r]].kv) :
                slots'[batch_idx[r]].kv[k] = TokenOf(r, k, FALSE)
      BY <1>14, <2>1
    <2>4. PromptLen[r] + Len(tokens_generated'[r]) - 0 = PromptLen[r] + Len(tokens_generated'[r])
      BY <1>8, <1>9
    <2> QED BY <2>1, <2>2, <2>3, <2>4
  <1> QED BY <1>8, <1>15, <1>16, <1>17, <1>18, <1>19, <1>20 DEF IInv

-----------------------------------------------------------------------------
(* The recovery from a forward that ran out of blocks.                      *)

\* The rollback takes every slot back to what the snapshot says of it.
LEMMA RollbackFacts ==
    ASSUME IInv, pc = "oom"
    PROVE  /\ RolledBack \in Seq(ToSet(RolledBack)) /\ Len(RolledBack) = Len(slots)
           /\ \A i \in 1..Len(slots) :
                 /\ RolledBack[i].kv \in Seq(Tokens)
                 /\ RolledBack[i] = [kv |-> RolledBack[i].kv, blocks |-> RolledBack[i].blocks]
                 /\ Len(RolledBack[i].kv) = snapshot[i]
                 /\ \A k \in 1..snapshot[i] : RolledBack[i].kv[k] = slots[i].kv[k]
  <1> DEFINE n == Len(slots)
  <1>1. n \in Nat /\ \A i \in 1..n : snapshot[i] \in Nat /\ snapshot[i] <= Len(slots[i].kv)
    BY Queues DEF IInv, PhaseInv
  <1>2. \A i \in 1..n : /\ slots[i].kv \in Seq(Tokens) /\ Len(slots[i].kv) \in Nat
                        /\ slots[i] = [kv |-> slots[i].kv, blocks |-> slots[i].blocks]
    BY SlotFacts
  <1>3. ASSUME NEW i \in 1..n
        PROVE  /\ RolledBack[i].kv \in Seq(Tokens)
               /\ RolledBack[i] = [kv |-> RolledBack[i].kv, blocks |-> RolledBack[i].blocks]
               /\ Len(RolledBack[i].kv) = snapshot[i]
               /\ \A k \in 1..snapshot[i] : RolledBack[i].kv[k] = slots[i].kv[k]
    <2> DEFINE kv == slots[i].kv
               c == snapshot[i]
               cut == SubSeq(kv, 1, c)
    <2>1. kv \in Seq(Tokens) /\ Len(kv) \in Nat /\ c \in Nat /\ c <= Len(kv)
      BY <1>1, <1>2
    <2>2. CASE c < Len(kv)
      <3>1. RolledBack[i] = [kv |-> cut, blocks |-> BlocksFor(c)]
        BY <2>2 DEF RolledBack
      <3> HIDE DEF kv, c, cut
      <3>2. /\ RolledBack[i].kv = cut
            /\ RolledBack[i] = [kv |-> RolledBack[i].kv, blocks |-> RolledBack[i].blocks]
        BY <3>1, SlotRecord
      <3>3. \A k \in 1..c : kv[k] \in Tokens
        <4> TAKE k \in 1..c
        <4>1. k \in 1..Len(kv)
          BY <2>1
        <4> QED BY <2>1, <4>1, ElementOfSeq
      <3>4. /\ cut \in Seq(Tokens) /\ Len(cut) = IF 1 <= c THEN c - 1 + 1 ELSE 0
            /\ \A k \in 1..c - 1 + 1 : cut[k] = kv[1 + k - 1]
        <4>1. 1 \in Int /\ c \in Int
          BY <2>1
        <4> QED BY <3>3, <4>1, SubSeqProperties DEF cut
      <3>5. Len(cut) = c
        BY <2>1, <3>4
      <3>6. \A k \in 1..c : cut[k] = kv[k]
        <4> TAKE k \in 1..c
        <4>1. k \in 1..c - 1 + 1 /\ 1 + k - 1 = k
          BY <2>1
        <4> QED BY <3>4, <4>1
      <3> QED BY <3>2, <3>4, <3>5, <3>6 DEF kv, c
    <2>3. CASE ~(c < Len(kv))
      <3>1. RolledBack[i] = slots[i]
        BY <2>3 DEF RolledBack
      <3>2. Len(kv) = c
        BY <2>1, <2>3
      <3> QED BY <1>2, <3>1, <3>2
    <2> QED BY <2>2, <2>3
  <1>4. RolledBack \in Seq(ToSet(RolledBack)) /\ Len(RolledBack) = n
    <2> DEFINE S == {RolledBack[i] : i \in 1..n}
    <2>1. RolledBack \in [1..n -> S]
      BY DEF RolledBack
    <2> HIDE DEF S, n
    <2>2. RolledBack \in Seq(S) /\ Len(RolledBack) = n
      BY <1>1, <2>1, FunctionIsSeq
    <2> QED BY <2>2, SeqOverItself
  <1> QED BY <1>3, <1>4

\* The victim of a preemption is a request in flight.
LEMMA VictimFacts ==
    ASSUME IInv, Candidates # <<>>
    PROVE  Last(Candidates) \in ToSet(running) /\ InFlight(Last(Candidates))
  <1> DEFINE P == {r \in Request : Prefilling(r)}
             D == {r \in Request : Decoding(r)}
  <1>1. running \in Seq(Request)
    BY Queues
  <1>2. ASSUME NEW R, RunningIn(R) # <<>>
        PROVE  Last(RunningIn(R)) \in ToSet(running) \cap R
    <2> DEFINE s == RunningIn(R)
    <2>1. s \in Seq(Request) /\ Len(s) \in Nat /\ ToSet(s) = ToSet(running) \cap R
      BY <1>1, RunningInFacts
    <2> HIDE DEF s
    <2>2. Len(s) # 0
      BY <1>2, <2>1, EmptySeq DEF s
    <2>3. Len(s) \in 1..Len(s)
      BY <2>1, <2>2
    <2>4. ToSet(s) = {s[i] : i \in 1..Len(s)}
      BY <2>1, SeqOverItself
    <2>5. s[Len(s)] \in ToSet(s)
      BY <2>3, <2>4
    <2> QED BY <2>1, <2>5 DEF s, Last
  <1>3. Candidates = IF RunningIn(P) # <<>> THEN RunningIn(P) ELSE RunningIn(D)
    BY DEF Candidates
  <1>4. CASE RunningIn(P) # <<>>
    <2>1. Last(Candidates) \in ToSet(running) \cap P
      BY <1>2, <1>3, <1>4
    <2> QED BY <2>1 DEF Prefilling, InFlight
  <1>5. CASE RunningIn(P) = <<>>
    <2>1. Last(Candidates) \in ToSet(running) \cap D
      BY <1>2, <1>3, <1>5
    <2> QED BY <2>1 DEF Decoding, InFlight
  <1> QED BY <1>4, <1>5

\* A preemption undoes the failed forward and removes one request.
LEMMA PreemptKeeps ==
    ASSUME IInv, Preempt
    PROVE  IInv'
  <1> DEFINE v == Last(Candidates)
             D == Finished \cup {v}
             held == RolledBack
             left == ToSet(running) \ D
  <1>1. /\ pc = "oom" /\ pc' = "idle" /\ snapshot' = None
        /\ Candidates # <<>>
        /\ Finish([r \in {v} |-> "cancelled"]) /\ Reap(D, held)
        /\ UNCHANGED <<waiting, progress, cancel_event>>
    BY DEF Preempt
  <1>2. /\ waiting \in Seq(Request) /\ slots \in Seq(ToSet(slots))
        /\ ToSet(running) \subseteq Request
        /\ \A i \in 1..Len(waiting) : waiting[i] \in Request
        /\ \A r \in ToSet(running) : state[r] \notin {"new", "waiting"}
        /\ \A r \in Request : InFlight(r) => r \in ToSet(running) /\ batch_idx[r] \in 1..Len(slots)
    BY Queues
  <1>3. v \in ToSet(running) /\ v \in Request /\ InFlight(v)
    BY <1>1, <1>2, VictimFacts
  <1>4. /\ state' = [r \in Request |-> IF r = v THEN "done" ELSE state[r]]
        /\ finish_reason' = [r \in Request |-> IF r = v THEN "cancelled" ELSE finish_reason[r]]
        /\ terminals' = [r \in Request |-> terminals[r] + IF r = v THEN 1 ELSE 0]
    BY <1>1 DEF Finish
  <1> HIDE DEF v
  <1>5. /\ held \in Seq(ToSet(held)) /\ Len(held) = Len(slots)
        /\ \A i \in 1..Len(slots) :
                 /\ held[i].kv \in Seq(Tokens)
                 /\ held[i] = [kv |-> held[i].kv, blocks |-> held[i].blocks]
                 /\ Len(held[i].kv) = snapshot[i]
                 /\ \A k \in 1..snapshot[i] : held[i].kv[k] = slots[i].kv[k]
    BY <1>1, RollbackFacts
  <1> HIDE DEF held
  <1>6. /\ TypeOK /\ QueueInv /\ RowsInv
        /\ D \in SUBSET ToSet(running) /\ Finished \subseteq D
    BY <1>3 DEF IInv, Finished
  <1> HIDE DEF D
  <1>7. /\ running' \in Seq(Request) /\ ToSet(running') = left
        /\ \A i, j \in 1..Len(running') : running'[i] = running'[j] => i = j
        /\ slots' \in Seq(ToSet(held)) /\ batch_idx' \in [Request -> Nat \cup {None}]
        /\ \A r \in left : /\ batch_idx[r] \in 1..Len(slots)
                           /\ batch_idx'[r] \in 1..Len(slots')
                           /\ slots'[batch_idx'[r]] = held[batch_idx[r]]
        /\ \A r \in Request \ left : batch_idx'[r] = batch_idx[r]
        /\ RowsInv'
        /\ deferred' = None \/ deferred' = deferred
    <2> DEFINE S == ToSet(held)
    <2>1. held \in Seq(S) /\ Len(held) = Len(slots) /\ Reap(D, held)
      BY <1>1, <1>5
    <2> HIDE DEF S
    <2>2. running' \in Seq(Request) /\ ToSet(running') = left
      BY <1>6, <2>1, ReapFacts
    <2>3. slots' \in Seq(S) /\ batch_idx' \in [Request -> Nat \cup {None}]
      BY <1>6, <2>1, ReapFacts
    <2>4. \A i, j \in 1..Len(running') : running'[i] = running'[j] => i = j
      BY <1>6, <2>1, ReapFacts
    <2>5. \A r \in Request \ left : batch_idx'[r] = batch_idx[r]
      BY <1>6, <2>1, ReapFacts
    <2>6. \A r \in ToSet(running) \ D : /\ batch_idx[r] \in 1..Len(slots)
                                        /\ batch_idx'[r] \in 1..Len(slots')
                                        /\ slots'[batch_idx'[r]] = held[batch_idx[r]]
      <3> HIDE DEF left
      <3> QED BY <1>6, <2>1, ReapFacts
    <2>7. RowsInv' /\ (deferred' = None \/ deferred' = deferred)
      BY <1>6, <2>1, ReapFacts
    <2> QED BY <2>2, <2>3, <2>4, <2>5, <2>6, <2>7 DEF S
  <1>8. /\ Len(running') \in Nat /\ ToSet(running') = {running'[i] : i \in 1..Len(running')}
        /\ Len(slots') \in Nat /\ slots' \in Seq(ToSet(slots'))
        /\ \A i \in 1..Len(slots') : slots'[i] \in ToSet(held)
        /\ ToSet(held) = {held[i] : i \in 1..Len(held)}
    <2>1. /\ Len(running') \in Nat /\ ToSet(running') = {running'[i] : i \in 1..Len(running')}
      BY <1>7, SeqOverItself, LenProperties
    <2>2. ToSet(held) = {held[i] : i \in 1..Len(held)}
      BY <1>5, SeqOverItself
    <2> DEFINE S == ToSet(held)
    <2>3. slots' \in Seq(S)
      BY <1>7
    <2> HIDE DEF S
    <2>4. /\ Len(slots') \in Nat /\ slots' \in Seq(ToSet(slots'))
          /\ \A i \in 1..Len(slots') : slots'[i] \in S
      BY <2>3, SeqOverItself, LenProperties, ElementOfSeq
    <2> QED BY <2>1, <2>2, <2>4 DEF S
  <1>9. \A r \in Request : InFlight(r)' => r \in left /\ InFlight(r) /\ state'[r] = state[r]
    BY <1>2, <1>4 DEF InFlight, Finished, D
  <1>10. \A r \in Request : r # v => state'[r] = state[r]
    BY <1>4
  <1>11. TypeOK'
    <2>1. \A i \in 1..Len(slots') : /\ slots'[i] = [kv |-> slots'[i].kv, blocks |-> slots'[i].blocks]
                                     /\ slots'[i].kv \in Seq(Tokens)
      <3> TAKE i \in 1..Len(slots')
      <3>1. PICK j \in 1..Len(slots) : slots'[i] = held[j]
        BY <1>5, <1>8
      <3> QED BY <1>5, <3>1
    <2>2. deferred' # None =>
             DOMAIN deferred' \subseteq Request /\ deferred' \in [DOMAIN deferred' -> Tokens]
      BY <1>6, <1>7 DEF TypeOK
    <2>3. /\ state' \in [Request -> {"new", "waiting", "prefilling", "chunked_prefilling",
                              "decoding", "done"}]
          /\ finish_reason' \in [Request -> {None, "stop", "length", "cancelled"}]
          /\ terminals' \in [Request -> Nat]
      <3>1. state' \in [Request -> {"new", "waiting", "prefilling", "chunked_prefilling",
                              "decoding", "done"}]
        BY <1>4, <1>6 DEF TypeOK
      <3>2. finish_reason' \in [Request -> {None, "stop", "length", "cancelled"}]
        BY <1>4, <1>6 DEF TypeOK
      <3>3. terminals' \in [Request -> Nat]
        BY <1>4, <1>6 DEF TypeOK
      <3> QED BY <3>1, <3>2, <3>3
    <2> QED BY <1>1, <1>6, <1>7, <1>8, <2>1, <2>2, <2>3 DEF TypeOK, progress
  <1>12. QueueInv'
    <2>1. \A i \in 1..Len(waiting') : state'[waiting'[i]] = "waiting"
      <3> TAKE i \in 1..Len(waiting')
      <3>1. waiting' = waiting /\ state[waiting[i]] = "waiting" /\ waiting[i] \in Request
        BY <1>1, <1>2, <1>6 DEF QueueInv
      <3>2. waiting[i] # v
        BY <1>3, <3>1 DEF InFlight
      <3> QED BY <1>10, <3>1, <3>2
    <2>2. \A i, j \in 1..Len(waiting') : waiting'[i] = waiting'[j] => i = j
      BY <1>1, <1>6 DEF QueueInv
    <2>3. \A i \in 1..Len(running') : state'[running'[i]] \notin {"new", "waiting"}
      <3> TAKE i \in 1..Len(running')
      <3>1. running'[i] \in left
        BY <1>7, <1>8
      <3>2. running'[i] \in Request /\ running'[i] # v /\ state[running'[i]] \notin {"new", "waiting"}
        BY <1>2, <3>1 DEF D
      <3> QED BY <1>10, <3>2
    <2>4. \A r \in Request : InFlight(r)' => r \in ToSet(running') /\ batch_idx'[r] # None
      BY <1>7, <1>8, <1>9, SchedulerAssumption
    <2> QED BY <1>7, <2>1, <2>2, <2>3, <2>4 DEF QueueInv
  <1>13. RequestInv'
    <2> SUFFICES ASSUME NEW r \in Request
                 PROVE  /\ ~Decoding(r)' /\ state'[r] # "done" =>
                               tokens_generated'[r] = <<>> /\ pending'[r] = None
                        /\ state'[r] \in {"new", "waiting"} => tokens_prefilled'[r] = 0 /\ batch_idx'[r] = None
                        /\ Prefilling(r)' => tokens_prefilled'[r] < PromptLen[r]
                        /\ InFlight(r)' => Len(tokens_generated'[r]) < MaxTokens[r]
                        /\ terminals'[r] = IF state'[r] = "done" THEN 1 ELSE 0
      BY DEF RequestInv
    <2>1. CASE r = v
      <3>1. state'[r] = "done" /\ terminals[r] = 0 /\ terminals'[r] = terminals[r] + 1
        BY <1>3, <1>4, <2>1 DEF IInv, RequestInv, InFlight
      <3> QED BY <3>1 DEF Prefilling, Decoding, InFlight
    <2>2. CASE r # v
      <3>1. state'[r] = state[r] /\ terminals'[r] = terminals[r]
        BY <1>4, <1>6, <2>2 DEF TypeOK
      <3>2. state[r] \in {"new", "waiting"} => batch_idx'[r] = batch_idx[r]
        BY <1>2, <1>7
      <3> QED BY <1>1, <3>1, <3>2 DEF IInv, RequestInv, InFlight, Prefilling, Decoding, progress
    <2> QED BY <2>1, <2>2
  <1>14. TokenInv'
    <2>1. \A r \in Request : Decoding(r)' => Decoding(r)
      BY <1>4 DEF Decoding
    <2> QED BY <1>1, <1>7, <2>1 DEF IInv, TokenInv, progress
  <1>15. PhaseInv'
    BY <1>1 DEF PhaseInv
  <1>16. EveryTokenOnce'
    BY <1>1 DEF IInv, EveryTokenOnce, progress
  <1>17. SlotHoldsItsRequest'
    <2> SUFFICES ASSUME NEW r \in Request, InFlight(r)'
                 PROVE  LET kv == slots'[batch_idx'[r]].kv
                            n == Len(kv)
                        IN /\ \A i \in 1..n : kv[i] = TokenOf(r, i, FALSE)
                           /\ n = IF Prefilling(r)' THEN tokens_prefilled[r]
                                  ELSE PromptLen[r] + Len(tokens_generated[r])
                                         - (IF pending[r] = None THEN 0 ELSE 1)
      BY <1>1 DEF SlotHoldsItsRequest, progress
    <2> DEFINE i == batch_idx[r]
               c == snapshot[i]
    <2>1. r \in left /\ InFlight(r) /\ state'[r] = state[r]
      BY <1>9
    <2>2. i \in 1..Len(slots) /\ slots'[batch_idx'[r]] = held[i]
      BY <1>7, <2>1
    <2>3. /\ \A k \in 1..c : slots[i].kv[k] = TokenOf(r, k, FALSE)
          /\ c = IF Prefilling(r) THEN tokens_prefilled[r]
                 ELSE PromptLen[r] + Len(tokens_generated[r])
                        - (IF pending[r] = None THEN 0 ELSE 1)
      BY <1>1, <2>1 DEF IInv, SlotHoldsItsRequest
    <2>4. Len(held[i].kv) = c /\ \A k \in 1..c : held[i].kv[k] = slots[i].kv[k]
      BY <1>5, <2>2
    <2>5. Prefilling(r)' = Prefilling(r)
      BY <2>1 DEF Prefilling
    <2>6. c = IF Prefilling(r)' THEN tokens_prefilled[r]
              ELSE PromptLen[r] + Len(tokens_generated[r])
                     - (IF pending[r] = None THEN 0 ELSE 1)
      BY <2>3, <2>5
    <2> HIDE DEF i, c
    <2>7. Len(slots'[batch_idx'[r]].kv) = c
          /\ \A k \in 1..c : slots'[batch_idx'[r]].kv[k] = TokenOf(r, k, FALSE)
      <3> DEFINE x == held[i]
      <3>1. slots'[batch_idx'[r]] = x /\ Len(x.kv) = c /\ \A k \in 1..c : x.kv[k] = slots[i].kv[k]
        BY <2>2, <2>4
      <3> HIDE DEF x
      <3> QED BY <2>3, <3>1 DEF i, c
    <2> QED BY <2>6, <2>7
  <1> QED BY <1>7, <1>11, <1>12, <1>13, <1>14, <1>15, <1>16, <1>17 DEF IInv

-----------------------------------------------------------------------------
(* The theorems.                                                           *)

\* Every step keeps the inductive invariant.
LEMMA StepKeepsInv == IInv /\ [Next]_vars => IInv'
  <1> SUFFICES ASSUME IInv, [Next]_vars PROVE IInv'
    OBVIOUS
  <1>1. ASSUME NEW r \in Request, Submit(r) PROVE IInv'
    BY <1>1, SubmitKeeps
  <1>2. ASSUME NEW r \in Request, Cancel(r) PROVE IInv'
    BY <1>2, CancelKeeps
  <1>3. CASE CancelPending \/ ChooseStep \/ SampleDecoders \/ ReapFinished
    BY <1>3, CancelPendingKeeps, ChooseStepKeeps, SampleDecodersKeeps, ReapFinishedKeeps
  <1>4. CASE AdmitCancelled \/ AdmitEmpty \/ AdmitRejected
    BY <1>4, EndAtAdmissionKeeps DEF AdmitCancelled, AdmitEmpty, AdmitRejected
  <1>5. CASE AdmitLater \/ AdmitSeat \/ AdmitDone
    BY <1>5, AdmitLaterKeeps, AdmitSeatKeeps, AdmitDoneKeeps
  <1>6. CASE Forward \/ ForwardFails \/ NothingToForward
    BY <1>6, ForwardKeeps, ForwardFailsKeeps, NothingToForwardKeeps
  <1>7. CASE AsyncForward \/ AsyncForwardFails \/ Preempt
    BY <1>7, AsyncForwardKeeps, AsyncForwardFailsKeeps, PreemptKeeps
  <1>8. CASE UNCHANGED vars
    <2>1. UNCHANGED <<waiting, running, tokens_prefilled, tokens_generated, pending, last_logits,
                      state, finish_reason, terminals, slots, batch_idx, snapshot, cancel_event,
                      deferred, pc>>
      BY <1>8 DEF vars, queues, progress, ending, cache
    <2>2. TypeOK'
      BY <2>1 DEF IInv, TypeOK
    <2>7. QueueInv'
      BY <2>1 DEF IInv, QueueInv, InFlight
    <2>6. RowsInv'
      BY <2>1 DEF IInv, RowsInv
    <2>3. RequestInv' /\ TokenInv'
      BY <2>1 DEF IInv, RequestInv, TokenInv, InFlight, Prefilling, Decoding
    <2>4. PhaseInv'
      BY <2>1 DEF IInv, PhaseInv, Decoding, Finished
    <2>5. EveryTokenOnce' /\ SlotHoldsItsRequest'
      BY <2>1 DEF IInv, EveryTokenOnce, SlotHoldsItsRequest, InFlight, Prefilling
    <2> QED BY <2>2, <2>3, <2>4, <2>5, <2>6, <2>7 DEF IInv
  <1> QED BY <1>1, <1>2, <1>3, <1>4, <1>5, <1>6, <1>7, <1>8 DEF Next, EngineStep

\* A finished request takes no step's token and stays finished.
LEMMA DoneStays ==
    ASSUME IInv, [Next]_vars, NEW r \in Request, state[r] = "done"
    PROVE  state'[r] = "done" /\ tokens_generated'[r] = tokens_generated[r]
  <1>1. state \in [Request -> {"new", "waiting", "prefilling", "chunked_prefilling", "decoding", "done"}]
        /\ tokens_generated \in [Request -> Seq(Tokens)]
    BY DEF IInv, TypeOK
  <1>2. ASSUME NEW R, NEW next, r \notin R, Consume(R, next)
        PROVE  state'[r] = "done" /\ tokens_generated'[r] = tokens_generated[r]
    BY <1>2 DEF Consume, Finish
  <1>3. ASSUME NEW x \in Request, Submit(x) PROVE state'[r] = "done" /\ UNCHANGED tokens_generated
    BY <1>1, <1>3 DEF Submit, progress
  <1>4. ASSUME NEW x \in Request, Cancel(x) PROVE state'[r] = "done" /\ UNCHANGED tokens_generated
    BY <1>4 DEF Cancel, progress, ending
  <1>5. CASE CancelPending
    BY <1>5 DEF CancelPending, Finish, progress
  <1>6. CASE ChooseStep \/ ReapFinished \/ AdmitLater \/ AdmitDone \/ NothingToForward
    BY <1>6 DEF ChooseStep, ReapFinished, AdmitLater, AdmitDone, NothingToForward, progress, ending
  <1>7. CASE SampleDecoders
    <2>1. r \notin Fresh
      BY DEF Fresh, Decoders, Decoding
    <2>2. \E next : Consume(Fresh, next)
      BY <1>7 DEF SampleDecoders
    <2> QED BY <1>2, <2>1, <2>2
  <1>8. CASE AdmitCancelled \/ AdmitEmpty \/ AdmitRejected
    BY <1>8 DEF AdmitCancelled, AdmitEmpty, AdmitRejected, EndAtAdmission, Finish, progress
  <1>9. CASE AdmitSeat
    <2>1. r # Head(waiting)
      BY <1>9, HeadOfQueue DEF AdmitSeat, Admitting
    <2>2. state' = [state EXCEPT ![Head(waiting)] = "prefilling"] /\ UNCHANGED tokens_generated
      BY <1>9 DEF AdmitSeat, progress
    <2> QED BY <1>1, <2>1, <2>2
  <1>10. CASE Forward
    <2>1. r \notin ToSet(Alive)
      <3>1. pc = "forward"
        BY <1>10 DEF Forward
      <3> QED BY <3>1, FeedFacts DEF InFlight
    <2>2. UNCHANGED tokens_generated
      BY <1>10 DEF Forward
    <2> DEFINE batch == ToSet(Alive)
               decoders == {x \in batch : Decoding(x)
                                          \/ tokens_prefilled[x] + Len(Feed(x)) = PromptLen[x]}
    <2>3. state' = [x \in Request |-> CASE x \in decoders -> "decoding"
                                        [] x \in batch \ decoders -> "chunked_prefilling"
                                        [] OTHER -> state[x]]
      BY <1>10 DEF Forward
    <2>4. r \notin decoders /\ r \notin batch \ decoders
      BY <2>1
    <2> HIDE DEF batch, decoders
    <2> QED BY <2>2, <2>3, <2>4
  <1>11. CASE AsyncForward
    <2>1. r \notin ReadNow
      BY DEF ReadNow, Decoding
    <2>2. Consume(ReadNow, deferred)
      BY <1>11 DEF AsyncForward
    <2> QED BY <1>2, <2>1, <2>2
  <1>12. CASE ForwardFails \/ AsyncForwardFails
    BY <1>12 DEF ForwardFails, AsyncForwardFails, OutOfMemory, progress, ending
  <1>13. CASE Preempt
    BY <1>13 DEF Preempt, Finish, progress
  <1>14. CASE UNCHANGED vars
    BY <1>14 DEF vars, progress, ending
  <1> QED BY <1>3, <1>4, <1>5, <1>6, <1>7, <1>8, <1>9, <1>10, <1>11, <1>12, <1>13, <1>14
          DEF Next, EngineStep

\* The inductive invariant holds in every reachable state.
THEOREM Invariance == Spec => []IInv
  BY InitiallyInv, StepKeepsInv, PTL DEF Spec

\* Every variable keeps its type, whatever the engine and the clients do.
THEOREM TypeCorrect == Spec => []TypeOK
  <1>1. IInv => TypeOK
    BY DEF IInv
  <1> QED BY <1>1, Invariance, PTL

\* Rows and slots stay one list through every admission, reap and preemption.
THEOREM RowsMatch == Spec => []RowsMatchSlots
  <1>1. ASSUME IInv PROVE RowsMatchSlots
    <2> DEFINE at == {i \in 1..Len(running) : batch_idx[running[i]] # None}
               seated == RunningIn({r \in Request : batch_idx[r] # None})
    <2>1. /\ running \in Seq(Request) /\ Len(running) \in Nat /\ slots \in Seq(ToSet(slots))
          /\ \A i \in 1..Len(running) : running[i] \in Request
      BY <1>1, Queues
    <2>2. at = {i \in 1..Len(running) : running[i] \in {r \in Request : batch_idx[r] # None}}
      BY <2>1
    <2>3. seated = Selected(running, at)
      BY <2>2 DEF RunningIn
    <2>4. at \in SUBSET (1..Len(running)) /\ RowsInv
      BY <1>1 DEF IInv
    <2>5. /\ Cardinality(at) = Len(slots)
          /\ \A i \in at : batch_idx[running[i]] = Rank(at, i)
      BY <2>1, <2>4, RowsAreRanks
    <2> HIDE DEF at, seated
    <2>6. /\ Len(seated) = Cardinality(at)
          /\ \A k \in 1..Cardinality(at) : \E i \in at : Rank(at, i) = k /\ seated[k] = running[i]
      BY <2>1, <2>3, <2>4, SelectedFacts
    <2>7. \A k \in 1..Len(seated) : batch_idx[seated[k]] = k
      BY <2>5, <2>6
    <2> QED BY <2>5, <2>6, <2>7 DEF seated, RowsMatchSlots
  <1> QED BY <1>1, Invariance, PTL

\* Every request's output is its own text, each position once, in order, and
\* never longer than max_tokens: with rows removed, forwards retried after a
\* preemption and steps that run ahead.
THEOREM TokensOnce == Spec => []EveryTokenOnce
  <1>1. IInv => EveryTokenOnce
    BY DEF IInv
  <1> QED BY <1>1, Invariance, PTL

\* Every request in flight finds in its slot the text it was fed.
THEOREM SlotsHold == Spec => []SlotHoldsItsRequest
  <1>1. IInv => SlotHoldsItsRequest
    BY DEF IInv
  <1> QED BY <1>1, Invariance, PTL

\* A forward always has a token for each of its rows.
THEOREM InputsAreReady == Spec => []InputsReady
  <1>1. ASSUME IInv PROVE InputsReady
    <2>1. ASSUME pc = "forward", NEW r \in ToSet(Alive)
          PROVE  /\ Prefilling(r) => tokens_prefilled[r] < PromptLen[r]
                 /\ Decoding(r) => pending[r] # None
      <3>1. r \in Request
        BY <1>1, <2>1, FeedFacts
      <3> QED BY <1>1, <2>1, <3>1 DEF IInv, RequestInv, PhaseInv
    <2>2. ASSUME pc = "async", NEW r \in ToSet(Alive)
          PROVE  Decoding(r) /\ pending[r] = None /\ r \in DOMAIN deferred
      BY <1>1, <2>2, AsyncFacts
    <2> QED BY <2>1, <2>2 DEF InputsReady
  <1> QED BY <1>1, Invariance, PTL

\* The terminal step of a request is its last and is not repeated, although a
\* step that ran ahead still holds a row of the finished request.
THEOREM TerminalIsLast == Spec => NothingAfterTerminal
  <1>1. ASSUME IInv, IInv', [Next]_vars
        PROVE  \A r \in Request : terminals[r] > 0 =>
                  terminals'[r] = terminals[r] /\ tokens_generated'[r] = tokens_generated[r]
    <2> TAKE r \in Request
    <2> HAVE terminals[r] > 0
    <2>1. state[r] = "done" /\ terminals[r] = 1
      BY <1>1 DEF IInv, RequestInv
    <2>2. state'[r] = "done" /\ tokens_generated'[r] = tokens_generated[r]
      BY <1>1, <2>1, DoneStays
    <2>3. terminals'[r] = 1
      BY <1>1, <2>2 DEF IInv, RequestInv
    <2> QED BY <2>1, <2>2, <2>3
  <1>2. IInv /\ IInv' /\ [Next]_vars =>
           [\A r \in Request : terminals[r] > 0 =>
               /\ terminals'[r] = terminals[r]
               /\ tokens_generated'[r] = tokens_generated[r]]_vars
    BY <1>1
  <1> QED BY <1>2, Invariance, PTL DEF Spec, NothingAfterTerminal

=============================================================================
