-------------------------- MODULE PDSchedulerProofs --------------------------
(***************************************************************************)
(* Proofs about PDScheduler for every pool, queue bound and set of requests, *)
(* in both modes.  Only the theorem about stop() assumes that its joins      *)
(* return because the threads ended.                                       *)
(***************************************************************************)
EXTENDS PDScheduler, SequenceTheorems, FiniteSetTheorems, TLAPS

Crashes == {"crash", "crash in add_handoff"}

\* The threads of one start().
Team(g) == Role \X {g}

\* No request is twice in a queue.
Distinct(q) == \A i, j \in 1..Len(q) : q[i] = q[j] => i = j

\* A request the scheduler holds, in a queue, a slot or a thread's batch.
Queued(r) == r \in ToSet(waiting) \cup ToSet(prefilling) \cup ToSet(handoffs) \cup decoding
InBatch(r) == \E t \in Thread : r \in ToSet(batch[t])
Nowhere(r) == ~Queued(r) /\ ~InBatch(r)

\* The same, leaving out the batches of earlier starts.
Here(r) == Queued(r) \/ \E t \in Thread : t[2] = gen /\ r \in ToSet(batch[t])

\* A handle watches the threads of the last start(), and they are not drained.
Fresh(r) == watch[r] = Team(gen) /\ ended < gen

\* Types of the state.
TypeOK ==
    /\ parallel \in BOOLEAN
    /\ waiting \in Seq(Request) /\ prefilling \in Seq(Request)
    /\ handoffs \in Seq(Request) /\ session \in Seq(Request)
    /\ batch \in [Thread -> Seq(Request)]
    /\ decoding \in SUBSET Request
    /\ kv = [r \in Request |-> kv[r]]
    /\ generated \in [Request -> Nat]
    /\ finish \in [Request -> {"none", "length", "stop", "cancelled", "failed"}]
    /\ cancelled \in SUBSET Request
    /\ pc \in [Thread -> {"new", "top", "prefill", "forward", "put", "offer", "drain", "park",
                          "absorb", "absorb parked", "step", "reap", "exit"} \cup Crashes]
    /\ gen \in Nat /\ gen <= MaxStarts /\ ended \in Nat /\ ended <= gen
    /\ current \in SUBSET Thread /\ undrained \in SUBSET Thread /\ joined \in SUBSET Thread
    /\ stop_event \in BOOLEAN /\ stopping \in BOOLEAN /\ crashed \in BOOLEAN
    /\ control \in {"idle", "join", "end"}
    /\ handle \in [Request -> {"none", "submits", "waits", "sees dead", "raised"}]
    /\ watch \in [Request -> SUBSET Thread]
    /\ late \in SUBSET Request

\* Only the threads of the last start() may live, and then nobody drained them
\* and some caller of stop() knows of them.  In parallel mode the prefill
\* thread never crashes, so that start() finds it alive.
ThreadInv ==
    /\ \A t \in Thread :
          /\ pc[t] = "new" <=> t[1] \notin Role \/ t[2] > gen
          /\ Alive(t) => t[2] = gen
          /\ pc[t] = "exit" /\ t[2] = gen => stop_event
          /\ Alive(t) => /\ ended < gen
                         /\ \/ current = Team(gen)
                            \/ undrained = Team(gen)
                            \/ control # "idle" /\ joined = Team(gen)
          /\ parallel /\ t[1] = "prefill" =>
                pc[t] \in {"new", "top", "prefill", "forward", "put", "offer", "exit"}
          /\ t[1] = "decode" => pc[t] \notin {"prefill", "forward", "put", "offer"}
    /\ current \in {{}, Team(gen)}
    /\ undrained \in {{}, Team(gen)}
    /\ control # "idle" => joined \in {{}, Team(gen)} /\ undrained \subseteq joined /\ stop_event
    /\ control = "join" => current \subseteq joined
    /\ control = "end" => current = {}
    /\ current # {} /\ control = "idle" => ~stop_event

\* A thread has requests in hand only between the steps that take and pass them.
BatchInv ==
    \A t \in Thread :
        /\ Distinct(batch[t])
        /\ pc[t] \in {"forward", "put", "offer", "absorb", "absorb parked", "crash in add_handoff"}
              <=> batch[t] # <<>>
        /\ pc[t] = "absorb parked" \/ (pc[t] = "absorb" /\ parallel) => Len(batch[t]) = 1
        /\ pc[t] = "prefill" => prefilling # <<>>
        /\ \A u \in Thread : t # u => ToSet(batch[t]) \cap ToSet(batch[u]) = {}

\* A request is in one place.
QueueInv ==
    /\ Distinct(waiting) /\ Distinct(prefilling) /\ Distinct(handoffs)
    /\ \A r \in ToSet(waiting) : r \notin ToSet(prefilling) \cup ToSet(handoffs) \cup decoding
    /\ \A r \in ToSet(prefilling) : r \notin ToSet(handoffs) \cup decoding
    /\ \A r \in ToSet(handoffs) : r \notin decoding
    /\ \A r \in Request : Queued(r) => ~InBatch(r)

\* What is known of a request from where it is.
RequestInv ==
    \A r \in Request :
        /\ handle[r] \in {"none", "submits"} => Nowhere(r) /\ ~Done(r) /\ generated[r] = 0
        /\ Done(r) => Nowhere(r)
        /\ ~Nowhere(r) /\ r \notin decoding => generated[r] = 0
        /\ handle[r] # "none" => \E g \in 1..gen : watch[r] = Team(g)

\* Decoding requests have a slot, and the slot their text.
SlotInv == decoding \subseteq ToSet(session) /\ SlotHoldsOutput

\* A request is held until it ends or its threads do.
LocateInv ==
    \A r \in Request :
        handle[r] \in {"waits", "sees dead"} /\ ~Done(r) /\ Fresh(r) => Here(r)

\* The inductive invariant.
IInv == TypeOK /\ ThreadInv /\ BatchInv /\ QueueInv /\ RequestInv /\ SlotInv /\ LocateInv

\* A thread the handle watches crashed.
SawCrash(r) == \E t \in watch[r] : pc[t] \in Crashes

\* A stop() whose joins return leaves no thread, and drained what they had.
FlagsInv ==
    /\ undrained = {}
    /\ control = "join" => joined = current
    /\ control = "end" => NoneAlive(joined)
    /\ gen <= ended + 1
    /\ current = {} /\ control = "idle" => ended = gen
    /\ crashed <=> \E t \in Thread : t[2] = gen /\ pc[t] \in Crashes
    /\ stopping <=> control # "idle"
    /\ stop_event /\ ended < gen => control # "idle"

\* A handle that still waits and saw no crash watches threads that no stop()
\* drained, and finds one dead only while a stop() goes on.
AnswerInv(r) ==
    /\ handle[r] \in {"none", "submits"} => r \notin late
    /\ (handle[r] \in {"waits", "sees dead"} /\ r \notin late /\ ~Done(r) /\ ~SawCrash(r)) =>
          Fresh(r) /\ (handle[r] = "sees dead" => stopping)
    /\ handle[r] = "raised" => r \in late \/ SawCrash(r)

\* With IInv, inductive as long as no join times out.
StopInv == FlagsInv /\ \A r \in Request : AnswerInv(r)

-----------------------------------------------------------------------------
(* Queues whose elements differ.                                           *)

\* A queue and its elements.
LEMMA QueueFacts ==
    ASSUME NEW S, NEW q \in Seq(S)
    PROVE  /\ Len(q) \in Nat
           /\ ToSet(q) = {q[i] : i \in 1..Len(q)} /\ ToSet(q) \subseteq S
           /\ (q = <<>> <=> Len(q) = 0) /\ (q = <<>> <=> ToSet(q) = {})
  <1>1. /\ Len(q) \in Nat /\ ToSet(q) = {q[i] : i \in 1..Len(q)} /\ ToSet(q) \subseteq S
    <2>1. Len(q) \in Nat /\ q \in [1..Len(q) -> S] /\ DOMAIN q = 1..Len(q)
      BY LenProperties
    <2> QED BY <2>1 DEF ToSet
  <1>2. q = <<>> <=> Len(q) = 0
    BY EmptySeq
  <1> QED BY <1>1, <1>2

\* What is left of a queue when a set of elements is removed.
LEMMA WithoutFacts ==
    ASSUME NEW S, NEW s \in Seq(S), NEW R, NEW t \in Without(s, R)
    PROVE  t \in Seq(S) /\ ToSet(t) = ToSet(s) \ R /\ (Distinct(s) => Distinct(t))
  <1>1. /\ t \in SeqOf(ToSet(s) \ R, Len(s))
        /\ ToSet(t) = ToSet(s) \ R
        /\ \A i, j \in 1..Len(t) : i < j =>
              \E k, l \in 1..Len(s) : k < l /\ s[k] = t[i] /\ s[l] = t[j]
    BY DEF Without
  <1>2. PICK m \in 0..Len(s) : t \in [1..m -> ToSet(s) \ R]
    BY <1>1 DEF SeqOf
  <1>3. ToSet(s) \ R \subseteq S /\ m \in Nat
    BY QueueFacts
  <1>4. t \in Seq(S) /\ Len(t) = m
    BY <1>2, <1>3
  <1>5. ASSUME Distinct(s), NEW i \in 1..Len(t), NEW j \in 1..Len(t), i < j
        PROVE  t[i] # t[j]
    <2>1. PICK k, l \in 1..Len(s) : k < l /\ s[k] = t[i] /\ s[l] = t[j]
      BY <1>1, <1>5
    <2>2. k # l
      BY <2>1, QueueFacts
    <2> QED BY <1>5, <2>1, <2>2 DEF Distinct
  <1>6. Distinct(s) => Distinct(t)
    <2> SUFFICES ASSUME Distinct(s), NEW i \in 1..Len(t), NEW j \in 1..Len(t), i # j
                 PROVE  t[i] # t[j]
      BY DEF Distinct
    <2>1. i < j \/ j < i
      BY <1>3, <1>4
    <2> QED BY <1>5, <2>1
  <1> QED BY <1>1, <1>4, <1>6

\* The elements of a queue of a given length.
LEMMA Elements ==
    ASSUME NEW S, NEW q \in Seq(S), NEW n, Len(q) = n
    PROVE  ToSet(q) = {q[i] : i \in 1..n}
  BY QueueFacts

\* The empty queue.
LEMMA EmptyFacts == \A S : <<>> \in Seq(S) /\ Len(<<>>) = 0 /\ ToSet(<<>>) = {} /\ Distinct(<<>>)
  <1>1. \A S : <<>> \in Seq(S) /\ Len(<<>>) = 0
    BY EmptySeq
  <1>2. ToSet(<<>>) = {}
    BY <1>1, QueueFacts
  <1> QED BY <1>1, <1>2 DEF Distinct

\* Taking the head of a queue.
LEMMA TailFacts ==
    ASSUME NEW S, NEW q \in Seq(S), q # <<>>, Distinct(q)
    PROVE  /\ Head(q) \in S /\ Head(q) \in ToSet(q)
           /\ Tail(q) \in Seq(S) /\ Len(Tail(q)) = Len(q) - 1 /\ Distinct(Tail(q))
           /\ ToSet(Tail(q)) = ToSet(q) \ {Head(q)}
  <1>1. Len(q) \in Nat \ {0} /\ ToSet(q) = {q[i] : i \in 1..Len(q)}
    BY EmptySeq, QueueFacts
  <1>2. /\ Head(q) = q[1] /\ Head(q) \in S
        /\ Tail(q) \in Seq(S) /\ Len(Tail(q)) = Len(q) - 1
        /\ \A i \in 1..Len(q) - 1 : Tail(q)[i] = q[i + 1]
    BY HeadTailProperties
  <1>3. ToSet(Tail(q)) = {Tail(q)[i] : i \in 1..Len(q) - 1}
    BY <1>2, Elements
  <1>4. Distinct(Tail(q))
    BY <1>1, <1>2 DEF Distinct
  <1>5. Head(q) \in ToSet(q)
    BY <1>1, <1>2
  <1>6. \A x \in ToSet(Tail(q)) : x \in ToSet(q) /\ x # Head(q)
    BY <1>1, <1>2, <1>3 DEF Distinct
  <1>7. \A x \in ToSet(q) \ {Head(q)} : x \in ToSet(Tail(q))
    <2> TAKE x \in ToSet(q) \ {Head(q)}
    <2>1. PICK i \in 1..Len(q) : x = q[i]
      BY <1>1
    <2>2. i # 1 /\ i - 1 \in 1..Len(q) - 1 /\ q[i] = Tail(q)[i - 1]
      BY <1>1, <1>2, <2>1
    <2> QED BY <1>3, <2>1, <2>2
  <1>8. ToSet(Tail(q)) = ToSet(q) \ {Head(q)}
    BY <1>6, <1>7
  <1> QED BY <1>2, <1>4, <1>5, <1>8

\* Adding to a queue.
LEMMA AppendFacts ==
    ASSUME NEW S, NEW q \in Seq(S), NEW x \in S
    PROVE  /\ Append(q, x) \in Seq(S) /\ Append(q, x) # <<>>
           /\ ToSet(Append(q, x)) = ToSet(q) \cup {x}
           /\ Distinct(q) /\ x \notin ToSet(q) => Distinct(Append(q, x))
  <1>1. Len(q) \in Nat /\ ToSet(q) = {q[i] : i \in 1..Len(q)}
    BY QueueFacts
  <1>2. /\ Append(q, x) \in Seq(S) /\ Append(q, x) # <<>>
        /\ Len(Append(q, x)) = Len(q) + 1
        /\ \A i \in 1..Len(q) : Append(q, x)[i] = q[i]
        /\ Append(q, x)[Len(q) + 1] = x
    BY AppendProperties
  <1>3. ToSet(Append(q, x)) = {Append(q, x)[i] : i \in 1..Len(q) + 1}
    BY <1>2, QueueFacts
  <1>4. 1..Len(q) + 1 = (1..Len(q)) \cup {Len(q) + 1}
    BY <1>1
  <1>5. ToSet(Append(q, x)) = ToSet(q) \cup {x}
    BY <1>1, <1>2, <1>3, <1>4
  <1>6. ASSUME Distinct(q), x \notin ToSet(q) PROVE Distinct(Append(q, x))
    BY <1>1, <1>2, <1>4, <1>6 DEF Distinct
  <1> QED BY <1>2, <1>5, <1>6

\* Joining two queues.
LEMMA ConcatFacts ==
    ASSUME NEW S, NEW p \in Seq(S), NEW q \in Seq(S)
    PROVE  /\ p \o q \in Seq(S)
           /\ ToSet(p \o q) = ToSet(p) \cup ToSet(q)
           /\ Distinct(p) /\ Distinct(q) /\ ToSet(p) \cap ToSet(q) = {} => Distinct(p \o q)
  <1>1. /\ Len(p) \in Nat /\ ToSet(p) = {p[i] : i \in 1..Len(p)}
        /\ Len(q) \in Nat /\ ToSet(q) = {q[i] : i \in 1..Len(q)}
    BY QueueFacts
  <1>2. /\ p \o q \in Seq(S) /\ Len(p \o q) = Len(p) + Len(q)
        /\ \A i \in 1..Len(p) + Len(q) :
              (p \o q)[i] = IF i <= Len(p) THEN p[i] ELSE q[i - Len(p)]
    BY ConcatProperties
  <1>3. ToSet(p \o q) = {(p \o q)[i] : i \in 1..Len(p) + Len(q)}
    BY <1>2, Elements
  <1>4. \A i \in 1..Len(p) + Len(q) : i <= Len(p) => i \in 1..Len(p)
    BY <1>1
  <1>5. \A i \in 1..Len(p) + Len(q) : ~(i <= Len(p)) => i - Len(p) \in 1..Len(q)
    BY <1>1
  <1>6. \A i \in 1..Len(p) : i \in 1..Len(p) + Len(q) /\ i <= Len(p)
    BY <1>1
  <1>7. \A i \in 1..Len(q) : i + Len(p) \in 1..Len(p) + Len(q) /\ ~(i + Len(p) <= Len(p)) /\ i + Len(p) - Len(p) = i
    BY <1>1
  <1>8. \A x \in ToSet(p \o q) : x \in ToSet(p) \cup ToSet(q)
    BY <1>1, <1>2, <1>3, <1>4, <1>5
  <1>9. \A x \in ToSet(p) : x \in ToSet(p \o q)
    BY <1>1, <1>2, <1>3, <1>6
  <1>10. \A x \in ToSet(q) : x \in ToSet(p \o q)
    <2> TAKE x \in ToSet(q)
    <2>1. PICK i \in 1..Len(q) : x = q[i]
      BY <1>1
    <2>2. (p \o q)[i + Len(p)] = x
      BY <1>2, <1>7, <2>1
    <2> QED BY <1>3, <1>7, <2>2
  <1>11. ASSUME Distinct(p), Distinct(q), ToSet(p) \cap ToSet(q) = {} PROVE Distinct(p \o q)
    <2> SUFFICES ASSUME NEW i \in 1..Len(p) + Len(q), NEW j \in 1..Len(p) + Len(q),
                        (p \o q)[i] = (p \o q)[j]
                 PROVE  i = j
      BY <1>2 DEF Distinct
    <2>1. CASE i <= Len(p) /\ j <= Len(p)
      BY <1>1, <1>2, <1>4, <1>11, <2>1 DEF Distinct
    <2>2. CASE ~(i <= Len(p)) /\ ~(j <= Len(p))
      <3>1. q[i - Len(p)] = q[j - Len(p)]
        BY <1>2, <2>2
      <3>2. i - Len(p) = j - Len(p)
        BY <3>1, <1>5, <1>11, <2>2 DEF Distinct
      <3> QED BY <3>2, <1>1
    <2>3. ASSUME NEW k \in 1..Len(p) + Len(q), k <= Len(p),
                 NEW l \in 1..Len(p) + Len(q), ~(l <= Len(p))
          PROVE  (p \o q)[k] # (p \o q)[l]
      <3>1. (p \o q)[k] \in ToSet(p)
        BY <1>1, <1>2, <1>4, <2>3
      <3>2. (p \o q)[l] \in ToSet(q)
        BY <1>1, <1>2, <1>5, <2>3
      <3> QED BY <1>11, <3>1, <3>2
    <2> QED BY <2>1, <2>2, <2>3
  <1> QED BY <1>2, <1>8, <1>9, <1>10, <1>11

\* Cutting a queue in two.
LEMMA PrefixFacts ==
    ASSUME NEW S, NEW q \in Seq(S), NEW n \in 0..Len(q), Distinct(q)
    PROVE  LET p == SubSeq(q, 1, n)
               s == SubSeq(q, n + 1, Len(q))
           IN /\ p \in Seq(S) /\ s \in Seq(S) /\ Distinct(p) /\ Distinct(s)
              /\ ToSet(p) \cup ToSet(s) = ToSet(q) /\ ToSet(p) \cap ToSet(s) = {}
  <1> DEFINE p == SubSeq(q, 1, n)
             s == SubSeq(q, n + 1, Len(q))
  <1>1. Len(q) \in Nat /\ n \in Nat /\ n <= Len(q) /\ ToSet(q) = {q[i] : i \in 1..Len(q)}
    BY QueueFacts
  <1>2. p \in Seq(S) /\ Len(p) = n /\ \A i \in 1..n : p[i] = q[i]
    BY <1>1, ElementOfSeq, SubSeqProperties
  <1>3. /\ s \in Seq(S) /\ Len(s) = Len(q) - n
        /\ \A i \in 1..Len(q) - n : s[i] = q[n + i]
    <2>1. \A i \in n + 1..Len(q) : q[i] \in S
      BY <1>1, ElementOfSeq
    <2>2. /\ s \in Seq(S) /\ Len(s) = IF n + 1 <= Len(q) THEN Len(q) - (n + 1) + 1 ELSE 0
          /\ \A i \in 1..Len(q) - (n + 1) + 1 : s[i] = q[n + 1 + i - 1]
      BY <1>1, <2>1, SubSeqProperties
    <2> QED BY <1>1, <2>2
  <1> HIDE DEF p, s
  <1>4. ToSet(p) = {p[i] : i \in 1..n} /\ ToSet(s) = {s[i] : i \in 1..Len(q) - n}
    <2>1. ToSet(p) = {p[i] : i \in 1..n}
      BY <1>2, Elements
    <2>2. ToSet(s) = {s[i] : i \in 1..Len(q) - n}
      BY <1>3, Elements
    <2> QED BY <2>1, <2>2
  <1>5. Distinct(p)
    BY <1>1, <1>2 DEF Distinct
  <1>6. Distinct(s)
    <2> SUFFICES ASSUME NEW i \in 1..Len(q) - n, NEW j \in 1..Len(q) - n, s[i] = s[j]
                 PROVE  i = j
      BY <1>3 DEF Distinct
    <2>1. n + i \in 1..Len(q) /\ n + j \in 1..Len(q)
      BY <1>1
    <2>2. n + i = n + j
      BY <1>3, <2>1 DEF Distinct
    <2> QED BY <1>1, <2>2
  <1>7. \A x \in ToSet(q) : x \in ToSet(p) \cup ToSet(s)
    <2> TAKE x \in ToSet(q)
    <2>1. PICK i \in 1..Len(q) : x = q[i]
      BY <1>1
    <2>2. CASE i <= n
      BY <1>1, <1>2, <1>4, <2>1, <2>2
    <2>3. CASE i > n
      <3>1. i - n \in 1..Len(q) - n /\ n + (i - n) = i
        BY <1>1, <2>3
      <3>2. s[i - n] = x
        BY <1>3, <2>1, <3>1
      <3> QED BY <1>4, <3>1, <3>2
    <2> QED BY <1>1, <2>2, <2>3
  <1>8. \A x \in ToSet(p) : x \in ToSet(q)
    BY <1>1, <1>2, <1>4
  <1>9. \A x \in ToSet(s) : x \in ToSet(q) /\ x \notin ToSet(p)
    <2> TAKE x \in ToSet(s)
    <2>1. PICK i \in 1..Len(q) - n : x = s[i]
      BY <1>4
    <2>2. n + i \in 1..Len(q) /\ x = q[n + i]
      BY <1>1, <1>3, <2>1
    <2>3. ASSUME NEW j \in 1..n PROVE p[j] # x
      BY <1>1, <1>2, <2>2 DEF Distinct
    <2> QED BY <1>1, <1>4, <2>2, <2>3
  <1>10. ToSet(p) \cup ToSet(s) = ToSet(q) /\ ToSet(p) \cap ToSet(s) = {}
    BY <1>7, <1>8, <1>9
  <1> QED BY <1>2, <1>3, <1>5, <1>6, <1>10 DEF p, s

\* The elements of a queue are finitely many, and as many as its places when
\* they differ.
LEMMA QueueSize ==
    ASSUME NEW S, NEW q \in Seq(S)
    PROVE  IsFiniteSet(ToSet(q)) /\ (Distinct(q) => Cardinality(ToSet(q)) = Len(q))
  <1>1. Len(q) \in Nat /\ ToSet(q) = {q[i] : i \in 1..Len(q)} /\ q \in [1..Len(q) -> ToSet(q)]
    <2>1. Len(q) \in Nat /\ q \in [1..Len(q) -> S]
      BY LenProperties
    <2>2. ToSet(q) = {q[i] : i \in 1..Len(q)}
      BY QueueFacts
    <2> QED BY <2>1, <2>2
  <1>2. q \in Surjection(1..Len(q), ToSet(q))
    BY <1>1 DEF Surjection
  <1>3. IsFiniteSet(1..Len(q)) /\ Cardinality(1..Len(q)) = Len(q)
    BY <1>1, FS_Interval
  <1>4. IsFiniteSet(ToSet(q))
    BY <1>2, <1>3, FS_Surjection
  <1>5. ASSUME Distinct(q) PROVE Cardinality(ToSet(q)) = Len(q)
    <2>1. q \in Injection(1..Len(q), ToSet(q))
      BY <1>1, <1>5 DEF Injection, IsInjective, Distinct
    <2>2. q \in Bijection(1..Len(q), ToSet(q))
      BY <1>2, <2>1 DEF Bijection
    <2>3. ExistsBijection(1..Len(q), ToSet(q))
      BY <2>2 DEF ExistsBijection
    <2> QED BY <1>3, <2>3, FS_Bijection
  <1> QED BY <1>4, <1>5

-----------------------------------------------------------------------------
(* Sums over a set.                                                        *)

\* What Total counts.
Things(f, R) == UNION {{r} \X (1..f[r]) : r \in R}

\* Whom a thing is at.
LEMMA ThingFacts ==
    ASSUME NEW f, NEW R, NEW x
    PROVE  x \in Things(f, R) <=> \E r \in R : \E i \in 1..f[r] : x = <<r, i>>
  BY DEF Things

\* A sum of natural numbers over a finite set.
LEMMA TotalFacts ==
    ASSUME NEW f, NEW R, IsFiniteSet(R), \A r \in R : f[r] \in Nat
    PROVE  IsFiniteSet(Things(f, R)) /\ Total(f, R) \in Nat /\ Total(f, R) = Cardinality(Things(f, R))
  <1> DEFINE at == [r \in R |-> {r} \X (1..f[r])]
             S == {{r} \X (1..f[r]) : r \in R}
  <1>1. IsFiniteSet(S)
    <2>1. at \in Surjection(R, S)
      BY DEF Surjection
    <2> QED BY <2>1, FS_Surjection
  <1>2. \A T \in S : IsFiniteSet(T)
    <2> SUFFICES ASSUME NEW r \in R PROVE IsFiniteSet({r} \X (1..f[r]))
      OBVIOUS
    <2>1. IsFiniteSet({r})
      BY FS_Singleton
    <2>2. IsFiniteSet(1..f[r])
      BY FS_Interval
    <2> QED BY <2>1, <2>2, FS_Product
  <1>3. IsFiniteSet(UNION S)
    BY <1>1, <1>2, FS_UNION
  <1>4. Things(f, R) = UNION S /\ Total(f, R) = Cardinality(UNION S)
    BY DEF Things, Total
  <1> QED BY <1>3, <1>4, FS_CardinalityType

\* A sum depends on the values at R only.
LEMMA TotalSame ==
    ASSUME NEW f, NEW g, NEW R, \A r \in R : f[r] = g[r]
    PROVE  Total(f, R) = Total(g, R)
  BY DEF Total

\* A sum over nothing.
LEMMA TotalEmpty == \A f : Total(f, {}) = 0
  <1>1. UNION {} = {}
    OBVIOUS
  <1> QED BY <1>1, FS_EmptySet DEF Total

\* A sum over one element.
LEMMA TotalOne ==
    ASSUME NEW f, NEW r, f[r] \in Nat
    PROVE  Total(f, {r}) = f[r]
  <1>1. Total(f, {r}) = Cardinality({r} \X (1..f[r]))
    BY DEF Total
  <1>2. IsFiniteSet({r}) /\ Cardinality({r}) = 1
    BY FS_Singleton
  <1>3. IsFiniteSet(1..f[r]) /\ Cardinality(1..f[r]) = f[r]
    BY FS_Interval
  <1>4. Cardinality({r} \X (1..f[r])) = Cardinality({r}) * Cardinality(1..f[r])
    BY <1>2, <1>3, FS_Product
  <1>5. 1 * f[r] = f[r]
    OBVIOUS
  <1> QED BY <1>1, <1>2, <1>3, <1>4, <1>5

\* A sum over two sets with nothing in common.
LEMMA TotalSplit ==
    ASSUME NEW f, NEW Q, NEW R, IsFiniteSet(Q), IsFiniteSet(R), Q \cap R = {},
           \A r \in Q \cup R : f[r] \in Nat
    PROVE  Total(f, Q \cup R) = Total(f, Q) + Total(f, R)
  <1>1. /\ IsFiniteSet(Things(f, Q)) /\ Total(f, Q) = Cardinality(Things(f, Q)) /\ Total(f, Q) \in Nat
    BY TotalFacts
  <1>2. /\ IsFiniteSet(Things(f, R)) /\ Total(f, R) = Cardinality(Things(f, R)) /\ Total(f, R) \in Nat
    BY TotalFacts
  <1>3. Things(f, Q \cup R) = Things(f, Q) \cup Things(f, R)
    BY DEF Things
  <1>4. Things(f, Q) \cap Things(f, R) = {}
    BY ThingFacts
  <1>5. Total(f, Q \cup R) = Cardinality(Things(f, Q) \cup Things(f, R))
    BY <1>3 DEF Total, Things
  <1>6. Cardinality(Things(f, Q) \cup Things(f, R))
            = Cardinality(Things(f, Q)) + Cardinality(Things(f, R)) - Cardinality(Things(f, Q) \cap Things(f, R))
    BY <1>1, <1>2, FS_Union
  <1>7. Cardinality(Things(f, Q) \cap Things(f, R)) = 0
    BY <1>4, FS_EmptySet
  <1> QED BY <1>1, <1>2, <1>5, <1>6, <1>7

\* A sum in which every value grows by one.
LEMMA TotalGrows ==
    ASSUME NEW f, NEW g, NEW R, IsFiniteSet(R), \A r \in R : f[r] \in Nat /\ g[r] = f[r] + 1
    PROVE  Total(g, R) = Total(f, R) + Cardinality(R)
  <1> DEFINE last == [r \in R |-> <<r, g[r]>>]
             L == {<<r, g[r]>> : r \in R}
  <1>1. /\ IsFiniteSet(Things(f, R)) /\ Total(f, R) = Cardinality(Things(f, R)) /\ Total(f, R) \in Nat
    BY TotalFacts
  <1>2. IsFiniteSet(L) /\ Cardinality(L) = Cardinality(R)
    <2>1. last \in Bijection(R, L)
      BY DEF Bijection, Injection, Surjection, IsInjective
    <2>2. ExistsBijection(R, L)
      BY <2>1 DEF ExistsBijection
    <2> QED BY <2>2, FS_Bijection
  <1>3. \A r \in R : 1..g[r] = (1..f[r]) \cup {g[r]} /\ g[r] \notin 1..f[r]
    OBVIOUS
  <1>4. Things(g, R) = Things(f, R) \cup L
    <2>1. ASSUME NEW x \in Things(g, R) PROVE x \in Things(f, R) \cup L
      <3>1. PICK r \in R : \E i \in 1..g[r] : x = <<r, i>>
        BY <2>1, ThingFacts
      <3>2. PICK i \in 1..g[r] : x = <<r, i>>
        BY <3>1
      <3>3. CASE i \in 1..f[r]
        BY <3>2, <3>3, ThingFacts
      <3>4. CASE i = g[r]
        BY <3>2, <3>4
      <3> QED BY <1>3, <3>2, <3>3, <3>4
    <2>2. ASSUME NEW x \in Things(f, R) PROVE x \in Things(g, R)
      <3>1. PICK r \in R : \E i \in 1..f[r] : x = <<r, i>>
        BY <2>2, ThingFacts
      <3>2. PICK i \in 1..f[r] : x = <<r, i>>
        BY <3>1
      <3>3. i \in 1..g[r]
        BY <1>3
      <3> QED BY <3>2, <3>3, ThingFacts
    <2>3. ASSUME NEW x \in L PROVE x \in Things(g, R)
      <3>1. PICK r \in R : x = <<r, g[r]>>
        BY <2>3
      <3>2. g[r] \in 1..g[r]
        BY <1>3
      <3> QED BY <3>1, <3>2, ThingFacts
    <2> QED BY <2>1, <2>2, <2>3
  <1>5. Things(f, R) \cap L = {}
    <2> SUFFICES ASSUME NEW x \in Things(f, R), x \in L PROVE FALSE
      OBVIOUS
    <2>1. PICK r \in R : \E i \in 1..f[r] : x = <<r, i>>
      BY ThingFacts
    <2>2. PICK i \in 1..f[r] : x = <<r, i>>
      BY <2>1
    <2>3. PICK s \in R : x = <<s, g[s]>>
      OBVIOUS
    <2>4. r = s /\ i = g[s]
      BY <2>2, <2>3
    <2> QED BY <1>3, <2>4
  <1> HIDE DEF L
  <1>6. Total(g, R) = Cardinality(Things(f, R) \cup L)
    BY <1>4 DEF Total, Things
  <1>7. Cardinality(Things(f, R) \cup L)
            = Cardinality(Things(f, R)) + Cardinality(L) - Cardinality(Things(f, R) \cap L)
    BY <1>1, <1>2, FS_Union
  <1>8. Cardinality(R) \in Nat
    BY FS_CardinalityType
  <1>9. Cardinality(Things(f, R) \cap L) = 0
    BY <1>5, FS_EmptySet
  <1> QED BY <1>1, <1>2, <1>6, <1>7, <1>8, <1>9

-----------------------------------------------------------------------------
(* Threads and requests.                                                   *)

\* Threads and teams of threads.
LEMMA Threads ==
    /\ \A t \in Thread : t[1] \in {"prefill", "decode"} /\ t[2] \in 1..MaxStarts /\ t = <<t[1], t[2]>>
    /\ \A t \in Thread : \A g : t \in Team(g) <=> t[1] \in Role /\ t[2] = g
    /\ \A g : <<"prefill", g>> \in Team(g)
    /\ \A g, h : Team(g) = Team(h) => g = h
    /\ \A g : \A t \in Team(g) : t[2] = g
    /\ \A g \in 1..MaxStarts : Team(g) \subseteq Thread /\ <<"prefill", g>> \in Thread
  <1>1. \A t \in Thread : t[1] \in {"prefill", "decode"} /\ t[2] \in 1..MaxStarts /\ t = <<t[1], t[2]>>
    BY DEF Thread
  <1>2. Role \subseteq {"prefill", "decode"} /\ "prefill" \in Role
    BY DEF Role
  <1>3. \A t \in Thread : \A g : t \in Team(g) <=> t[1] \in Role /\ t[2] = g
    BY <1>1 DEF Team
  <1>4. \A g : <<"prefill", g>> \in Team(g)
    BY <1>2 DEF Team
  <1>5. \A g : \A t \in Team(g) : t[2] = g
    BY DEF Team
  <1>6. \A g, h : Team(g) = Team(h) => g = h
    <2> TAKE g, h
    <2>1. <<"prefill", g>> \in Team(g) /\ <<"prefill", g>>[2] = g
      BY <1>4
    <2> QED BY <2>1, <1>5
  <1>7. \A g \in 1..MaxStarts : Team(g) \subseteq Thread /\ <<"prefill", g>> \in Thread
    BY <1>2 DEF Team, Thread
  <1> QED BY <1>1, <1>3, <1>4, <1>5, <1>6, <1>7

\* The last started threads are threads.
LEMMA LastTeam ==
    ASSUME TypeOK, NEW t \in Thread, t[2] = gen
    PROVE  Team(gen) \subseteq Thread /\ gen \in 1..MaxStarts
  <1>1. t[2] \in 1..MaxStarts
    BY Threads
  <1> QED BY <1>1, Threads

\* start() finds no thread alive.
LEMMA NoneLives ==
    ASSUME TypeOK, ThreadInv, control = "idle", NoneAlive(undrained),
           <<"prefill", gen>> \in current => ~Alive(<<"prefill", gen>>)
    PROVE  \A t \in Thread : ~Alive(t)
  <1> SUFFICES ASSUME NEW t \in Thread, Alive(t) PROVE FALSE
    OBVIOUS
  <1> DEFINE p == <<"prefill", gen>>
  <1>1. t[2] = gen /\ t \in Team(gen)
    BY Threads DEF ThreadInv, Alive
  <1>2. current = Team(gen)
    BY <1>1 DEF ThreadInv, NoneAlive
  <1>3. p \in Thread /\ p \in current /\ p[1] = "prefill" /\ p[2] = gen
    BY <1>1, <1>2, LastTeam, Threads
  <1>4. ~stop_event
    BY <1>2, <1>3 DEF ThreadInv
  <1>5. ~Alive(p) /\ "prefill" \in Role
    BY <1>3, Threads
  <1>6. pc[p] # "new" /\ pc[p] # "exit"
    <2>1. gen \in Nat
      BY DEF TypeOK
    <2> QED BY <1>3, <1>4, <1>5, <2>1 DEF ThreadInv
  <1>7. ~parallel
    BY <1>3, <1>5, <1>6 DEF ThreadInv, Alive
  <1>8. t[1] = "prefill" /\ t = p
    BY <1>1, <1>7, Threads DEF Role
  <1> QED BY <1>5, <1>8

\* A thread that goes on, to a place its role allows.
LEMMA ThreadStep ==
    ASSUME TypeOK, ThreadInv, NEW t \in Thread, Alive(t), UNCHANGED lifecycle,
           NEW p, pc' = [pc EXCEPT ![t] = p], p # "new", p = "exit" => stop_event,
           parallel /\ t[1] = "prefill" =>
               p \in {"new", "top", "prefill", "forward", "put", "offer", "exit"},
           t[1] = "decode" => p \notin {"prefill", "forward", "put", "offer"}
    PROVE  ThreadInv'
  <1>1. Role' = Role /\ \A g : Team(g)' = Team(g)
    BY DEF lifecycle, Role, Team
  <1>2. Team(gen)' = Team(gen)
    BY <1>1 DEF lifecycle, Team
  <1>3. pc[t] # "new"
    BY DEF Alive
  <1>4. \A u \in Thread : pc'[u] = IF u = t THEN p ELSE pc[u]
    BY DEF TypeOK
  <1>5. UNCHANGED <<parallel, gen, ended, current, undrained, joined, stop_event, stopping, control>>
    BY DEF lifecycle
  <1>6. \A u \in Thread :
          /\ pc'[u] = "new" <=> u[1] \notin Role' \/ u[2] > gen'
          /\ Alive(u)' => u[2] = gen'
          /\ pc'[u] = "exit" /\ u[2] = gen' => stop_event'
          /\ Alive(u)' => /\ ended' < gen'
                          /\ \/ current' = Team(gen)'
                             \/ undrained' = Team(gen)'
                             \/ control' # "idle" /\ joined' = Team(gen)'
          /\ parallel' /\ u[1] = "prefill" =>
                pc'[u] \in {"new", "top", "prefill", "forward", "put", "offer", "exit"}
          /\ u[1] = "decode" => pc'[u] \notin {"prefill", "forward", "put", "offer"}
    <2> TAKE u \in Thread
    <2>1. CASE u = t
      BY <1>1, <1>2, <1>3, <1>4, <1>5, <2>1 DEF ThreadInv, Alive
    <2>2. CASE u # t
      BY <1>1, <1>2, <1>4, <1>5, <2>2 DEF ThreadInv, Alive
    <2> QED BY <2>1, <2>2
  <1> QED BY <1>2, <1>5, <1>6 DEF ThreadInv

\* What a step of a thread may do to a request: it makes none appear, and one
\* it lets go has ended.
Moved(r) ==
    /\ Nowhere(r) => Nowhere(r)' /\ UNCHANGED <<finish[r], generated[r]>>
    /\ Done(r)' => Nowhere(r)'
    /\ ~Nowhere(r)' /\ r \notin decoding' => generated'[r] = 0
    /\ Here(r) => Here(r)' \/ Done(r)'
    /\ Done(r) => Done(r)'

\* What is known of the requests still is after a step of a thread.
LEMMA MovesKeep ==
    ASSUME TypeOK, RequestInv, LocateInv, UNCHANGED <<lifecycle, handles>>,
           \A r \in Request : Moved(r)
    PROVE  RequestInv' /\ LocateInv'
  <1>1. UNCHANGED <<handle, watch, gen, ended>> /\ Role' = Role
    BY DEF lifecycle, handles, Role
  <1>2. \A g : Team(g)' = Team(g)
    BY <1>1 DEF Team
  <1>3. RequestInv'
    BY <1>1, <1>2 DEF RequestInv, Moved, Done, Team
  <1>4. \A r \in Request : Fresh(r)' = Fresh(r)
    BY <1>1 DEF Fresh, Team
  <1>5. LocateInv'
    BY <1>1, <1>4 DEF LocateInv, Moved
  <1> QED BY <1>3, <1>5

-----------------------------------------------------------------------------
(* Handles.                                                                *)

\* Nothing of the scheduler changes.
LEMMA SameInside ==
    ASSUME ThreadInv, BatchInv, SlotInv, UNCHANGED <<pool, generated, batch, pc, lifecycle>>,
           prefilling' = prefilling, cancelled \subseteq cancelled'
    PROVE  ThreadInv' /\ BatchInv' /\ SlotInv'
  <1>1. UNCHANGED <<session, decoding, kv, generated, batch, prefilling, pc, parallel, gen, ended,
                    current, undrained, joined, stop_event, control>>
    BY DEF pool, slots, lifecycle
  <1>2. Role' = Role /\ Team(gen)' = Team(gen)
    BY <1>1 DEF Role, Team
  <1>3. ThreadInv'
    BY <1>1, <1>2 DEF ThreadInv, Alive
  <1>4. BatchInv'
    BY <1>1 DEF BatchInv
  <1>5. SlotInv'
    BY <1>1 DEF SlotInv, SlotHoldsOutput
  <1> QED BY <1>3, <1>4, <1>5

\* submit() reads the threads.
LEMMA SubmitKeeps ==
    ASSUME IInv, NEW r \in Request, Submit(r) PROVE IInv'
  <1> USE DEF IInv
  <1>1. /\ UNCHANGED <<queues, pool, output, cancelled, crashed, pc, lifecycle, late>>
        /\ handle[r] = "none" /\ handle' = [handle EXCEPT ![r] = "submits"]
        /\ watch' = [watch EXCEPT ![r] = current]
        /\ current # {}
    BY DEF Submit, IsRunning
  <1>2. TypeOK'
    BY <1>1 DEF TypeOK, queues, pool, slots, output, lifecycle
  <1>3. ThreadInv' /\ BatchInv' /\ SlotInv'
    BY <1>1, SameInside DEF queues, output
  <1>4. QueueInv' /\ \A x \in Request : Nowhere(x)' = Nowhere(x) /\ Here(x)' = Here(x)
    BY <1>1 DEF QueueInv, queues, pool, slots, lifecycle, Queued, InBatch, Nowhere, Here
  <1>5. current = Team(gen) /\ gen \in 1..gen
    <2>1. current = Team(gen) /\ gen \in Nat
      BY <1>1 DEF ThreadInv, TypeOK
    <2>2. PICK t \in Thread : t \in Team(gen)
      BY <1>1, <2>1 DEF TypeOK
    <2>3. gen >= 1
      BY <2>2, Threads
    <2> QED BY <2>1, <2>3
  <1>6. \A g : Team(g)' = Team(g)
    BY <1>1 DEF lifecycle, Role, Team
  <1>7. \A x \in Request : /\ handle'[x] = IF x = r THEN "submits" ELSE handle[x]
                           /\ watch'[x] = IF x = r THEN current ELSE watch[x]
                           /\ Done(x)' = Done(x)
    BY <1>1 DEF TypeOK, output, Done
  <1>8. RequestInv'
    <2> SUFFICES ASSUME NEW x \in Request
                 PROVE  /\ handle'[x] \in {"none", "submits"} =>
                              Nowhere(x)' /\ ~Done(x)' /\ generated'[x] = 0
                        /\ Done(x)' => Nowhere(x)'
                        /\ ~Nowhere(x)' /\ x \notin decoding' => generated'[x] = 0
                        /\ handle'[x] # "none" => \E g \in 1..gen' : watch'[x] = Team(g)'
      BY DEF RequestInv
    <2>1. gen' = gen /\ decoding' = decoding /\ generated' = generated
      BY <1>1 DEF lifecycle, pool, slots, output
    <2>2. handle'[x] # "none" => \E g \in 1..gen : watch'[x] = Team(g)
      BY <1>5, <1>7 DEF RequestInv
    <2>3. handle'[x] # "none" => \E g \in 1..gen' : watch'[x] = Team(g)'
      BY <2>1, <2>2, <1>6
    <2> QED BY <1>1, <1>4, <1>7, <2>1, <2>3 DEF RequestInv
  <1>9. LocateInv'
    <2>1. \A x \in Request : x # r => Fresh(x)' = Fresh(x)
      BY <1>1, <1>7 DEF Fresh, lifecycle, Role, Team
    <2> QED BY <1>4, <1>7, <2>1 DEF LocateInv
  <1> QED BY <1>2, <1>3, <1>4, <1>8, <1>9

\* submit() puts the request.
LEMMA EnqueueKeeps ==
    ASSUME IInv, NEW r \in Request, Enqueue(r) PROVE IInv'
  <1> USE DEF IInv
  <1>1. /\ UNCHANGED <<prefilling, batch, handoffs, pool, output, cancelled, crashed, pc, lifecycle, watch>>
        /\ handle[r] = "submits" /\ handle' = [handle EXCEPT ![r] = "waits"]
        /\ waiting' = Append(waiting, r)
        /\ late' \in {late, late \cup {r}}
    BY DEF Enqueue
  <1>2. Nowhere(r) /\ ~Done(r) /\ generated[r] = 0
    BY <1>1 DEF RequestInv
  <1>3. /\ waiting' \in Seq(Request) /\ ToSet(waiting') = ToSet(waiting) \cup {r}
        /\ Distinct(waiting')
    <2>1. waiting \in Seq(Request) /\ Distinct(waiting) /\ r \notin ToSet(waiting)
      BY <1>2 DEF TypeOK, QueueInv, Nowhere, Queued
    <2> QED BY <1>1, <2>1, AppendFacts
  <1>4. TypeOK'
    BY <1>1, <1>3 DEF TypeOK, pool, slots, output, lifecycle
  <1>5. ThreadInv' /\ BatchInv' /\ SlotInv'
    BY <1>1, SameInside DEF output
  <1>6. \A x \in Request : /\ InBatch(x)' = InBatch(x)
                           /\ Queued(x)' <=> Queued(x) \/ x = r
                           /\ Here(x)' <=> Here(x) \/ x = r
                           /\ Done(x)' = Done(x) /\ Fresh(x)' = Fresh(x)
                           /\ handle'[x] = IF x = r THEN "waits" ELSE handle[x]
    BY <1>1, <1>3 DEF InBatch, Queued, Here, Done, Fresh, Team, Role, pool, slots, output, lifecycle, TypeOK
  <1>7. QueueInv'
    <2>1. UNCHANGED <<prefilling, handoffs, decoding>>
      BY <1>1 DEF pool, slots
    <2> QED BY <1>2, <1>3, <1>6, <2>1 DEF QueueInv, Nowhere, Queued
  <1>8. RequestInv'
    <2> SUFFICES ASSUME NEW x \in Request
                 PROVE  /\ handle'[x] \in {"none", "submits"} =>
                              Nowhere(x)' /\ ~Done(x)' /\ generated'[x] = 0
                        /\ Done(x)' => Nowhere(x)'
                        /\ ~Nowhere(x)' /\ x \notin decoding' => generated'[x] = 0
                        /\ handle'[x] # "none" => \E g \in 1..gen' : watch'[x] = Team(g)'
      BY DEF RequestInv
    <2>1. UNCHANGED <<gen, decoding, generated, watch, parallel>>
      BY <1>1 DEF lifecycle, pool, slots, output
    <2>2. handle'[x] # "none" => \E g \in 1..gen' : watch'[x] = Team(g)'
      BY <1>1, <1>6, <2>1 DEF RequestInv, Team, Role
    <2> QED BY <1>2, <1>6, <2>1, <2>2 DEF RequestInv, Nowhere
  <1>9. LocateInv'
    BY <1>6 DEF LocateInv
  <1> QED BY <1>4, <1>5, <1>7, <1>8, <1>9

\* cancel(), and what a handle sees and does.
LEMMA HandleKeeps ==
    ASSUME IInv, NEW r \in Request, Cancel(r) \/ Handle(r) PROVE IInv'
  <1> USE DEF IInv
  <1>1. /\ UNCHANGED <<queues, pool, output, crashed, pc, lifecycle, watch, late>>
        /\ cancelled' \in {cancelled, cancelled \cup {r}}
        /\ handle[r] \in {"waits", "sees dead"}
        /\ \E h \in {"waits", "sees dead", "raised"} : handle' = [handle EXCEPT ![r] = h]
    <2>1. CASE Cancel(r)
      BY <2>1 DEF Cancel, handles, TypeOK
    <2>2. CASE SeesDead(r)
      BY <2>2 DEF SeesDead
    <2>3. CASE GivesUp(r)
      BY <2>3 DEF GivesUp, TypeOK
    <2> QED BY <2>1, <2>2, <2>3 DEF Handle
  <1>2. TypeOK'
    BY <1>1 DEF TypeOK, queues, pool, slots, output, lifecycle
  <1>3. ThreadInv' /\ BatchInv' /\ SlotInv'
    BY <1>1, SameInside DEF queues, output
  <1>4. QueueInv' /\ \A x \in Request : Nowhere(x)' = Nowhere(x) /\ Here(x)' = Here(x)
    BY <1>1 DEF QueueInv, queues, pool, slots, lifecycle, Queued, InBatch, Nowhere, Here
  <1>5. \A x \in Request : /\ handle'[x] \in {"none", "submits"} => handle[x] = handle'[x]
                           /\ handle'[x] \in {"waits", "sees dead"} => handle[x] \in {"waits", "sees dead"}
                           /\ handle'[x] # "none" => handle[x] # "none"
                           /\ Done(x)' = Done(x) /\ Fresh(x)' = Fresh(x)
    BY <1>1 DEF TypeOK, output, Done, Fresh, Team, Role, lifecycle
  <1>6. UNCHANGED <<gen, decoding, generated, watch, parallel>>
    BY <1>1 DEF lifecycle, pool, slots, output
  <1>7. RequestInv'
    BY <1>4, <1>5, <1>6 DEF RequestInv, Team, Role
  <1>8. LocateInv'
    BY <1>4, <1>5 DEF LocateInv
  <1> QED BY <1>2, <1>3, <1>4, <1>7, <1>8

-----------------------------------------------------------------------------
(* start() and stop().                                                     *)

\* How often the threads were started and drained.
LEMMA Generations ==
    ASSUME TypeOK
    PROVE  gen \in Nat /\ gen <= MaxStarts /\ ended \in Nat /\ ended <= gen
  BY DEF TypeOK

\* No batch changes.
LEMMA SameBatches ==
    ASSUME BatchInv, UNCHANGED <<batch, prefilling, pc, parallel>>
    PROVE  BatchInv'
  BY DEF BatchInv

\* No request and no batch changes.
LEMMA SameRequests ==
    ASSUME BatchInv, QueueInv, RequestInv, SlotInv, LocateInv,
           UNCHANGED <<queues, pool, output, cancelled, pc, handles, parallel, gen, ended>>
    PROVE  BatchInv' /\ QueueInv' /\ RequestInv' /\ SlotInv' /\ LocateInv'
  <1>1. UNCHANGED <<waiting, prefilling, batch, handoffs, session, decoding, kv, generated, finish,
                    cancelled, pc, handle, watch, parallel, gen, ended>>
    BY DEF queues, pool, slots, output, handles
  <1>2. \A r \in Request : /\ Queued(r)' = Queued(r) /\ InBatch(r)' = InBatch(r)
                           /\ Nowhere(r)' = Nowhere(r) /\ Here(r)' = Here(r)
                           /\ Done(r)' = Done(r) /\ Fresh(r)' = Fresh(r)
    BY <1>1 DEF Queued, InBatch, Nowhere, Here, Done, Fresh, Team, Role
  <1>3. \A g : Team(g)' = Team(g)
    BY <1>1 DEF Team, Role
  <1>4. BatchInv' /\ QueueInv'
    <2>1. BatchInv'
      BY <1>1, SameBatches
    <2>2. QueueInv'
      BY <1>1, <1>2 DEF QueueInv
    <2> QED BY <2>1, <2>2
  <1>5. RequestInv' /\ LocateInv'
    BY <1>1, <1>2, <1>3 DEF RequestInv, LocateInv
  <1>6. SlotInv'
    BY <1>1 DEF SlotInv, SlotHoldsOutput
  <1> QED BY <1>4, <1>5, <1>6

\* stop() sets the flags, and joins.
LEMMA StopJoinKeep ==
    ASSUME IInv, Stop \/ Join PROVE IInv'
  <1> USE DEF IInv
  <1>1. UNCHANGED <<queues, pool, output, cancelled, pc, handles, parallel, gen, ended, undrained, crashed>>
    BY DEF Stop, Join
  <1>2. BatchInv' /\ QueueInv' /\ RequestInv' /\ SlotInv' /\ LocateInv'
    BY <1>1, SameRequests
  <1>3. CASE Stop
    <2>1. /\ control = "idle" /\ control' = "join" /\ stopping' = TRUE /\ stop_event' = TRUE
          /\ joined' = current \cup undrained /\ current' = current
      BY <1>3 DEF Stop
    <2>2. TypeOK'
      BY <1>1, <2>1 DEF TypeOK, queues, pool, slots, output, handles
    <2>3. Team(gen)' = Team(gen) /\ Role' = Role
      BY <1>1 DEF Team, Role
    <2>4. ThreadInv'
      BY <1>1, <2>1, <2>3 DEF ThreadInv, Alive
    <2> QED BY <1>2, <2>2, <2>4
  <1>4. CASE Join
    <2>1. /\ control = "join" /\ control' = "end" /\ current' = {}
          /\ UNCHANGED <<joined, stop_event, stopping>>
      BY <1>4 DEF Join
    <2>2. TypeOK'
      BY <1>1, <2>1 DEF TypeOK, queues, pool, slots, output, handles
    <2>3. Team(gen)' = Team(gen) /\ Role' = Role
      BY <1>1 DEF Team, Role
    <2>4. current = Team(gen) => joined = Team(gen)
      <3> SUFFICES ASSUME current = Team(gen) PROVE joined = Team(gen)
        OBVIOUS
      <3>1. Team(gen) # {}
        BY Threads
      <3> QED BY <2>1, <3>1 DEF ThreadInv
    <2>5. ThreadInv'
      BY <1>1, <2>1, <2>3, <2>4 DEF ThreadInv, Alive
    <2> QED BY <1>2, <2>2, <2>5
  <1> QED BY <1>3, <1>4

\* What the drain does.
LEMMA Drain ==
    ASSUME TypeOK, BatchInv, QueueInv, RequestInv, NEW c, EndInFlight(c),
           UNCHANGED <<batch, generated, parallel>>
    PROVE  /\ UNCHANGED <<batch, generated, parallel>>
           /\ waiting' = <<>> /\ prefilling' = <<>> /\ handoffs' = <<>> /\ session' = <<>>
           /\ decoding' = {} /\ kv' = [r \in Request |-> 0] /\ ended' = gen
           /\ \A r \in Request : /\ ~Queued(r)' /\ InBatch(r)' = InBatch(r)
                                 /\ Nowhere(r) => Nowhere(r)'
                                 /\ ~InBatch(r) => Nowhere(r)'
                                 /\ Done(r) => Done(r)'
                                 /\ Done(r)' => Done(r) \/ Queued(r)
                                 /\ Queued(r) /\ ~c => Done(r)'
                                 /\ finish'[r] \in {finish[r], "cancelled"}
           /\ finish' \in [Request -> {"none", "length", "stop", "cancelled", "failed"}]
  <1>1. /\ waiting' = <<>> /\ prefilling' = <<>> /\ handoffs' = <<>> /\ session' = <<>>
        /\ decoding' = {} /\ kv' = [r \in Request |-> 0] /\ ended' = gen
        /\ finish' = [r \in Request |->
                        IF r \in HeldAtStop /\ ~Done(r) /\ ~c THEN "cancelled" ELSE finish[r]]
    BY DEF EndInFlight
  <1>2. \A r : r \in HeldAtStop <=> Queued(r)
    BY DEF HeldAtStop, Queued
  <1>3. finish' \in [Request -> {"none", "length", "stop", "cancelled", "failed"}]
    BY <1>1 DEF TypeOK
  <1>4. ToSet(<<>>) = {}
    BY EmptyFacts
  <1>5. \A r \in Request : ~Queued(r)' /\ InBatch(r)' = InBatch(r)
    BY <1>1, <1>4 DEF Queued, InBatch
  <1>6. \A r \in Request : /\ finish'[r] = IF Queued(r) /\ ~Done(r) /\ ~c THEN "cancelled" ELSE finish[r]
                           /\ Done(r)' <=> finish'[r] # "none"
    BY <1>1, <1>2 DEF Done
  <1>7. \A r \in Request : /\ Done(r) => Done(r)'
                           /\ Done(r)' => Done(r) \/ Queued(r)
                           /\ Queued(r) /\ ~c => Done(r)'
                           /\ finish'[r] \in {finish[r], "cancelled"}
    BY <1>6 DEF Done
  <1> QED BY <1>1, <1>3, <1>5, <1>7 DEF Nowhere

\* Requests after a drain that finds no thread alive.
LEMMA DrainKeeps ==
    ASSUME TypeOK, BatchInv, QueueInv, RequestInv, \A t \in Thread : ~Alive(t),
           NEW c, EndInFlight(c), UNCHANGED <<batch, generated, parallel, handle, watch>>,
           gen' \in Nat, gen' >= gen,
           \A t \in Thread : pc'[t] = pc[t] \/ (pc[t] = "new" /\ pc'[t] = "top")
    PROVE  BatchInv' /\ QueueInv' /\ RequestInv' /\ SlotInv'
  <1>1. /\ waiting' = <<>> /\ prefilling' = <<>> /\ handoffs' = <<>> /\ session' = <<>>
        /\ decoding' = {}
        /\ \A r \in Request : /\ ~Queued(r)' /\ InBatch(r)' = InBatch(r)
                              /\ Nowhere(r) => Nowhere(r)'
                              /\ ~InBatch(r) => Nowhere(r)'
                              /\ Done(r)' => Done(r) \/ Queued(r)
                              /\ Nowhere(r) /\ ~Done(r) => ~Done(r)'
    BY Drain DEF Nowhere
  <1>2. BatchInv'
    <2> SUFFICES ASSUME NEW t \in Thread
                 PROVE /\ Distinct(batch[t])
                       /\ pc'[t] \in {"forward", "put", "offer", "absorb", "absorb parked",
                                      "crash in add_handoff"} <=> batch[t] # <<>>
                       /\ pc'[t] = "absorb parked" \/ (pc'[t] = "absorb" /\ parallel) => Len(batch[t]) = 1
                       /\ pc'[t] # "prefill"
                       /\ \A u \in Thread : t # u => ToSet(batch[t]) \cap ToSet(batch[u]) = {}
      BY DEF BatchInv
    <2>1. pc[t] # "prefill"
      BY DEF Alive
    <2> QED BY <2>1 DEF BatchInv
  <1>3. QueueInv'
    <2>1. ToSet(<<>>) = {} /\ Distinct(<<>>)
      BY EmptyFacts
    <2> QED BY <1>1, <2>1 DEF QueueInv
  <1>4. RequestInv'
    <2> SUFFICES ASSUME NEW x \in Request
                 PROVE  /\ handle'[x] \in {"none", "submits"} =>
                              Nowhere(x)' /\ ~Done(x)' /\ generated'[x] = 0
                        /\ Done(x)' => Nowhere(x)'
                        /\ ~Nowhere(x)' /\ x \notin decoding' => generated'[x] = 0
                        /\ handle'[x] # "none" => \E g \in 1..gen' : watch'[x] = Team(g)'
      BY DEF RequestInv
    <2>1. handle[x] # "none" => \E g \in 1..gen' : watch[x] = Team(g)'
      <3> SUFFICES ASSUME handle[x] # "none" PROVE \E g \in 1..gen' : watch[x] = Team(g)'
        OBVIOUS
      <3>1. PICK g \in 1..gen : watch[x] = Team(g)
        BY DEF RequestInv
      <3>2. Team(g)' = Team(g)
        BY DEF Team, Role
      <3>3. g \in 1..gen'
        <4>1. gen \in Nat
          BY DEF TypeOK
        <4> QED BY <4>1
      <3> QED BY <3>1, <3>2, <3>3
    <2>2. ~Nowhere(x)' => ~Nowhere(x) /\ x \notin decoding
      BY <1>1 DEF Nowhere, QueueInv, Queued
    <2>3. Done(x)' => Nowhere(x)'
      BY <1>1 DEF QueueInv, RequestInv
    <2> QED BY <1>1, <2>1, <2>2, <2>3 DEF RequestInv
  <1>5. SlotInv'
    BY <1>1 DEF SlotInv, SlotHoldsOutput
  <1> QED BY <1>2, <1>3, <1>4, <1>5

\* A thread that lives at the end of stop() is one of those it joined.
LEMMA JoinedLive ==
    ASSUME TypeOK, ThreadInv, control = "end", NoneAlive(joined)
    PROVE  \A t \in Thread : ~Alive(t)
  <1> SUFFICES ASSUME NEW t \in Thread, Alive(t) PROVE FALSE
    OBVIOUS
  <1>1. t[2] = gen /\ t \in Team(gen)
    BY Threads DEF ThreadInv, Alive
  <1>2. joined = Team(gen)
    <2>1. CASE current = Team(gen)
      BY <1>1, <2>1 DEF ThreadInv
    <2>2. CASE undrained = Team(gen)
      BY <1>1, <2>2 DEF ThreadInv
    <2> QED BY <2>1, <2>2 DEF ThreadInv
  <1> QED BY <1>1, <1>2 DEF NoneAlive

\* stop() returns.
LEMMA StopReturnsKeeps ==
    ASSUME IInv, StopReturns PROVE IInv'
  <1> USE DEF IInv
  <1>1. /\ control = "end" /\ control' = "idle" /\ stopping' = FALSE
        /\ UNCHANGED <<parallel, batch, held, generated, cancelled, crashed, pc, gen, current, joined,
                       stop_event, stops, handles>>
    BY DEF StopReturns
  <1>2. Team(gen)' = Team(gen) /\ Role' = Role
    BY <1>1 DEF Team, Role
  <1>3. CASE NoneAlive(joined)
    <2> DEFINE c == crashed \/ undrained # {}
    <2>1. EndInFlight(c) /\ undrained' = {}
      BY <1>3 DEF StopReturns
    <2> HIDE DEF c
    <2>2. \A t \in Thread : ~Alive(t)
      BY <1>1, <1>3, JoinedLive
    <2>3. UNCHANGED <<batch, generated, parallel, handle, watch>> /\ gen' = gen /\ pc' = pc /\ gen \in Nat
      BY <1>1 DEF handles, TypeOK
    <2>4. BatchInv' /\ QueueInv' /\ RequestInv' /\ SlotInv'
      BY <2>1, <2>2, <2>3, DrainKeeps
    <2>5. /\ waiting' = <<>> /\ prefilling' = <<>> /\ handoffs' = <<>> /\ session' = <<>>
          /\ decoding' = {} /\ kv' = [r \in Request |-> 0] /\ ended' = gen
          /\ finish' \in [Request -> {"none", "length", "stop", "cancelled", "failed"}]
      BY <2>1, <2>3, Drain
    <2>6. TypeOK'
      <3>1. <<>> \in Seq(Request)
        BY EmptyFacts
      <3>2. UNCHANGED <<parallel, batch, generated, cancelled, crashed, pc, gen, current, joined,
                        stop_event, handle, watch, late>>
        BY <1>1 DEF handles
      <3>3. kv' = [r \in Request |-> kv'[r]]
        BY <2>5
      <3>4. decoding' \in SUBSET Request /\ undrained' \in SUBSET Thread
        BY <2>1, <2>5
      <3>5. /\ waiting' \in Seq(Request) /\ prefilling' \in Seq(Request)
            /\ handoffs' \in Seq(Request) /\ session' \in Seq(Request)
        BY <2>5, <3>1
      <3>6. gen' \in Nat /\ gen' <= MaxStarts /\ ended' \in Nat /\ ended' <= gen'
        BY <2>3, <2>5, Generations
      <3>7. stopping' \in BOOLEAN /\ control' \in {"idle", "join", "end"}
        BY <1>1
      <3>8. finish' \in [Request -> {"none", "length", "stop", "cancelled", "failed"}]
        BY <2>5
      <3> QED BY <3>2, <3>3, <3>4, <3>5, <3>6, <3>7, <3>8 DEF TypeOK
    <2>7. ThreadInv'
      BY <1>1, <1>2, <2>1, <2>2, <2>5 DEF ThreadInv, Alive
    <2>8. LocateInv'
      <3>1. \A r \in Request : ~Fresh(r)'
        BY <2>3, <2>5 DEF Fresh
      <3> QED BY <3>1 DEF LocateInv
    <2> QED BY <2>4, <2>6, <2>7, <2>8
  <1>4. CASE ~NoneAlive(joined)
    <2>1. undrained' = joined /\ UNCHANGED <<waiting, prefilling, handoffs, slots, free, finish, ended>>
      BY <1>4 DEF StopReturns
    <2>2. BatchInv' /\ QueueInv' /\ RequestInv' /\ SlotInv' /\ LocateInv'
      BY <1>1, <2>1, SameRequests DEF queues, pool, output
    <2>3. TypeOK'
      BY <1>1, <2>1 DEF TypeOK, slots, handles
    <2>4. ThreadInv'
      BY <1>1, <1>2, <2>1 DEF ThreadInv, Alive
    <2> QED BY <2>2, <2>3, <2>4
  <1> QED BY <1>3, <1>4

\* start() makes new threads.
LEMMA StartKeeps ==
    ASSUME IInv, Start PROVE IInv'
  <1> USE DEF IInv
  <1> DEFINE drains == (crashed \/ undrained # {}) /\ NoneAlive(current \cup undrained)
  <1>1. /\ control = "idle" /\ gen < MaxStarts /\ gen' = gen + 1
        /\ stop_event' = FALSE /\ crashed' = FALSE
        /\ current' = Role \X {gen + 1}
        /\ pc' = [t \in Thread |-> IF t \in current' THEN "top" ELSE pc[t]]
        /\ UNCHANGED <<parallel, batch, held, generated, cancelled, joined, stopping, control, stops, handles>>
        /\ IF drains
           THEN EndInFlight(TRUE) /\ undrained' = {}
           ELSE /\ handoffs' = <<>>
                /\ UNCHANGED <<finish, free, slots, prefilling, waiting, ended, undrained>>
    BY DEF Start
  <1>2. \A t \in Thread : ~Alive(t)
    BY <1>1, NoneLives DEF Start
  <1>3. ~drains => undrained = {}
    <2>1. current \subseteq Thread /\ undrained \subseteq Thread
      BY DEF TypeOK
    <2> QED BY <1>2, <2>1 DEF NoneAlive
  <1> HIDE DEF drains
  <1>4. /\ gen \in Nat /\ ended \in Nat /\ ended <= gen /\ gen' \in Nat /\ gen' <= MaxStarts
        /\ gen' >= gen /\ gen' \in 1..MaxStarts
    <2>1. gen \in Nat /\ ended \in Nat /\ ended <= gen
      BY Generations
    <2>2. MaxStarts \in Nat
      BY PDAssumption
    <2> QED BY <1>1, <2>1, <2>2
  <1>5. Role' = Role /\ \A g : Team(g)' = Team(g)
    BY <1>1 DEF Role, Team
  <1>6. current' = Team(gen') /\ Team(gen)' = Team(gen') /\ current' \subseteq Thread
    BY <1>1, <1>4, <1>5, Threads DEF Team
  <1>7. \A t \in Thread : t \in current' <=> t[1] \in Role /\ t[2] = gen'
    BY <1>6, Threads
  <1>8. \A t \in Thread : /\ t \in current' => pc[t] = "new" /\ pc'[t] = "top"
                          /\ t \notin current' => pc'[t] = pc[t]
    <2> TAKE t \in Thread
    <2>1. t \in current' => t[2] > gen
      BY <1>1, <1>4, <1>7
    <2> QED BY <1>1, <2>1 DEF ThreadInv
  <1>9. handle' = handle /\ watch' = watch /\ late' = late
    BY <1>1 DEF handles
  <1>10. pc' \in [Thread -> {"new", "top", "prefill", "forward", "put", "offer", "drain", "park",
                          "absorb", "absorb parked", "step", "reap", "exit"} \cup Crashes]
    <2>1. pc \in [Thread -> {"new", "top", "prefill", "forward", "put", "offer", "drain", "park",
                          "absorb", "absorb parked", "step", "reap", "exit"} \cup Crashes]
      BY DEF TypeOK
    <2> QED BY <1>1, <2>1
  <1>11. LocateInv'
    <2>1. ASSUME NEW r \in Request, handle[r] # "none" PROVE ~Fresh(r)'
      <3>1. PICK g \in 1..gen : watch[r] = Team(g)
        BY <2>1 DEF RequestInv
      <3>2. g # gen'
        BY <1>1, <1>4
      <3>3. watch[r] # Team(gen')
        BY <3>1, <3>2, Threads
      <3> QED BY <1>6, <1>9, <3>3 DEF Fresh
    <2> QED BY <1>9, <2>1 DEF LocateInv
  <1>12. ASSUME ended' \in {ended, gen}, undrained' = {} PROVE ThreadInv'
    <2>1. ended' < gen'
      BY <1>1, <1>4, <1>12
    <2>2. \A t \in Thread :
            /\ pc'[t] = "new" <=> t[1] \notin Role \/ t[2] > gen'
            /\ Alive(t)' => t[2] = gen'
            /\ pc'[t] = "exit" /\ t[2] = gen' => stop_event'
            /\ Alive(t)' => ended' < gen' /\ current' = Team(gen')
            /\ parallel' /\ t[1] = "prefill" =>
                  pc'[t] \in {"new", "top", "prefill", "forward", "put", "offer", "exit"}
            /\ t[1] = "decode" => pc'[t] \notin {"prefill", "forward", "put", "offer"}
      <3> TAKE t \in Thread
      <3>1. t[2] \in Nat
        BY Threads
      <3>2. CASE t \in current'
        BY <1>1, <1>4, <1>6, <1>7, <1>8, <2>1, <3>1, <3>2
      <3>3. CASE t \notin current'
        <4>1. pc'[t] = pc[t] /\ ~Alive(t)' /\ ~Alive(t)
          BY <1>2, <1>8, <3>3 DEF Alive
        <4>2. pc[t] = "new" <=> t[1] \notin Role \/ t[2] > gen'
          <5>1. t[1] \notin Role \/ t[2] # gen'
            BY <1>7, <3>3
          <5> QED BY <1>1, <1>4, <3>1, <4>1, <5>1 DEF ThreadInv
        <4>3. pc[t] = "exit" => t[2] # gen'
          BY <1>7, <3>3, <4>2
        <4> QED BY <1>1, <4>1, <4>2, <4>3 DEF ThreadInv
      <3> QED BY <3>2, <3>3
    <2> QED BY <1>1, <1>5, <1>6, <1>12, <2>2 DEF ThreadInv
  <1>13. CASE drains
    <2>1. EndInFlight(TRUE) /\ undrained' = {}
      BY <1>1, <1>13
    <2>2. \A t \in Thread : pc'[t] = pc[t] \/ (pc[t] = "new" /\ pc'[t] = "top")
      BY <1>8
    <2>3. UNCHANGED <<batch, generated, parallel, handle, watch>>
      BY <1>1, <1>9
    <2>4. BatchInv' /\ QueueInv' /\ RequestInv' /\ SlotInv'
      BY <1>2, <1>4, <2>1, <2>2, <2>3, DrainKeeps
    <2>5. /\ waiting' = <<>> /\ prefilling' = <<>> /\ handoffs' = <<>> /\ session' = <<>>
          /\ decoding' = {} /\ kv' = [r \in Request |-> 0] /\ ended' = gen
          /\ finish' \in [Request -> {"none", "length", "stop", "cancelled", "failed"}]
      BY <2>1, <2>3, Drain
    <2>6. ThreadInv'
      BY <1>12, <2>1, <2>5
    <2>7. TypeOK'
      <3>1. <<>> \in Seq(Request)
        BY EmptyFacts
      <3>2. /\ waiting' \in Seq(Request) /\ prefilling' \in Seq(Request)
            /\ handoffs' \in Seq(Request) /\ session' \in Seq(Request)
            /\ kv' = [r \in Request |-> kv'[r]]
            /\ decoding' \in SUBSET Request /\ undrained' \in SUBSET Thread
        BY <2>1, <2>5, <3>1
      <3>3. ended' \in Nat /\ ended' <= gen'
        BY <1>4, <2>5
      <3>4. UNCHANGED <<parallel, batch, generated, cancelled, joined, stopping, control, handle, watch, late>>
        BY <1>1, <1>9
      <3> QED BY <1>1, <1>4, <1>6, <1>10, <2>5, <3>2, <3>3, <3>4 DEF TypeOK
    <2> QED BY <1>11, <2>4, <2>6, <2>7
  <1>14. CASE ~drains
    <2>1. /\ handoffs' = <<>> /\ undrained' = {}
          /\ UNCHANGED <<finish, session, decoding, kv, prefilling, waiting, ended, undrained>>
      BY <1>1, <1>3, <1>14 DEF slots
    <2>2. ThreadInv'
      BY <1>12, <2>1
    <2>3. handoffs' \in Seq(Request) /\ ToSet(handoffs') = {} /\ Distinct(handoffs')
      BY <2>1, EmptyFacts
    <2>4. TypeOK'
      <3>1. UNCHANGED <<parallel, batch, generated, cancelled, joined, stopping, control, handle, watch, late>>
        BY <1>1, <1>9
      <3>2. ended' \in Nat /\ ended' <= gen'
        BY <1>4, <2>1
      <3> QED BY <1>1, <1>4, <1>6, <1>10, <2>1, <2>3, <3>1, <3>2 DEF TypeOK
    <2>5. \A r \in Request : /\ Queued(r)' => Queued(r)
                             /\ InBatch(r)' = InBatch(r)
                             /\ Nowhere(r) => Nowhere(r)'
                             /\ Done(r)' = Done(r)
      BY <1>1, <2>1, <2>3 DEF Queued, InBatch, Nowhere, Done
    <2>6. BatchInv'
      <3> SUFFICES ASSUME NEW t \in Thread
                   PROVE /\ Distinct(batch[t])
                         /\ pc'[t] \in {"forward", "put", "offer", "absorb", "absorb parked",
                                        "crash in add_handoff"} <=> batch[t] # <<>>
                         /\ pc'[t] = "absorb parked" \/ (pc'[t] = "absorb" /\ parallel) => Len(batch[t]) = 1
                         /\ pc'[t] = "prefill" => prefilling # <<>>
                         /\ \A u \in Thread : t # u => ToSet(batch[t]) \cap ToSet(batch[u]) = {}
        BY <1>1, <2>1 DEF BatchInv
      <3> QED BY <1>8 DEF BatchInv
    <2>7. QueueInv'
      BY <2>1, <2>3, <2>5 DEF QueueInv
    <2>8. RequestInv'
      <3> SUFFICES ASSUME NEW x \in Request
                   PROVE  /\ handle[x] \in {"none", "submits"} =>
                                Nowhere(x)' /\ ~Done(x)' /\ generated[x] = 0
                          /\ Done(x)' => Nowhere(x)'
                          /\ ~Nowhere(x)' /\ x \notin decoding => generated[x] = 0
                          /\ handle[x] # "none" => \E g \in 1..gen' : watch[x] = Team(g)'
        BY <1>1, <1>9, <2>1 DEF RequestInv
      <3>1. handle[x] # "none" => \E g \in 1..gen' : watch[x] = Team(g)'
        <4> SUFFICES ASSUME handle[x] # "none" PROVE \E g \in 1..gen' : watch[x] = Team(g)'
          OBVIOUS
        <4>1. PICK g \in 1..gen : watch[x] = Team(g)
          BY DEF RequestInv
        <4>2. g \in 1..gen' /\ Team(g)' = Team(g)
          BY <1>4, <1>5
        <4> QED BY <4>1, <4>2
      <3> QED BY <2>5, <3>1 DEF RequestInv
    <2>9. SlotInv'
      <3>1. (\A t \in Thread : pc'[t] # "crash") => \A t \in Thread : pc[t] # "crash"
        BY <1>8
      <3> QED BY <1>1, <2>1, <3>1 DEF SlotInv, SlotHoldsOutput
    <2> QED BY <1>11, <2>2, <2>4, <2>6, <2>7, <2>8, <2>9
  <1> QED BY <1>13, <1>14

-----------------------------------------------------------------------------
(* The steps of a thread.                                                  *)

\* The batch of a thread other than t holds r.
InOther(t, r) == \E u \in Thread : u # t /\ r \in ToSet(batch[u])

\* A thread goes on to p, with the batch b.
StepTo(t, p, b) ==
    /\ pc' = [pc EXCEPT ![t] = p]
    /\ batch' = [batch EXCEPT ![t] = b]
    /\ UNCHANGED <<lifecycle, handles>>

\* What that does to where requests are.
LEMMA InBatches ==
    ASSUME TypeOK, NEW t \in Thread, NEW p, NEW b \in Seq(Request), StepTo(t, p, b)
    PROVE  /\ \A r : /\ InBatch(r) <=> r \in ToSet(batch[t]) \/ InOther(t, r)
                     /\ InBatch(r)' <=> r \in ToSet(b) \/ InOther(t, r)
           /\ \A r : (r \in ToSet(batch[t]) => r \in ToSet(b) \/ Queued(r)') =>
                        (Here(r) => Here(r)' \/ Queued(r))
           /\ \A r : t[2] = gen /\ r \in ToSet(b) => Here(r)'
           /\ batch' \in [Thread -> Seq(Request)] /\ batch'[t] = b
           /\ \A u \in Thread : u # t => batch'[u] = batch[u] /\ pc'[u] = pc[u]
           /\ pc'[t] = p
  <1>1. /\ batch' \in [Thread -> Seq(Request)] /\ batch'[t] = b
        /\ \A u \in Thread : u # t => batch'[u] = batch[u] /\ pc'[u] = pc[u]
        /\ pc'[t] = p
    BY DEF StepTo, TypeOK
  <1>2. gen' = gen
    BY DEF StepTo, lifecycle
  <1>3. \A r : /\ InBatch(r) <=> r \in ToSet(batch[t]) \/ InOther(t, r)
               /\ InBatch(r)' <=> r \in ToSet(b) \/ InOther(t, r)
    BY <1>1 DEF InBatch, InOther
  <1>4. \A r : t[2] = gen /\ r \in ToSet(b) => Here(r)'
    BY <1>1, <1>2 DEF Here
  <1>5. \A r : (r \in ToSet(batch[t]) => r \in ToSet(b) \/ Queued(r)') =>
                  (Here(r) => Here(r)' \/ Queued(r))
    BY <1>1, <1>2 DEF Here
  <1> QED BY <1>1, <1>3, <1>4, <1>5

\* Only one thread prefills.
LEMMA OnePrefills ==
    ASSUME ThreadInv, NEW t \in Thread, NEW u \in Thread, pc[t] = "prefill", pc[u] = "prefill"
    PROVE  t = u
  <1>1. t[2] = gen /\ u[2] = gen /\ t[1] # "decode" /\ u[1] # "decode"
    BY DEF ThreadInv, Alive
  <1> QED BY <1>1, Threads

\* What is left to show of a step.
LEMMA StepKeeps ==
    ASSUME IInv, NEW t \in Thread, NEW p, NEW b \in Seq(Request), StepTo(t, p, b),
           Alive(t), p # "new", p = "exit" => stop_event,
           parallel /\ t[1] = "prefill" =>
               p \in {"new", "top", "prefill", "forward", "put", "offer", "exit"},
           t[1] = "decode" => p \notin {"prefill", "forward", "put", "offer"},
           Distinct(b),
           p \in {"forward", "put", "offer", "absorb", "absorb parked", "crash in add_handoff"}
               <=> b # <<>>,
           p = "absorb parked" \/ (p = "absorb" /\ parallel) => Len(b) = 1,
           p = "prefill" => prefilling' # <<>>,
           prefilling' = <<>> => prefilling = <<>> \/ pc[t] = "prefill",
           \A r \in ToSet(b) : ~InOther(t, r),
           TypeOK', QueueInv', SlotInv', \A r \in Request : Moved(r)
    PROVE  IInv'
  <1> USE DEF IInv
  <1>1. UNCHANGED lifecycle /\ UNCHANGED <<lifecycle, handles>> /\ pc' = [pc EXCEPT ![t] = p]
    BY DEF StepTo
  <1>2. ThreadInv'
    BY <1>1, ThreadStep
  <1>3. RequestInv' /\ LocateInv'
    BY <1>1, MovesKeep
  <1>4. /\ batch'[t] = b /\ pc'[t] = p
        /\ \A u \in Thread : u # t => batch'[u] = batch[u] /\ pc'[u] = pc[u]
    BY InBatches
  <1>5. parallel' = parallel
    BY <1>1 DEF lifecycle
  <1>6. BatchInv'
    <2> SUFFICES ASSUME NEW u \in Thread
                 PROVE /\ Distinct(batch'[u])
                       /\ pc'[u] \in {"forward", "put", "offer", "absorb", "absorb parked",
                                      "crash in add_handoff"} <=> batch'[u] # <<>>
                       /\ pc'[u] = "absorb parked" \/ (pc'[u] = "absorb" /\ parallel) => Len(batch'[u]) = 1
                       /\ pc'[u] = "prefill" => prefilling' # <<>>
                       /\ \A v \in Thread : u # v => ToSet(batch'[u]) \cap ToSet(batch'[v]) = {}
      BY <1>5 DEF BatchInv
    <2>1. \A v \in Thread : v # t => ToSet(b) \cap ToSet(batch[v]) = {}
      BY DEF InOther
    <2>2. CASE u = t
      BY <1>4, <2>1, <2>2
    <2>3. CASE u # t
      <3>1. pc[u] = "prefill" => prefilling' # <<>>
        <4> SUFFICES ASSUME pc[u] = "prefill", prefilling' = <<>> PROVE FALSE
          OBVIOUS
        <4>1. prefilling # <<>>
          BY DEF BatchInv
        <4> QED BY <2>3, <4>1, OnePrefills
      <3>2. \A v \in Thread : u # v => ToSet(batch'[u]) \cap ToSet(batch'[v]) = {}
        BY <1>4, <2>1, <2>3 DEF BatchInv
      <3> QED BY <1>4, <2>3, <3>1, <3>2 DEF BatchInv
    <2> QED BY <2>2, <2>3
  <1> QED BY <1>2, <1>3, <1>6

\* Types after a step.
LEMMA StepTypes ==
    ASSUME TypeOK, NEW t \in Thread, NEW p, NEW b \in Seq(Request), StepTo(t, p, b),
           p \in {"top", "prefill", "forward", "put", "offer", "drain", "park", "absorb",
                  "absorb parked", "step", "reap", "exit"} \cup Crashes,
           waiting' \in Seq(Request), prefilling' \in Seq(Request),
           handoffs' \in Seq(Request), session' \in Seq(Request),
           decoding' \in SUBSET Request, kv' = [r \in Request |-> kv'[r]],
           generated' \in [Request -> Nat],
           finish' \in [Request -> {"none", "length", "stop", "cancelled", "failed"}],
           cancelled' \in SUBSET Request, crashed' \in BOOLEAN
    PROVE  TypeOK'
  <1>1. UNCHANGED <<parallel, gen, ended, current, undrained, joined, stop_event, stopping, control,
                    handle, watch, late>>
    BY DEF StepTo, lifecycle, handles
  <1>2. batch' \in [Thread -> Seq(Request)]
    BY InBatches
  <1>3. pc' \in [Thread -> {"new", "top", "prefill", "forward", "put", "offer", "drain", "park",
                          "absorb", "absorb parked", "step", "reap", "exit"} \cup Crashes]
    BY DEF StepTo, TypeOK
  <1> QED BY <1>1, <1>2, <1>3 DEF TypeOK

\* The requests of R end.
LEMMA TerminalFacts ==
    ASSUME TypeOK, NEW R, NEW reason \in {"length", "stop", "cancelled", "failed"}, Terminal(R, reason)
    PROVE  /\ finish' \in [Request -> {"none", "length", "stop", "cancelled", "failed"}]
           /\ \A r \in Request : /\ r \notin R => finish'[r] = finish[r]
                                 /\ r \in R => Done(r)'
                                 /\ Done(r)' <=> Done(r) \/ r \in R
                                 /\ Done(r) => finish'[r] = finish[r]
  <1>1. finish \in [Request -> {"none", "length", "stop", "cancelled", "failed"}]
    BY DEF TypeOK
  <1> QED BY <1>1 DEF Terminal, Done

\* The text of the slots does not change.
LEMMA SameSlots ==
    ASSUME SlotInv, UNCHANGED <<session, decoding, kv, generated, cancelled>>,
           NEW t \in Thread, NEW p, NEW b \in Seq(Request), StepTo(t, p, b), TypeOK,
           pc[t] # "crash"
    PROVE  SlotInv'
  <1>1. \A u \in Thread : pc[u] = "crash" => pc'[u] = "crash"
    BY DEF StepTo, TypeOK
  <1> QED BY <1>1 DEF SlotInv, SlotHoldsOutput

\* A thread steps and no request moves.
LEMMA QuietStep ==
    ASSUME IInv, NEW t \in Thread, Alive(t), NEW p, pc' = [pc EXCEPT ![t] = p],
           UNCHANGED <<queues, session, decoding, kv, output, cancelled, crashed, lifecycle, handles>>,
           p \in {"top", "forward", "put", "offer", "drain", "park", "absorb",
                  "absorb parked", "step", "reap", "exit"},
           p = "exit" => stop_event,
           parallel /\ t[1] = "prefill" => p \in {"top", "forward", "put", "offer", "exit"},
           t[1] = "decode" => p \notin {"forward", "put", "offer"},
           p \in {"forward", "put", "offer", "absorb", "absorb parked"} <=> batch[t] # <<>>,
           p = "absorb parked" \/ (p = "absorb" /\ parallel) => Len(batch[t]) = 1
    PROVE  IInv'
  <1> USE DEF IInv
  <1> DEFINE b == batch[t]
  <1>1. b \in Seq(Request) /\ Distinct(b)
    BY DEF TypeOK, BatchInv
  <1>2. /\ UNCHANGED <<waiting, prefilling, batch, handoffs, session, decoding, kv, generated, finish,
                       cancelled, crashed>>
        /\ StepTo(t, p, b)
    BY DEF queues, output, StepTo, TypeOK
  <1>3. TypeOK'
    BY <1>1, <1>2, StepTypes DEF TypeOK
  <1>4. SlotInv'
    BY <1>1, <1>2, SameSlots DEF Alive
  <1>5. \A r : ~(r \in ToSet(b) /\ InOther(t, r))
    BY DEF BatchInv, InOther
  <1>6. \A r \in Request : /\ Queued(r)' = Queued(r) /\ InBatch(r)' = InBatch(r)
                           /\ Nowhere(r)' = Nowhere(r) /\ Here(r)' = Here(r)
                           /\ Done(r)' = Done(r)
    BY <1>2 DEF Queued, InBatch, Nowhere, Here, Done, StepTo, lifecycle
  <1>7. QueueInv'
    BY <1>2, <1>6 DEF QueueInv
  <1>8. \A r \in Request : Moved(r)
    BY <1>2, <1>6 DEF Moved, RequestInv
  <1> HIDE DEF b
  <1>9. /\ p \in {"forward", "put", "offer", "absorb", "absorb parked", "crash in add_handoff"}
              <=> b # <<>>
        /\ p = "absorb parked" \/ (p = "absorb" /\ parallel) => Len(b) = 1
    BY DEF b
  <1> QED BY <1>1, <1>2, <1>3, <1>4, <1>5, <1>7, <1>8, <1>9, StepKeeps

\* A thread leaves its loop.
LEMMA LeaveLoopKeeps ==
    ASSUME IInv, NEW t \in Thread, LeaveLoop(t) PROVE IInv'
  <1>1. /\ pc[t] = "top" /\ stop_event /\ pc' = [pc EXCEPT ![t] = "exit"]
        /\ UNCHANGED <<queues, session, decoding, kv, output, cancelled, crashed, lifecycle, handles>>
    BY DEF LeaveLoop, At, Go, pool, slots
  <1>2. Alive(t) /\ batch[t] = <<>>
    BY <1>1 DEF Alive, IInv, BatchInv
  <1> QED BY <1>1, <1>2, QuietStep

\* prefill_batch returns.
LEMMA PrefillReturnsKeeps ==
    ASSUME IInv, NEW t \in Thread, PrefillReturns(t) PROVE IInv'
  <1> DEFINE p == IF batch[t] = <<>> THEN "top" ELSE IF parallel THEN "put" ELSE "absorb"
  <1>1. /\ pc[t] = "forward"
        /\ pc' = [pc EXCEPT ![t] = p]
        /\ UNCHANGED <<queues, session, decoding, kv, output, cancelled, crashed, lifecycle, handles>>
    BY DEF PrefillReturns, At, Go, slots
  <1>2. Alive(t) /\ batch[t] # <<>> /\ t[1] # "decode"
    BY <1>1 DEF Alive, IInv, BatchInv, ThreadInv
  <1>3. p \in {"put", "absorb"} /\ (parallel => p = "put") /\ (p = "absorb" => ~parallel)
    BY <1>2
  <1> HIDE DEF p
  <1> QED BY <1>1, <1>2, <1>3, QuietStep

\* The head of a thread's batch.
LEMMA BatchHead ==
    ASSUME IInv, NEW t \in Thread, batch[t] # <<>>
    PROVE  /\ Head(batch[t]) \in Request /\ Head(batch[t]) \in ToSet(batch[t])
           /\ Tail(batch[t]) \in Seq(Request) /\ Distinct(Tail(batch[t]))
           /\ Len(Tail(batch[t])) = Len(batch[t]) - 1
           /\ ToSet(Tail(batch[t])) = ToSet(batch[t]) \ {Head(batch[t])}
           /\ Len(batch[t]) = 1 <=> Tail(batch[t]) = <<>>
           /\ \A r \in ToSet(batch[t]) : /\ r \in Request /\ ~InOther(t, r) /\ ~Queued(r)
                                         /\ ~Done(r) /\ generated[r] = 0
  <1> USE DEF IInv
  <1>1. batch[t] \in Seq(Request) /\ Distinct(batch[t])
    BY DEF TypeOK, BatchInv
  <1>2. /\ Head(batch[t]) \in Request /\ Head(batch[t]) \in ToSet(batch[t])
        /\ Tail(batch[t]) \in Seq(Request) /\ Distinct(Tail(batch[t]))
        /\ Len(Tail(batch[t])) = Len(batch[t]) - 1
        /\ ToSet(Tail(batch[t])) = ToSet(batch[t]) \ {Head(batch[t])}
    BY <1>1, TailFacts
  <1>3. Len(batch[t]) = 1 <=> Tail(batch[t]) = <<>>
    <2>1. Len(batch[t]) \in Nat /\ (Tail(batch[t]) = <<>> <=> Len(Tail(batch[t])) = 0)
      BY <1>1, <1>2, QueueFacts
    <2> QED BY <1>2, <2>1
  <1>4. \A r \in ToSet(batch[t]) : r \in Request
    BY <1>1, QueueFacts
  <1>5. \A r \in ToSet(batch[t]) : ~InOther(t, r) /\ InBatch(r)
    BY DEF InOther, InBatch, BatchInv
  <1>6. \A r \in ToSet(batch[t]) : ~Queued(r) /\ ~Done(r) /\ generated[r] = 0
    BY <1>4, <1>5 DEF QueueInv, RequestInv, Nowhere, Queued
  <1> QED BY <1>2, <1>3, <1>4, <1>5, <1>6

\* The prefill thread drops a cancelled request, or offers it.
LEMMA StartPutKeeps ==
    ASSUME IInv, NEW t \in Thread, StartPut(t) PROVE IInv'
  <1> USE DEF IInv
  <1> DEFINE r == Head(batch[t])
             b == Tail(batch[t])
             p == IF Len(batch[t]) = 1 THEN "top" ELSE "put"
  <1>1. /\ pc[t] = "put" /\ Alive(t) /\ batch[t] # <<>> /\ t[1] # "decode"
        /\ UNCHANGED <<waiting, prefilling, handoffs, session, decoding, kv, generated, cancelled,
                       crashed, lifecycle, handles>>
    BY DEF StartPut, At, Alive, BatchInv, ThreadInv, pool, slots
  <1>2. CASE r \notin cancelled
    <2>1. pc' = [pc EXCEPT ![t] = "offer"] /\ UNCHANGED <<queues, output>>
      BY <1>1, <1>2 DEF StartPut, Go, queues, output
    <2> QED BY <1>1, <2>1, QuietStep
  <1>3. CASE r \in cancelled
    <2>1. /\ Terminal({r}, "cancelled")
          /\ StepTo(t, p, b)
      BY <1>1, <1>3 DEF StartPut, Go, StepTo
    <2>2. /\ r \in Request /\ r \in ToSet(batch[t]) /\ b \in Seq(Request) /\ Distinct(b)
          /\ ToSet(b) = ToSet(batch[t]) \ {r} /\ (p = "top" <=> b = <<>>) /\ p \in {"top", "put"}
          /\ \A x \in ToSet(batch[t]) : /\ x \in Request /\ ~InOther(t, x) /\ ~Queued(x)
                                        /\ ~Done(x) /\ generated[x] = 0
      BY <1>1, BatchHead
    <2> HIDE DEF r, b, p
    <2>3. /\ finish' \in [Request -> {"none", "length", "stop", "cancelled", "failed"}]
          /\ \A x \in Request : /\ x # r => finish'[x] = finish[x]
                                /\ Done(x)' <=> Done(x) \/ x = r
      BY <2>1, TerminalFacts
    <2>4. TypeOK'
      <3>1. /\ waiting' \in Seq(Request) /\ prefilling' \in Seq(Request)
            /\ handoffs' \in Seq(Request) /\ session' \in Seq(Request)
            /\ decoding' \in SUBSET Request /\ kv' = [x \in Request |-> kv'[x]]
            /\ generated' \in [Request -> Nat]
            /\ cancelled' \in SUBSET Request /\ crashed' \in BOOLEAN
        BY <1>1 DEF TypeOK
      <3>2. TypeOK
        OBVIOUS
      <3> HIDE DEF IInv
      <3> QED BY <2>1, <2>2, <2>3, <3>1, <3>2, StepTypes
    <2>5. SlotInv'
      BY <1>1, <2>1, <2>2, SameSlots
    <2>6. /\ \A x : /\ InBatch(x) <=> x \in ToSet(batch[t]) \/ InOther(t, x)
                    /\ InBatch(x)' <=> x \in ToSet(b) \/ InOther(t, x)
          /\ \A x : (x \in ToSet(batch[t]) => x \in ToSet(b) \/ Queued(x)') =>
                        (Here(x) => Here(x)' \/ Queued(x))
      BY <2>1, <2>2, InBatches
    <2>7. \A x : Queued(x)' = Queued(x) /\ (Queued(x) => Here(x)')
      BY <1>1 DEF Queued, Here
    <2>8. QueueInv'
      BY <1>1, <2>2, <2>6, <2>7 DEF QueueInv
    <2>9. \A x \in Request : Moved(x)
      BY <1>1, <2>2, <2>3, <2>6, <2>7 DEF Moved, Nowhere, RequestInv
    <2> QED BY <1>1, <2>1, <2>2, <2>4, <2>5, <2>8, <2>9, StepKeeps
  <1> QED BY <1>2, <1>3

\* The put of a handoff, or its interruption.
LEMMA PutKeeps ==
    ASSUME IInv, NEW t \in Thread, Put(t) PROVE IInv'
  <1> USE DEF IInv
  <1> DEFINE r == Head(batch[t])
             b == Tail(batch[t])
             p == IF Len(batch[t]) = 1 THEN "top" ELSE "put"
  <1>1. /\ pc[t] = "offer" /\ Alive(t) /\ batch[t] # <<>> /\ t[1] # "decode"
        /\ UNCHANGED <<waiting, session, decoding, kv, generated, finish, cancelled,
                       crashed, lifecycle, handles>>
        /\ StepTo(t, p, b)
        /\ \/ handoffs' = Append(handoffs, r) /\ prefilling' = prefilling
           \/ prefilling' = Append(prefilling, r) /\ handoffs' = handoffs
    BY DEF Put, At, Go, Alive, BatchInv, ThreadInv, pool, slots, output, StepTo
  <1>2. /\ r \in Request /\ r \in ToSet(batch[t]) /\ b \in Seq(Request) /\ Distinct(b)
        /\ ToSet(b) = ToSet(batch[t]) \ {r} /\ (p = "top" <=> b = <<>>) /\ p \in {"top", "put"}
        /\ \A x \in ToSet(batch[t]) : /\ x \in Request /\ ~InOther(t, x) /\ ~Queued(x)
                                      /\ ~Done(x) /\ generated[x] = 0
    BY <1>1, BatchHead
  <1> HIDE DEF r, b, p
  <1>3. ~Queued(r)
    BY <1>2
  <1>4. /\ handoffs \in Seq(Request) /\ prefilling \in Seq(Request)
        /\ Distinct(handoffs) /\ Distinct(prefilling)
        /\ r \notin ToSet(handoffs) /\ r \notin ToSet(prefilling)
    BY <1>3 DEF TypeOK, QueueInv, Queued
  <1>5. /\ handoffs' \in Seq(Request) /\ prefilling' \in Seq(Request)
        /\ Distinct(handoffs') /\ Distinct(prefilling')
        /\ \/ ToSet(handoffs') = ToSet(handoffs) \cup {r} /\ prefilling' = prefilling
           \/ ToSet(prefilling') = ToSet(prefilling) \cup {r} /\ prefilling' # <<>> /\ handoffs' = handoffs
    <2>1. CASE handoffs' = Append(handoffs, r) /\ prefilling' = prefilling
      BY <1>2, <1>4, <2>1, AppendFacts
    <2>2. CASE prefilling' = Append(prefilling, r) /\ handoffs' = handoffs
      BY <1>2, <1>4, <2>2, AppendFacts
    <2> QED BY <1>1, <2>1, <2>2
  <1>6. TypeOK'
    BY <1>1, <1>2, <1>5, StepTypes DEF TypeOK
  <1>7. SlotInv'
    BY <1>1, <1>2, SameSlots
  <1>8. /\ \A x : /\ InBatch(x) <=> x \in ToSet(batch[t]) \/ InOther(t, x)
                  /\ InBatch(x)' <=> x \in ToSet(b) \/ InOther(t, x)
        /\ \A x : (x \in ToSet(batch[t]) => x \in ToSet(b) \/ Queued(x)') =>
                      (Here(x) => Here(x)' \/ Queued(x))
    BY <1>1, <1>2, InBatches
  <1>9. \A x : (Queued(x)' <=> Queued(x) \/ x = r) /\ (Queued(x)' => Here(x)')
    BY <1>1, <1>5 DEF Queued, Here
  <1>10. QueueInv'
    <2>1. \A x \in Request : Queued(x)' => ~InBatch(x)'
      BY <1>2, <1>8, <1>9 DEF QueueInv
    <2> QED BY <1>1, <1>3, <1>5, <2>1 DEF QueueInv, Queued
  <1>11. \A x \in Request : Moved(x)
    BY <1>1, <1>2, <1>8, <1>9 DEF Moved, Nowhere, RequestInv, Done
  <1> QED BY <1>1, <1>2, <1>5, <1>6, <1>7, <1>10, <1>11, StepKeeps

\* The decode thread takes a handoff, or finds none.
LEMMA TakeHandoffKeeps ==
    ASSUME IInv, NEW t \in Thread, TakeHandoff(t) PROVE IInv'
  <1> USE DEF IInv
  <1>1. /\ pc[t] \in {"top", "drain", "park"} /\ Alive(t) /\ batch[t] = <<>> /\ t[1] = "decode"
        /\ UNCHANGED <<waiting, prefilling, session, decoding, kv, generated, finish, cancelled,
                       crashed, lifecycle, handles>>
    BY DEF TakeHandoff, At, Alive, BatchInv, pool, slots, output
  <1>2. CASE handoffs = <<>>
    <2> DEFINE p == IF At(t, "park") THEN "top" ELSE IF session = <<>> THEN "park" ELSE "step"
    <2>1. pc' = [pc EXCEPT ![t] = p] /\ UNCHANGED <<queues, output>>
      BY <1>1, <1>2 DEF TakeHandoff, Go, queues, output
    <2>2. p \in {"top", "park", "step"}
      OBVIOUS
    <2> HIDE DEF p
    <2> QED BY <1>1, <2>1, <2>2, QuietStep
  <1>3. CASE handoffs # <<>>
    <2> DEFINE r == Head(handoffs)
               b == <<r>>
               p == IF At(t, "park") THEN "absorb parked" ELSE "absorb"
    <2>1. StepTo(t, p, b) /\ handoffs' = Tail(handoffs)
      BY <1>1, <1>3 DEF TakeHandoff, Go, StepTo
    <2>2. handoffs \in Seq(Request) /\ Distinct(handoffs)
      BY DEF TypeOK, QueueInv
    <2>3. /\ r \in Request /\ r \in ToSet(handoffs)
          /\ handoffs' \in Seq(Request) /\ Distinct(handoffs') /\ ToSet(handoffs') = ToSet(handoffs) \ {r}
      BY <1>3, <2>1, <2>2, TailFacts
    <2>4. b \in Seq(Request) /\ ToSet(b) = {r} /\ Distinct(b) /\ Len(b) = 1 /\ b # <<>>
      <3>1. b \in Seq(Request) /\ Len(b) = 1 /\ b[1] = r
        BY <2>3
      <3>2. ToSet(b) = {b[i] : i \in 1..1}
        BY <3>1, Elements
      <3> QED BY <3>1, <3>2 DEF Distinct
    <2>5. p \in {"absorb parked", "absorb"}
      OBVIOUS
    <2> HIDE DEF r, b, p
    <2>6. Queued(r) /\ ~InBatch(r) /\ generated[r] = 0 /\ ~Done(r)
      BY <2>3 DEF Queued, QueueInv, RequestInv, Nowhere
    <2>7. TypeOK'
      BY <1>1, <2>1, <2>3, <2>4, <2>5, StepTypes DEF TypeOK
    <2>8. SlotInv'
      BY <1>1, <2>1, <2>4, SameSlots
    <2>9. /\ \A x : /\ InBatch(x) <=> x \in ToSet(batch[t]) \/ InOther(t, x)
                    /\ InBatch(x)' <=> x \in ToSet(b) \/ InOther(t, x)
          /\ \A x : (x \in ToSet(batch[t]) => x \in ToSet(b) \/ Queued(x)') =>
                        (Here(x) => Here(x)' \/ Queued(x))
          /\ \A x : t[2] = gen /\ x \in ToSet(b) => Here(x)'
      BY <2>1, <2>4, InBatches
    <2>10. ToSet(batch[t]) = {} /\ t[2] = gen
      BY <1>1, EmptyFacts DEF ThreadInv
    <2>11. \A x : (Queued(x)' <=> Queued(x) /\ x # r) /\ (Queued(x)' => Here(x)')
      BY <1>1, <2>3 DEF Queued, Here, QueueInv
    <2>12. QueueInv'
      <3>1. \A x \in Request : Queued(x)' => ~InBatch(x)'
        BY <2>4, <2>9, <2>10, <2>11 DEF QueueInv
      <3> QED BY <1>1, <2>3, <3>1 DEF QueueInv
    <2>13. \A x \in Request : Moved(x)
      BY <1>1, <2>4, <2>6, <2>9, <2>10, <2>11 DEF Moved, Nowhere, RequestInv, Done
    <2>14. ~InOther(t, r)
      BY <2>6, <2>9
    <2> QED BY <1>1, <2>1, <2>4, <2>5, <2>7, <2>8, <2>12, <2>13, <2>14, StepKeeps
  <1> QED BY <1>2, <1>3

\* An action that leaves an empty batch as it is.
LEMMA NoBatch ==
    ASSUME TypeOK, NEW t \in Thread, NEW p, batch[t] = <<>>, batch' = batch,
           pc' = [pc EXCEPT ![t] = p], UNCHANGED <<lifecycle, handles>>
    PROVE  /\ StepTo(t, p, <<>>)
           /\ <<>> \in Seq(Request) /\ Distinct(<<>>) /\ ToSet(<<>>) = {}
           /\ \A r : InBatch(r)' = InBatch(r)
           /\ \A r : Here(r) => Here(r)' \/ Queued(r)
           /\ \A r : Queued(r)' => Here(r)'
  <1>1. StepTo(t, p, <<>>)
    BY DEF StepTo, TypeOK
  <1>2. \A r : /\ InBatch(r)' = InBatch(r)
               /\ Here(r) => Here(r)' \/ Queued(r)
               /\ Queued(r)' => Here(r)'
    BY DEF InBatch, Here, lifecycle
  <1> QED BY <1>1, <1>2, EmptyFacts

\* The prefill of a batch begins, or fails.
LEMMA PrefillBatchKeeps ==
    ASSUME IInv, NEW t \in Thread, PrefillBatch(t) PROVE IInv'
  <1> USE DEF IInv
  <1> DEFINE R == ToSet(prefilling)
             empty == \E r \in R : Prompt[r] = 0
             fails == empty \/ Need(R) > free
  <1>1. /\ pc[t] = "prefill" /\ Alive(t) /\ batch[t] = <<>> /\ t[1] # "decode" /\ t[2] = gen
        /\ prefilling # <<>> /\ prefilling' = <<>>
        /\ UNCHANGED <<waiting, handoffs, session, decoding, kv, generated, cancelled, crashed,
                       lifecycle, handles>>
    BY DEF PrefillBatch, At, Alive, BatchInv, ThreadInv, slots
  <1>2. /\ prefilling' \in Seq(Request) /\ ToSet(prefilling') = {} /\ Distinct(prefilling')
    BY <1>1, EmptyFacts
  <1>3. /\ prefilling \in Seq(Request) /\ Distinct(prefilling) /\ R \in SUBSET Request
        /\ \A r \in R : Queued(r) /\ ~InBatch(r) /\ ~Done(r) /\ generated[r] = 0
    <2>1. prefilling \in Seq(Request) /\ Distinct(prefilling)
      BY DEF TypeOK, QueueInv
    <2>2. R \in SUBSET Request
      BY <2>1, QueueFacts
    <2>3. \A r \in R : Queued(r)
      BY DEF Queued
    <2> QED BY <2>1, <2>2, <2>3 DEF QueueInv, RequestInv, Nowhere
  <1>4. \A x : Queued(x)' <=> Queued(x) /\ x \notin R
    BY <1>1, <1>2 DEF Queued, QueueInv
  <1>5. CASE fails
    <2> DEFINE p == IF parallel THEN "top" ELSE "step"
               reason == IF empty THEN "failed" ELSE "cancelled"
    <2>1. /\ Terminal(R, reason)
          /\ batch' = batch /\ pc' = [pc EXCEPT ![t] = p]
      BY <1>5 DEF PrefillBatch, Go
    <2>2. p \in {"top", "step"} /\ (parallel => p = "top") /\ reason \in {"failed", "cancelled"}
      OBVIOUS
    <2> HIDE DEF p, reason
    <2>3. /\ StepTo(t, p, <<>>) /\ <<>> \in Seq(Request) /\ Distinct(<<>>) /\ ToSet(<<>>) = {}
          /\ \A r : InBatch(r)' = InBatch(r)
          /\ \A r : Here(r) => Here(r)' \/ Queued(r)
          /\ \A r : Queued(r)' => Here(r)'
      BY <1>1, <2>1, NoBatch
    <2> HIDE DEF R, fails
    <2>4. /\ finish' \in [Request -> {"none", "length", "stop", "cancelled", "failed"}]
          /\ \A x \in Request : /\ x \notin R => finish'[x] = finish[x]
                                /\ Done(x)' <=> Done(x) \/ x \in R
      BY <2>1, <2>2, TerminalFacts
    <2>5. TypeOK'
      BY <1>1, <1>2, <2>2, <2>3, <2>4, StepTypes DEF TypeOK
    <2>6. SlotInv'
      BY <1>1, <2>3, SameSlots
    <2>7. QueueInv'
      BY <1>1, <1>2, <1>4, <2>3 DEF QueueInv
    <2>8. \A x \in Request : Moved(x)
      BY <1>1, <1>3, <1>4, <2>3, <2>4 DEF Moved, Nowhere, RequestInv
    <2> QED BY <1>1, <2>2, <2>3, <2>5, <2>6, <2>7, <2>8, StepKeeps
  <1>6. CASE ~fails
    <2>1. /\ batch' = [batch EXCEPT ![t] = prefilling] /\ pc' = [pc EXCEPT ![t] = "forward"]
          /\ finish' = finish
      BY <1>6 DEF PrefillBatch, Go
    <2>2. StepTo(t, "forward", prefilling)
      BY <1>1, <2>1 DEF StepTo
    <2>3. /\ \A x : /\ InBatch(x) <=> x \in ToSet(batch[t]) \/ InOther(t, x)
                    /\ InBatch(x)' <=> x \in R \/ InOther(t, x)
          /\ \A x : (x \in ToSet(batch[t]) => x \in R \/ Queued(x)') =>
                        (Here(x) => Here(x)' \/ Queued(x))
          /\ \A x : t[2] = gen /\ x \in R => Here(x)'
      BY <1>3, <2>2, InBatches
    <2> HIDE DEF R, fails
    <2>4. TypeOK'
      BY <1>1, <1>2, <1>3, <2>1, <2>2, StepTypes DEF TypeOK
    <2>5. SlotInv'
      BY <1>1, <1>3, <2>2, SameSlots
    <2>6. ToSet(batch[t]) = {}
      BY <1>1, EmptyFacts
    <2>7. \A x : Queued(x)' => Here(x)'
      BY DEF Here
    <2>8. QueueInv'
      <3>1. \A x \in Request : Queued(x)' => ~InBatch(x)'
        BY <1>4, <2>3, <2>6 DEF QueueInv
      <3> QED BY <1>1, <1>2, <3>1 DEF QueueInv
    <2>9. \A x \in Request : Moved(x)
      BY <1>1, <1>3, <1>4, <2>1, <2>3, <2>6, <2>7 DEF Moved, Nowhere, RequestInv, Done
    <2>10. \A x \in ToSet(prefilling) : ~InOther(t, x)
      BY <1>3, <2>3 DEF R
    <2> QED BY <1>1, <1>3, <2>2, <2>4, <2>5, <2>8, <2>9, <2>10, StepKeeps
  <1> QED BY <1>5, <1>6

\* Requests are admitted, or end cancelled.
LEMMA AdmitWaitingKeeps ==
    ASSUME IInv, NEW t \in Thread, AdmitWaiting(t) PROVE IInv'
  <1> USE DEF IInv
  <1>1. /\ pc[t] = "top" /\ Alive(t) /\ batch[t] = <<>> /\ t[1] = "prefill" /\ t[2] = gen
        /\ batch' = batch
        /\ UNCHANGED <<handoffs, session, decoding, kv, generated, cancelled, crashed,
                       lifecycle, handles>>
    BY DEF AdmitWaiting, At, Alive, BatchInv, ThreadInv, pool, slots
  <1>2. PICK taken \in 0..Len(waiting) :
          /\ waiting' = SubSeq(waiting, taken + 1, Len(waiting))
          /\ \E more \in Without(SubSeq(waiting, 1, taken), cancelled) :
                prefilling' = prefilling \o more
          /\ Terminal(ToSet(SubSeq(waiting, 1, taken)) \cap cancelled, "cancelled")
          /\ Go(t, IF prefilling' # <<>> THEN "prefill" ELSE IF parallel THEN "top" ELSE "step")
    BY DEF AdmitWaiting
  <1> DEFINE w == SubSeq(waiting, 1, taken)
             R == ToSet(w) \cap cancelled
             p == IF prefilling' # <<>> THEN "prefill" ELSE IF parallel THEN "top" ELSE "step"
  <1>3. /\ p \in {"prefill", "top", "step"} /\ (parallel => p # "step")
        /\ p = "prefill" => prefilling' # <<>>
    OBVIOUS
  <1>4. pc' = [pc EXCEPT ![t] = p] /\ UNCHANGED <<lifecycle, handles>>
    BY <1>1, <1>2 DEF Go
  <1> HIDE DEF p
  <1>5. /\ waiting \in Seq(Request) /\ prefilling \in Seq(Request)
        /\ Distinct(waiting) /\ Distinct(prefilling)
    BY DEF TypeOK, QueueInv
  <1>6. /\ w \in Seq(Request) /\ waiting' \in Seq(Request) /\ Distinct(w) /\ Distinct(waiting')
        /\ ToSet(w) \cup ToSet(waiting') = ToSet(waiting) /\ ToSet(w) \cap ToSet(waiting') = {}
    BY <1>2, <1>5, PrefixFacts
  <1>7. PICK a \in Without(w, cancelled) : prefilling' = prefilling \o a
    BY <1>2
  <1> HIDE DEF w
  <1>8. a \in Seq(Request) /\ Distinct(a) /\ ToSet(a) = ToSet(w) \ cancelled
    BY <1>6, WithoutFacts
  <1>9. ToSet(prefilling) \cap ToSet(a) = {}
    BY <1>6, <1>8 DEF QueueInv
  <1>10. /\ prefilling' \in Seq(Request) /\ Distinct(prefilling')
         /\ ToSet(prefilling') = ToSet(prefilling) \cup ToSet(a)
    BY <1>5, <1>7, <1>8, <1>9, ConcatFacts
  <1>11. prefilling' = <<>> => prefilling = <<>>
    <2>1. prefilling' = <<>> <=> ToSet(prefilling') = {}
      BY <1>10, QueueFacts
    <2>2. prefilling = <<>> <=> ToSet(prefilling) = {}
      BY <1>5, QueueFacts
    <2> QED BY <1>10, <2>1, <2>2
  <1>12. R \in SUBSET Request /\ \A r \in R : Queued(r) /\ ~InBatch(r) /\ r \in ToSet(waiting)
    BY <1>5, <1>6, QueueFacts DEF Queued, QueueInv
  <1>13. \A x : Queued(x)' <=> Queued(x) /\ x \notin R
    BY <1>1, <1>6, <1>8, <1>10 DEF Queued, QueueInv
  <1>14. /\ StepTo(t, p, <<>>) /\ <<>> \in Seq(Request) /\ Distinct(<<>>) /\ ToSet(<<>>) = {}
         /\ \A r : InBatch(r)' = InBatch(r)
         /\ \A r : Here(r) => Here(r)' \/ Queued(r)
         /\ \A r : Queued(r)' => Here(r)'
    BY <1>1, <1>4, NoBatch
  <1>15. Terminal(R, "cancelled")
    BY <1>2 DEF w
  <1> HIDE DEF R
  <1>16. /\ finish' \in [Request -> {"none", "length", "stop", "cancelled", "failed"}]
         /\ \A x \in Request : /\ x \notin R => finish'[x] = finish[x]
                               /\ Done(x)' <=> Done(x) \/ x \in R
    BY <1>15, TerminalFacts
  <1>17. TypeOK'
    BY <1>1, <1>3, <1>6, <1>10, <1>14, <1>16, StepTypes DEF TypeOK
  <1>18. SlotInv'
    BY <1>1, <1>14, SameSlots
  <1>19. QueueInv'
    <2>1. \A x \in ToSet(a) : x \in ToSet(waiting) /\ x \notin ToSet(waiting')
      BY <1>6, <1>8
    <2>2. ToSet(waiting') \subseteq ToSet(waiting)
      BY <1>6
    <2>3. UNCHANGED <<handoffs, decoding>>
      BY <1>1
    <2> QED BY <1>6, <1>10, <1>13, <1>14, <2>1, <2>2, <2>3 DEF QueueInv
  <1>20. \A x \in Request : Moved(x)
    BY <1>1, <1>12, <1>13, <1>14, <1>16 DEF Moved, Nowhere, RequestInv
  <1> QED BY <1>1, <1>3, <1>11, <1>14, <1>17, <1>18, <1>19, <1>20, StepKeeps

\* Slots are removed.
LEMMA RemovedFacts ==
    ASSUME NEW R, NEW session2 \in Seq(Request), NEW kv2, NEW free2,
           SlotsRemoved(R, session2, kv2, free2)
    PROVE  /\ session' \in Seq(Request) /\ ToSet(session') = ToSet(session2) \ R
           /\ kv' = [r \in Request |-> kv'[r]]
           /\ \A r \in Request : r \notin R => kv'[r] = kv2[r]
  <1>1. session' \in Without(session2, R)
    BY DEF SlotsRemoved
  <1>2. kv' = [r \in Request |-> IF r \in R THEN 0 ELSE kv2[r]]
    BY DEF SlotsRemoved
  <1> QED BY <1>1, <1>2, WithoutFacts

\* Tokens are reported, and those requests that have all of them end.
LEMMA ReportFacts ==
    ASSUME TypeOK, NEW R \in SUBSET Request, NEW session2 \in Seq(Request), NEW kv2, NEW free2,
           Report(R, session2, kv2, free2)
    PROVE  /\ generated' \in [Request -> Nat]
           /\ \A r \in Request : generated'[r] = generated[r] + IF r \in R THEN 1 ELSE 0
           /\ cancelled \subseteq cancelled' /\ cancelled' \in SUBSET Request
           /\ finish' \in [Request -> {"none", "length", "stop", "cancelled", "failed"}]
           /\ decoding' \in SUBSET Request
           /\ session' \in Seq(Request) /\ kv' = [r \in Request |-> kv'[r]]
           /\ LET ends == R \ decoding'
              IN /\ decoding' = (decoding \cup R) \ ends
                 /\ ToSet(session') = ToSet(session2) \ ends
                 /\ \A r \in Request : /\ r \notin ends => finish'[r] = finish[r] /\ kv'[r] = kv2[r]
                                       /\ Done(r)' <=> Done(r) \/ r \in ends
  <1>1. PICK eos \in SUBSET R, timeouts \in SUBSET (R \cap Slow) :
          LET full == {r \in R : generated[r] + 1 >= MaxTokens[r]}
              ends == full \cup eos
          IN /\ generated' = [r \in Request |-> generated[r] + IF r \in R THEN 1 ELSE 0]
             /\ cancelled' = cancelled \cup timeouts
             /\ finish' = [r \in Request |->
                              IF r \notin ends \/ Done(r) THEN finish[r]
                              ELSE IF r \in full THEN "length" ELSE "stop"]
             /\ decoding' = (decoding \cup R) \ ends
             /\ SlotsRemoved(ends, session2, kv2, free2)
    BY DEF Report
  <1> DEFINE full == {r \in R : generated[r] + 1 >= MaxTokens[r]}
             ends == full \cup eos
  <1>2. /\ generated' = [r \in Request |-> generated[r] + IF r \in R THEN 1 ELSE 0]
        /\ cancelled' = cancelled \cup timeouts
        /\ finish' = [r \in Request |->
                         IF r \notin ends \/ Done(r) THEN finish[r]
                         ELSE IF r \in full THEN "length" ELSE "stop"]
        /\ decoding' = (decoding \cup R) \ ends
        /\ SlotsRemoved(ends, session2, kv2, free2)
    BY <1>1
  <1>3. ends \in SUBSET R
    OBVIOUS
  <1> HIDE DEF full, ends
  <1>4. /\ session' \in Seq(Request) /\ ToSet(session') = ToSet(session2) \ ends
        /\ kv' = [r \in Request |-> kv'[r]]
        /\ \A r \in Request : r \notin ends => kv'[r] = kv2[r]
    BY <1>2, RemovedFacts
  <1>5. generated \in [Request -> Nat]
    BY DEF TypeOK
  <1>6. /\ generated' \in [Request -> Nat]
        /\ \A r \in Request : generated'[r] = generated[r] + IF r \in R THEN 1 ELSE 0
    BY <1>2, <1>5
  <1>7. cancelled \in SUBSET Request /\ decoding \in SUBSET Request
        /\ finish \in [Request -> {"none", "length", "stop", "cancelled", "failed"}]
    BY DEF TypeOK
  <1>8. cancelled \subseteq cancelled' /\ cancelled' \in SUBSET Request /\ decoding' \in SUBSET Request
    BY <1>2, <1>3, <1>7
  <1>9. finish' \in [Request -> {"none", "length", "stop", "cancelled", "failed"}]
    BY <1>2, <1>7
  <1>10. \A r \in Request : /\ r \notin ends => finish'[r] = finish[r]
                            /\ Done(r)' <=> Done(r) \/ r \in ends
    BY <1>2 DEF Done
  <1>11. ends = R \ decoding'
    BY <1>2, <1>3
  <1> QED BY <1>2, <1>4, <1>6, <1>8, <1>9, <1>10, <1>11

\* A handoff is added to the session.
LEMMA AbsorbKeeps ==
    ASSUME IInv, NEW t \in Thread, Absorb(t) PROVE IInv'
  <1> USE DEF IInv
  <1> DEFINE r == Head(batch[t])
             b == Tail(batch[t])
             p == AfterAbsorb(t)
  <1>1. /\ pc[t] \in {"absorb", "absorb parked"} /\ Alive(t) /\ batch[t] # <<>> /\ t[2] = gen
        /\ UNCHANGED <<waiting, prefilling, handoffs, lifecycle, handles>>
    BY DEF Absorb, Alive, BatchInv, ThreadInv
  <1>2. /\ r \in Request /\ r \in ToSet(batch[t]) /\ b \in Seq(Request) /\ Distinct(b)
        /\ ToSet(b) = ToSet(batch[t]) \ {r} /\ Len(b) = Len(batch[t]) - 1
        /\ (Len(batch[t]) = 1 <=> b = <<>>)
        /\ \A x \in ToSet(batch[t]) : /\ x \in Request /\ ~InOther(t, x) /\ ~Queued(x)
                                      /\ ~Done(x) /\ generated[x] = 0
    BY <1>1, BatchHead
  <1>3. batch[t] \in Seq(Request) /\ Len(batch[t]) \in Nat /\ Distinct(batch[t]) /\ Len(batch[t]) # 0
    <2>1. batch[t] \in Seq(Request) /\ Distinct(batch[t])
      BY DEF TypeOK, BatchInv
    <2> QED BY <1>1, <2>1, QueueFacts
  <1>4. /\ p \in {"top", "drain", "absorb", "step"} /\ (p = "absorb" <=> b # <<>>)
        /\ p = "absorb" => ~parallel
        /\ ~(parallel /\ t[1] = "prefill")
    <2>1. pc[t] = "absorb parked" \/ parallel => Len(batch[t]) = 1
      BY <1>1 DEF BatchInv
    <2>2. ~(parallel /\ t[1] = "prefill")
      BY <1>1 DEF ThreadInv
    <2>3. Len(batch[t]) > 1 <=> b # <<>>
      <3> DEFINE n == Len(batch[t])
                 empty == b = <<>>
      <3>1. n \in Nat /\ n # 0 /\ (n = 1 <=> empty)
        BY <1>2, <1>3
      <3> HIDE DEF n, empty
      <3>2. n > 1 <=> ~empty
        BY <3>1
      <3> QED BY <3>2 DEF n, empty
    <2>4. CASE pc[t] = "absorb parked"
      BY <1>2, <2>1, <2>2, <2>4 DEF AfterAbsorb, At
    <2>5. CASE pc[t] = "absorb" /\ parallel
      BY <1>2, <2>1, <2>2, <2>5 DEF AfterAbsorb, At
    <2>6. CASE pc[t] = "absorb" /\ ~parallel
      BY <2>2, <2>3, <2>6 DEF AfterAbsorb, At
    <2> QED BY <1>1, <2>4, <2>5, <2>6
  <1>5. ~Queued(r) /\ session \in Seq(Request) /\ decoding \in SUBSET Request
    BY <1>2 DEF TypeOK
  <1>6. /\ Append(session, r) \in Seq(Request) /\ ToSet(Append(session, r)) = ToSet(session) \cup {r}
    BY <1>2, <1>5, AppendFacts
  <1>7. CASE parallel /\ r \in cancelled
    <2>1. /\ Terminal({r}, "cancelled") /\ StepTo(t, p, b)
          /\ UNCHANGED <<session, decoding, kv, generated, cancelled, crashed>>
      BY <1>1, <1>7 DEF Absorb, Go, StepTo, slots
    <2> HIDE DEF r, b, p
    <2>2. /\ finish' \in [Request -> {"none", "length", "stop", "cancelled", "failed"}]
          /\ \A x \in Request : /\ x # r => finish'[x] = finish[x]
                                /\ Done(x)' <=> Done(x) \/ x = r
      BY <2>1, TerminalFacts
    <2>3. TypeOK'
      <3>1. /\ waiting' \in Seq(Request) /\ prefilling' \in Seq(Request)
            /\ handoffs' \in Seq(Request) /\ session' \in Seq(Request)
            /\ decoding' \in SUBSET Request /\ kv' = [x \in Request |-> kv'[x]]
            /\ generated' \in [Request -> Nat]
            /\ cancelled' \in SUBSET Request /\ crashed' \in BOOLEAN
        BY <1>1, <1>2, <2>1 DEF TypeOK
      <3> QED BY <1>2, <1>4, <2>1, <2>2, <3>1, StepTypes
    <2>4. SlotInv'
      BY <1>1, <1>2, <2>1, SameSlots
    <2>5. /\ \A x : /\ InBatch(x) <=> x \in ToSet(batch[t]) \/ InOther(t, x)
                    /\ InBatch(x)' <=> x \in ToSet(b) \/ InOther(t, x)
          /\ \A x : (x \in ToSet(batch[t]) => x \in ToSet(b) \/ Queued(x)') =>
                        (Here(x) => Here(x)' \/ Queued(x))
      BY <1>2, <2>1, InBatches
    <2>6. \A x : Queued(x)' = Queued(x) /\ (Queued(x) => Here(x)')
      BY <1>1, <2>1 DEF Queued, Here
    <2>7. QueueInv'
      BY <1>1, <1>2, <2>1, <2>5, <2>6 DEF QueueInv
    <2>8. \A x \in Request : Moved(x)
      BY <1>1, <1>2, <2>1, <2>2, <2>5, <2>6 DEF Moved, Nowhere, RequestInv
    <2> QED BY <1>1, <1>2, <1>4, <2>1, <2>3, <2>4, <2>7, <2>8, StepKeeps
  <1>8. CASE ~(parallel /\ r \in cancelled) /\ Prompt[r] <= free
    <2> DEFINE kv2 == [kv EXCEPT ![r] = Prompt[r]]
               session2 == Append(session, r)
               free2 == free - Prompt[r]
               R == {r}
    <2>1. /\ Report(R, session2, kv2, free2)
          /\ StepTo(t, p, b) /\ crashed' = crashed
      BY <1>1, <1>8 DEF Absorb, Go, StepTo
    <2>2. \A x \in Request : kv2[x] = IF x = r THEN Prompt[r] ELSE kv[x]
      BY <1>2 DEF TypeOK
    <2>3. TypeOK /\ R \in SUBSET Request /\ session2 \in Seq(Request)
      BY <1>2, <1>6
    <2>4. R = {r}
      OBVIOUS
    <2>5. ToSet(session2) = ToSet(session) \cup {r}
      BY <1>6
    <2> HIDE DEF r, b, p, kv2, session2, free2, R
    <2> DEFINE ends == R \ decoding'
    <2>6. /\ ends \in SUBSET R
          /\ decoding' = (decoding \cup R) \ ends
          /\ ToSet(session') = ToSet(session2) \ ends
          /\ \A x \in Request : /\ x \notin ends => finish'[x] = finish[x] /\ kv'[x] = kv2[x]
                                /\ Done(x)' <=> Done(x) \/ x \in ends
      BY <2>1, <2>3, ReportFacts
    <2>7. /\ generated' \in [Request -> Nat]
          /\ \A x \in Request : generated'[x] = generated[x] + IF x \in R THEN 1 ELSE 0
          /\ cancelled \subseteq cancelled' /\ cancelled' \in SUBSET Request
          /\ finish' \in [Request -> {"none", "length", "stop", "cancelled", "failed"}]
          /\ decoding' \in SUBSET Request
          /\ session' \in Seq(Request) /\ kv' = [x \in Request |-> kv'[x]]
      BY <2>1, <2>3, ReportFacts
    <2> HIDE DEF ends
    <2>8. TypeOK'
      BY <1>1, <1>2, <1>4, <2>1, <2>7, StepTypes DEF TypeOK
    <2>9. \A x \in Request : generated[x] \in Nat /\ Prompt[x] \in Nat
      BY PDAssumption DEF TypeOK
    <2>10. SlotInv'
      <3>1. decoding' \subseteq ToSet(session')
        BY <2>6, <2>4, <2>5 DEF SlotInv
      <3>2. ASSUME NEW x \in decoding' \ cancelled', \A u \in Thread : pc'[u] # "crash"
            PROVE  kv'[x] = Prompt[x] + generated'[x] - 1
        <4>1. x \in Request /\ kv'[x] = kv2[x] /\ x \notin ends
          BY <2>6, <2>4, <2>7, <3>2
        <4>2. CASE x = r
          <5>1. generated[r] = 0 /\ r \in Request
            BY <1>2
          <5>2. generated'[r] = generated[r] + 1
            BY <2>7, <2>4, <5>1
          <5>3. kv'[r] = Prompt[r]
            BY <2>2, <4>1, <4>2, <5>1
          <5> QED BY <2>9, <4>2, <5>1, <5>2, <5>3
        <4>3. CASE x # r
          <5>1. x \in decoding \ cancelled /\ kv'[x] = kv[x] /\ generated'[x] = generated[x]
            BY <2>6, <2>4, <2>7, <2>2, <2>9, <3>2, <4>1, <4>3
          <5>2. \A u \in Thread : pc[u] # "crash"
            BY <1>1, <1>2, <2>1, <3>2, InBatches
          <5> QED BY <5>1, <5>2 DEF SlotInv, SlotHoldsOutput
        <4> QED BY <4>2, <4>3
      <3> QED BY <3>1, <3>2 DEF SlotInv, SlotHoldsOutput
    <2>11. /\ \A x : /\ InBatch(x) <=> x \in ToSet(batch[t]) \/ InOther(t, x)
                     /\ InBatch(x)' <=> x \in ToSet(b) \/ InOther(t, x)
           /\ \A x : (x \in ToSet(batch[t]) => x \in ToSet(b) \/ Queued(x)') =>
                         (Here(x) => Here(x)' \/ Queued(x))
      BY <1>2, <2>1, InBatches
    <2>12. /\ \A x : Queued(x)' <=> Queued(x) \/ (x = r /\ x \notin ends)
           /\ \A x : Queued(x)' => Here(x)'
      BY <1>1, <1>5, <2>6, <2>4 DEF Queued, Here
    <2>13. QueueInv'
      <3>1. \A x \in Request : Queued(x)' => ~InBatch(x)'
        BY <1>2, <2>11, <2>12 DEF QueueInv
      <3> QED BY <1>1, <1>5, <2>6, <2>4, <3>1 DEF QueueInv, Queued
    <2>14. \A x \in Request : Moved(x)
      <3> TAKE x \in Request
      <3>1. CASE x = r
        BY <1>2, <2>6, <2>4, <2>7, <2>11, <2>12, <3>1 DEF Moved, Nowhere
      <3>2. CASE x # r
        <4>1. /\ finish'[x] = finish[x] /\ generated'[x] = generated[x] /\ (Done(x)' <=> Done(x))
              /\ (Queued(x)' <=> Queued(x)) /\ (InBatch(x)' <=> InBatch(x)) /\ (x \in decoding' <=> x \in decoding)
          <5>1. x \notin ends
            BY <2>6, <2>4, <3>2
          <5>2. generated'[x] = generated[x]
            BY <2>7, <2>4, <2>9, <3>2
          <5>3. InBatch(x)' <=> InBatch(x)
            BY <1>2, <2>11, <3>2
          <5> QED BY <2>6, <2>4, <2>12, <3>2, <5>1, <5>2, <5>3
        <4>2. Here(x) => Here(x)'
          BY <1>2, <2>11, <2>12, <3>2
        <4> QED BY <3>2, <4>1, <4>2 DEF Moved, Nowhere, RequestInv
      <3> QED BY <3>1, <3>2
    <2> QED BY <1>1, <1>2, <1>4, <2>1, <2>8, <2>10, <2>13, <2>14, StepKeeps
  <1>9. CASE ~(parallel /\ r \in cancelled) /\ ~(Prompt[r] <= free)
    <2> DEFINE q == "crash in add_handoff"
    <2>1. /\ session' = Append(session, r) /\ kv' = [kv EXCEPT ![r] = free] /\ crashed' = TRUE
          /\ UNCHANGED <<batch, decoding, generated, finish, cancelled>>
          /\ StepTo(t, q, batch[t])
      BY <1>1, <1>9 DEF Absorb, Go, StepTo, output, TypeOK
    <2> HIDE DEF r, b, p
    <2>2. kv' = [x \in Request |-> kv'[x]] /\ \A x \in Request : x # r => kv'[x] = kv[x]
      BY <1>2, <2>1 DEF TypeOK
    <2>3. TypeOK'
      BY <1>1, <1>3, <1>6, <2>1, <2>2, StepTypes DEF TypeOK, Crashes
    <2>4. SlotInv'
      <3>1. \A u \in Thread : pc[u] = "crash" => pc'[u] = "crash"
        BY <1>1, <1>3, <2>1, InBatches
      <3>2. decoding' \subseteq ToSet(session') /\ r \notin decoding
        BY <1>5, <1>6, <2>1 DEF SlotInv, Queued
      <3> QED BY <1>5, <2>1, <2>2, <3>1, <3>2 DEF SlotInv, SlotHoldsOutput
    <2>5. \A x \in Request : /\ Queued(x)' = Queued(x) /\ InBatch(x)' = InBatch(x)
                             /\ Nowhere(x)' = Nowhere(x) /\ Here(x)' = Here(x)
                             /\ Done(x)' = Done(x)
      BY <1>1, <2>1 DEF Queued, InBatch, Nowhere, Here, Done, lifecycle
    <2>6. QueueInv'
      BY <1>1, <2>1, <2>5 DEF QueueInv
    <2>7. \A x \in Request : Moved(x)
      BY <2>1, <2>5 DEF Moved, RequestInv
    <2>8. \A x \in ToSet(batch[t]) : ~InOther(t, x)
      BY <1>2
    <2>9. prefilling' = prefilling
      BY <1>1
    <2> DEFINE c == batch[t]
    <2>10. /\ c \in Seq(Request) /\ Distinct(c) /\ StepTo(t, q, c)
           /\ \A x \in ToSet(c) : ~InOther(t, x)
           /\ q \in {"forward", "put", "offer", "absorb", "absorb parked", "crash in add_handoff"}
                 <=> c # <<>>
      BY <1>1, <1>3, <2>1, <2>8
    <2>11. /\ q # "new" /\ q # "exit" /\ q # "prefill" /\ q # "absorb parked" /\ q # "absorb"
           /\ q \notin {"prefill", "forward", "put", "offer"}
      OBVIOUS
    <2> HIDE DEF c, q
    <2> QED BY <1>1, <1>4, <2>3, <2>4, <2>6, <2>7, <2>9, <2>10, <2>11, StepKeeps
  <1> QED BY <1>7, <1>8, <1>9

\* Some of the decoding requests end, and the others stay where they are.
LEMMA SlotsEnd ==
    ASSUME IInv, NEW t \in Thread, NEW p, batch[t] = <<>>, batch' = batch,
           pc' = [pc EXCEPT ![t] = p],
           UNCHANGED <<waiting, prefilling, handoffs, lifecycle, handles>>,
           NEW ends \in SUBSET decoding, decoding' = decoding \ ends,
           \A r \in Request : /\ r \notin ends => finish'[r] = finish[r]
                              /\ Done(r)' <=> Done(r) \/ r \in ends
                              /\ r \notin decoding => generated'[r] = generated[r]
    PROVE  QueueInv' /\ \A r \in Request : Moved(r)
  <1> USE DEF IInv
  <1>1. \A r : /\ InBatch(r)' <=> InBatch(r)
               /\ Here(r) => Here(r)' \/ Queued(r)
               /\ Queued(r)' => Here(r)'
    BY NoBatch
  <1>2. \A r : Queued(r)' => Queued(r)
    BY DEF Queued
  <1>3. \A r : Queued(r) => Queued(r)' \/ r \in ends
    BY DEF Queued
  <1>4. \A r \in ends : r \in Request /\ Queued(r) /\ ~InBatch(r) /\ ~Queued(r)'
    <2> SUFFICES ASSUME NEW r \in ends PROVE r \in Request /\ Queued(r) /\ ~InBatch(r) /\ ~Queued(r)'
      OBVIOUS
    <2>1. r \in Request /\ r \in decoding /\ Queued(r)
      BY DEF TypeOK, Queued
    <2>2. r \notin ToSet(waiting) \cup ToSet(prefilling) \cup ToSet(handoffs)
      BY <2>1 DEF QueueInv
    <2> QED BY <2>1, <2>2 DEF QueueInv, Queued
  <1>5. QueueInv'
    <2>1. \A r \in Request : Queued(r)' => ~InBatch(r)'
      BY <1>1, <1>2 DEF QueueInv
    <2> QED BY <2>1 DEF QueueInv
  <1>6. ASSUME NEW r \in Request PROVE Moved(r)
    <2>1. CASE r \in ends
      BY <1>1, <1>4, <2>1 DEF Moved, Nowhere
    <2>2. CASE r \notin ends
      <3>1. /\ Nowhere(r)' <=> Nowhere(r)
            /\ finish'[r] = finish[r] /\ (Done(r)' <=> Done(r))
            /\ r \in decoding' <=> r \in decoding
            /\ r \notin decoding => generated'[r] = generated[r]
        BY <1>1, <1>2, <1>3, <2>2 DEF Nowhere
      <3>2. Here(r) => Here(r)'
        BY <1>1, <1>3, <2>2
      <3>3. Nowhere(r) => r \notin decoding
        BY DEF Nowhere, Queued
      <3> QED BY <3>1, <3>2, <3>3 DEF Moved, RequestInv
    <2> QED BY <2>1, <2>2
  <1> QED BY <1>5, <1>6

\* One batched forward.
LEMMA DecodeStepKeeps ==
    ASSUME IInv, NEW t \in Thread, DecodeStep(t) PROVE IInv'
  <1> USE DEF IInv
  <1>1. /\ pc[t] = "step" /\ Alive(t) /\ batch[t] = <<>> /\ ~(parallel /\ t[1] = "prefill")
        /\ UNCHANGED <<waiting, prefilling, batch, handoffs, lifecycle, handles>>
    BY DEF DecodeStep, At, Alive, BatchInv, ThreadInv, queues
  <1>2. /\ session \in Seq(Request) /\ decoding \in SUBSET Request /\ decoding \subseteq ToSet(session)
        /\ \A r \in decoding : ~Done(r)
    BY DEF TypeOK, SlotInv, RequestInv, Nowhere, Queued
  <1>3. /\ <<>> \in Seq(Request) /\ Distinct(<<>>) /\ ToSet(<<>>) = {}
    BY EmptyFacts
  <1>4. CASE Len(session) <= free
    <2> DEFINE kv2 == [r \in Request |-> kv[r] + IF r \in ToSet(session) THEN 1 ELSE 0]
               free2 == free - Len(session)
               session2 == session
               R == Reported
               ends == R \ decoding'
    <2>1. /\ Report(R, session2, kv2, free2)
          /\ pc' = [pc EXCEPT ![t] = "reap"] /\ crashed' = crashed
      BY <1>4 DEF DecodeStep, Go
    <2>2. /\ \A r \in decoding : kv2[r] = kv[r] + 1
          /\ R \in SUBSET Request /\ R = decoding \ cancelled
      BY <1>2 DEF Reported
    <2>3. TypeOK /\ R \in SUBSET Request /\ session2 \in Seq(Request)
      BY <1>2 DEF Reported
    <2>4. session2 = session
      OBVIOUS
    <2> HIDE DEF kv2, free2, session2, R
    <2>5. /\ decoding' = (decoding \cup R) \ ends
          /\ ToSet(session') = ToSet(session2) \ ends
          /\ \A r \in Request : /\ r \notin ends => finish'[r] = finish[r] /\ kv'[r] = kv2[r]
                                /\ Done(r)' <=> Done(r) \/ r \in ends
      BY <2>1, <2>3, ReportFacts
    <2>6. /\ generated' \in [Request -> Nat]
          /\ \A r \in Request : generated'[r] = generated[r] + IF r \in R THEN 1 ELSE 0
          /\ cancelled \subseteq cancelled' /\ cancelled' \in SUBSET Request
          /\ finish' \in [Request -> {"none", "length", "stop", "cancelled", "failed"}]
          /\ decoding' \in SUBSET Request
          /\ session' \in Seq(Request) /\ kv' = [r \in Request |-> kv'[r]]
      BY <2>1, <2>3, ReportFacts
    <2>7. ends \in SUBSET decoding /\ decoding' = decoding \ ends
      BY <2>2, <2>5
    <2> HIDE DEF ends
    <2>8. \A r \in Request : generated[r] \in Nat /\ Prompt[r] \in Nat
      BY PDAssumption DEF TypeOK
    <2>9. \A r \in Request : r \notin decoding => generated'[r] = generated[r]
      BY <2>2, <2>6, <2>8
    <2>10. QueueInv' /\ \A r \in Request : Moved(r)
      BY <1>1, <2>1, <2>5, <2>7, <2>9, SlotsEnd
    <2>11. StepTo(t, "reap", <<>>)
      BY <1>1, <2>1, NoBatch
    <2>12. TypeOK'
      BY <1>1, <1>3, <2>1, <2>6, <2>11, StepTypes DEF TypeOK
    <2>13. SlotInv'
      <3>1. decoding' \subseteq ToSet(session')
        BY <1>2, <2>5, <2>7, <2>4
      <3>2. ASSUME NEW r \in decoding' \ cancelled', \A u \in Thread : pc'[u] # "crash"
            PROVE  kv'[r] = Prompt[r] + generated'[r] - 1
        <4>1. r \in Request /\ r \in decoding /\ r \notin ends /\ r \in R /\ r \notin cancelled
          BY <1>2, <2>2, <2>6, <2>7, <3>2
        <4>2. kv'[r] = kv[r] + 1 /\ generated'[r] = generated[r] + 1
          BY <2>2, <2>5, <2>6, <4>1
        <4>3. \A u \in Thread : pc[u] # "crash"
          BY <1>1, <2>1, <3>2 DEF TypeOK
        <4>4. kv[r] = Prompt[r] + generated[r] - 1
          BY <4>1, <4>3 DEF SlotInv, SlotHoldsOutput
        <4> QED BY <2>8, <4>1, <4>2, <4>4
      <3> QED BY <3>1, <3>2 DEF SlotInv, SlotHoldsOutput
    <2> QED BY <1>1, <1>3, <2>10, <2>11, <2>12, <2>13, StepKeeps
  <1>5. CASE ~(Len(session) <= free)
    <2>1. /\ kv' = [r \in Request |-> kv[r] + IF r \in ToSet(SubSeq(session, 1, free)) THEN 1 ELSE 0]
          /\ crashed' = TRUE /\ pc' = [pc EXCEPT ![t] = "crash"]
          /\ UNCHANGED <<session, decoding, generated, finish, cancelled>>
      BY <1>5 DEF DecodeStep, Go, output
    <2>2. QueueInv' /\ \A r \in Request : Moved(r)
      <3>1. /\ {} \in SUBSET decoding /\ decoding' = decoding \ {}
            /\ \A r \in Request : /\ r \notin {} => finish'[r] = finish[r]
                                  /\ Done(r)' <=> Done(r) \/ r \in {}
                                  /\ r \notin decoding => generated'[r] = generated[r]
        BY <2>1 DEF Done
      <3> QED BY <1>1, <2>1, <3>1, SlotsEnd
    <2>3. StepTo(t, "crash", <<>>)
      BY <1>1, <2>1, NoBatch
    <2>4. kv' = [r \in Request |-> kv'[r]]
      BY <2>1
    <2>5. TypeOK'
      BY <1>1, <1>3, <2>1, <2>3, <2>4, StepTypes DEF TypeOK, Crashes
    <2>6. SlotInv'
      <3>1. pc'[t] = "crash"
        BY <2>1 DEF TypeOK
      <3> QED BY <1>2, <2>1, <3>1 DEF SlotInv, SlotHoldsOutput
    <2> QED BY <1>1, <1>3, <2>2, <2>3, <2>5, <2>6, StepKeeps
  <1> QED BY <1>4, <1>5

\* Cancelled slots are removed.
LEMMA ReapCancelledKeeps ==
    ASSUME IInv, NEW t \in Thread, ReapCancelled(t) PROVE IInv'
  <1> USE DEF IInv
  <1> DEFINE R == {r \in decoding \cap cancelled : ~Done(r)}
             session2 == session
             kv2 == kv
             free2 == free
  <1>1. /\ pc[t] = "reap" /\ Alive(t) /\ batch[t] = <<>> /\ ~(parallel /\ t[1] = "prefill")
        /\ UNCHANGED <<waiting, prefilling, batch, handoffs, lifecycle, handles>>
    BY DEF ReapCancelled, At, Alive, BatchInv, ThreadInv, queues
  <1>2. /\ decoding' = decoding \ R /\ SlotsRemoved(R, session2, kv2, free2) /\ Terminal(R, "cancelled")
        /\ pc' = [pc EXCEPT ![t] = "top"]
        /\ UNCHANGED <<generated, cancelled, crashed>>
    BY DEF ReapCancelled, Go
  <1>3. /\ session \in Seq(Request) /\ decoding \in SUBSET Request /\ decoding \subseteq ToSet(session)
    BY DEF TypeOK, SlotInv
  <1>4. /\ <<>> \in Seq(Request) /\ Distinct(<<>>) /\ ToSet(<<>>) = {}
    BY EmptyFacts
  <1>5. R \in SUBSET decoding
    OBVIOUS
  <1>6. session2 \in Seq(Request)
    BY <1>3
  <1>7. session2 = session /\ kv2 = kv
    OBVIOUS
  <1> HIDE DEF R, session2, kv2, free2
  <1>8. /\ session' \in Seq(Request) /\ ToSet(session') = ToSet(session2) \ R
        /\ kv' = [r \in Request |-> kv'[r]]
        /\ \A r \in Request : r \notin R => kv'[r] = kv2[r]
    <2>1. session' \in Without(session2, R)
      BY <1>2 DEF SlotsRemoved
    <2>2. kv' = [r \in Request |-> IF r \in R THEN 0 ELSE kv2[r]]
      BY <1>2 DEF SlotsRemoved
    <2> QED BY <1>6, <2>1, <2>2, WithoutFacts
  <1>9. /\ finish' \in [Request -> {"none", "length", "stop", "cancelled", "failed"}]
        /\ \A r \in Request : /\ r \notin R => finish'[r] = finish[r]
                              /\ Done(r)' <=> Done(r) \/ r \in R
    BY <1>2, TerminalFacts
  <1>10. QueueInv' /\ \A r \in Request : Moved(r)
    BY <1>1, <1>2, <1>5, <1>9, SlotsEnd
  <1>11. StepTo(t, "top", <<>>)
    BY <1>1, <1>2, NoBatch
  <1>12. TypeOK'
    BY <1>1, <1>2, <1>3, <1>4, <1>8, <1>9, <1>11, StepTypes DEF TypeOK
  <1>13. SlotInv'
    <2>1. \A u \in Thread : pc[u] = "crash" => pc'[u] = "crash"
      BY <1>1, <1>2 DEF TypeOK
    <2> QED BY <1>2, <1>3, <1>8, <1>7, <2>1 DEF SlotInv, SlotHoldsOutput
  <1> QED BY <1>1, <1>4, <1>10, <1>11, <1>12, <1>13, StepKeeps

\* Each step of a thread keeps the invariant.
LEMMA EngineKeeps ==
    ASSUME IInv, NEW t \in Thread, EngineThread(t) PROVE IInv'
  <1>1. CASE LeaveLoop(t)
    BY <1>1, LeaveLoopKeeps
  <1>2. CASE AdmitWaiting(t)
    BY <1>2, AdmitWaitingKeeps
  <1>3. CASE PrefillBatch(t)
    BY <1>3, PrefillBatchKeeps
  <1>4. CASE PrefillReturns(t)
    BY <1>4, PrefillReturnsKeeps
  <1>5. CASE StartPut(t)
    BY <1>5, StartPutKeeps
  <1>6. CASE Put(t)
    BY <1>6, PutKeeps
  <1>7. CASE TakeHandoff(t)
    BY <1>7, TakeHandoffKeeps
  <1>8. CASE Absorb(t)
    BY <1>8, AbsorbKeeps
  <1>9. CASE DecodeStep(t)
    BY <1>9, DecodeStepKeeps
  <1>10. CASE ReapCancelled(t)
    BY <1>10, ReapCancelledKeeps
  <1> QED
    BY <1>1, <1>2, <1>3, <1>4, <1>5, <1>6, <1>7, <1>8, <1>9, <1>10 DEF EngineThread

-----------------------------------------------------------------------------
(* The theorems.                                                           *)

\* The invariant holds of a new scheduler.
LEMMA Initially == Init => IInv
  <1> SUFFICES ASSUME Init PROVE IInv
    OBVIOUS
  <1>1. /\ <<>> \in Seq(Request) /\ ToSet(<<>>) = {} /\ Distinct(<<>>)
    BY EmptyFacts
  <1>2. /\ waiting = <<>> /\ prefilling = <<>> /\ handoffs = <<>> /\ session = <<>>
        /\ batch = [t \in Thread |-> <<>>] /\ decoding = {}
        /\ kv = [r \in Request |-> 0] /\ generated = [r \in Request |-> 0]
        /\ finish = [r \in Request |-> "none"] /\ cancelled = {}
        /\ pc = [t \in Thread |-> "new"] /\ gen = 0 /\ ended = 0
        /\ current = {} /\ undrained = {} /\ joined = {}
        /\ stop_event = FALSE /\ stopping = FALSE /\ crashed = FALSE /\ control = "idle"
        /\ handle = [r \in Request |-> "none"] /\ watch = [r \in Request |-> {}] /\ late = {}
    BY DEF Init
  <1>3. TypeOK
    <2>1. parallel \in BOOLEAN /\ MaxStarts \in Nat
      BY PDAssumption DEF Init
    <2>2. kv = [r \in Request |-> kv[r]]
      BY <1>2
    <2>3. /\ waiting \in Seq(Request) /\ prefilling \in Seq(Request)
          /\ handoffs \in Seq(Request) /\ session \in Seq(Request)
          /\ batch \in [Thread -> Seq(Request)] /\ decoding \in SUBSET Request
      BY <1>1, <1>2
    <2>4. /\ generated \in [Request -> Nat] /\ cancelled \in SUBSET Request
          /\ finish \in [Request -> {"none", "length", "stop", "cancelled", "failed"}]
          /\ pc \in [Thread -> {"new", "top", "prefill", "forward", "put", "offer", "drain", "park",
                                "absorb", "absorb parked", "step", "reap", "exit"} \cup Crashes]
      BY <1>2
    <2>5. /\ handle \in [Request -> {"none", "submits", "waits", "sees dead", "raised"}]
          /\ watch \in [Request -> SUBSET Thread] /\ late \in SUBSET Request
          /\ current \in SUBSET Thread /\ undrained \in SUBSET Thread /\ joined \in SUBSET Thread
      BY <1>2
    <2>6. gen \in Nat /\ gen <= MaxStarts /\ ended \in Nat /\ ended <= gen
      BY <1>2, <2>1
    <2>7. /\ stop_event \in BOOLEAN /\ stopping \in BOOLEAN /\ crashed \in BOOLEAN
          /\ control \in {"idle", "join", "end"}
      BY <1>2
    <2> QED BY <2>1, <2>2, <2>3, <2>4, <2>5, <2>6, <2>7 DEF TypeOK
  <1>4. ThreadInv
    <2>1. \A t \in Thread : t[2] > 0 /\ pc[t] = "new"
      BY <1>2, Threads
    <2> QED BY <1>2, <2>1 DEF ThreadInv, Alive
  <1>5. BatchInv
    BY <1>1, <1>2 DEF BatchInv
  <1>6. \A r \in Request : Nowhere(r) /\ ~Queued(r) /\ ~Done(r)
    BY <1>1, <1>2 DEF Nowhere, Queued, InBatch, Done
  <1>7. QueueInv
    BY <1>1, <1>2, <1>6 DEF QueueInv
  <1>8. RequestInv /\ LocateInv
    BY <1>2, <1>6 DEF RequestInv, LocateInv
  <1>9. SlotInv
    BY <1>2 DEF SlotInv, SlotHoldsOutput
  <1> QED BY <1>3, <1>4, <1>5, <1>7, <1>8, <1>9 DEF IInv

\* Nothing happens.
LEMMA Stuttering ==
    ASSUME IInv, UNCHANGED vars PROVE IInv'
  <1> USE DEF IInv
  <1>1. UNCHANGED <<queues, pool, output, cancelled, crashed, pc, lifecycle, handles>>
    BY DEF vars
  <1>2. UNCHANGED <<waiting, prefilling, batch, handoffs, session, decoding, kv, generated, finish,
                    cancelled, crashed, pc, parallel, gen, ended, current, undrained, joined,
                    stop_event, stopping, control, handle, watch, late>>
    BY <1>1 DEF queues, pool, slots, output, lifecycle, handles
  <1>3. TypeOK'
    BY <1>2 DEF TypeOK
  <1>4. ThreadInv'
    BY <1>2 DEF ThreadInv, Alive, Role, Team
  <1>5. BatchInv' /\ QueueInv' /\ RequestInv' /\ SlotInv' /\ LocateInv'
    BY <1>1, <1>2, SameRequests
  <1> QED BY <1>3, <1>4, <1>5

\* IInv is an invariant, whether or not the joins of stop() time out.
THEOREM Invariance == Spec => []IInv
  <1>1. ASSUME IInv, [Next]_vars PROVE IInv'
    <2>1. CASE \E t \in Thread : EngineThread(t)
      BY <1>1, <2>1, EngineKeeps
    <2>2. CASE Start
      BY <1>1, <2>2, StartKeeps
    <2>3. CASE Stop \/ Join
      BY <1>1, <2>3, StopJoinKeep
    <2>4. CASE StopReturns
      BY <1>1, <2>4, StopReturnsKeeps
    <2>5. CASE \E r \in Request : Submit(r)
      BY <1>1, <2>5, SubmitKeeps
    <2>6. CASE \E r \in Request : Enqueue(r)
      BY <1>1, <2>6, EnqueueKeeps
    <2>7. CASE \E r \in Request : Cancel(r) \/ Handle(r)
      BY <1>1, <2>7, HandleKeeps
    <2>8. CASE UNCHANGED vars
      BY <1>1, <2>8, Stuttering
    <2> QED BY <1>1, <2>1, <2>2, <2>3, <2>4, <2>5, <2>6, <2>7, <2>8 DEF Next
  <1> QED BY <1>1, Initially, PTL DEF Spec

\* Types of the state.
THEOREM TypeCorrect == Spec => []TypeOK
  <1>1. IInv => TypeOK
    BY DEF IInv
  <1> QED BY <1>1, Invariance, PTL

\* The slot of a decoding request holds its prompt and all its output but the
\* last token, for every interleaving of the two threads.
THEOREM SlotsHoldOutput == Spec => []SlotHoldsOutput
  <1>1. IInv => SlotHoldsOutput
    BY DEF IInv, SlotInv
  <1> QED BY <1>1, Invariance, PTL

\* A request has at most one place in a queue whose elements differ.
LEMMA OnePlace ==
    ASSUME NEW S, NEW q \in Seq(S), Distinct(q), NEW r
    PROVE  LET at == {k \in 1..Len(q) : q[k] = r}
           IN (\A i, j \in at : i = j) /\ (at # {} <=> r \in ToSet(q))
  <1>1. ToSet(q) = {q[i] : i \in 1..Len(q)}
    BY QueueFacts
  <1> QED BY <1>1 DEF Distinct

\* A request that is somewhere is in one place.
LEMMA SolePlace ==
    ASSUME IInv, NEW r \in Request, ~Nowhere(r)
    PROVE  Cardinality(Places(r)) = 1
  <1> USE DEF IInv
  <1> DEFINE at(q) == {k \in 1..Len(q) : q[k] = r}
             W == {<<"waiting", i>> : i \in at(waiting)}
             P == {<<"prefilling", i>> : i \in at(prefilling)}
             H == {<<"handoffs", i>> : i \in at(handoffs)}
             D == {<<"decoding">> : d \in decoding \cap {r}}
             B(t) == {<<"batch", t, i>> : i \in at(batch[t])}
             U == UNION {B(t) : t \in Thread}
  <1>1. Places(r) = W \cup P \cup H \cup D \cup U
    BY DEF Places
  <1>2. /\ waiting \in Seq(Request) /\ Distinct(waiting)
        /\ prefilling \in Seq(Request) /\ Distinct(prefilling)
        /\ handoffs \in Seq(Request) /\ Distinct(handoffs)
        /\ \A t \in Thread : batch[t] \in Seq(Request) /\ Distinct(batch[t])
    BY DEF TypeOK, QueueInv, BatchInv
  <1>3. \A q \in Seq(Request) :
          Distinct(q) => (\A i, j \in at(q) : i = j) /\ (at(q) # {} <=> r \in ToSet(q))
    BY OnePlace
  <1> HIDE DEF at
  <1>4. /\ (\A x, y \in W : x = y) /\ (W # {} <=> r \in ToSet(waiting))
        /\ (\A x, y \in P : x = y) /\ (P # {} <=> r \in ToSet(prefilling))
        /\ (\A x, y \in H : x = y) /\ (H # {} <=> r \in ToSet(handoffs))
        /\ (\A x, y \in D : x = y) /\ (D # {} <=> r \in decoding)
    <2>1. (\A x, y \in W : x = y) /\ (W # {} <=> r \in ToSet(waiting))
      <3>1. (\A i, j \in at(waiting) : i = j) /\ (at(waiting) # {} <=> r \in ToSet(waiting))
        BY <1>2, <1>3
      <3> QED BY <3>1
    <2>2. (\A x, y \in P : x = y) /\ (P # {} <=> r \in ToSet(prefilling))
      <3>1. (\A i, j \in at(prefilling) : i = j) /\ (at(prefilling) # {} <=> r \in ToSet(prefilling))
        BY <1>2, <1>3
      <3> QED BY <3>1
    <2>3. (\A x, y \in H : x = y) /\ (H # {} <=> r \in ToSet(handoffs))
      <3>1. (\A i, j \in at(handoffs) : i = j) /\ (at(handoffs) # {} <=> r \in ToSet(handoffs))
        BY <1>2, <1>3
      <3> QED BY <3>1
    <2> QED BY <2>1, <2>2, <2>3
  <1>5. \A t \in Thread : (\A x, y \in B(t) : x = y) /\ (B(t) # {} <=> r \in ToSet(batch[t]))
    <2> TAKE t \in Thread
    <2>1. (\A i, j \in at(batch[t]) : i = j) /\ (at(batch[t]) # {} <=> r \in ToSet(batch[t]))
      BY <1>2, <1>3
    <2> QED BY <2>1
  <1> HIDE DEF W, P, H, D, B
  <1>6. (\A x, y \in U : x = y) /\ (U # {} <=> InBatch(r))
    <2>1. \A t, u \in Thread : B(t) # {} /\ B(u) # {} => t = u
      BY <1>5 DEF BatchInv
    <2>2. U # {} <=> InBatch(r)
      BY <1>5 DEF InBatch
    <2>3. ASSUME NEW x \in U, NEW y \in U PROVE x = y
      <3>1. PICK t \in Thread : x \in B(t)
        BY <2>3
      <3>2. PICK u \in Thread : y \in B(u)
        BY <2>3
      <3>3. t = u
        BY <2>1, <3>1, <3>2
      <3> QED BY <1>5, <3>1, <3>2, <3>3
    <2> QED BY <2>2, <2>3
  <1> HIDE DEF U
  <1>7. /\ W # {} => P = {} /\ H = {} /\ D = {} /\ U = {}
        /\ P # {} => H = {} /\ D = {} /\ U = {}
        /\ H # {} => D = {} /\ U = {}
        /\ D # {} => U = {}
        /\ W # {} \/ P # {} \/ H # {} \/ D # {} \/ U # {}
    <2>1. /\ r \in ToSet(waiting) => r \notin ToSet(prefilling) \cup ToSet(handoffs) \cup decoding
          /\ r \in ToSet(prefilling) => r \notin ToSet(handoffs) \cup decoding
          /\ r \in ToSet(handoffs) => r \notin decoding
          /\ Queued(r) => ~InBatch(r)
      BY DEF QueueInv
    <2>2. Queued(r) \/ InBatch(r)
      BY DEF Nowhere
    <2> QED BY <1>4, <1>6, <2>1, <2>2 DEF Queued
  <1>8. \A x, y \in Places(r) : x = y
    BY <1>1, <1>4, <1>6, <1>7
  <1>9. PICK x : x \in Places(r)
    BY <1>1, <1>7
  <1>10. Places(r) = {x}
    BY <1>8, <1>9
  <1> QED BY <1>10, FS_Singleton

\* The generations that were started.
LEMMA Started ==
    ASSUME TypeOK, NEW g \in 1..gen PROVE g \in 1..MaxStarts
  <1>1. gen \in Nat /\ gen <= MaxStarts
    BY DEF TypeOK
  <1>2. MaxStarts \in Nat
    BY PDAssumption
  <1> QED BY <1>1, <1>2

\* As long as the threads its handle watches live, a request that was enqueued
\* and has not ended is in exactly one queue, batch or slot.
THEOREM NothingLost == Spec => []NoRequestLost
  <1>1. ASSUME IInv PROVE NoRequestLost
    <2> USE <1>1 DEF IInv
    <2> SUFFICES ASSUME NEW r \in Request, handle[r] \in {"waits", "sees dead"}, ~Done(r),
                        \A t \in watch[r] : Alive(t)
                 PROVE  Cardinality(Places(r)) = 1
      BY DEF NoRequestLost
    <2>1. PICK g \in 1..gen : watch[r] = Team(g)
      BY DEF RequestInv
    <2>2. g \in 1..MaxStarts
      BY Started
    <2>3. <<"prefill", g>> \in Thread /\ <<"prefill", g>> \in watch[r] /\ <<"prefill", g>>[2] = g
      <3>1. <<"prefill", g>> \in Team(g) /\ Team(g) \subseteq Thread
        BY <2>2, Threads
      <3> QED BY <2>1, <3>1
    <2>4. g = gen /\ ended < gen
      BY <2>3 DEF ThreadInv
    <2>5. Here(r)
      BY <2>1, <2>4 DEF LocateInv, Fresh
    <2> QED BY <2>5, SolePlace DEF Here, Nowhere, InBatch
  <1> QED BY <1>1, Invariance, PTL

\* What a step of a thread leaves alone.
LEMMA EngineShape ==
    ASSUME TypeOK, NEW t \in Thread, EngineThread(t)
    PROVE  /\ Alive(t) /\ UNCHANGED <<lifecycle, handles>>
           /\ \A u \in Thread : u # t => pc'[u] = pc[u]
           /\ \/ crashed' = crashed /\ pc'[t] \notin Crashes
              \/ crashed' = TRUE /\ pc'[t] \in Crashes
           /\ \A r \in Request : Done(r) => Done(r)'
  <1>1. UNCHANGED <<lifecycle, handles>>
    BY DEF EngineThread, LeaveLoop, AdmitWaiting, PrefillBatch, PrefillReturns, StartPut, Put,
           TakeHandoff, Absorb, DecodeStep, ReapCancelled
  <1>2. Alive(t) /\ \E p : pc' = [pc EXCEPT ![t] = p] /\
           (\/ crashed' = crashed /\ p \notin Crashes
            \/ crashed' = TRUE /\ p \in Crashes)
    <2>1. CASE LeaveLoop(t)
      <3> DEFINE p == "exit"
      <3>1. pc[t] = "top" /\ pc' = [pc EXCEPT ![t] = p] /\ crashed' = crashed
        BY <2>1 DEF LeaveLoop, At, Go
      <3>2. p \notin Crashes
        BY DEF Crashes
      <3> HIDE DEF p
      <3> QED BY <3>1, <3>2 DEF Alive
    <2>2. CASE AdmitWaiting(t)
      <3> DEFINE p == IF prefilling' # <<>> THEN "prefill" ELSE IF parallel THEN "top" ELSE "step"
      <3>1. pc[t] = "top" /\ pc' = [pc EXCEPT ![t] = p] /\ crashed' = crashed
        BY <2>2 DEF AdmitWaiting, At, Go
      <3>2. p \notin Crashes
        BY DEF Crashes
      <3> HIDE DEF p
      <3> QED BY <3>1, <3>2 DEF Alive
    <2>3. CASE PrefillBatch(t)
      BY <2>3 DEF PrefillBatch, At, Go, Alive, Crashes
    <2>4. CASE PrefillReturns(t)
      <3> DEFINE p == IF batch[t] = <<>> THEN "top" ELSE IF parallel THEN "put" ELSE "absorb"
      <3>1. pc[t] = "forward" /\ pc' = [pc EXCEPT ![t] = p] /\ crashed' = crashed
        BY <2>4 DEF PrefillReturns, At, Go
      <3>2. p \notin Crashes
        BY DEF Crashes
      <3> HIDE DEF p
      <3> QED BY <3>1, <3>2 DEF Alive
    <2>5. CASE StartPut(t)
      <3> DEFINE p == IF Head(batch[t]) \notin cancelled THEN "offer"
                      ELSE IF Len(batch[t]) = 1 THEN "top" ELSE "put"
      <3>1. pc[t] = "put" /\ pc' = [pc EXCEPT ![t] = p] /\ crashed' = crashed
        BY <2>5 DEF StartPut, At, Go
      <3>2. p \notin Crashes
        BY DEF Crashes
      <3> HIDE DEF p
      <3> QED BY <3>1, <3>2 DEF Alive
    <2>6. CASE Put(t)
      <3> DEFINE p == IF Len(batch[t]) = 1 THEN "top" ELSE "put"
      <3>1. pc[t] = "offer" /\ pc' = [pc EXCEPT ![t] = p] /\ crashed' = crashed
        BY <2>6 DEF Put, At, Go
      <3>2. p \notin Crashes
        BY DEF Crashes
      <3> HIDE DEF p
      <3> QED BY <3>1, <3>2 DEF Alive
    <2>7. CASE TakeHandoff(t)
      <3>1. pc[t] \in {"top", "drain", "park"} /\ crashed' = crashed
        BY <2>7 DEF TakeHandoff, At
      <3>2. CASE handoffs # <<>>
        <4> DEFINE p == IF At(t, "park") THEN "absorb parked" ELSE "absorb"
        <4>1. pc' = [pc EXCEPT ![t] = p]
          BY <2>7, <3>2 DEF TakeHandoff, Go
        <4>2. p \notin Crashes
          BY DEF Crashes
        <4> HIDE DEF p
        <4> QED BY <3>1, <4>1, <4>2 DEF Alive
      <3>3. CASE handoffs = <<>>
        <4> DEFINE p == IF At(t, "park") THEN "top" ELSE IF session = <<>> THEN "park" ELSE "step"
        <4>1. pc' = [pc EXCEPT ![t] = p]
          BY <2>7, <3>3 DEF TakeHandoff, Go
        <4>2. p \notin Crashes
          BY DEF Crashes
        <4> HIDE DEF p
        <4> QED BY <3>1, <4>1, <4>2 DEF Alive
      <3> QED BY <3>2, <3>3
    <2>8. CASE Absorb(t)
      <3>1. AfterAbsorb(t) \notin Crashes
        BY DEF AfterAbsorb, Crashes
      <3> QED BY <2>8, <3>1 DEF Absorb, Go, Alive, Crashes
    <2>9. CASE DecodeStep(t)
      BY <2>9 DEF DecodeStep, At, Go, Alive, Crashes
    <2>10. CASE ReapCancelled(t)
      <3> DEFINE p == "top"
      <3>1. pc[t] = "reap" /\ pc' = [pc EXCEPT ![t] = p] /\ crashed' = crashed
        BY <2>10 DEF ReapCancelled, At, Go
      <3>2. p \notin Crashes
        BY DEF Crashes
      <3> HIDE DEF p
      <3> QED BY <3>1, <3>2 DEF Alive
    <2> QED BY <2>1, <2>2, <2>3, <2>4, <2>5, <2>6, <2>7, <2>8, <2>9, <2>10 DEF EngineThread
  <1>3. ASSUME NEW r \in Request, Done(r) PROVE Done(r)'
    <2>1. \A R, reason : Terminal(R, reason) => Done(r)'
      BY <1>3 DEF Terminal, Done
    <2>2. \A R, q, f, n : Report(R, q, f, n) => Done(r)'
      BY <1>3 DEF Report, Done
    <2>3. finish' = finish => Done(r)'
      BY <1>3 DEF Done
    <2>4. CASE LeaveLoop(t) \/ PrefillReturns(t) \/ Put(t) \/ TakeHandoff(t)
      BY <2>3, <2>4 DEF LeaveLoop, PrefillReturns, Put, TakeHandoff, output
    <2>5. CASE AdmitWaiting(t) \/ ReapCancelled(t)
      BY <2>1, <2>5 DEF AdmitWaiting, ReapCancelled
    <2>6. CASE PrefillBatch(t) \/ StartPut(t)
      BY <2>1, <2>3, <2>6 DEF PrefillBatch, StartPut
    <2>7. CASE Absorb(t) \/ DecodeStep(t)
      BY <2>1, <2>2, <2>3, <2>7 DEF Absorb, DecodeStep, output
    <2> QED BY <2>4, <2>5, <2>6, <2>7 DEF EngineThread
  <1>4. \A p : pc' = [pc EXCEPT ![t] = p] => pc'[t] = p /\ \A u \in Thread : u # t => pc'[u] = pc[u]
    BY DEF TypeOK
  <1> QED BY <1>1, <1>2, <1>3, <1>4

\* A step of a thread.
LEMMA EngineStop ==
    ASSUME IInv, StopInv, NEW t \in Thread, EngineThread(t) PROVE StopInv'
  <1> USE DEF IInv, StopInv
  <1>1. /\ Alive(t) /\ UNCHANGED <<lifecycle, handles>>
        /\ \A u \in Thread : u # t => pc'[u] = pc[u]
        /\ \/ crashed' = crashed /\ pc'[t] \notin Crashes
           \/ crashed' = TRUE /\ pc'[t] \in Crashes
        /\ \A r \in Request : Done(r) => Done(r)'
    BY EngineShape
  <1>2. /\ UNCHANGED <<parallel, gen, ended, current, undrained, joined, stop_event, stopping, control>>
        /\ UNCHANGED <<handle, watch, late>>
    BY <1>1 DEF lifecycle, handles
  <1>3. control # "end"
    BY <1>1, JoinedLive DEF FlagsInv
  <1>4. t[2] = gen /\ pc[t] \notin Crashes
    BY <1>1 DEF ThreadInv, Alive, Crashes
  <1>5. crashed' <=> \E u \in Thread : u[2] = gen /\ pc'[u] \in Crashes
    <2>1. crashed <=> \E u \in Thread : u[2] = gen /\ pc[u] \in Crashes
      BY DEF FlagsInv
    <2>2. CASE crashed' = crashed /\ pc'[t] \notin Crashes
      BY <1>1, <1>4, <2>1, <2>2
    <2>3. CASE crashed' = TRUE /\ pc'[t] \in Crashes
      BY <1>4, <2>3
    <2> QED BY <1>1, <2>2, <2>3
  <1>6. FlagsInv'
    BY <1>2, <1>3, <1>5 DEF FlagsInv
  <1>7. ASSUME NEW r \in Request PROVE AnswerInv(r)'
    <2>1. SawCrash(r) => SawCrash(r)'
      <3>1. watch[r] \subseteq Thread
        BY DEF TypeOK
      <3> QED BY <1>1, <1>2, <1>4, <3>1 DEF SawCrash
    <2>2. Fresh(r)' <=> Fresh(r)
      BY <1>2 DEF Fresh, Team, Role
    <2> QED BY <1>1, <1>2, <2>1, <2>2 DEF AnswerInv
  <1> QED BY <1>6, <1>7

\* A request whose threads are those of the last start() saw its crash.
LEMMA CrashSeen ==
    ASSUME IInv, NEW r \in Request, Fresh(r), NEW t \in Thread, t[2] = gen, pc[t] \in Crashes
    PROVE  SawCrash(r)
  <1> USE DEF IInv
  <1>1. pc[t] # "new"
    BY DEF Crashes
  <1>2. t[1] \in Role
    BY <1>1 DEF ThreadInv
  <1>3. t \in watch[r]
    BY <1>2, Threads DEF Fresh
  <1> QED BY <1>3 DEF SawCrash

\* The generation a handle watches.
LEMMA Watched ==
    ASSUME IInv, NEW r \in Request, handle[r] # "none"
    PROVE  \E g \in 1..gen : /\ watch[r] = Team(g)
                             /\ \A t \in watch[r] : t \in Thread /\ t[2] = g
                             /\ <<"prefill", g>> \in watch[r] /\ <<"prefill", g>>[2] = g
  <1> USE DEF IInv
  <1>1. PICK g \in 1..gen : watch[r] = Team(g)
    BY DEF RequestInv
  <1>2. g \in 1..MaxStarts
    BY Started
  <1> QED BY <1>1, <1>2, Threads

\* start().
LEMMA StartStop ==
    ASSUME IInv, StopInv, Start PROVE StopInv'
  <1> USE DEF IInv, StopInv
  <1> DEFINE drains == (crashed \/ undrained # {}) /\ NoneAlive(current \cup undrained)
             lead == <<"prefill", gen>>
  <1>1. /\ control = "idle" /\ gen' = gen + 1
        /\ lead \in current => ~Alive(lead)
        /\ stop_event' = FALSE /\ crashed' = FALSE
        /\ current' = Role \X {gen + 1}
        /\ pc' = [t \in Thread |-> IF t \in current' THEN "top" ELSE pc[t]]
        /\ UNCHANGED <<parallel, joined, stopping, control, handles>>
        /\ IF drains
           THEN EndInFlight(TRUE) /\ undrained' = {}
           ELSE UNCHANGED <<finish, ended, undrained>>
    BY DEF Start
  <1>2. \A t \in Thread : ~Alive(t)
    BY <1>1, NoneLives DEF Start
  <1>3. gen \in Nat /\ ended \in Nat /\ ended <= gen /\ undrained = {} /\ gen <= ended + 1
    BY DEF TypeOK, FlagsInv
  <1>4. ended < gen => drains /\ lead \in Thread /\ pc[lead] \in Crashes
    <2> SUFFICES ASSUME ended < gen PROVE drains /\ lead \in Thread /\ pc[lead] \in Crashes
      OBVIOUS
    <2>1. current = Team(gen) /\ ~stop_event
      <3>1. current # {}
        BY <1>1, <1>3 DEF FlagsInv
      <3> QED BY <1>1, <3>1 DEF ThreadInv
    <2>2. lead \in current /\ lead \in Thread /\ lead[2] = gen /\ lead[1] = "prefill" /\ "prefill" \in Role
      <3>1. lead \in current /\ lead[2] = gen /\ lead[1] = "prefill"
        BY <2>1, Threads
      <3>2. current \subseteq Thread
        BY DEF TypeOK
      <3> QED BY <3>1, <3>2 DEF Role
    <2>3. pc[lead] # "new" /\ pc[lead] # "exit"
      BY <1>3, <2>1, <2>2 DEF ThreadInv
    <2>4. pc[lead] \in Crashes
      BY <1>2, <2>2, <2>3 DEF Alive, Crashes
    <2>5. crashed
      BY <2>2, <2>4 DEF FlagsInv
    <2>6. NoneAlive(current \cup undrained)
      BY <1>2, <1>3 DEF NoneAlive, TypeOK
    <2> QED BY <2>2, <2>4, <2>5, <2>6
  <1> HIDE DEF drains
  <1>5. ended' = gen /\ undrained' = {}
    BY <1>1, <1>3, <1>4 DEF EndInFlight
  <1>6. \A r \in Request : finish'[r] = finish[r]
    BY <1>1 DEF EndInFlight, TypeOK
  <1>7. current' = Team(gen') /\ \A t \in Thread : t \in current' <=> t[1] \in Role /\ t[2] = gen'
    <2>1. current' = Team(gen')
      BY <1>1 DEF Team
    <2> QED BY <2>1, Threads
  <1>8. \A t \in Thread : /\ t[2] <= gen => pc'[t] = pc[t]
                          /\ t[2] = gen' => pc'[t] \notin Crashes
    <2> TAKE t \in Thread
    <2>1. t[2] \in Nat
      BY Threads
    <2>2. t[2] <= gen => pc'[t] = pc[t]
      BY <1>1, <1>3, <1>7, <2>1
    <2>3. t[2] = gen' => pc'[t] \in {"top", "new"}
      <3>1. t[2] = gen' => t[2] > gen
        BY <1>1, <1>3
      <3> QED BY <1>1, <1>7, <3>1 DEF ThreadInv
    <2> QED BY <2>2, <2>3 DEF Crashes
  <1>9. FlagsInv'
    <2>1. current' # {}
      BY <1>7, Threads
    <2>2. gen' <= ended' + 1
      BY <1>1, <1>3, <1>5
    <2> QED BY <1>1, <1>5, <1>8, <2>1, <2>2 DEF FlagsInv
  <1>10. ASSUME NEW r \in Request PROVE AnswerInv(r)'
    <2>1. UNCHANGED <<handle, watch, late>> /\ (Done(r)' <=> Done(r))
      BY <1>1, <1>6 DEF handles, Done
    <2>2. handle[r] # "none" => (SawCrash(r)' <=> SawCrash(r))
      <3> SUFFICES ASSUME handle[r] # "none" PROVE SawCrash(r)' <=> SawCrash(r)
        OBVIOUS
      <3>1. PICK g \in 1..gen : \A t \in watch[r] : t \in Thread /\ t[2] = g
        BY Watched
      <3>2. g <= gen
        BY <1>3
      <3>3. \A t \in watch[r] : pc'[t] = pc[t]
        BY <1>8, <3>1, <3>2
      <3> QED BY <2>1, <3>3 DEF SawCrash
    <2>3. Fresh(r) => SawCrash(r)
      <3> SUFFICES ASSUME Fresh(r) PROVE SawCrash(r)
        OBVIOUS
      <3>1. lead \in Thread /\ pc[lead] \in Crashes /\ lead[2] = gen
        BY <1>4 DEF Fresh
      <3> QED BY <3>1, CrashSeen
    <2> QED BY <2>1, <2>2, <2>3 DEF AnswerInv
  <1> QED BY <1>9, <1>10

\* stop() sets the flags, and joins.
LEMMA StopJoinStop ==
    ASSUME ~JoinMayTimeOut, IInv, StopInv, Stop \/ Join PROVE StopInv'
  <1> USE DEF IInv, StopInv
  <1>1. /\ UNCHANGED <<finish, crashed, pc, parallel, gen, ended, undrained, handle, watch, late>>
        /\ stopping' = TRUE
        /\ control' # "idle"
    <2>1. CASE Stop
      BY <2>1 DEF Stop, output, handles
    <2>2. CASE Join
      BY <2>2 DEF Join, output, handles, FlagsInv
    <2> QED BY <2>1, <2>2
  <1>2. FlagsInv'
    <2>1. CASE Stop
      <3>1. control' = "join" /\ joined' = current /\ current' = current
        BY <2>1 DEF Stop, FlagsInv
      <3> QED BY <1>1, <3>1 DEF FlagsInv
    <2>2. CASE Join
      <3>1. control' = "end" /\ joined' = joined /\ NoneAlive(joined)
        BY <2>2 DEF Join, FlagsInv
      <3>2. NoneAlive(joined)'
        BY <1>1, <3>1 DEF NoneAlive, Alive
      <3> QED BY <1>1, <3>1, <3>2 DEF FlagsInv
    <2> QED BY <2>1, <2>2
  <1>3. ASSUME NEW r \in Request PROVE AnswerInv(r)'
    BY <1>1 DEF AnswerInv, Done, SawCrash, Fresh, Team, Role
  <1> QED BY <1>2, <1>3

\* stop() drains what the threads it joined had.
LEMMA StopReturnsStop ==
    ASSUME IInv, StopInv, StopReturns PROVE StopInv'
  <1> USE DEF IInv, StopInv
  <1> DEFINE c == crashed \/ undrained # {}
  <1>1. /\ control = "end" /\ control' = "idle" /\ stopping' = FALSE
        /\ UNCHANGED <<parallel, batch, generated, crashed, pc, gen, handle, watch, late>>
        /\ NoneAlive(joined)
    BY DEF StopReturns, handles, FlagsInv
  <1>2. EndInFlight(c) /\ undrained' = {}
    BY <1>1 DEF StopReturns
  <1>3. \A t \in Thread : ~Alive(t)
    BY <1>1, JoinedLive
  <1>4. c <=> crashed
    BY DEF FlagsInv
  <1> HIDE DEF c
  <1>5. ended' = gen /\ \A r \in Request : /\ Done(r) => Done(r)'
                                           /\ Queued(r) /\ ~c => Done(r)'
    BY <1>1, <1>2, Drain
  <1>6. FlagsInv'
    <2>1. gen \in Nat
      BY DEF TypeOK
    <2> QED BY <1>1, <1>2, <1>5, <2>1 DEF FlagsInv
  <1>7. ASSUME NEW r \in Request PROVE AnswerInv(r)'
    <2>1. SawCrash(r)' <=> SawCrash(r)
      BY <1>1 DEF SawCrash
    <2>2. ASSUME handle[r] \in {"waits", "sees dead"}, r \notin late, ~Done(r)', ~SawCrash(r)
          PROVE  FALSE
      <3>1. ~Done(r) /\ Fresh(r)
        BY <1>5, <2>2 DEF AnswerInv
      <3>2. \A t \in Thread : t[2] = gen => pc[t] \notin Crashes
        BY <2>2, <3>1, CrashSeen
      <3>3. ~crashed
        BY <3>2 DEF FlagsInv
      <3>4. Here(r)
        BY <2>2, <3>1 DEF LocateInv
      <3>5. Queued(r)
        <4> SUFFICES ASSUME NEW t \in Thread, t[2] = gen, r \in ToSet(batch[t]) PROVE FALSE
          BY <3>4 DEF Here
        <4>1. batch[t] # <<>>
          BY EmptyFacts
        <4>2. pc[t] \in Crashes
          BY <1>3, <4>1 DEF BatchInv, Alive, Crashes
        <4> QED BY <3>2, <4>2
      <3> QED BY <1>4, <1>5, <2>2, <3>3, <3>5
    <2> QED BY <1>1, <2>1, <2>2 DEF AnswerInv
  <1> QED BY <1>6, <1>7

\* submit(), and what a handle sees and does.
LEMMA HandleStop ==
    ASSUME IInv, StopInv, NEW r \in Request,
           Submit(r) \/ Enqueue(r) \/ Cancel(r) \/ Handle(r)
    PROVE  StopInv'
  <1> USE DEF IInv, StopInv
  <1>1. UNCHANGED <<finish, crashed, pc, lifecycle>>
    BY DEF Submit, Enqueue, Cancel, Handle, SeesDead, GivesUp, output
  <1>2. UNCHANGED <<parallel, gen, ended, current, undrained, joined, stop_event, stopping, control>>
    BY <1>1 DEF lifecycle
  <1>3. FlagsInv'
    BY <1>1, <1>2 DEF FlagsInv, NoneAlive, Alive
  <1>4. \A x \in Request : Done(x)' <=> Done(x)
    BY <1>1 DEF Done
  <1>5. \A x \in Request : x # r =>
          /\ handle'[x] = handle[x] /\ watch'[x] = watch[x] /\ (x \in late' <=> x \in late)
    <2>1. CASE Submit(r)
      BY <2>1 DEF Submit, TypeOK
    <2>2. CASE Enqueue(r)
      BY <2>2 DEF Enqueue, TypeOK
    <2>3. CASE Cancel(r)
      BY <2>3 DEF Cancel, handles
    <2>4. CASE Handle(r)
      BY <2>4 DEF Handle, SeesDead, GivesUp, TypeOK
    <2> QED BY <2>1, <2>2, <2>3, <2>4
  <1>6. \A x \in Request : watch'[x] = watch[x] =>
          (SawCrash(x)' <=> SawCrash(x)) /\ (Fresh(x)' <=> Fresh(x))
    BY <1>1, <1>2 DEF SawCrash, Fresh, Team, Role
  <1>7. ASSUME NEW x \in Request, x # r PROVE AnswerInv(x)'
    BY <1>2, <1>4, <1>5, <1>6, <1>7 DEF AnswerInv
  <1>8. AnswerInv(r)'
    <2>1. CASE Submit(r)
      <3>1. handle'[r] = "submits" /\ late' = late /\ handle[r] = "none"
        BY <2>1 DEF Submit, TypeOK
      <3> QED BY <3>1 DEF AnswerInv
    <2>2. CASE Enqueue(r)
      <3>1. /\ handle[r] = "submits" /\ handle'[r] = "waits" /\ watch'[r] = watch[r]
            /\ r \notin late' => \A t \in watch[r] : ~(t[2] <= ended)
        BY <2>2 DEF Enqueue, TypeOK
      <3>2. PICK g \in 1..gen : watch[r] = Team(g) /\ <<"prefill", g>> \in watch[r] /\ <<"prefill", g>>[2] = g
        BY <3>1, Watched
      <3>3. r \notin late' => ~(g <= ended)
        BY <3>1, <3>2
      <3>4. ~(g <= ended) => g = gen /\ ended < gen
        <4>1. gen \in Nat /\ ended \in Nat /\ gen <= ended + 1
          BY DEF TypeOK, FlagsInv
        <4> QED BY <4>1
      <3>5. r \notin late' => Fresh(r)'
        BY <1>6, <3>1, <3>2, <3>3, <3>4 DEF Fresh
      <3> QED BY <3>1, <3>5 DEF AnswerInv
    <2>3. CASE Cancel(r)
      <3>1. UNCHANGED <<handle, watch, late>>
        BY <2>3 DEF Cancel, handles
      <3> QED BY <1>2, <1>4, <1>6, <3>1 DEF AnswerInv
    <2>4. CASE SeesDead(r)
      <3>1. /\ handle[r] = "waits" /\ handle'[r] = "sees dead" /\ UNCHANGED <<watch, late>>
            /\ \E t \in watch[r] : ~Alive(t)
        BY <2>4 DEF SeesDead, TypeOK
      <3>2. ASSUME Fresh(r), ~SawCrash(r) PROVE stopping
        <4>1. PICK t \in watch[r] : ~Alive(t)
          BY <3>1
        <4>2. t \in Thread /\ t[2] = gen /\ t[1] \in Role /\ pc[t] \notin Crashes /\ ended < gen
          <5>1. t \in Thread
            BY <4>1 DEF TypeOK
          <5> QED BY <3>2, <4>1, <5>1, Threads DEF Fresh, SawCrash
        <4>3. pc[t] = "exit"
          <5>1. pc[t] # "new"
            <6>1. gen \in Nat
              BY DEF TypeOK
            <6> QED BY <4>2, <6>1 DEF ThreadInv
          <5> QED BY <4>1, <4>2, <5>1 DEF Alive, Crashes
        <4>4. stop_event
          BY <4>2, <4>3 DEF ThreadInv
        <4> QED BY <4>2, <4>4 DEF FlagsInv
      <3> QED BY <1>2, <1>4, <1>6, <3>1, <3>2 DEF AnswerInv
    <2>5. CASE GivesUp(r)
      <3>1. /\ handle[r] = "sees dead" /\ UNCHANGED <<watch, late>>
            /\ handle'[r] = IF stopping \/ Done(r) THEN "waits" ELSE "raised"
        BY <2>5 DEF GivesUp, TypeOK
      <3> QED BY <1>2, <1>4, <1>6, <3>1 DEF AnswerInv
    <2> QED BY <2>1, <2>2, <2>3, <2>4, <2>5 DEF Handle
  <1> QED BY <1>3, <1>7, <1>8

\* If no join times out, a handle raises only for a crash it saw or a request
\* put after the drain.
THEOREM CleanStopEndsRequests == ASSUME ~JoinMayTimeOut PROVE Spec => []CleanStopGivesTerminal
  <1>1. Init => StopInv
    <2> SUFFICES ASSUME Init PROVE StopInv
      OBVIOUS
    <2>1. /\ pc = [t \in Thread |-> "new"] /\ gen = 0 /\ ended = 0 /\ undrained = {}
          /\ crashed = FALSE /\ stopping = FALSE /\ control = "idle"
          /\ handle = [r \in Request |-> "none"] /\ late = {}
      BY DEF Init
    <2>2. \A t \in Thread : pc[t] \notin Crashes
      BY <2>1 DEF Crashes
    <2> QED BY <2>1, <2>2 DEF StopInv, FlagsInv, AnswerInv
  <1>2. ASSUME IInv, StopInv, [Next]_vars PROVE StopInv'
    <2>1. CASE \E t \in Thread : EngineThread(t)
      BY <1>2, <2>1, EngineStop
    <2>2. CASE Start
      BY <1>2, <2>2, StartStop
    <2>3. CASE Stop \/ Join
      BY <1>2, <2>3, StopJoinStop
    <2>4. CASE StopReturns
      BY <1>2, <2>4, StopReturnsStop
    <2>5. CASE \E r \in Request : Submit(r) \/ Enqueue(r) \/ Cancel(r) \/ Handle(r)
      BY <1>2, <2>5, HandleStop
    <2>6. CASE UNCHANGED vars
      <3>1. UNCHANGED <<finish, crashed, pc, parallel, gen, ended, current, undrained, joined,
                        stop_event, stopping, control, handle, watch, late>>
        BY <2>6 DEF vars, output, lifecycle, handles
      <3> QED BY <1>2, <3>1 DEF StopInv, FlagsInv, AnswerInv, NoneAlive, Alive, Done, SawCrash,
                                Fresh, Team, Role
    <2> QED BY <1>2, <2>1, <2>2, <2>3, <2>4, <2>5, <2>6 DEF Next
  <1>3. IInv /\ StopInv => CleanStopGivesTerminal
    BY DEF IInv, TypeOK, StopInv, AnswerInv, SawCrash, Crashes, CleanStopGivesTerminal
  <1> QED BY <1>1, <1>2, <1>3, Invariance, PTL DEF Spec

-----------------------------------------------------------------------------
(* The blocks of the pool.                                                 *)

\* An add_handoff ran out of memory: nothing gives the blocks of its slot back.
RanOut == \E t \in Thread : pc[t] = "crash in add_handoff"

\* Until then the numbers of blocks are natural, only a forward that runs holds
\* blocks of its own, the session has one slot for each decoding request and no
\* other, and every block is somewhere.
PoolInv ==
    ~RanOut =>
        /\ free \in Nat /\ kv \in [Request -> Nat] /\ held \in [Thread -> Nat]
        /\ \A t \in Thread : pc[t] # "forward" => held[t] = 0
        /\ Distinct(session)
        /\ ToSet(session) \subseteq decoding
        /\ free + Total(held, Thread) + Total(kv, ToSet(session)) = NumBlocks

\* The threads and the elements of a queue are finitely many.
LEMMA Finite ==
    /\ IsFiniteSet(Thread)
    /\ \A q \in Seq(Request) : IsFiniteSet(ToSet(q)) /\ \A R \in SUBSET ToSet(q) : IsFiniteSet(R)
  <1>1. IsFiniteSet(Thread)
    <2>1. IsFiniteSet({"prefill", "decode"})
      <3>1. IsFiniteSet({"prefill"})
        BY FS_Singleton
      <3>2. IsFiniteSet({"prefill"} \cup {"decode"})
        BY <3>1, FS_AddElement
      <3>3. {"prefill", "decode"} = {"prefill"} \cup {"decode"}
        OBVIOUS
      <3> QED BY <3>2, <3>3
    <2>2. MaxStarts \in Int
      BY PDAssumption
    <2>3. IsFiniteSet(1..MaxStarts)
      BY <2>2, FS_Interval
    <2> QED BY <2>1, <2>3, FS_Product DEF Thread
  <1>2. ASSUME NEW q \in Seq(Request) PROVE IsFiniteSet(ToSet(q)) /\ \A R \in SUBSET ToSet(q) : IsFiniteSet(R)
    <2>1. IsFiniteSet(ToSet(q))
      BY QueueSize
    <2> QED BY <2>1, FS_Subset
  <1> QED BY <1>1, <1>2

\* The blocks of removed slots go back to the pool.
LEMMA RemovedBlocks ==
    ASSUME NEW session2 \in Seq(Request), Distinct(session2), NEW kv2 \in [Request -> Nat],
           NEW free2 \in Nat, NEW R \in SUBSET ToSet(session2),
           SlotsRemoved(R, session2, kv2, free2)
    PROVE  /\ free' \in Nat /\ kv' \in [Request -> Nat]
           /\ Distinct(session')
           /\ ToSet(session') = ToSet(session2) \ R
           /\ free' + Total(kv', ToSet(session')) = free2 + Total(kv2, ToSet(session2))
  <1> DEFINE Q == ToSet(session2) \ R
  <1>1. session' \in Without(session2, R) /\ free' = free2 + Total(kv2, R)
    BY DEF SlotsRemoved
  <1>2. kv' = [r \in Request |-> IF r \in R THEN 0 ELSE kv2[r]]
    BY DEF SlotsRemoved
  <1>3. ToSet(session') = Q /\ Distinct(session')
    BY <1>1, WithoutFacts
  <1>4. ToSet(session2) \in SUBSET Request /\ IsFiniteSet(Q) /\ IsFiniteSet(R)
    <2>1. Q \in SUBSET ToSet(session2)
      OBVIOUS
    <2> QED BY <2>1, Finite, QueueFacts
  <1>5. /\ \A r \in Q : kv2[r] \in Nat /\ kv'[r] = kv2[r]
        /\ \A r \in R : kv2[r] \in Nat
    BY <1>2, <1>4
  <1>6. Total(kv2, R) \in Nat /\ Total(kv2, Q) \in Nat
    BY <1>4, <1>5, TotalFacts
  <1>7. Total(kv', Q) = Total(kv2, Q)
    BY <1>5, TotalSame
  <1>8. Q \cap R = {} /\ Q \cup R = ToSet(session2)
    OBVIOUS
  <1> HIDE DEF Q
  <1>9. \A r \in Q \cup R : kv2[r] \in Nat
    BY <1>5
  <1>10. Total(kv2, Q \cup R) = Total(kv2, Q) + Total(kv2, R)
    BY <1>4, <1>8, <1>9, TotalSplit
  <1>11. free' + Total(kv', ToSet(session')) = free2 + Total(kv2, ToSet(session2))
    <2>1. Total(kv', ToSet(session')) = Total(kv2, Q)
      BY <1>3, <1>7
    <2>2. Total(kv2, ToSet(session2)) = Total(kv2, Q) + Total(kv2, R)
      BY <1>8, <1>10
    <2>3. free' = free2 + Total(kv2, R)
      BY <1>1
    <2> QED BY <1>6, <2>1, <2>2, <2>3
  <1>12. kv' \in [Request -> Nat] /\ free' \in Nat
    BY <1>1, <1>2, <1>6
  <1> QED BY <1>3, <1>11, <1>12 DEF Q

\* The blocks of the session's slots.
LEMMA SessionTotal ==
    ASSUME TypeOK, kv \in [Request -> Nat]
    PROVE  Total(kv, ToSet(session)) \in Nat
  <1>1. session \in Seq(Request)
    BY DEF TypeOK
  <1>2. IsFiniteSet(ToSet(session)) /\ ToSet(session) \subseteq Request
    BY <1>1, Finite, QueueFacts
  <1>3. \A r \in ToSet(session) : kv[r] \in Nat
    BY <1>2
  <1> QED BY <1>2, <1>3, TotalFacts

\* A thread takes blocks of its own or gives them up.
LEMMA HeldChanges ==
    ASSUME held \in [Thread -> Nat], NEW t \in Thread, NEW n \in Nat, held' = [held EXCEPT ![t] = n]
    PROVE  /\ held' \in [Thread -> Nat] /\ \A u \in Thread : held'[u] = IF u = t THEN n ELSE held[u]
           /\ Total(held, Thread) \in Nat /\ Total(held', Thread) \in Nat
           /\ Total(held', Thread) + held[t] = Total(held, Thread) + n
  <1> DEFINE T == Thread \ {t}
  <1>1. held' \in [Thread -> Nat] /\ \A u \in Thread : held'[u] = IF u = t THEN n ELSE held[u]
    OBVIOUS
  <1>2. IsFiniteSet(Thread) /\ IsFiniteSet(T) /\ IsFiniteSet({t})
    BY Finite, FS_Subset, FS_Singleton
  <1>3. /\ \A u \in T : held'[u] = held[u]
        /\ T \cap {t} = {} /\ T \cup {t} = Thread
    BY <1>1
  <1> HIDE DEF T
  <1>4. /\ \A u \in T \cup {t} : held[u] \in Nat
        /\ \A u \in T \cup {t} : held'[u] \in Nat
    BY <1>1, <1>3
  <1>5. /\ Total(held, T \cup {t}) = Total(held, T) + Total(held, {t})
        /\ Total(held', T \cup {t}) = Total(held', T) + Total(held', {t})
    BY <1>2, <1>3, <1>4, TotalSplit
  <1>6. Total(held', T) = Total(held, T)
    BY <1>3, TotalSame
  <1>7. Total(held, {t}) = held[t] /\ Total(held', {t}) = n
    BY <1>1, TotalOne
  <1>8. Total(held, T) \in Nat
    BY <1>2, <1>4, TotalFacts
  <1> HIDE DEF Total
  <1>9. Total(held, Thread) = Total(held, T) + held[t] /\ Total(held', Thread) = Total(held, T) + n
    BY <1>3, <1>5, <1>6, <1>7
  <1>10. held[t] \in Nat
    OBVIOUS
  <1> QED BY <1>1, <1>8, <1>9, <1>10

\* Steps that leave the pool alone.
LEMMA PoolRests ==
    ASSUME TypeOK, PoolInv, UNCHANGED <<pool, decoding>>,
           \A t \in Thread : /\ pc[t] = "crash in add_handoff" => pc'[t] = pc[t]
                             /\ pc[t] = "forward" => pc'[t] = "forward"
    PROVE  PoolInv'
  <1>1. UNCHANGED <<session, decoding, kv, free, held>>
    BY DEF pool, slots
  <1>2. RanOut => RanOut'
    BY DEF RanOut
  <1>3. /\ Distinct(session') = Distinct(session)
        /\ Total(held', Thread) = Total(held, Thread)
        /\ Total(kv', ToSet(session')) = Total(kv, ToSet(session))
    BY <1>1
  <1>4. \A t \in Thread : pc'[t] # "forward" => pc[t] # "forward"
    OBVIOUS
  <1> QED BY <1>1, <1>2, <1>3, <1>4 DEF PoolInv

\* The steps of a thread that leave the pool alone.
LEMMA ThreadRests ==
    ASSUME TypeOK, PoolInv, UNCHANGED <<pool, decoding>>, NEW t \in Thread, NEW p,
           pc' = [pc EXCEPT ![t] = p], pc[t] \notin {"forward", "crash in add_handoff"}
    PROVE  PoolInv'
  <1>1. \A u \in Thread : pc'[u] = IF u = t THEN p ELSE pc[u]
    BY DEF TypeOK
  <1> QED BY <1>1, PoolRests

\* The prefill of a batch takes the blocks of all its prompts, or none.
LEMMA PrefillBatchPool ==
    ASSUME IInv, PoolInv, NEW t \in Thread, PrefillBatch(t) PROVE PoolInv'
  <1> USE DEF IInv
  <1> DEFINE R == ToSet(prefilling)
             empty == \E r \in R : Prompt[r] = 0
             fails == empty \/ Need(R) > free
  <1>1. pc[t] = "prefill" /\ UNCHANGED slots
    BY DEF PrefillBatch, At
  <1>2. CASE fails
    <2> DEFINE p == IF parallel THEN "top" ELSE "step"
    <2>1. pc' = [pc EXCEPT ![t] = p] /\ UNCHANGED <<pool, decoding>>
      BY <1>1, <1>2 DEF PrefillBatch, Go, pool, slots
    <2> QED BY <1>1, <2>1, ThreadRests
  <1>3. CASE ~fails
    <2>1. /\ free' = free - Need(R) /\ held' = [held EXCEPT ![t] = Need(R)]
          /\ pc' = [pc EXCEPT ![t] = "forward"]
          /\ ~(Need(R) > free)
      BY <1>3 DEF PrefillBatch, Go
    <2>2. \A u \in Thread : pc'[u] = IF u = t THEN "forward" ELSE pc[u]
      BY <2>1 DEF TypeOK
    <2>3. Need(R) \in Nat
      <3>1. prefilling \in Seq(Request)
        BY DEF TypeOK
      <3>2. IsFiniteSet(R) /\ R \in SUBSET Request
        BY <3>1, Finite, QueueFacts
      <3>3. \A r \in R : Prompt[r] \in Nat
        BY <3>2, PDAssumption
      <3> QED BY <3>2, <3>3, TotalFacts DEF Need
    <2> HIDE DEF R, fails
    <2> SUFFICES ASSUME ~RanOut'
                 PROVE  PoolInv'
      BY DEF PoolInv
    <2>4. ~RanOut
      BY <1>1, <2>2 DEF RanOut
    <2>5. /\ free \in Nat /\ kv \in [Request -> Nat] /\ held \in [Thread -> Nat]
          /\ \A u \in Thread : pc[u] # "forward" => held[u] = 0
          /\ Distinct(session) /\ ToSet(session) \subseteq decoding
      BY <2>4 DEF PoolInv
    <2>13. free + Total(held, Thread) + Total(kv, ToSet(session)) = NumBlocks
      BY <2>4 DEF PoolInv
    <2>6. /\ held' \in [Thread -> Nat] /\ \A u \in Thread : held'[u] = IF u = t THEN Need(R) ELSE held[u]
          /\ Total(held, Thread) \in Nat /\ Total(held', Thread) \in Nat
          /\ Total(held', Thread) + held[t] = Total(held, Thread) + Need(R)
      BY <2>1, <2>3, <2>5, HeldChanges
    <2>7. held[t] = 0
      BY <1>1, <2>5
    <2>8. UNCHANGED <<session, decoding, kv>>
      BY <1>1 DEF slots
    <2>9. free' \in Nat
      <3>1. free \in Nat
        BY <2>5
      <3>2. free' = free - Need(R)
        BY <2>1
      <3>3. ~(Need(R) > free)
        BY <2>1
      <3> QED BY <2>3, <3>1, <3>2, <3>3
    <2>10. free' + Total(held', Thread) + Total(kv', ToSet(session')) = NumBlocks
      <3>1. Total(kv, ToSet(session)) \in Nat
        BY <2>5, SessionTotal
      <3>2. Total(kv', ToSet(session')) = Total(kv, ToSet(session))
        BY <2>8
      <3>3. /\ free \in Nat /\ free' = free - Need(R)
            /\ free + Total(held, Thread) + Total(kv, ToSet(session)) = NumBlocks
            /\ Total(held', Thread) = Total(held, Thread) + Need(R)
        BY <2>1, <2>3, <2>5, <2>6, <2>7, <2>13
      <3> QED BY <2>3, <2>6, <3>1, <3>2, <3>3
    <2>11. \A u \in Thread : pc'[u] # "forward" => held'[u] = 0
      BY <2>2, <2>5, <2>6
    <2>12. kv' \in [Request -> Nat] /\ Distinct(session') /\ ToSet(session') \subseteq decoding'
      BY <2>5, <2>8
    <2> QED BY <2>6, <2>9, <2>10, <2>11, <2>12 DEF PoolInv
  <1> QED BY <1>2, <1>3

\* The prefill of a batch returns its blocks.
LEMMA PrefillReturnsPool ==
    ASSUME IInv, PoolInv, NEW t \in Thread, PrefillReturns(t) PROVE PoolInv'
  <1> USE DEF IInv
  <1> DEFINE p == IF batch[t] = <<>> THEN "top" ELSE IF parallel THEN "put" ELSE "absorb"
  <1>1. /\ pc[t] = "forward" /\ pc' = [pc EXCEPT ![t] = p]
        /\ free' = free + held[t] /\ held' = [held EXCEPT ![t] = 0]
        /\ UNCHANGED <<session, decoding, kv>>
    BY DEF PrefillReturns, At, Go, slots
  <1>2. p # "crash in add_handoff"
    OBVIOUS
  <1> HIDE DEF p
  <1>3. \A u \in Thread : pc'[u] = IF u = t THEN p ELSE pc[u]
    BY <1>1 DEF TypeOK
  <1> SUFFICES ASSUME ~RanOut'
               PROVE  PoolInv'
    BY DEF PoolInv
  <1>4. ~RanOut
    BY <1>1, <1>3 DEF RanOut
  <1>5. /\ free \in Nat /\ kv \in [Request -> Nat] /\ held \in [Thread -> Nat]
        /\ \A u \in Thread : pc[u] # "forward" => held[u] = 0
        /\ Distinct(session) /\ ToSet(session) \subseteq decoding
    BY <1>4 DEF PoolInv
  <1>11. free + Total(held, Thread) + Total(kv, ToSet(session)) = NumBlocks
    BY <1>4 DEF PoolInv
  <1>6. /\ held' \in [Thread -> Nat] /\ \A u \in Thread : held'[u] = IF u = t THEN 0 ELSE held[u]
        /\ Total(held, Thread) \in Nat /\ Total(held', Thread) \in Nat
        /\ Total(held', Thread) + held[t] = Total(held, Thread) + 0
    BY <1>1, <1>5, HeldChanges
  <1>7. held[t] \in Nat /\ free' \in Nat
    <2>1. held[t] \in Nat /\ free \in Nat
      BY <1>5
    <2>2. free' = free + held[t]
      BY <1>1
    <2> QED BY <2>1, <2>2
  <1>8. free' + Total(held', Thread) + Total(kv', ToSet(session')) = NumBlocks
    <2>1. Total(kv, ToSet(session)) \in Nat
      BY <1>5, SessionTotal
    <2>2. Total(kv', ToSet(session')) = Total(kv, ToSet(session))
      BY <1>1
    <2>3. /\ free \in Nat /\ free' = free + held[t]
          /\ free + Total(held, Thread) + Total(kv, ToSet(session)) = NumBlocks
      BY <1>1, <1>5, <1>11
    <2> QED BY <1>6, <1>7, <2>1, <2>2, <2>3
  <1>9. \A u \in Thread : pc'[u] # "forward" => held'[u] = 0
    BY <1>3, <1>5, <1>6
  <1>10. kv' \in [Request -> Nat] /\ Distinct(session') /\ ToSet(session') \subseteq decoding'
    BY <1>1, <1>5
  <1> QED BY <1>6, <1>7, <1>8, <1>9, <1>10 DEF PoolInv

\* Reported tokens take no block, and the blocks of those that end go back.
LEMMA ReportBlocks ==
    ASSUME TypeOK, NEW R \in SUBSET Request, NEW session2 \in Seq(Request), Distinct(session2),
           NEW kv2 \in [Request -> Nat], NEW free2 \in Nat, Report(R, session2, kv2, free2),
           R \subseteq ToSet(session2), ToSet(session2) \subseteq decoding \cup R
    PROVE  /\ free' \in Nat /\ kv' \in [Request -> Nat]
           /\ Distinct(session')
           /\ ToSet(session') \subseteq decoding'
           /\ free' + Total(kv', ToSet(session')) = free2 + Total(kv2, ToSet(session2))
  <1>1. PICK eos \in SUBSET R :
          LET ends == {r \in R : generated[r] + 1 >= MaxTokens[r]} \cup eos
          IN decoding' = (decoding \cup R) \ ends /\ SlotsRemoved(ends, session2, kv2, free2)
    BY DEF Report
  <1> DEFINE ends == {r \in R : generated[r] + 1 >= MaxTokens[r]} \cup eos
  <1>2. /\ decoding' = (decoding \cup R) \ ends /\ SlotsRemoved(ends, session2, kv2, free2)
        /\ ends \in SUBSET ToSet(session2)
    BY <1>1
  <1> HIDE DEF ends
  <1>3. /\ free' \in Nat /\ kv' \in [Request -> Nat] /\ Distinct(session')
        /\ ToSet(session') = ToSet(session2) \ ends
        /\ free' + Total(kv', ToSet(session')) = free2 + Total(kv2, ToSet(session2))
    BY <1>2, RemovedBlocks
  <1>4. ToSet(session') \subseteq decoding'
    BY <1>2, <1>3
  <1> QED BY <1>3, <1>4

\* What the invariant says while no add_handoff ran out of memory.
LEMMA PoolFacts ==
    ASSUME TypeOK, PoolInv, ~RanOut
    PROVE  /\ free \in Nat /\ kv \in [Request -> Nat] /\ held \in [Thread -> Nat]
           /\ \A t \in Thread : pc[t] # "forward" => held[t] = 0
           /\ Distinct(session) /\ ToSet(session) \subseteq decoding
           /\ session \in Seq(Request)
           /\ Total(held, Thread) \in Nat /\ Total(kv, ToSet(session)) \in Nat
           /\ free + Total(held, Thread) + Total(kv, ToSet(session)) = NumBlocks
  <1>1. /\ free \in Nat /\ kv \in [Request -> Nat] /\ held \in [Thread -> Nat]
        /\ \A t \in Thread : pc[t] # "forward" => held[t] = 0
        /\ Distinct(session) /\ ToSet(session) \subseteq decoding
        /\ free + Total(held, Thread) + Total(kv, ToSet(session)) = NumBlocks
    BY DEF PoolInv
  <1>2. Total(held, Thread) \in Nat
    <2>1. \A t \in Thread : held[t] \in Nat
      BY <1>1
    <2> QED BY <2>1, Finite, TotalFacts
  <1>3. Total(kv, ToSet(session)) \in Nat
    BY <1>1, SessionTotal
  <1> QED BY <1>1, <1>2, <1>3 DEF TypeOK

\* Blocks that leave one place for another leave the sum alone.
LEMMA BlocksMove ==
    \A a, b, c, d, e \in Nat : a + b + c = NumBlocks /\ d + e = a + c => d + b + e = NumBlocks
  BY PDAssumption

\* The invariant after a step of a thread that changes the slots and not what
\* a prefill holds.
LEMMA SlotsChange ==
    ASSUME TypeOK, PoolInv, ~RanOut, UNCHANGED held, NEW t \in Thread, NEW p,
           pc' = [pc EXCEPT ![t] = p], pc[t] # "forward",
           free' \in Nat, kv' \in [Request -> Nat], Distinct(session'),
           session' \in Seq(Request), ToSet(session') \subseteq decoding',
           free' + Total(kv', ToSet(session')) = free + Total(kv, ToSet(session))
    PROVE  PoolInv'
  <1>1. /\ free \in Nat /\ Total(held, Thread) \in Nat /\ Total(kv, ToSet(session)) \in Nat
        /\ held \in [Thread -> Nat]
    BY PoolFacts
  <1>2. free + Total(held, Thread) + Total(kv, ToSet(session)) = NumBlocks
    BY PoolFacts
  <1>3. Total(kv', ToSet(session')) \in Nat
    <2>1. IsFiniteSet(ToSet(session')) /\ ToSet(session') \subseteq Request
      BY Finite, QueueFacts
    <2>2. \A r \in ToSet(session') : kv'[r] \in Nat
      BY <2>1
    <2> QED BY <2>1, <2>2, TotalFacts
  <1>4. Total(held', Thread) = Total(held, Thread)
    OBVIOUS
  <1>5. \A u \in Thread : pc'[u] # "forward" => held'[u] = 0
    <2>1. \A u \in Thread : pc[u] # "forward" => held[u] = 0
      BY PoolFacts
    <2>2. \A u \in Thread : u # t => pc'[u] = pc[u]
      BY DEF TypeOK
    <2> QED BY <2>1, <2>2
  <1>6. free' + Total(held', Thread) + Total(kv', ToSet(session')) = NumBlocks
    <2>1. PICK i \in Nat : i = Total(held, Thread)
      BY <1>1
    <2>2. PICK j \in Nat : j = Total(kv, ToSet(session))
      BY <1>1
    <2>3. PICK k \in Nat : k = Total(kv', ToSet(session'))
      BY <1>3
    <2>4. free' + k = free + j
      <3>1. free + j = free + Total(kv, ToSet(session))
        BY <2>2, Zenon
      <3>2. free' + k = free' + Total(kv', ToSet(session'))
        BY <2>3, Zenon
      <3> QED BY <3>1, <3>2, Zenon
    <2>5. free + i + j = NumBlocks
      BY <1>2, <2>1, <2>2, Zenon
    <2>6. free' + i + k = NumBlocks
      <3>1. \A a, b, c, d, e \in Nat : a + b + c = NumBlocks /\ d + e = a + c => d + b + e = NumBlocks
        BY BlocksMove, Zenon
      <3>2. free \in Nat
        BY <1>1
      <3>3. \A b, c, d, e \in Nat : free + b + c = NumBlocks /\ d + e = free + c => d + b + e = NumBlocks
        BY <3>1, <3>2, Zenon
      <3>4. \A c, d, e \in Nat : free + i + c = NumBlocks /\ d + e = free + c => d + i + e = NumBlocks
        BY <2>1, <3>3, Zenon
      <3>5. \A d, e \in Nat : free + i + j = NumBlocks /\ d + e = free + j => d + i + e = NumBlocks
        BY <2>2, <3>4, Zenon
      <3>6. \A e \in Nat : free + i + j = NumBlocks /\ free' + e = free + j => free' + i + e = NumBlocks
        BY <3>5, Zenon
      <3> QED BY <2>3, <2>4, <2>5, <3>6, Zenon
    <2> QED BY <1>4, <2>1, <2>3, <2>6
  <1> QED BY <1>1, <1>5, <1>6 DEF PoolInv

\* A handoff takes the blocks of its prompt, in a new slot.
LEMMA AbsorbPool ==
    ASSUME IInv, PoolInv, NEW t \in Thread, Absorb(t) PROVE PoolInv'
  <1> USE DEF IInv
  <1> DEFINE r == Head(batch[t])
             p == AfterAbsorb(t)
  <1>1. /\ pc[t] \in {"absorb", "absorb parked"} /\ Alive(t) /\ batch[t] # <<>>
        /\ held' = held
    BY DEF Absorb, Alive, BatchInv, ThreadInv
  <1>2. r \in Request /\ ~Queued(r)
    BY <1>1, BatchHead
  <1>3. session \in Seq(Request) /\ r \notin decoding /\ decoding \in SUBSET Request
    BY <1>2 DEF Queued, TypeOK
  <1>4. CASE parallel /\ r \in cancelled
    <2>1. UNCHANGED <<pool, decoding>> /\ pc' = [pc EXCEPT ![t] = p]
      BY <1>1, <1>4 DEF Absorb, Go, pool, slots
    <2> QED BY <1>1, <2>1, ThreadRests
  <1>5. CASE ~(parallel /\ r \in cancelled) /\ Prompt[r] <= free
    <2> DEFINE kv2 == [kv EXCEPT ![r] = Prompt[r]]
               session2 == Append(session, r)
               free2 == free - Prompt[r]
               R == {r}
    <2>1. Report(R, session2, kv2, free2) /\ pc' = [pc EXCEPT ![t] = p]
      BY <1>1, <1>5 DEF Absorb, Go
    <2> SUFFICES ASSUME ~RanOut' PROVE PoolInv'
      BY DEF PoolInv
    <2>2. ~RanOut /\ pc[t] # "forward"
      <3>1. \A u \in Thread : u # t => pc'[u] = pc[u]
        BY <2>1 DEF TypeOK
      <3> QED BY <1>1, <3>1 DEF RanOut
    <2>3. /\ free \in Nat /\ kv \in [Request -> Nat]
          /\ Distinct(session) /\ ToSet(session) \subseteq decoding
      BY <2>2, PoolFacts
    <2>4. /\ session2 \in Seq(Request) /\ ToSet(session2) = ToSet(session) \cup {r} /\ Distinct(session2)
      BY <1>2, <1>3, <2>3, AppendFacts
    <2>5. Prompt[r] \in Nat
      BY <1>2, PDAssumption
    <2>6. kv2 \in [Request -> Nat] /\ free2 \in Nat
      BY <1>2, <1>5, <2>3, <2>5
    <2>7. Total(kv2, ToSet(session2)) = Total(kv, ToSet(session)) + Prompt[r]
      <3>1. /\ IsFiniteSet(ToSet(session)) /\ IsFiniteSet({r}) /\ ToSet(session) \cap {r} = {}
        BY <1>3, <2>3, Finite, FS_Singleton
      <3>2. \A x \in ToSet(session) \cup {r} : kv2[x] \in Nat
        BY <1>2, <1>3, <2>3, <2>6
      <3>3. Total(kv2, ToSet(session) \cup {r}) = Total(kv2, ToSet(session)) + Total(kv2, {r})
        BY <3>1, <3>2, TotalSplit
      <3>4. \A x \in ToSet(session) : kv2[x] = kv[x]
        BY <2>3, <3>1
      <3>5. Total(kv2, ToSet(session)) = Total(kv, ToSet(session))
        BY <3>4, TotalSame
      <3>6. kv2[r] = Prompt[r]
        BY <1>2, <2>3
      <3>7. Total(kv2, {r}) = Prompt[r]
        BY <2>5, <3>6, TotalOne
      <3> QED BY <2>4, <3>3, <3>5, <3>7
    <2>8. Total(kv, ToSet(session)) \in Nat
      BY <2>2, PoolFacts
    <2>9. free2 + Total(kv2, ToSet(session2)) = free + Total(kv, ToSet(session))
      BY <2>3, <2>5, <2>7, <2>8
    <2>10. R \in SUBSET Request /\ R \subseteq ToSet(session2) /\ ToSet(session2) \subseteq decoding \cup R
      BY <1>2, <2>3, <2>4
    <2>11. session' \in Seq(Request)
      BY <2>1, <2>4, <2>10, ReportFacts
    <2> HIDE DEF r, p, kv2, session2, free2, R
    <2>12. /\ free' \in Nat /\ kv' \in [Request -> Nat]
           /\ Distinct(session')
           /\ ToSet(session') \subseteq decoding'
           /\ free' + Total(kv', ToSet(session')) = free2 + Total(kv2, ToSet(session2))
      BY <2>1, <2>4, <2>6, <2>10, ReportBlocks
    <2>13. free' + Total(kv', ToSet(session')) = free + Total(kv, ToSet(session))
      BY <2>9, <2>12
    <2> QED BY <1>1, <2>1, <2>2, <2>11, <2>12, <2>13, SlotsChange
  <1>6. CASE ~(parallel /\ r \in cancelled) /\ ~(Prompt[r] <= free)
    <2>1. pc' = [pc EXCEPT ![t] = "crash in add_handoff"]
      BY <1>1, <1>6 DEF Absorb, Go
    <2>2. RanOut'
      BY <2>1 DEF RanOut, TypeOK
    <2> QED BY <2>2 DEF PoolInv
  <1> QED BY <1>4, <1>5, <1>6

\* A forward takes one block for each slot, or what is free.
LEMMA DecodeStepPool ==
    ASSUME IInv, PoolInv, NEW t \in Thread, DecodeStep(t) PROVE PoolInv'
  <1> USE DEF IInv
  <1>1. pc[t] = "step" /\ held' = held
    BY DEF DecodeStep, At
  <1>2. PICK p \in {"reap", "crash"} : pc' = [pc EXCEPT ![t] = p]
    BY DEF DecodeStep, Go
  <1> SUFFICES ASSUME ~RanOut' PROVE PoolInv'
    BY DEF PoolInv
  <1>3. ~RanOut /\ pc[t] # "forward"
    <2>1. \A u \in Thread : u # t => pc'[u] = pc[u]
      BY <1>2 DEF TypeOK
    <2> QED BY <1>1, <2>1 DEF RanOut
  <1>4. /\ free \in Nat /\ kv \in [Request -> Nat] /\ session \in Seq(Request)
        /\ Distinct(session) /\ ToSet(session) \subseteq decoding
        /\ Total(kv, ToSet(session)) \in Nat
    BY <1>3, PoolFacts
  <1>5. /\ decoding \in SUBSET Request /\ decoding \subseteq ToSet(session)
        /\ ToSet(session) \subseteq Request /\ Len(session) \in Nat
    BY <1>4, QueueFacts DEF TypeOK, SlotInv
  \* The slots of Q take a block each.
  <1>6. ASSUME NEW Q \in SUBSET ToSet(session), NEW kv2,
               kv2 = [r \in Request |-> kv[r] + IF r \in Q THEN 1 ELSE 0]
        PROVE  /\ kv2 \in [Request -> Nat] /\ Cardinality(Q) \in Nat
               /\ Total(kv2, ToSet(session)) = Total(kv, ToSet(session)) + Cardinality(Q)
    <2> DEFINE P == ToSet(session) \ Q
    <2>1. kv2 \in [Request -> Nat]
      BY <1>4, <1>6
    <2>2. IsFiniteSet(Q) /\ IsFiniteSet(P) /\ P \cap Q = {} /\ P \cup Q = ToSet(session)
      <3>1. P \in SUBSET ToSet(session)
        OBVIOUS
      <3> QED BY <1>4, <3>1, Finite
    <2>3. /\ \A r \in P : kv2[r] = kv[r] /\ kv[r] \in Nat
          /\ \A r \in Q : kv2[r] = kv[r] + 1 /\ kv[r] \in Nat
      BY <1>4, <1>5, <1>6
    <2>4. Cardinality(Q) \in Nat
      BY <2>2, FS_CardinalityType
    <2> HIDE DEF P
    <2>5. Total(kv2, P) = Total(kv, P)
      BY <2>3, TotalSame
    <2>6. Total(kv2, Q) = Total(kv, Q) + Cardinality(Q)
      BY <2>2, <2>3, TotalGrows
    <2>7. \A r \in P \cup Q : kv[r] \in Nat /\ kv2[r] \in Nat
      BY <2>3
    <2>8. Total(kv2, P \cup Q) = Total(kv2, P) + Total(kv2, Q) /\ Total(kv, P \cup Q) = Total(kv, P) + Total(kv, Q)
      BY <2>2, <2>7, TotalSplit
    <2>9. Total(kv, P) \in Nat /\ Total(kv, Q) \in Nat
      BY <2>2, <2>3, TotalFacts
    <2>10. Total(kv2, P \cup Q) = Total(kv, P \cup Q) + Cardinality(Q)
      BY <2>4, <2>5, <2>6, <2>8, <2>9
    <2> QED BY <2>1, <2>2, <2>4, <2>10
  <1>7. Cardinality(ToSet(session)) = Len(session)
    BY <1>4, QueueSize
  <1>8. CASE Len(session) <= free
    <2> DEFINE kv2 == [r \in Request |-> kv[r] + IF r \in ToSet(session) THEN 1 ELSE 0]
               free2 == free - Len(session)
    <2>1. Report(Reported, session, kv2, free2)
      BY <1>8 DEF DecodeStep
    <2>2. /\ kv2 \in [Request -> Nat]
          /\ Total(kv2, ToSet(session)) = Total(kv, ToSet(session)) + Len(session)
      BY <1>6, <1>7
    <2>3. free2 \in Nat
      BY <1>4, <1>5, <1>8
    <2>4. Reported \in SUBSET Request /\ Reported \subseteq ToSet(session) /\ ToSet(session) \subseteq decoding \cup Reported
      BY <1>4, <1>5 DEF Reported
    <2>5. session' \in Seq(Request)
      BY <1>4, <2>1, <2>4, ReportFacts
    <2>6. free2 + Total(kv2, ToSet(session)) = free + Total(kv, ToSet(session))
      BY <1>4, <1>5, <2>2
    <2> HIDE DEF kv2, free2
    <2>7. /\ free' \in Nat /\ kv' \in [Request -> Nat]
          /\ Distinct(session')
          /\ ToSet(session') \subseteq decoding'
          /\ free' + Total(kv', ToSet(session')) = free2 + Total(kv2, ToSet(session))
      BY <1>4, <2>1, <2>2, <2>3, <2>4, ReportBlocks
    <2>8. free' + Total(kv', ToSet(session')) = free + Total(kv, ToSet(session))
      BY <2>6, <2>7
    <2> QED BY <1>1, <1>2, <1>3, <2>5, <2>7, <2>8, SlotsChange
  <1>9. CASE ~(Len(session) <= free)
    <2> DEFINE q == SubSeq(session, 1, free)
               Q == ToSet(q)
    <2>1. /\ kv' = [r \in Request |-> kv[r] + IF r \in Q THEN 1 ELSE 0]
          /\ free' = 0 /\ UNCHANGED <<session, decoding>>
      BY <1>9 DEF DecodeStep
    <2>2. free \in 0..Len(session)
      BY <1>4, <1>5, <1>9
    <2>3. q \in Seq(Request) /\ Distinct(q) /\ Q \in SUBSET ToSet(session)
      BY <1>4, <2>2, PrefixFacts
    <2>4. Len(q) = free
      <3>1. \A i \in 1..free : session[i] \in Request
        BY <1>4, <2>2, ElementOfSeq
      <3> QED BY <1>4, <2>2, <3>1, SubSeqProperties
    <2>5. Cardinality(Q) = free
      BY <2>3, <2>4, QueueSize
    <2> HIDE DEF Q
    <2>6. kv' \in [Request -> Nat] /\ Total(kv', ToSet(session)) = Total(kv, ToSet(session)) + free
      BY <1>6, <2>1, <2>3, <2>5
    <2>7. /\ session' \in Seq(Request) /\ Distinct(session') /\ ToSet(session') \subseteq decoding'
          /\ Total(kv', ToSet(session')) = Total(kv', ToSet(session))
      BY <1>4, <2>1
    <2>8. free' \in Nat /\ free' + Total(kv', ToSet(session')) = free + Total(kv, ToSet(session))
      <3>1. free' = 0
        BY <2>1
      <3> QED BY <1>4, <2>6, <2>7, <3>1
    <2> QED BY <1>1, <1>2, <1>3, <2>6, <2>7, <2>8, SlotsChange
  <1> QED BY <1>8, <1>9

\* The slots of cancelled requests give their blocks back.
LEMMA ReapCancelledPool ==
    ASSUME IInv, PoolInv, NEW t \in Thread, ReapCancelled(t) PROVE PoolInv'
  <1> USE DEF IInv
  <1> DEFINE R == {r \in decoding \cap cancelled : ~Done(r)}
  <1>1. /\ pc[t] = "reap" /\ held' = held /\ pc' = [pc EXCEPT ![t] = "top"]
        /\ decoding' = decoding \ R /\ SlotsRemoved(R, session, kv, free)
    BY DEF ReapCancelled, At, Go
  <1> SUFFICES ASSUME ~RanOut' PROVE PoolInv'
    BY DEF PoolInv
  <1>2. ~RanOut /\ pc[t] # "forward"
    <2>1. \A u \in Thread : u # t => pc'[u] = pc[u]
      BY <1>1 DEF TypeOK
    <2> QED BY <1>1, <2>1 DEF RanOut
  <1>3. /\ free \in Nat /\ kv \in [Request -> Nat] /\ session \in Seq(Request)
        /\ Distinct(session) /\ ToSet(session) \subseteq decoding
    BY <1>2, PoolFacts
  <1>4. R \in SUBSET ToSet(session)
    BY DEF SlotInv
  <1> HIDE DEF R
  <1>5. /\ free' \in Nat /\ kv' \in [Request -> Nat] /\ Distinct(session')
        /\ ToSet(session') = ToSet(session) \ R
        /\ free' + Total(kv', ToSet(session')) = free + Total(kv, ToSet(session))
    BY <1>1, <1>3, <1>4, RemovedBlocks
  <1>6. session' \in Seq(Request)
    BY <1>1, <1>3, RemovedFacts
  <1>7. ToSet(session') \subseteq decoding'
    BY <1>1, <1>3, <1>5
  <1> QED BY <1>1, <1>2, <1>5, <1>6, <1>7, SlotsChange

\* The drain gives the blocks of the session back.
LEMMA DrainPool ==
    ASSUME TypeOK, SlotInv, PoolInv, NEW c, EndInFlight(c), UNCHANGED held, RanOut => RanOut',
           \A t \in Thread : pc'[t] # "forward" => pc[t] # "forward"
    PROVE  PoolInv'
  <1> SUFFICES ASSUME ~RanOut PROVE PoolInv'
    BY DEF PoolInv
  <1>1. /\ free \in Nat /\ Total(held, Thread) \in Nat /\ Total(kv, ToSet(session)) \in Nat
        /\ held \in [Thread -> Nat] /\ ToSet(session) \subseteq decoding
        /\ \A t \in Thread : pc[t] # "forward" => held[t] = 0
    BY PoolFacts
  <1>2. free + Total(held, Thread) + Total(kv, ToSet(session)) = NumBlocks
    BY PoolFacts
  <1>3. /\ free' = free + Total(kv, decoding \cap ToSet(session))
        /\ kv' = [r \in Request |-> 0] /\ session' = <<>> /\ decoding' = {}
    BY DEF EndInFlight
  <1>4. decoding \cap ToSet(session) = ToSet(session)
    BY <1>1
  <1>5. /\ ToSet(session') = {} /\ Distinct(session') /\ kv' \in [Request -> Nat]
        /\ Total(kv', ToSet(session')) = 0
    BY <1>3, EmptyFacts, TotalEmpty
  <1>6. free' = free + Total(kv, ToSet(session))
    BY <1>3, <1>4
  <1>7. free' \in Nat
    BY <1>1, <1>6
  <1>8. free' + Total(held', Thread) + Total(kv', ToSet(session')) = NumBlocks
    <2>1. Total(held', Thread) = Total(held, Thread)
      OBVIOUS
    <2> QED BY <1>1, <1>2, <1>5, <1>6, <2>1
  <1>9. /\ held' \in [Thread -> Nat] /\ ToSet(session') \subseteq decoding'
        /\ \A t \in Thread : pc'[t] # "forward" => held'[t] = 0
    BY <1>1, <1>5
  <1> QED BY <1>5, <1>7, <1>8, <1>9 DEF PoolInv

\* start() and stop().
LEMMA StartStopPool ==
    ASSUME IInv, PoolInv, Start \/ Stop \/ Join \/ StopReturns PROVE PoolInv'
  <1> USE DEF IInv
  <1>1. CASE Start
    <2> DEFINE drains == (crashed \/ undrained # {}) /\ NoneAlive(current \cup undrained)
    <2>1. /\ gen' = gen + 1 /\ held' = held
          /\ current' = Role \X {gen + 1}
          /\ pc' = [t \in Thread |-> IF t \in current' THEN "top" ELSE pc[t]]
          /\ IF drains THEN EndInFlight(TRUE) ELSE UNCHANGED <<free, slots>>
      BY <1>1 DEF Start
    <2>2. \A t \in Thread : pc'[t] = pc[t] \/ (pc[t] = "new" /\ pc'[t] = "top")
      <3> TAKE t \in Thread
      <3>1. CASE t \in current'
        <4>1. t[2] = gen + 1
          BY <2>1, <3>1
        <4>2. gen \in Nat
          BY DEF TypeOK
        <4>3. t[2] > gen
          BY <4>1, <4>2
        <4> QED BY <2>1, <3>1, <4>3 DEF ThreadInv
      <3>2. CASE t \notin current'
        BY <2>1, <3>2
      <3> QED BY <3>1, <3>2
    <2>3. RanOut => RanOut'
      BY <2>2 DEF RanOut
    <2>4. \A t \in Thread : pc'[t] # "forward" => pc[t] # "forward"
      BY <2>2
    <2>5. CASE drains
      BY <2>1, <2>3, <2>4, <2>5, DrainPool
    <2>6. CASE ~drains
      <3>1. UNCHANGED <<pool, decoding>>
        BY <2>1, <2>6 DEF pool, slots
      <3>2. \A t \in Thread : /\ pc[t] = "crash in add_handoff" => pc'[t] = pc[t]
                              /\ pc[t] = "forward" => pc'[t] = "forward"
        BY <2>2
      <3> QED BY <3>1, <3>2, PoolRests
    <2> QED BY <2>5, <2>6
  <1>2. CASE Stop \/ Join
    <2>1. UNCHANGED <<pool, decoding, pc>>
      BY <1>2 DEF Stop, Join, pool, slots
    <2> QED BY <2>1, PoolRests
  <1>3. CASE StopReturns
    <2>1. held' = held /\ pc' = pc
      BY <1>3 DEF StopReturns
    <2>2. RanOut => RanOut'
      BY <2>1 DEF RanOut
    <2>3. CASE NoneAlive(joined)
      <3>1. EndInFlight(crashed \/ undrained # {})
        BY <1>3, <2>3 DEF StopReturns
      <3> QED BY <2>1, <2>2, <3>1, DrainPool
    <2>4. CASE ~NoneAlive(joined)
      <3>1. UNCHANGED <<pool, decoding>>
        BY <1>3, <2>1, <2>4 DEF StopReturns, pool, slots
      <3> QED BY <2>1, <3>1, PoolRests
    <2> QED BY <2>3, <2>4
  <1> QED BY <1>1, <1>2, <1>3

\* The steps of a thread that only move requests.
LEMMA MovePool ==
    ASSUME IInv, PoolInv, NEW t \in Thread,
           LeaveLoop(t) \/ AdmitWaiting(t) \/ StartPut(t) \/ Put(t) \/ TakeHandoff(t)
    PROVE  PoolInv'
  <1> USE DEF IInv
  <1>1. UNCHANGED <<pool, decoding>>
    BY DEF LeaveLoop, AdmitWaiting, StartPut, Put, TakeHandoff, pool, slots
  <1>2. pc[t] \notin {"forward", "crash in add_handoff"}
    BY DEF LeaveLoop, AdmitWaiting, StartPut, Put, TakeHandoff, At
  <1>3. \E p : pc' = [pc EXCEPT ![t] = p]
    <2>1. CASE LeaveLoop(t)
      BY <2>1 DEF LeaveLoop, Go
    <2>2. CASE AdmitWaiting(t)
      BY <2>2 DEF AdmitWaiting, Go
    <2>3. CASE StartPut(t)
      <3>1. CASE Head(batch[t]) \in cancelled
        BY <2>3, <3>1 DEF StartPut, Go
      <3>2. CASE Head(batch[t]) \notin cancelled
        BY <2>3, <3>2 DEF StartPut, Go
      <3> QED BY <3>1, <3>2
    <2>4. CASE Put(t)
      BY <2>4 DEF Put, Go
    <2>5. CASE TakeHandoff(t)
      <3>1. CASE handoffs # <<>>
        BY <2>5, <3>1 DEF TakeHandoff, Go
      <3>2. CASE handoffs = <<>>
        BY <2>5, <3>2 DEF TakeHandoff, Go
      <3> QED BY <3>1, <3>2
    <2> QED BY <2>1, <2>2, <2>3, <2>4, <2>5
  <1> QED BY <1>1, <1>2, <1>3, ThreadRests

\* The pool balances until an add_handoff runs out of memory.
LEMMA PoolInvariance == Spec => []PoolInv
  <1>1. Init => PoolInv
    <2> SUFFICES ASSUME Init PROVE PoolInv
      OBVIOUS
    <2>1. /\ free = NumBlocks /\ kv = [r \in Request |-> 0] /\ held = [t \in Thread |-> 0]
          /\ session = <<>>
      BY DEF Init
    <2>2. free \in Nat
      BY <2>1, PDAssumption
    <2>3. ToSet(session) = {} /\ Distinct(session) /\ Total(kv, ToSet(session)) = 0
      BY <2>1, EmptyFacts, TotalEmpty
    <2>4. Total(held, Thread) = 0
      <3>1. \A x : x \notin Things(held, Thread)
        <4> SUFFICES ASSUME NEW x, x \in Things(held, Thread) PROVE FALSE
          OBVIOUS
        <4>1. PICK t \in Thread : \E i \in 1..held[t] : x = <<t, i>>
          BY ThingFacts
        <4>2. held[t] = 0
          BY <2>1
        <4> QED BY <4>1, <4>2
      <3>2. Things(held, Thread) = {}
        BY <3>1
      <3> QED BY <3>2, FS_EmptySet DEF Total, Things
    <2>5. kv \in [Request -> Nat] /\ held \in [Thread -> Nat] /\ \A t \in Thread : held[t] = 0
      BY <2>1
    <2>6. free + Total(held, Thread) + Total(kv, ToSet(session)) = NumBlocks
      BY <2>1, <2>2, <2>3, <2>4
    <2> QED BY <2>2, <2>3, <2>5, <2>6 DEF PoolInv
  <1>2. ASSUME IInv, PoolInv, [Next]_vars PROVE PoolInv'
    <2>1. ASSUME NEW t \in Thread, EngineThread(t) PROVE PoolInv'
      <3>1. CASE LeaveLoop(t) \/ AdmitWaiting(t) \/ StartPut(t) \/ Put(t) \/ TakeHandoff(t)
        BY <1>2, <3>1, MovePool
      <3>2. CASE PrefillBatch(t)
        BY <1>2, <3>2, PrefillBatchPool
      <3>3. CASE PrefillReturns(t)
        BY <1>2, <3>3, PrefillReturnsPool
      <3>4. CASE Absorb(t)
        BY <1>2, <3>4, AbsorbPool
      <3>5. CASE DecodeStep(t)
        BY <1>2, <3>5, DecodeStepPool
      <3>6. CASE ReapCancelled(t)
        BY <1>2, <3>6, ReapCancelledPool
      <3> QED BY <2>1, <3>1, <3>2, <3>3, <3>4, <3>5, <3>6 DEF EngineThread
    <2>2. CASE Start \/ Stop \/ Join \/ StopReturns
      BY <1>2, <2>2, StartStopPool
    <2>3. CASE \E r \in Request : Submit(r) \/ Enqueue(r) \/ Cancel(r) \/ Handle(r)
      <3>1. UNCHANGED <<pool, decoding, pc>>
        BY <2>3 DEF Submit, Enqueue, Cancel, Handle, SeesDead, GivesUp, pool, slots
      <3> QED BY <1>2, <3>1, PoolRests DEF IInv
    <2>4. CASE UNCHANGED vars
      <3>1. UNCHANGED <<pool, decoding, pc>>
        BY <2>4 DEF vars, pool, slots
      <3> QED BY <1>2, <3>1, PoolRests DEF IInv
    <2> QED BY <1>2, <2>1, <2>2, <2>3, <2>4 DEF Next
  <1> QED BY <1>1, <1>2, Invariance, PTL DEF Spec

\* Every block is free, in a slot of the session or held by a prefill that
\* runs, for every pool and every interleaving of the threads with submit,
\* cancel, start and stop, until an add_handoff runs out of memory.
THEOREM PoolBalances == Spec => []PoolBalanced
  <1>1. PoolInv => PoolBalanced
    BY DEF PoolInv, PoolBalanced, RanOut
  <1> QED BY <1>1, PoolInvariance, PTL

=============================================================================
