------------------------- MODULE RequestStreamProofs -------------------------
(***************************************************************************)
(* Proofs about the stream of a request and about the engine that fills it. *)
(*                                                                         *)
(*   - OutputQueue, for every capacity and any number of steps.             *)
(*   - EngineLifecycle, for any number of requests, starts and stops, when  *)
(*     every join of stop() returns because its thread ended.  A stop()     *)
(*     that timed out leaves its requests to a thread no field names.       *)
(***************************************************************************)
EXTENDS OutputQueue, EngineLifecycle, SequenceTheorems, FiniteSetTheorems, TLAPS

-----------------------------------------------------------------------------
(* OutputQueue: its inductive invariant.                                   *)


Steps == Nat \cup {End}
Stream == received \o queue
Putting == producer \in {"put", "drop", "retry"}

Ordered(s) ==
    \A i, j \in 1..Len(s) : i < j => s[i] # End /\ (s[j] = End \/ s[i] < s[j])

\* What the stream holds is older than the step the engine is putting, and the
\* terminal step is in it only when the put of it is over.
Older(s) ==
    \A i \in 1..Len(s) :
        IF s[i] = End THEN finished /\ ~Putting
        ELSE s[i] <= sent /\ (Putting /\ item # End => s[i] < item)

PutInv ==
    /\ Putting => (finished <=> item = End) /\ (item # End => item = sent)
    /\ finished /\ ~Putting => Stream # <<>> /\ Last(Stream) = End
    /\ producer = "retry" => Len(queue) < Capacity
    /\ reader # "done" => \A i \in 1..Len(received) : received[i] # End

StreamInv == Ordered(Stream) /\ Older(Stream) /\ PutInv

ReaderInv ==
    /\ reader \in {"clear", "read", "wait"} => listener
    /\ engine = "gone" => producer = "idle"
    /\ reader \in {"recheck", "error"} => engine = "gone"

\* The inductive invariant.
QueueInv == QueueTypeOK /\ StreamInv /\ ReaderInv /\ NoLostWakeup /\ ErrorAfterLastStep

-----------------------------------------------------------------------------
(* Sequences of steps.                                                     *)

LEMMA AppendFacts ==
    ASSUME NEW q \in Seq(Steps), NEW x \in Steps
    PROVE  /\ Append(q, x) \in Seq(Steps)
           /\ Len(Append(q, x)) = Len(q) + 1
           /\ \A i \in 1..Len(q) : Append(q, x)[i] = q[i]
           /\ Append(q, x)[Len(q) + 1] = x
BY AppendProperties

\* A step put behind the others keeps the order when it is younger.
LEMMA OrderedAppend ==
    ASSUME NEW q \in Seq(Steps), NEW x \in Steps, Ordered(q),
           \A i \in 1..Len(q) : q[i] # End /\ (x = End \/ q[i] < x)
    PROVE  Ordered(Append(q, x))
<1>1. Len(q) \in Nat
  OBVIOUS
<1> QED
  BY <1>1, AppendFacts DEF Ordered

\* The put.
LEMMA StreamAppend ==
    ASSUME NEW r \in Seq(Steps), NEW q \in Seq(Steps), NEW x \in Steps
    PROVE  r \o Append(q, x) = Append(r \o q, x)
<1>1. Append(q, x) = q \o <<x>> /\ <<x>> \in Seq(Steps)
  BY AppendIsConcat
<1>2. r \o q \in Seq(Steps)
  BY ConcatProperties
<1>3. Append(r \o q, x) = (r \o q) \o <<x>>
  BY <1>2, AppendIsConcat
<1> QED
  BY <1>1, <1>3, ConcatAssociative

\* The reader takes the oldest step.
LEMMA StreamTake ==
    ASSUME NEW r \in Seq(Steps), NEW q \in Seq(Steps), q # <<>>
    PROVE  /\ Head(q) \in Steps /\ Tail(q) \in Seq(Steps)
           /\ Len(Tail(q)) = Len(q) - 1
           /\ Append(r, Head(q)) \o Tail(q) = r \o q
<1>1. Head(q) \in Steps /\ Tail(q) \in Seq(Steps) /\ Len(Tail(q)) = Len(q) - 1
  BY HeadTailProperties
<1>2. <<Head(q)>> \in Seq(Steps) /\ q = <<Head(q)>> \o Tail(q)
  <2>1. Len(q) \in Nat \ {0} /\ Len(Tail(q)) = Len(q) - 1 /\ Head(q) = q[1]
        /\ \A i \in 1..Len(Tail(q)) : Tail(q)[i] = q[i + 1]
    BY HeadTailProperties, EmptySeq
  <2>2. <<Head(q)>> \in Seq(Steps) /\ Len(<<Head(q)>>) = 1 /\ <<Head(q)>>[1] = Head(q)
    BY <1>1
  <2> DEFINE h == <<Head(q)>>
             t == h \o Tail(q)
  <2> HIDE DEF h
  <2>3. /\ t \in Seq(Steps) /\ Len(t) = Len(q)
        /\ \A i \in 1..Len(q) : t[i] = IF i <= 1 THEN h[i] ELSE Tail(q)[i - 1]
    BY <1>1, <2>1, <2>2, ConcatProperties DEF h
  <2>4. \A i \in 1..Len(q) : t[i] = q[i]
    BY <2>1, <2>2, <2>3 DEF h
  <2> QED
    BY <2>2, <2>3, <2>4, SeqEqual DEF h
<1>3. Append(r, Head(q)) = r \o <<Head(q)>>
  BY <1>1, AppendIsConcat
<1> QED
  BY <1>1, <1>2, <1>3, ConcatAssociative

\* The engine drops the oldest step that is still in the queue.
LEMMA StreamDrop ==
    ASSUME NEW r \in Seq(Steps), NEW q \in Seq(Steps), q # <<>>
    PROVE  LET s == r \o q
               t == r \o Tail(q)
           IN /\ s \in Seq(Steps) /\ t \in Seq(Steps)
              /\ Len(t) = Len(s) - 1
              /\ \A i \in 1..Len(t) : t[i] = IF i <= Len(r) THEN s[i] ELSE s[i + 1]
<1>1. /\ Tail(q) \in Seq(Steps) /\ Len(q) \in Nat \ {0} /\ Len(Tail(q)) = Len(q) - 1
      /\ \A i \in 1..(Len(q) - 1) : Tail(q)[i] = q[i + 1]
  BY HeadTailProperties, EmptySeq
<1>2. /\ r \o q \in Seq(Steps) /\ Len(r \o q) = Len(r) + Len(q)
      /\ \A i \in 1..(Len(r) + Len(q)) : (r \o q)[i] = IF i <= Len(r) THEN r[i] ELSE q[i - Len(r)]
  BY ConcatProperties
<1> DEFINE u == Tail(q)
<1> HIDE DEF u
<1>3. /\ r \o u \in Seq(Steps) /\ Len(r \o u) = Len(r) + Len(u)
      /\ \A i \in 1..(Len(r) + Len(u)) : (r \o u)[i] = IF i <= Len(r) THEN r[i] ELSE u[i - Len(r)]
  BY <1>1, ConcatProperties DEF u
<1>4. Len(r) \in Nat /\ Len(u) = Len(q) - 1 /\ \A i \in 1..Len(u) : u[i] = q[i + 1]
  BY <1>1 DEF u
<1>5. ASSUME NEW i \in 1..(Len(r) + Len(u))
      PROVE  (r \o u)[i] = IF i <= Len(r) THEN (r \o q)[i] ELSE (r \o q)[i + 1]
  <2>1. CASE i <= Len(r)
    BY <1>1, <1>2, <1>3, <1>4, <2>1
  <2>2. CASE ~(i <= Len(r))
    <3>1. /\ i - Len(r) \in 1..Len(u) /\ i + 1 \in 1..(Len(r) + Len(q))
          /\ (i - Len(r)) + 1 = (i + 1) - Len(r) /\ ~(i + 1 <= Len(r))
      BY <1>1, <1>4, <2>2
    <3> QED
      BY <1>2, <1>3, <1>4, <2>2, <3>1
  <2> QED
    BY <2>1, <2>2
<1>6. Len(r \o u) = Len(r \o q) - 1
  BY <1>1, <1>2, <1>3, <1>4
<1> QED
  BY <1>2, <1>3, <1>5, <1>6 DEF u

-----------------------------------------------------------------------------
(* The initial state.                                                      *)

LEMMA QueueInitially == QueueInit => QueueInv
<1> SUFFICES ASSUME QueueInit PROVE QueueInv
  OBVIOUS
<1> USE DEF QueueInit
<1>1. <<>> \o <<>> = <<>>
  BY EmptySeq, ConcatEmptySeq
<1>2. QueueTypeOK
  <2>1. queue \in Seq(Nat \cup {End}) /\ received \in Seq(Nat \cup {End}) /\ Len(queue) = 0
    BY EmptySeq
  <2>2. Len(queue) <= Capacity /\ sent \in 0..MaxSteps
    BY <2>1, QueueAssumption
  <2>3. /\ finished \in BOOLEAN /\ listener \in BOOLEAN /\ heard \in BOOLEAN
        /\ scheduled \in BOOLEAN /\ ready \in BOOLEAN
    OBVIOUS
  <2> QED
    BY <2>1, <2>2, <2>3 DEF QueueTypeOK
<1>3. StreamInv
  BY <1>1 DEF StreamInv, PutInv, Ordered, Older, Stream, Putting
<1> QED
  BY <1>2, <1>3 DEF QueueInv, ReaderInv, NoLostWakeup, ErrorAfterLastStep

-----------------------------------------------------------------------------
(* Types.                                                                  *)

\* The parts of TypeOK that a step of the stream may change.
LEMMA StreamTypes ==
    ASSUME QueueTypeOK
    PROVE  /\ queue \in Seq(Steps) /\ received \in Seq(Steps) /\ Stream \in Seq(Steps)
           /\ sent \in Nat /\ item \in Steps /\ Capacity \in Nat \ {0} /\ End \notin Nat
           /\ Len(queue) \in Nat /\ Len(received) \in Nat /\ Len(Stream) \in Nat
           /\ Len(Stream) = Len(received) + Len(queue)
           /\ \A i \in 1..Len(Stream) : Stream[i] \in Steps
<1>1. /\ queue \in Seq(Steps) /\ received \in Seq(Steps)
      /\ sent \in Nat /\ item \in Steps /\ Capacity \in Nat \ {0} /\ End \notin Nat
  BY QueueAssumption DEF QueueTypeOK, Steps
<1>2. Stream \in Seq(Steps) /\ Len(Stream) = Len(received) + Len(queue)
  BY <1>1, ConcatProperties DEF Stream
<1> QED
  BY <1>1, <1>2, LenProperties, ElementOfSeq

LEMMA TypeStep == QueueTypeOK /\ [QueueNext]_queueVars => QueueTypeOK'
<1> SUFFICES ASSUME QueueTypeOK, [QueueNext]_queueVars PROVE QueueTypeOK'
  OBVIOUS
<1> USE QueueAssumption DEF QueueTypeOK
<1>2. CASE Emit
  BY <1>2 DEF Emit, StartPut, waking
<1>3. CASE FinishStream
  BY <1>3 DEF FinishStream, StartPut, waking
<1>4. CASE EngineExits
  BY <1>4 DEF EngineExits, waking
<1>5. CASE Put
  <2>1. CASE Len(queue) < Capacity
    <3>1. Append(queue, item) \in Seq(Nat \cup {End}) /\ Len(Append(queue, item)) = Len(queue) + 1
      BY AppendProperties
    <3>2. Len(queue) \in Nat
      BY LenProperties
    <3>3. /\ queue' = Append(queue, item) /\ producer' = "notify"
          /\ UNCHANGED <<sent, finished, item, engine, listener, heard, scheduled, ready, reader,
                         received>>
      BY <1>5, <2>1 DEF Put, waking
    <3>4. queue' \in Seq(Nat \cup {End}) /\ Len(queue') <= Capacity
      BY <2>1, <3>1, <3>2, <3>3
    <3> QED
      BY <3>3, <3>4
  <2>2. CASE Len(queue) >= Capacity
    BY <1>5, <2>2 DEF Put, waking
  <2> QED
    BY <1>5, <2>1, <2>2 DEF Put
<1>6. CASE DropOldest
  <2>1. CASE queue = <<>>
    BY <1>6, <2>1 DEF DropOldest, waking
  <2>2. CASE queue # <<>>
    <3>1. Tail(queue) \in Seq(Nat \cup {End}) /\ Len(Tail(queue)) = Len(queue) - 1
      BY <2>2, HeadTailProperties
    <3>2. Len(queue) \in Nat
      BY LenProperties
    <3> QED
      BY <1>6, <2>2, <3>1, <3>2 DEF DropOldest, waking
  <2> QED
    BY <2>1, <2>2
<1>7. CASE ReadListener \/ CallListener
  BY <1>7 DEF ReadListener, CallListener
<1>8. ASSUME Take PROVE QueueTypeOK'
  <2>1. /\ Head(queue) \in Nat \cup {End} /\ Tail(queue) \in Seq(Nat \cup {End})
        /\ Len(Tail(queue)) = Len(queue) - 1
    BY <1>8, HeadTailProperties DEF Take
  <2>2. Append(received, Head(queue)) \in Seq(Nat \cup {End})
    BY <2>1, AppendProperties
  <2>3. Len(queue) \in Nat
    BY LenProperties
  <2>4. /\ queue' \in Seq(Nat \cup {End}) /\ Len(queue') <= Capacity
        /\ received' \in Seq(Nat \cup {End})
    BY <1>8, <2>1, <2>2, <2>3 DEF Take
  <2>5. reader' \in {"done", "idle"} /\ UNCHANGED <<sent, finished, item, producer, engine>>
    BY <1>8 DEF Take, putting
  <2>6. /\ listener' \in BOOLEAN /\ heard' \in BOOLEAN
        /\ scheduled' \in BOOLEAN /\ ready' \in BOOLEAN
    BY <1>8 DEF Take, EndCall
  <2>7. /\ sent' \in 0..MaxSteps /\ item' \in Nat \cup {End} /\ finished' \in BOOLEAN
        /\ producer' \in {"idle", "put", "drop", "retry", "notify", "call"}
        /\ engine' \in {"running", "gone"}
    BY <2>5
  <2> QED
    BY <2>4, <2>5, <2>6, <2>7
<1>9. CASE GetStep \/ ReadNoWait \/ ReadOnceMore
  BY <1>8, <1>9 DEF GetStep, ReadNoWait, ReadOnceMore
<1>10. CASE CallGetStep \/ PollSlice \/ CallGetStepAsync \/ Clear \/ ReadEmpty
  <2>1. CASE CallGetStep \/ PollSlice
    BY <2>1 DEF CallGetStep, PollSlice, GoTo, putting, waking
  <2>2. CASE CallGetStepAsync
    BY <2>2 DEF CallGetStepAsync, GoTo, putting
  <2>3. CASE Clear
    BY <2>3 DEF Clear, GoTo, putting
  <2>4. CASE ReadEmpty
    BY <2>4 DEF ReadEmpty, GoTo, putting, waking
  <2> QED
    BY <1>10, <2>1, <2>2, <2>3, <2>4
<1>11. CASE Wake \/ PollSliceAsync \/ StillAlive \/ NotAlive
  BY <1>11 DEF Wake, PollSliceAsync, StillAlive, NotAlive, GoTo, putting, waking
<1>12. CASE RaiseNotRunning \/ Disconnect
  BY <1>12 DEF RaiseNotRunning, Disconnect, GoTo, EndCall, putting
<1>13. CASE RunCallback
  BY <1>13 DEF RunCallback, putting
<1>14. CASE UNCHANGED queueVars
  BY <1>14 DEF queueVars, putting, waking
<1> QED
  BY <1>2, <1>3, <1>4, <1>5, <1>6, <1>7, <1>9, <1>10, <1>11, <1>12, <1>13, <1>14
     DEF QueueNext, PutStep, ReaderStep

-----------------------------------------------------------------------------
(* The stream.                                                             *)

\* A step that neither puts nor takes.
LEMMA StreamSame ==
    ASSUME QueueTypeOK, StreamInv,
           UNCHANGED <<queue, received, sent, finished, item>>,
           Putting' <=> Putting, producer' = "retry" => producer = "retry",
           reader = "done" <=> reader' = "done"
    PROVE  StreamInv'
BY DEF StreamInv, Ordered, Older, PutInv, Stream, Last, Putting

LEMMA StreamStep == QueueTypeOK /\ StreamInv /\ [QueueNext]_queueVars => StreamInv'
<1> SUFFICES ASSUME QueueTypeOK, StreamInv, [QueueNext]_queueVars PROVE StreamInv'
  OBVIOUS
<1>0. /\ queue \in Seq(Steps) /\ received \in Seq(Steps) /\ Stream \in Seq(Steps)
      /\ sent \in Nat /\ item \in Steps /\ Capacity \in Nat \ {0} /\ End \notin Nat
      /\ Len(queue) \in Nat /\ Len(received) \in Nat /\ Len(Stream) \in Nat
      /\ Len(Stream) = Len(received) + Len(queue)
      /\ \A i \in 1..Len(Stream) : Stream[i] \in Steps
  BY StreamTypes
<1>1. CASE Emit
  <2>1. /\ Stream' = Stream /\ received' = received /\ queue' = queue /\ reader' = reader
        /\ sent' = sent + 1 /\ item' = sent + 1 /\ finished' = finished /\ ~finished
        /\ Putting' /\ ~Putting /\ producer' = "put"
    BY <1>1 DEF Emit, StartPut, Stream, Putting
  <2>2. Ordered(Stream)'
    BY <2>1 DEF StreamInv, Ordered
  <2>3. Older(Stream)'
    BY <1>0, <2>1 DEF StreamInv, Older, Steps
  <2>4. PutInv'
    BY <1>0, <2>1 DEF StreamInv, PutInv
  <2> QED
    BY <2>2, <2>3, <2>4 DEF StreamInv
<1>2. CASE FinishStream
  <2>1. /\ Stream' = Stream /\ received' = received /\ queue' = queue /\ reader' = reader
        /\ sent' = sent /\ item' = End /\ finished' /\ ~finished
        /\ Putting' /\ ~Putting /\ producer' = "put"
    BY <1>2 DEF FinishStream, StartPut, Stream, Putting
  <2>2. Ordered(Stream)'
    BY <2>1 DEF StreamInv, Ordered
  <2>3. Older(Stream)'
    BY <1>0, <2>1 DEF StreamInv, Older, Steps
  <2>4. PutInv'
    BY <1>0, <2>1 DEF StreamInv, PutInv
  <2> QED
    BY <2>2, <2>3, <2>4 DEF StreamInv
<1>3. CASE Put
  <2>1. CASE Len(queue) < Capacity
    <3>1. /\ queue' = Append(queue, item) /\ received' = received /\ reader' = reader
          /\ sent' = sent /\ item' = item /\ finished' = finished
          /\ Putting /\ ~Putting' /\ producer' = "notify"
      BY <1>0, <1>3, <2>1 DEF Put, Putting
    <3>2. Stream' = Append(Stream, item)
      BY <1>0, <3>1, StreamAppend DEF Stream
    <3>3. /\ Len(Stream') = Len(Stream) + 1
          /\ \A i \in 1..Len(Stream) : Stream'[i] = Stream[i]
          /\ Stream'[Len(Stream) + 1] = item
      BY <1>0, <3>2, AppendFacts
    <3>4. \A i \in 1..Len(Stream) : Stream[i] # End /\ (item = End \/ Stream[i] < item)
      BY <3>1 DEF StreamInv, Older
    <3>5. Ordered(Stream)'
      BY <1>0, <3>2, <3>4, OrderedAppend DEF StreamInv
    <3>6. Older(Stream)'
      <4>1. /\ finished <=> item = End
            /\ item # End => item = sent
        BY <3>1 DEF StreamInv, PutInv
      <4>2. ASSUME NEW i \in 1..Len(Stream')
            PROVE  IF Stream'[i] = End THEN finished' ELSE Stream'[i] <= sent'
        <5>1. CASE i = Len(Stream) + 1
          BY <1>0, <3>1, <3>3, <4>1, <5>1 DEF Steps
        <5>2. CASE i # Len(Stream) + 1
          <6>1. i \in 1..Len(Stream)
            <7>1. PICK n \in Nat : n = Len(Stream)
              BY <1>0
            <7> HIDE DEF Stream
            <7>2. i \in 1..(n + 1) /\ i # n + 1
              BY <3>3, <4>2, <5>2, <7>1
            <7>3. i \in 1..n
              BY <7>2
            <7> QED
              BY <7>1, <7>3
          <6> QED
            BY <3>1, <3>3, <3>4, <6>1 DEF StreamInv, Older
        <5> QED
          BY <5>1, <5>2
      <4> QED
        BY <3>1, <4>2 DEF Older
    <3>7. PutInv'
      <4>1. finished' => Stream'[Len(Stream')] = End /\ Len(Stream') # 0
        BY <1>0, <3>1, <3>3 DEF StreamInv, PutInv
      <4>2. finished' => Stream' # <<>>
        BY <4>1, EmptySeq
      <4> QED
        BY <3>1, <4>1, <4>2 DEF StreamInv, PutInv, Last
    <3> QED
      BY <3>5, <3>6, <3>7 DEF StreamInv
  <2>2. CASE Len(queue) >= Capacity
    <3>1. /\ producer # "retry"
      BY <1>0, <2>2 DEF StreamInv, PutInv
    <3>2. /\ UNCHANGED <<queue, received, sent, finished, item, reader>>
          /\ Putting /\ Putting' /\ producer' = "drop"
      BY <1>0, <1>3, <2>2, <3>1 DEF Put, Putting
    <3> QED
      BY <3>2, StreamSame
  <2> QED
    BY <1>0, <2>1, <2>2
<1>4. CASE DropOldest
  <2>1. /\ UNCHANGED <<received, sent, finished, item, reader>>
        /\ Putting /\ Putting' /\ producer' = "retry"
        /\ queue' = IF queue = <<>> THEN queue ELSE Tail(queue)
    BY <1>4 DEF DropOldest, Putting
  <2>2. CASE queue = <<>>
    <3>1. Len(queue) < Capacity
      BY <1>0, <2>2, EmptySeq
    <3>2. Stream' = Stream
      BY <2>1, <2>2 DEF Stream
    <3> QED
      BY <2>1, <2>2, <3>1, <3>2 DEF StreamInv, Ordered, Older, PutInv
  <2>3. CASE queue # <<>>
    <3>1. /\ Stream' \in Seq(Steps) /\ Len(Stream') = Len(Stream) - 1
          /\ \A i \in 1..Len(Stream') :
               Stream'[i] = IF i <= Len(received) THEN Stream[i] ELSE Stream[i + 1]
      BY <1>0, <2>1, <2>3, StreamDrop DEF Stream
    <3>2. Len(queue') < Capacity
      <4>1. Len(Tail(queue)) = Len(queue) - 1
        BY <1>0, <2>3, HeadTailProperties
      <4> QED
        BY <1>0, <2>1, <2>3, <4>1 DEF QueueTypeOK
    <3>3. Ordered(Stream)'
      BY <1>0, <3>1 DEF StreamInv, Ordered
    <3>4. Older(Stream)'
      <4>1. ASSUME NEW i \in 1..Len(Stream')
            PROVE  \E j \in 1..Len(Stream) : Stream'[i] = Stream[j]
        <5>1. i \in 1..Len(Stream) /\ i + 1 \in 1..Len(Stream)
          BY <1>0, <3>1
        <5> QED
          BY <1>0, <3>1, <5>1
      <4> QED
        BY <2>1, <4>1 DEF StreamInv, Older
    <3>5. PutInv'
      BY <2>1, <3>2 DEF StreamInv, PutInv
    <3> QED
      BY <3>3, <3>4, <3>5 DEF StreamInv
  <2> QED
    BY <2>2, <2>3
<1>5. CASE EngineExits \/ ReadListener \/ CallListener
  <2>1. /\ UNCHANGED <<queue, received, sent, finished, item, reader>>
        /\ ~Putting /\ ~Putting' /\ producer' # "retry"
    BY <1>5 DEF EngineExits, ReadListener, CallListener, Putting
  <2> QED
    BY <2>1, StreamSame
<1>6. ASSUME Take, reader # "done" PROVE StreamInv'
  <2>1. /\ queue # <<>> /\ received' = Append(received, Head(queue)) /\ queue' = Tail(queue)
        /\ UNCHANGED <<sent, finished, item, producer>>
        /\ reader' = IF Head(queue) = End THEN "done" ELSE "idle"
    BY <1>6 DEF Take, putting
  <2>2. /\ Head(queue) \in Steps /\ Tail(queue) \in Seq(Steps)
        /\ Len(Tail(queue)) = Len(queue) - 1
        /\ Stream' = Stream
    BY <1>0, <2>1, StreamTake DEF Stream
  <2>3. Ordered(Stream)' /\ Older(Stream)'
    BY <2>1, <2>2 DEF StreamInv, Ordered, Older, Putting
  <2>4. reader' # "done" => \A i \in 1..Len(received') : received'[i] # End
    <3>1. /\ Len(received') = Len(received) + 1
          /\ \A i \in 1..Len(received) : received'[i] = received[i]
          /\ received'[Len(received) + 1] = Head(queue)
      BY <1>0, <2>1, <2>2, AppendFacts
    <3>2. \A i \in 1..Len(received) : received[i] # End
      BY <1>6 DEF StreamInv, PutInv
    <3> QED
      BY <1>0, <2>1, <3>1, <3>2
  <2>5. producer' = "retry" => Len(queue') < Capacity
    BY <1>0, <2>1, <2>2 DEF StreamInv, PutInv
  <2>6. PutInv'
    BY <2>1, <2>2, <2>4, <2>5 DEF StreamInv, PutInv, Putting, Last
  <2> QED
    BY <2>3, <2>6 DEF StreamInv
<1>7. CASE GetStep \/ ReadNoWait \/ ReadOnceMore
  BY <1>6, <1>7 DEF GetStep, ReadNoWait, ReadOnceMore
<1>8. CASE CallGetStep \/ PollSlice \/ CallGetStepAsync \/ Clear \/ ReadEmpty \/ Wake
           \/ PollSliceAsync \/ StillAlive \/ NotAlive \/ RaiseNotRunning \/ Disconnect
  <2>1. /\ UNCHANGED <<queue, received, sent, finished, item, producer>>
        /\ reader # "done" /\ reader' # "done"
    BY <1>8 DEF CallGetStep, PollSlice, CallGetStepAsync, Clear, ReadEmpty, Wake, PollSliceAsync,
                StillAlive, NotAlive, RaiseNotRunning, Disconnect, GoTo, putting
  <2> QED
    BY <2>1, StreamSame DEF Putting
<1>9. CASE RunCallback \/ UNCHANGED queueVars
  <2>1. UNCHANGED <<queue, received, sent, finished, item, producer, reader>>
    BY <1>9 DEF RunCallback, queueVars, putting
  <2> QED
    BY <2>1, StreamSame DEF Putting
<1> QED
  BY <1>1, <1>2, <1>3, <1>4, <1>5, <1>7, <1>8, <1>9 DEF QueueNext, PutStep, ReaderStep

-----------------------------------------------------------------------------
(* The reader, the listener and the engine's exit.                         *)

LEMMA ReaderStepInv == QueueInv /\ [QueueNext]_queueVars => ReaderInv'
<1> SUFFICES ASSUME QueueInv, [QueueNext]_queueVars PROVE ReaderInv'
  OBVIOUS
<1> USE DEF ReaderInv
<1>0. ReaderInv
  BY DEF QueueInv
<1>1. CASE Emit \/ FinishStream
  BY <1>0, <1>1 DEF Emit, FinishStream, StartPut, waking
<1>2. CASE Put \/ DropOldest
  BY <1>0, <1>2 DEF Put, DropOldest, waking
<1>3. CASE ReadListener \/ CallListener \/ EngineExits
  BY <1>0, <1>3 DEF ReadListener, CallListener, EngineExits, waking
<1>4. ASSUME Take PROVE ReaderInv'
  BY <1>0, <1>4 DEF Take, EndCall, putting
<1>5. CASE GetStep \/ ReadNoWait \/ ReadOnceMore
  BY <1>4, <1>5 DEF GetStep, ReadNoWait, ReadOnceMore
<1>6. CASE CallGetStep \/ PollSlice \/ CallGetStepAsync \/ Clear \/ ReadEmpty
  BY <1>0, <1>6 DEF CallGetStep, PollSlice, CallGetStepAsync, Clear, ReadEmpty, GoTo, putting, waking
<1>7. CASE Wake \/ PollSliceAsync \/ StillAlive \/ NotAlive
  BY <1>0, <1>7 DEF Wake, PollSliceAsync, StillAlive, NotAlive, GoTo, putting, waking
<1>8. CASE RaiseNotRunning \/ Disconnect
  BY <1>0, <1>8 DEF RaiseNotRunning, Disconnect, GoTo, EndCall, putting
<1>9. CASE RunCallback \/ UNCHANGED queueVars
  BY <1>0, <1>9 DEF RunCallback, queueVars, putting, waking
<1> QED
  BY <1>1, <1>2, <1>3, <1>5, <1>6, <1>7, <1>8, <1>9 DEF QueueNext, PutStep, ReaderStep

\* A put that finds the reader asleep goes on to the listener, which is set as
\* long as the reader is asleep.
LEMMA WakeupStep == QueueInv /\ [QueueNext]_queueVars => NoLostWakeup'
<1> SUFFICES ASSUME QueueInv, [QueueNext]_queueVars PROVE NoLostWakeup'
  OBVIOUS
<1> USE DEF NoLostWakeup
<1>0. NoLostWakeup /\ ReaderInv
  BY DEF QueueInv
<1>1. CASE Emit \/ FinishStream
  BY <1>0, <1>1 DEF Emit, FinishStream, StartPut, waking
<1>2. CASE Put \/ DropOldest
  BY <1>0, <1>2 DEF Put, DropOldest, waking
<1>3. CASE ReadListener \/ CallListener \/ EngineExits
  BY <1>0, <1>3 DEF ReadListener, CallListener, EngineExits, waking, ReaderInv
<1>4. ASSUME Take PROVE NoLostWakeup'
  BY <1>4 DEF Take
<1>5. CASE GetStep \/ ReadNoWait \/ ReadOnceMore
  BY <1>4, <1>5 DEF GetStep, ReadNoWait, ReadOnceMore
<1>6. CASE CallGetStep \/ PollSlice \/ CallGetStepAsync \/ Clear \/ ReadEmpty
  BY <1>6 DEF CallGetStep, PollSlice, CallGetStepAsync, Clear, ReadEmpty, GoTo
<1>7. CASE Wake \/ PollSliceAsync \/ StillAlive \/ NotAlive \/ RaiseNotRunning \/ Disconnect
  BY <1>7 DEF Wake, PollSliceAsync, StillAlive, NotAlive, RaiseNotRunning, Disconnect, GoTo
<1>8. CASE RunCallback \/ UNCHANGED queueVars
  BY <1>0, <1>8 DEF RunCallback, queueVars, putting, waking
<1> QED
  BY <1>1, <1>2, <1>3, <1>5, <1>6, <1>7, <1>8 DEF QueueNext, PutStep, ReaderStep

\* The last read finds the queue empty: were the request finished, its terminal
\* step would be the last the caller got, and the call over.
LEMMA ErrorStep == QueueInv /\ [QueueNext]_queueVars => ErrorAfterLastStep'
<1> SUFFICES ASSUME QueueInv, [QueueNext]_queueVars PROVE ErrorAfterLastStep'
  OBVIOUS
<1> USE DEF ErrorAfterLastStep
<1>0. ErrorAfterLastStep /\ ReaderInv /\ StreamInv /\ QueueTypeOK
  BY DEF QueueInv
<1>1. CASE Emit \/ FinishStream
  BY <1>0, <1>1 DEF Emit, FinishStream, StartPut
<1>2. CASE Put \/ DropOldest
  BY <1>0, <1>2 DEF Put, DropOldest
<1>3. CASE ReadListener \/ CallListener \/ EngineExits
  BY <1>0, <1>3 DEF ReadListener, CallListener, EngineExits
<1>4. ASSUME Take PROVE ErrorAfterLastStep'
  BY <1>4 DEF Take
<1>5. CASE GetStep \/ ReadNoWait \/ ReadOnceMore
  BY <1>4, <1>5 DEF GetStep, ReadNoWait, ReadOnceMore
<1>6. CASE CallGetStep \/ PollSlice \/ CallGetStepAsync \/ Clear \/ ReadEmpty
  BY <1>6 DEF CallGetStep, PollSlice, CallGetStepAsync, Clear, ReadEmpty, GoTo
<1>7. CASE Wake \/ PollSliceAsync \/ StillAlive \/ NotAlive \/ Disconnect
  BY <1>7 DEF Wake, PollSliceAsync, StillAlive, NotAlive, Disconnect, GoTo
<1>8. CASE RaiseNotRunning
  <2>1. /\ reader = "recheck" /\ queue = <<>> /\ UNCHANGED <<queue, putting>>
        /\ engine = "gone" /\ producer = "idle"
    BY <1>0, <1>8 DEF RaiseNotRunning, GoTo, ReaderInv
  <2>2. ~finished
    <3>1. SUFFICES ASSUME finished PROVE FALSE
      OBVIOUS
    <3>2. Stream = received /\ received \in Seq(Steps)
      BY <1>0, <2>1, ConcatEmptySeq, StreamTypes DEF Stream
    <3>3. received # <<>> /\ received[Len(received)] = End
      BY <1>0, <2>1, <3>1, <3>2 DEF StreamInv, PutInv, Putting, Last
    <3>4. Len(received) \in 1..Len(received)
      BY <3>2, <3>3, EmptySeq
    <3> QED
      BY <1>0, <2>1, <3>3, <3>4 DEF StreamInv, PutInv
  <2> QED
    BY <2>1, <2>2 DEF putting
<1>9. CASE RunCallback \/ UNCHANGED queueVars
  BY <1>0, <1>9 DEF RunCallback, queueVars, putting
<1> QED
  BY <1>1, <1>2, <1>3, <1>5, <1>6, <1>7, <1>8, <1>9 DEF QueueNext, PutStep, ReaderStep

-----------------------------------------------------------------------------
(* The theorems.                                                           *)

\* The inductive invariant holds in every reachable state.
THEOREM QueueInvariance == QueueSpec => []QueueInv
<1>1. QueueInv /\ [QueueNext]_queueVars => QueueInv'
  BY TypeStep, StreamStep, ReaderStepInv, WakeupStep, ErrorStep DEF QueueInv
<1> QED
  BY QueueInitially, <1>1, PTL DEF QueueSpec

\* Every variable keeps its type, and the queue its capacity.
THEOREM QueueTypeCorrect == QueueSpec => []QueueTypeOK
<1>1. QueueInv => QueueTypeOK
  BY DEF QueueInv
<1> QED
  BY QueueInvariance, <1>1, PTL

\* The caller sees the engine's steps in order and the terminal step is never
\* the one an overflow costs (_emit, _finish).
THEOREM TerminalStepIsKept == QueueSpec => []TerminalStepKept
<1>1. QueueInv => TerminalStepKept
  BY DEF QueueInv, StreamInv, Ordered, PutInv, Stream, Putting, TerminalStepKept, Last
<1> QED
  BY QueueInvariance, <1>1, PTL

\* No asyncio reader sleeps on a step without a wakeup on its way.
THEOREM WakeupIsNotLost == QueueSpec => []NoLostWakeup
<1>1. QueueInv => NoLostWakeup
  BY DEF QueueInv
<1> QED
  BY QueueInvariance, <1>1, PTL

\* EngineNotRunningError comes after every step the engine put.
THEOREM ErrorComesLast == QueueSpec => []ErrorAfterLastStep
<1>1. QueueInv => ErrorAfterLastStep
  BY DEF QueueInv
<1> QED
  BY QueueInvariance, <1>1, PTL

-----------------------------------------------------------------------------
(* EngineLifecycle: its inductive invariant.                               *)


Draining == {"start_finish", "stop_finish"}
StopCall == {"join", "stop_drain", "stop_finish", "stop_end"}
StartCall == {"start_drain", "start_finish"}

\* Where nothing of the last thread is left.
Ended == control \in {"launch", "stop_end"} \/ (control = "idle" /\ thread = 0)

\* Only the last thread may live, and the caller of start() and stop() knows it.
ThreadInv ==
    /\ thread \in {0, starts}
    /\ \A t \in Thread :
          /\ loop[t] = "new" <=> t > starts
          /\ Alive(t) => t = thread /\ control \in {"idle", "join"}
    /\ crashed <=> (starts # 0 /\ loop[starts] = "crashed")
    /\ stopping <=> control \in StopCall
    /\ control \in StopCall \ {"join"} => thread = 0
    /\ control = "join" => thread # 0
    /\ stop_event => thread = 0 \/ control = "join"
    /\ control \in StartCall => crashed
    /\ control \in StartCall \cup {"launch"} => starts < MaxStarts

\* The drain of a thread follows its end and comes before the next one.
DrainInv ==
    /\ ended <= starts /\ starts <= ended + 1
    /\ Ended \/ control \in Draining => ended = starts
    /\ thread # 0 /\ control \in {"idle", "join"} => ended < starts
    /\ ended < starts /\ loop[starts] = "stopped" => control \in {"join", "stop_drain"}
    /\ Ended => running = {}
    /\ control \in Draining => running \subseteq leftover
    /\ control \notin Draining => leftover = {}

\* Where the request of a handle is.
RequestInv ==
    \A r \in Request :
        /\ handle[r] \in {"none", "submitting"} =>
              r \notin waiting \cup running \cup leftover \cup terminal \cup late
        /\ handle[r] # "none" => watch[r] \in 1..starts
        /\ r \in waiting \ late => watch[r] > ended
        /\ r \in (running \cup leftover) \ late => watch[r] = starts
        /\ (handle[r] \notin {"none", "submitting"} /\ r \notin late) =>
              \/ r \in terminal
              \/ IF watch[r] > ended THEN r \in waiting \cup running
                 ELSE loop[watch[r]] = "crashed" \/ r \in leftover

\* What a handle that gives up knows.
HandleInv ==
    \A r \in Request :
        /\ handle[r] \in {"thread_dead", "recheck", "error"} => ~Alive(watch[r])
        /\ (handle[r] \in {"recheck", "error"} /\ r \notin late) =>
              r \in terminal \/ loop[watch[r]] = "crashed"
        /\ (handle[r] = "error" /\ r \notin late) => r \notin terminal

\* The inductive invariant.
IInv == TypeOK /\ ThreadInv /\ DrainInv /\ RequestInv /\ HandleInv

-----------------------------------------------------------------------------
(* Each action keeps each part of the invariant.                           *)

LEMMA StartKeeps ==
    ASSUME ~JoinMayTimeOut, IInv, Start PROVE IInv'
<1> USE DEF Start, Alive, Thread, flags, calls, requests, handles
<1>1. TypeOK'
  BY DEF IInv, TypeOK
<1>2. ThreadInv'
  BY DEF IInv, ThreadInv, StopCall, StartCall
<1>3. DrainInv'
  BY DEF IInv, TypeOK, ThreadInv, DrainInv, Draining, Ended
<1>4. RequestInv'
  BY DEF IInv, RequestInv
<1>5. HandleInv'
  BY DEF IInv, HandleInv
<1> QED
  BY <1>1, <1>2, <1>3, <1>4, <1>5 DEF IInv

LEMMA LaunchKeeps ==
    ASSUME ~JoinMayTimeOut, IInv, Launch PROVE IInv'
<1> USE DEF Launch, Alive, Thread, flags, calls, requests, handles
<1>1. TypeOK'
  <2>1. starts \in Nat /\ starts < MaxStarts
    BY LifecycleAssumption DEF IInv, TypeOK, ThreadInv, StartCall
  <2>2. loop' \in [1..MaxStarts -> {"new", "top", "step", "stopped", "crashed"}]
    BY <2>1, LifecycleAssumption DEF IInv, TypeOK
  <2>3. starts' \in 0..MaxStarts /\ thread' \in 0..MaxStarts
    BY <2>1, LifecycleAssumption
  <2> QED
    BY <2>2, <2>3 DEF IInv, TypeOK
<1>2. ThreadInv'
  BY LifecycleAssumption DEF IInv, TypeOK, ThreadInv, StopCall, StartCall
<1>3. DrainInv'
  BY LifecycleAssumption DEF IInv, TypeOK, ThreadInv, DrainInv, Draining, Ended
<1>4. RequestInv'
  BY DEF IInv, TypeOK, DrainInv, RequestInv, Draining, Ended
<1>5. HandleInv'
  BY DEF IInv, TypeOK, RequestInv, HandleInv
<1> QED
  BY <1>1, <1>2, <1>3, <1>4, <1>5 DEF IInv

LEMMA StopKeeps ==
    ASSUME ~JoinMayTimeOut, IInv, Stop PROVE IInv'
<1> USE DEF Stop, Alive, Thread, flags, calls, requests, handles
<1>1. TypeOK'
  BY LifecycleAssumption DEF IInv, TypeOK
<1>2. ThreadInv'
  BY DEF IInv, ThreadInv, StopCall, StartCall
<1>3. DrainInv'
  BY DEF IInv, DrainInv, Draining, Ended
<1>4. RequestInv'
  BY DEF IInv, RequestInv
<1>5. HandleInv'
  BY DEF IInv, HandleInv
<1> QED
  BY <1>1, <1>2, <1>3, <1>4, <1>5 DEF IInv

LEMMA JoinKeeps ==
    ASSUME ~JoinMayTimeOut, IInv, Join PROVE IInv'
<1> USE DEF Join, Alive, Thread, flags, calls, requests, handles
<1>1. TypeOK'
  BY LifecycleAssumption DEF IInv, TypeOK
<1>2. ThreadInv'
  BY DEF IInv, ThreadInv, StopCall, StartCall
<1>3. DrainInv'
  BY DEF IInv, DrainInv, Draining, Ended
<1>4. RequestInv'
  BY DEF IInv, RequestInv
<1>5. HandleInv'
  BY DEF IInv, HandleInv
<1> QED
  BY <1>1, <1>2, <1>3, <1>4, <1>5 DEF IInv

LEMMA DrainKeeps ==
    ASSUME ~JoinMayTimeOut, IInv, Drain PROVE IInv'
<1> USE DEF Drain, Alive, Thread, flags, calls, requests, handles
<1>1. TypeOK'
  BY DEF IInv, TypeOK
<1>2. ThreadInv'
  BY DEF IInv, ThreadInv, StopCall, StartCall
<1>3. DrainInv'
  BY DEF IInv, TypeOK, DrainInv, Draining, Ended
<1>4. RequestInv'
  BY DEF IInv, TypeOK, DrainInv, RequestInv, Draining
<1>5. HandleInv'
  BY DEF IInv, HandleInv
<1> QED
  BY <1>1, <1>2, <1>3, <1>4, <1>5 DEF IInv

LEMMA FinishLeftoverKeeps ==
    ASSUME ~JoinMayTimeOut, IInv, NEW r \in Request, FinishLeftover(r) PROVE IInv'
<1> USE DEF FinishLeftover, Alive, Thread, flags, calls, requests, handles
<1>1. TypeOK'
  BY DEF IInv, TypeOK
<1>2. ThreadInv'
  BY DEF IInv, ThreadInv
<1>3. DrainInv'
  BY DEF IInv, DrainInv, Ended
<1>4. RequestInv'
  BY DEF IInv, ThreadInv, DrainInv, RequestInv
<1>5. HandleInv'
  BY DEF IInv, ThreadInv, RequestInv, HandleInv
<1> QED
  BY <1>1, <1>2, <1>3, <1>4, <1>5 DEF IInv

LEMMA EndInFlightKeeps ==
    ASSUME ~JoinMayTimeOut, IInv, EndInFlight PROVE IInv'
<1> USE DEF EndInFlight, Alive, Thread, flags, calls, requests, handles
<1>1. TypeOK'
  BY DEF IInv, TypeOK
<1>2. ThreadInv'
  BY DEF IInv, ThreadInv, StopCall, StartCall
<1>3. DrainInv'
  BY DEF IInv, DrainInv, Draining
<1>4. RequestInv'
  BY DEF IInv, RequestInv
<1>5. HandleInv'
  BY DEF IInv, HandleInv
<1> QED
  BY <1>1, <1>2, <1>3, <1>4, <1>5 DEF IInv

LEMMA StopReturnsKeeps ==
    ASSUME ~JoinMayTimeOut, IInv, StopReturns PROVE IInv'
<1> USE DEF StopReturns, Alive, Thread, flags, calls, requests, handles
<1>1. TypeOK'
  BY DEF IInv, TypeOK
<1>2. ThreadInv'
  BY DEF IInv, ThreadInv, StopCall, StartCall
<1>3. DrainInv'
  BY DEF IInv, ThreadInv, DrainInv, Draining, Ended, StopCall
<1>4. RequestInv'
  BY DEF IInv, RequestInv
<1>5. HandleInv'
  BY DEF IInv, HandleInv
<1> QED
  BY <1>1, <1>2, <1>3, <1>4, <1>5 DEF IInv

LEMMA LoopTopKeeps ==
    ASSUME ~JoinMayTimeOut, IInv, NEW t \in Thread, LoopTop(t) PROVE IInv'
<1> USE DEF LoopTop, Alive, Thread, flags, calls, requests, handles
<1>1. TypeOK'
  BY DEF IInv, TypeOK
<1>2. ThreadInv'
  BY DEF IInv, ThreadInv
<1>3. DrainInv'
  BY DEF IInv, ThreadInv, DrainInv, Ended
<1>4. RequestInv'
  BY DEF IInv, RequestInv
<1>5. HandleInv'
  BY DEF IInv, HandleInv
<1> QED
  BY <1>1, <1>2, <1>3, <1>4, <1>5 DEF IInv

LEMMA StepKeeps ==
    ASSUME ~JoinMayTimeOut, IInv, NEW t \in Thread, Step(t) PROVE IInv'
<1> USE DEF Step, Admit, Finish, Alive, Thread, flags, calls, requests, handles
<1>1. TypeOK'
  BY DEF IInv, TypeOK
<1>2. ThreadInv'
  BY DEF IInv, ThreadInv
<1>3. DrainInv'
  BY DEF IInv, ThreadInv, DrainInv, Ended
<1>4. RequestInv'
  BY DEF IInv, TypeOK, DrainInv, RequestInv
<1>5. HandleInv'
  BY DEF IInv, ThreadInv, RequestInv, HandleInv
<1> QED
  BY <1>1, <1>2, <1>3, <1>4, <1>5 DEF IInv

LEMMA CrashKeeps ==
    ASSUME ~JoinMayTimeOut, IInv, NEW t \in Thread, Crash(t) PROVE IInv'
<1> USE DEF Crash, Alive, Thread, flags, calls, requests, handles
<1>1. TypeOK'
  BY DEF IInv, TypeOK
<1>2. ThreadInv'
  BY DEF IInv, TypeOK, ThreadInv
<1>3. DrainInv'
  BY DEF IInv, DrainInv, Ended
<1>4. RequestInv'
  BY DEF IInv, RequestInv
<1>5. HandleInv'
  BY DEF IInv, HandleInv
<1> QED
  BY <1>1, <1>2, <1>3, <1>4, <1>5 DEF IInv

LEMMA SubmitReadsThreadKeeps ==
    ASSUME ~JoinMayTimeOut, IInv, NEW r \in Request, SubmitReadsThread(r) PROVE IInv'
<1> USE DEF SubmitReadsThread, Move, Alive, Thread, flags, calls, requests, handles
<1>1. TypeOK'
  BY DEF IInv, TypeOK
<1>2. ThreadInv'
  BY DEF IInv, ThreadInv
<1>3. DrainInv'
  BY DEF IInv, DrainInv, Ended
<1>4. RequestInv'
  BY DEF IInv, TypeOK, ThreadInv, RequestInv
<1>5. HandleInv'
  BY DEF IInv, HandleInv
<1> QED
  BY <1>1, <1>2, <1>3, <1>4, <1>5 DEF IInv

LEMMA SubmitPutsKeeps ==
    ASSUME ~JoinMayTimeOut, IInv, NEW r \in Request, SubmitPuts(r) PROVE IInv'
<1> USE DEF SubmitPuts, Move, Alive, Thread, flags, calls, requests, handles
<1>1. TypeOK'
  BY DEF IInv, TypeOK, RequestInv
<1>2. ThreadInv'
  BY DEF IInv, ThreadInv
<1>3. DrainInv'
  BY DEF IInv, DrainInv, Ended
<1>4. RequestInv'
  BY DEF IInv, TypeOK, RequestInv
<1>5. HandleInv'
  BY DEF IInv, HandleInv
<1> QED
  BY <1>1, <1>2, <1>3, <1>4, <1>5 DEF IInv

LEMMA HandleNextKeeps ==
    ASSUME ~JoinMayTimeOut, IInv, NEW r \in Request, HandleNext(r) PROVE IInv'
<1> USE DEF HandleNext, GetTerminal, SeesThreadDead, SeesStopping, SeesStopped, Recheck, Raise, HandleStep, Move, Alive, Thread, flags, calls, requests, handles
<1>1. TypeOK'
  BY DEF IInv, TypeOK
<1>2. ThreadInv'
  BY LifecycleAssumption DEF IInv, ThreadInv
<1>3. DrainInv'
  BY DEF IInv, DrainInv, Ended
<1>4. RequestInv'
  BY LifecycleAssumption DEF IInv, TypeOK, RequestInv
<1>5. HandleInv'
  BY LifecycleAssumption DEF IInv, TypeOK, ThreadInv, DrainInv, RequestInv, HandleInv, Draining, StopCall, StartCall
<1> QED
  BY <1>1, <1>2, <1>3, <1>4, <1>5 DEF IInv

-----------------------------------------------------------------------------
(* The theorems.                                                           *)

LEMMA Initially == Init => IInv
<1> SUFFICES ASSUME Init PROVE IInv
  OBVIOUS
<1> USE DEF Init, Alive, Thread
<1>1. TypeOK
  <2>1. /\ 0 \in 0..MaxStarts /\ 0 \in 0..MaxStops
        /\ loop \in [Thread -> {"new", "top", "step", "stopped", "crashed"}]
        /\ watch \in [Request -> 0..MaxStarts]
    BY LifecycleAssumption
  <2> QED
    BY <2>1 DEF TypeOK
<1>2. ThreadInv
  BY LifecycleAssumption DEF ThreadInv, StopCall, StartCall
<1>3. DrainInv
  BY DEF DrainInv, Draining, Ended
<1>4. RequestInv /\ HandleInv
  BY DEF RequestInv, HandleInv
<1> QED
  BY <1>1, <1>2, <1>3, <1>4 DEF IInv

LEMMA Stuttering == ASSUME IInv, UNCHANGED vars PROVE IInv'
<1> USE DEF vars, flags, calls, requests, handles, Alive
<1>1. TypeOK' /\ ThreadInv'
  BY DEF IInv, TypeOK, ThreadInv
<1>2. DrainInv'
  BY DEF IInv, DrainInv, Ended
<1>3. RequestInv' /\ HandleInv'
  BY DEF IInv, RequestInv, HandleInv
<1> QED
  BY <1>1, <1>2, <1>3 DEF IInv

LEMMA Consecution == ASSUME ~JoinMayTimeOut, IInv, [Next]_vars PROVE IInv'
<1>1. CASE UNCHANGED vars
  BY <1>1, Stuttering
<1>2. CASE ControlStep
  BY <1>2, StartKeeps, LaunchKeeps, StopKeeps, JoinKeeps, DrainKeeps, EndInFlightKeeps,
     StopReturnsKeeps, FinishLeftoverKeeps DEF ControlStep
<1>3. CASE \E t \in Thread : LoopTop(t) \/ Step(t) \/ Crash(t)
  BY <1>3, LoopTopKeeps, StepKeeps, CrashKeeps
<1>4. CASE \E r \in Request : SubmitReadsThread(r) \/ SubmitPuts(r) \/ HandleNext(r)
  BY <1>4, SubmitReadsThreadKeeps, SubmitPutsKeeps, HandleNextKeeps
<1> QED
  BY <1>1, <1>2, <1>3, <1>4 DEF Next

\* While every join returns because its thread ended, a request that is not late
\* is held by the last thread until that thread's drain has ended it.
THEOREM Invariance == ASSUME ~JoinMayTimeOut PROVE Spec => []IInv
<1>1. Init => IInv
  BY Initially
<1>2. IInv /\ [Next]_vars => IInv'
  BY Consecution
<1> QED
  BY <1>1, <1>2, PTL DEF Spec

\* Every variable has its type, and no request both waits and runs.
THEOREM TypeCorrect == ASSUME ~JoinMayTimeOut PROVE Spec => []TypeOK
<1>1. IInv => TypeOK
  BY DEF IInv
<1> QED
  BY <1>1, Invariance, PTL

\* A new engine thread starts alone and with nothing in flight.
THEOREM StartsEmpty == ASSUME ~JoinMayTimeOut PROVE Spec => []BeginsEmpty
<1>1. IInv => BeginsEmpty
  BY DEF IInv, ThreadInv, DrainInv, Ended, BeginsEmpty
<1> QED
  BY <1>1, Invariance, PTL

\* A handle gives up only on a crash, or on a request enqueued after the drain.
THEOREM CleanStopEndsRequests == ASSUME ~JoinMayTimeOut PROVE Spec => []CleanStopGivesTerminal
<1>1. IInv => CleanStopGivesTerminal
  BY DEF IInv, HandleInv, CleanStopGivesTerminal
<1> QED
  BY <1>1, Invariance, PTL

\* What a handle read last, after its thread died, stays true.
THEOREM LastReadIsFinal == ASSUME ~JoinMayTimeOut PROVE Spec => NoStepAfterGone
<1> DEFINE Gone(r) == r \notin late /\ handle[r] \in {"recheck", "error"}
           Kept == \A r \in Request \ late :
                      handle[r] \in {"recheck", "error"} =>
                          (r \in terminal' <=> r \in terminal)
<1>1. ASSUME IInv, [Next]_vars PROVE Kept
  <2> SUFFICES ASSUME NEW r \in Request, Gone(r), r \notin terminal
               PROVE  r \notin terminal'
    <3>1. terminal \subseteq terminal'
      BY <1>1 DEF Next, vars, ControlStep, HandleNext, Start, Launch, Stop, Join, Drain,
         FinishLeftover, EndInFlight, StopReturns, LoopTop, Step, Admit, Finish, Crash,
         SubmitReadsThread, SubmitPuts, GetTerminal, SeesThreadDead, SeesStopping,
         SeesStopped, Recheck, Raise, HandleStep, flags, calls, requests, handles
    <3> QED
      BY <3>1
  <2>1. loop[watch[r]] = "crashed" /\ watch[r] \in 1..starts
    BY <1>1 DEF IInv, HandleInv, RequestInv
  <2>2. r \in running \cup leftover => crashed
    BY <1>1, <2>1 DEF IInv, RequestInv, ThreadInv, TypeOK
  <2>3. r \in running => \A t \in Thread : loop[t] # "step"
    BY <1>1, <2>1, LifecycleAssumption
       DEF IInv, RequestInv, ThreadInv, TypeOK, Alive, Thread
  <2>4. CASE \E t \in Thread : Step(t)
    BY <2>3, <2>4 DEF Step, Admit, Finish
  <2>5. CASE \E q \in Request : FinishLeftover(q)
    BY <2>2, <2>5 DEF FinishLeftover
  <2>6. CASE UNCHANGED terminal
    BY <2>6
  <2> QED
    BY <1>1, <2>4, <2>5, <2>6
       DEF Next, vars, ControlStep, HandleNext, Start, Launch, Stop, Join, Drain,
           EndInFlight, StopReturns, LoopTop, Crash, SubmitReadsThread, SubmitPuts,
           GetTerminal, SeesThreadDead, SeesStopping, SeesStopped, Recheck, Raise,
           HandleStep, flags, calls, requests, handles
<1>2. IInv /\ [Next]_vars => [Kept]_vars
  BY <1>1
<1> QED
  BY <1>2, Invariance, PTL DEF Spec, NoStepAfterGone

\* One engine thread owns the model: without a join that times out there is
\* never a second one.  (After one that did, ADR-028 asks the caller not to
\* start before the thread exits; start() cannot tell.)
THEOREM OneEngineThread == ASSUME ~JoinMayTimeOut PROVE Spec => []SingleEngineThread
<1>1. ASSUME IInv PROVE SingleEngineThread
  <2> DEFINE Living == {t \in Thread : Alive(t)}
  <2>1. Living \subseteq {thread}
    BY <1>1 DEF IInv, ThreadInv
  <2>2. IsFiniteSet({thread}) /\ Cardinality({thread}) = 1
    BY FS_Singleton
  <2>3. Cardinality(Living) <= Cardinality({thread})
    BY <2>1, <2>2, FS_Subset
  <2> QED
    BY <2>2, <2>3 DEF SingleEngineThread
<1> QED
  BY <1>1, Invariance, PTL

=============================================================================
