-------------------------- MODULE TPBroadcastProofs --------------------------
(***************************************************************************)
(* Proofs about TPBroadcast for any number of ranks, rows and requests.       *)
(* Unless a shutdown went out between a prefill's header and its prompt, what *)
(* a follower receives is what it waits for and every rank's cache is the     *)
(* leader's, also after a crash between the two broadcasts and after a join    *)
(* that timed out, when the leader goes on behind the shutdown.              *)
(***************************************************************************)
EXTENDS TPBroadcast, SequenceTheorems, TLAPS

Ids == [op |-> "ids"]
Bye == [op |-> "shutdown"]

\* A wire ends with the shutdown once that was broadcast.
Closed(s) == IF shut = "clean" THEN Append(s, Bye) ELSE s

\* The leader's operation as a follower that took none of it has it on its wire.
Sent ==
    IF op[Leader] = Nothing THEN <<>>
    ELSE IF op[Leader].op = "prefill" /\ ~owed THEN <<op[Leader], Ids>>
    ELSE <<op[Leader]>>

\* Where the leader's thread is, and the operation it runs.
LeaderInv ==
    /\ op[Leader] = Nothing \/ op[Leader].op \in {"prefill", "decode"}
    /\ owed => op[Leader].op = "prefill" /\ pc \in {"prompt", "crash"}
    /\ pc = "prompt" => owed
    /\ pc = "forward" => op[Leader] # Nothing
    /\ pc \notin {"prompt", "forward", "crash"} => op[Leader] = Nothing
    /\ pc \in {"prompt", "forward"} /\ op[Leader].op = "prefill" => row \in Row
    /\ pc = "put back" => hand \in Request
    /\ shut # "no" => control = "stopped"
    /\ control \in {"shutdown", "stopped"} => ~ThreadAlive \/ late

\* What a follower has in hand, understood or not.
HeldInv ==
    \A f \in Follower :
        /\ fpc[f] = "prompt" => op[f] \in Header
        /\ fpc[f] = "forward" => op[f] \in Header \cup Decode

\* How far a follower is in the leader's operation: before it, after the header
\* of a prefill or in the forward; or it has the shutdown before it or behind it,
\* and does not care what a leader sends that outlived its join.
InStep(f) ==
    \/ fpc[f] = "op" /\ (owed => shut = "no") /\ wire[f] = Closed(Sent)
    \/ /\ fpc[f] = "prompt" /\ op[Leader].op = "prefill" /\ op[f] = op[Leader]
       /\ owed => shut = "no"
       /\ wire[f] = IF owed THEN <<>> ELSE Closed(<<Ids>>)
    \/ /\ fpc[f] = "forward" /\ op[Leader] # Nothing /\ ~owed /\ op[f] = op[Leader]
       /\ wire[f] = Closed(<<>>)
    \/ fpc[f] = "left" /\ shut = "clean" /\ (wire[f] # <<>> => late)
    \/ fpc[f] = "op" /\ shut = "clean" /\ late /\ wire[f] # <<>> /\ Head(wire[f]) = Bye

FollowerInv == shut # "cut" => \A f \in Follower : InStep(f)

\* The inductive invariant.
IInv == TypeOK /\ LeaderInv /\ HeldInv /\ FollowerInv /\ RanksAgree

-----------------------------------------------------------------------------
(* Short sequences of messages.                                            *)

LEMMA AppendToOne == ASSUME NEW x, NEW y PROVE Append(<<x>>, y) = <<x, y>>
<1> DEFINE S == {x, y}
           s == Append(<<x>>, y)
           t == <<x, y>>
<1>1. <<x>> \in Seq(S) /\ y \in S /\ Len(<<x>>) = 1 /\ <<x>>[1] = x
  OBVIOUS
<1>2. t \in Seq(S) /\ Len(t) = 2 /\ t[1] = x /\ t[2] = y
  OBVIOUS
<1>3. s \in Seq(S) /\ Len(s) = 2 /\ s[1] = x /\ s[2] = y
  BY <1>1, AppendProperties
<1> HIDE DEF S, s, t
<1>4. s = t
  BY <1>2, <1>3, SeqEqual
<1> QED
  BY <1>4 DEF s, t

LEMMA AppendToTwo == ASSUME NEW x, NEW y, NEW z PROVE Append(<<x, y>>, z) = <<x, y, z>>
<1> DEFINE S == {x, y, z}
           s == Append(<<x, y>>, z)
           t == <<x, y, z>>
<1>1. <<x, y>> \in Seq(S) /\ z \in S /\ Len(<<x, y>>) = 2 /\ <<x, y>>[1] = x /\ <<x, y>>[2] = y
  OBVIOUS
<1>2. t \in Seq(S) /\ Len(t) = 3 /\ t[1] = x /\ t[2] = y /\ t[3] = z
  OBVIOUS
<1>3. s \in Seq(S) /\ Len(s) = 3 /\ s[1] = x /\ s[2] = y /\ s[3] = z
  BY <1>1, AppendProperties
<1> HIDE DEF S, s, t
<1>4. s = t
  BY <1>2, <1>3, SeqEqual
<1> QED
  BY <1>4 DEF s, t

\* The first message of a wire and what is left behind it.
LEMMA TakeFirst ==
    ASSUME NEW m
    PROVE  /\ Closed(<<m>>) # <<>> /\ Head(Closed(<<m>>)) = m
           /\ Tail(Closed(<<m>>)) = Closed(<<>>)
           /\ shut # "clean" => Closed(<<>>) = <<>>
           /\ shut = "clean" => Closed(<<>>) # <<>> /\ Head(Closed(<<>>)) = Bye
                                /\ Tail(Closed(<<>>)) = <<>>
<1>1. Append(<<>>, Bye) = <<Bye>> /\ Append(<<m>>, Bye) = <<m, Bye>>
  BY AppendToOne
<1>2. /\ Head(<<m>>) = m /\ Tail(<<m>>) = <<>> /\ <<m>> # <<>>
      /\ Head(<<Bye>>) = Bye /\ Tail(<<Bye>>) = <<>> /\ <<Bye>> # <<>>
      /\ Head(<<m, Bye>>) = m /\ Tail(<<m, Bye>>) = <<Bye>> /\ <<m, Bye>> # <<>>
  OBVIOUS
<1> QED
  BY <1>1, <1>2, Zenon DEF Closed

LEMMA TakeFirstOfTwo ==
    ASSUME NEW m, NEW n
    PROVE  /\ Closed(<<m, n>>) # <<>> /\ Head(Closed(<<m, n>>)) = m
           /\ Tail(Closed(<<m, n>>)) = Closed(<<n>>)
<1>1. Append(<<m, n>>, Bye) = <<m, n, Bye>> /\ Append(<<n>>, Bye) = <<n, Bye>>
  BY AppendToOne, AppendToTwo
<1>2. /\ Head(<<m, n>>) = m /\ Tail(<<m, n>>) = <<n>> /\ <<m, n>> # <<>>
      /\ Head(<<m, n, Bye>>) = m /\ Tail(<<m, n, Bye>>) = <<n, Bye>> /\ <<m, n, Bye>> # <<>>
  OBVIOUS
<1> QED
  BY <1>1, <1>2, Zenon DEF Closed

\* What is sent behind the first message leaves that first.
LEMMA SentBehind ==
    ASSUME NEW w \in Seq(Message), w # <<>>, NEW m \in Message
    PROVE  Append(w, m) # <<>> /\ Head(Append(w, m)) = Head(w)
<1>1. Append(w, m) \in Seq(Message) /\ Len(w) \in Nat /\ Len(w) > 0
      /\ Len(Append(w, m)) = Len(w) + 1 /\ Append(w, m)[1] = w[1]
  BY AppendProperties, EmptySeq
<1> QED
  BY <1>1

-----------------------------------------------------------------------------
(* The messages.                                                           *)

LEMMA Messages ==
    /\ Ids \in Message /\ Bye \in Message /\ Nothing.op = "none"
    /\ Ids.op = "ids" /\ Bye.op = "shutdown"
    /\ \A m \in Message : m # Nothing /\ m.op \in {"ids", "shutdown", "prefill", "decode"}
    /\ \A m \in Message : m.op = "prefill" => m \in Header
    /\ \A m \in Message : m.op = "decode" => m \in Decode
    /\ \A m \in Message : m.op = "shutdown" => m = Bye
    /\ \A m \in Header : m \in Message /\ m.op = "prefill" /\ m.row \in Row
                         /\ m.request \in Request \cup {None}
    /\ \A m \in Decode : m \in Message /\ m.op = "decode"
                         /\ m.inputs \in [Row -> (Request \cup {None}) \X Nat]
BY DEF Message, Header, Decode, Ids, Bye, Nothing

LEMMA Ranks == Leader \in Rank /\ Leader \notin Follower /\ \A f \in Follower : f \in Rank
BY TPAssumption DEF Rank, Leader

-----------------------------------------------------------------------------
(* Each action keeps the invariant.                                        *)

\* A step that changes nothing of what the ranks exchange.
LEMMA FollowersStay ==
    ASSUME IInv, UNCHANGED <<op, owed, wire, fpc, cache, shut>>, late => late'
    PROVE  HeldInv' /\ FollowerInv' /\ RanksAgree'
<1>1. HeldInv' /\ RanksAgree'
  BY DEF IInv, HeldInv, RanksAgree
<1>2. ASSUME NEW f \in Follower, InStep(f) PROVE InStep(f)'
  <2>1. Sent' = Sent /\ (\A s : Closed(s)' = Closed(s))
    BY DEF Sent, Closed, Nothing
  <2> QED
    BY <1>2, <2>1 DEF InStep, Closed, Nothing
<1> QED
  BY <1>1, <1>2 DEF IInv, FollowerInv

LEMMA LoopKeeps == ASSUME IInv, Loop PROVE IInv'
<1> USE DEF Loop, engine, followers, batch, output, clients, lifecycle
<1>1. TypeOK'
  BY TPAssumption DEF IInv, TypeOK
<1>2. LeaderInv'
  BY DEF IInv, LeaderInv, ThreadAlive, Nothing
<1> QED
  BY <1>1, <1>2, FollowersStay DEF IInv

LEMMA AdmitDoneKeeps == ASSUME IInv, AdmitDone PROVE IInv'
<1> USE DEF AdmitDone, engine, followers, batch, output, clients, lifecycle
<1>1. TypeOK'
  BY DEF IInv, TypeOK
<1>2. LeaderInv'
  BY DEF IInv, LeaderInv, ThreadAlive, Nothing
<1> QED
  BY <1>1, <1>2, FollowersStay DEF IInv

LEMMA AdmitSkipKeeps == ASSUME IInv, AdmitSkip PROVE IInv'
<1> USE DEF AdmitSkip, engine, followers, batch, output, clients, lifecycle
<1>1. TypeOK'
  BY TPAssumption DEF IInv, TypeOK
<1>2. LeaderInv'
  BY DEF IInv, LeaderInv, ThreadAlive, Nothing
<1> QED
  BY <1>1, <1>2, FollowersStay DEF IInv

LEMMA IdleTakeKeeps == ASSUME IInv, IdleTake PROVE IInv'
<1> USE DEF IdleTake, engine, followers, batch, output, clients, lifecycle
<1>1. waiting # <<>> => Head(waiting) \in Request /\ Tail(waiting) \in Seq(Request)
  BY HeadTailProperties DEF IInv, TypeOK
<1>2. TypeOK'
  BY <1>1 DEF IInv, TypeOK
<1>3. LeaderInv'
  BY <1>1 DEF IInv, LeaderInv, ThreadAlive, Nothing
<1> QED
  BY <1>2, <1>3, FollowersStay DEF IInv

LEMMA IdlePutBackKeeps == ASSUME IInv, IdlePutBack PROVE IInv'
<1> USE DEF IdlePutBack, engine, followers, batch, output, clients, lifecycle
<1>1. Append(waiting, hand) \in Seq(Request)
  BY AppendProperties DEF IInv, TypeOK, LeaderInv
<1>2. TypeOK'
  BY <1>1 DEF IInv, TypeOK
<1>3. LeaderInv'
  BY DEF IInv, LeaderInv, ThreadAlive, Nothing
<1> QED
  BY <1>2, <1>3, FollowersStay DEF IInv

LEMMA CrashKeeps == ASSUME IInv, Crash PROVE IInv'
<1> USE DEF Crash, engine, followers, batch, output, clients, lifecycle
<1>1. TypeOK'
  BY DEF IInv, TypeOK
<1>2. LeaderInv'
  BY DEF IInv, LeaderInv, ThreadAlive, Nothing
<1> QED
  BY <1>1, <1>2, FollowersStay DEF IInv

LEMMA SubmitKeeps == ASSUME IInv, NEW r \in Request, Submit(r) PROVE IInv'
<1> USE DEF Submit, engine, followers, batch, output, clients, lifecycle
<1>1. Append(waiting, r) \in Seq(Request)
  BY AppendProperties DEF IInv, TypeOK
<1>2. TypeOK'
  BY <1>1 DEF IInv, TypeOK
<1>3. LeaderInv'
  BY DEF IInv, LeaderInv, ThreadAlive, Nothing
<1> QED
  BY <1>2, <1>3, FollowersStay DEF IInv

LEMMA CancelKeeps == ASSUME IInv, NEW r \in Request, Cancel(r) PROVE IInv'
<1> USE DEF Cancel, engine, followers, batch, output, clients, lifecycle
<1>1. TypeOK'
  BY DEF IInv, TypeOK
<1>2. LeaderInv'
  BY DEF IInv, LeaderInv, ThreadAlive, Nothing
<1> QED
  BY <1>1, <1>2, FollowersStay DEF IInv

LEMMA StopKeeps == ASSUME IInv, Stop PROVE IInv'
<1> USE DEF Stop, engine, followers, batch, output, clients, lifecycle
<1>1. TypeOK'
  BY DEF IInv, TypeOK
<1>2. LeaderInv'
  BY DEF IInv, LeaderInv, ThreadAlive, Nothing
<1> QED
  BY <1>1, <1>2, FollowersStay DEF IInv

\* In time, or with the thread alive: then late is set before the shutdown.
LEMMA JoinKeeps == ASSUME IInv, Join PROVE IInv'
<1>0. <<>> \in Seq(Request)
  OBVIOUS
<1> USE DEF Join, engine, followers, clients
<1>1. TypeOK'
  <2>1. finish' \in [Request -> {"none", "cancelled", "stop", "length"}]
    BY DEF IInv, TypeOK, Finish
  <2>2. waiting' \in Seq(Request)
    <3>1. waiting' = <<>> \/ waiting' = waiting
      OBVIOUS
    <3>2. waiting \in Seq(Request)
      BY DEF IInv, TypeOK
    <3> QED
      BY <1>0, <3>1, <3>2
  <2>3. slots' \in [Row -> Request \cup {None}]
    BY DEF IInv, TypeOK
  <2>4. late' \in BOOLEAN
    BY Zenon DEF IInv, TypeOK
  <2> QED
    BY <2>1, <2>2, <2>3, <2>4 DEF IInv, TypeOK
<1>2. LeaderInv'
  BY DEF IInv, LeaderInv, ThreadAlive, Nothing
<1> QED
  BY <1>1, <1>2, FollowersStay DEF IInv

\* Where the leader has no operation, a follower waits for one with nothing to
\* read, or has the shutdown before it or behind it.
LEMMA Calm ==
    ASSUME IInv, shut # "cut", op[Leader] = Nothing, NEW f \in Follower
    PROVE  \/ fpc[f] = "op" /\ wire[f] = Closed(<<>>)
           \/ fpc[f] = "left" /\ shut = "clean" /\ (wire[f] # <<>> => late)
           \/ fpc[f] = "op" /\ shut = "clean" /\ late /\ wire[f] # <<>> /\ Head(wire[f]) = Bye
<1>1. InStep(f) /\ op[Leader].op # "prefill"
  BY DEF IInv, FollowerInv, Nothing
<1> QED
  BY <1>1 DEF InStep, Sent

\* A new operation: a follower has it on its wire, or the shutdown before it.
LEMMA Broadcasts ==
    ASSUME IInv, shut # "cut", op[Leader] = Nothing, ThreadAlive,
           NEW m \in Message, Broadcast(m), NEW f \in Follower
    PROVE  \/ shut = "no" /\ fpc[f] = "op" /\ wire'[f] = <<m>>
           \/ shut = "clean" /\ late /\ fpc[f] = "left"
           \/ /\ shut = "clean" /\ late /\ fpc[f] = "op"
              /\ wire'[f] # <<>> /\ Head(wire'[f]) = Bye
<1>1. wire'[f] = Append(wire[f], m) /\ wire[f] \in Seq(Message)
  BY DEF Broadcast, IInv, TypeOK
<1>2. wire[f] # <<>> => wire'[f] # <<>> /\ Head(wire'[f]) = Head(wire[f])
  BY <1>1, SentBehind
<1>3. shut = "clean" => late
  BY DEF IInv, LeaderInv
<1>4. shut \in {"no", "clean"}
  BY DEF IInv, TypeOK
<1>5. CASE shut = "no"
  <2>1. fpc[f] = "op" /\ wire[f] = <<>>
    BY <1>5, Calm, TakeFirst
  <2> QED
    BY <1>1, <1>5, <2>1
<1>6. CASE shut = "clean"
  BY <1>2, <1>3, <1>6, Calm, TakeFirst
<1> QED
  BY <1>4, <1>5, <1>6

\* A header goes out when nothing is on the way but the shutdown.
LEMMA AdmitKeeps == ASSUME IInv, Admit PROVE IInv'
<1> DEFINE r == Head(waiting)
           h == [op |-> "prefill", row |-> row, request |-> r]
<1>0. /\ pc = "admit" /\ op[Leader] = Nothing /\ ThreadAlive /\ ~owed
      /\ r \in Request /\ waiting' \in Seq(Request) /\ row \in Row
      /\ UNCHANGED <<hand, slots, position, cache, generated, submitted, cancelled, fpc,
                     control, stop_event, late, shut>>
  <2>1. Head(waiting) \in Request /\ Tail(waiting) \in Seq(Request)
    BY HeadTailProperties DEF IInv, TypeOK, Admit
  <2>2. pc = "admit" /\ row \in Row
    BY TPAssumption DEF IInv, TypeOK, Admit, Row
  <2> QED
    BY <2>1, <2>2 DEF IInv, LeaderInv, ThreadAlive, Admit, batch, clients, lifecycle
<1>1. CASE UNCHANGED <<pc, op, wire, owed>> /\ row' = row + 1
           /\ \E reason \in {"cancelled", "stop", "length"} : Finish({r}, reason)
  <2>1. TypeOK'
    <3>1. finish' \in [Request -> {"none", "cancelled", "stop", "length"}]
      BY <1>1 DEF IInv, TypeOK, Finish
    <3>2. row' \in 1..(Rows + 1)
      BY <1>0, <1>1, TPAssumption DEF Row
    <3> QED
      BY <1>0, <1>1, <3>1, <3>2 DEF IInv, TypeOK
  <2>2. LeaderInv'
    BY <1>0, <1>1 DEF IInv, LeaderInv, ThreadAlive
  <2> QED
    BY <1>0, <1>1, <2>1, <2>2, FollowersStay DEF IInv
<1>2. CASE Broadcast(h) /\ op' = [op EXCEPT ![Leader] = h] /\ owed' = TRUE /\ pc' = "prompt"
           /\ UNCHANGED <<finish, row>>
  <2>1. h \in Message /\ h \in Header /\ h.op = "prefill"
    BY <1>0 DEF Message, Header
  <2> HIDE DEF h
  <2>2. /\ op'[Leader] = h /\ \A f \in Follower : op'[f] = op[f]
        /\ op' \in [Rank -> {Nothing} \cup Message]
    BY <1>2, <2>1, Ranks DEF IInv, TypeOK
  <2>3. TypeOK'
    <3>1. wire' \in [Follower -> Seq(Message)]
      BY <1>2, <2>1, AppendProperties DEF IInv, TypeOK, Broadcast
    <3>2. cancelled' \subseteq submitted' /\ submitted' \subseteq Request
      BY <1>0 DEF IInv, TypeOK
    <3> QED
      BY <1>0, <1>2, <2>2, <3>1, <3>2 DEF IInv, TypeOK
  <2>4. LeaderInv'
    BY <1>0, <1>2, <2>1, <2>2 DEF IInv, LeaderInv, ThreadAlive
  <2>5. HeldInv' /\ RanksAgree'
    BY <1>0, <2>2 DEF IInv, HeldInv, RanksAgree
  <2>6. ASSUME shut # "cut", NEW f \in Follower PROVE InStep(f)'
    <3>1. Sent' = <<h>>
      BY <1>2, <2>1, <2>2, Messages DEF Sent
    <3> QED
      BY <1>0, <1>2, <2>1, <2>6, <3>1, Broadcasts DEF InStep, Closed
  <2> QED
    BY <1>0, <2>3, <2>4, <2>5, <2>6 DEF IInv, FollowerInv
<1> QED
  BY <1>1, <1>2 DEF Admit, CancelledAdmit

\* The prompt follows its header.
LEMMA SendPromptKeeps == ASSUME IInv, SendPrompt PROVE IInv'
<1> USE DEF SendPrompt, batch, output, clients, lifecycle
<1>0. /\ owed /\ op[Leader].op = "prefill" /\ op[Leader] # Nothing /\ ThreadAlive
      /\ shut \in {"no", "clean", "cut"}
  BY Messages DEF IInv, TypeOK, LeaderInv, ThreadAlive
<1>1. \A f \in Follower : wire[f] \in Seq(Message) /\ wire'[f] = Append(wire[f], Ids)
  BY DEF IInv, TypeOK, Broadcast, Ids
<1>2. TypeOK'
  <2>1. wire' \in [Follower -> Seq(Message)]
    BY <1>1, Messages, AppendProperties DEF Broadcast
  <2> QED
    BY <2>1 DEF IInv, TypeOK
<1>3. LeaderInv'
  BY <1>0 DEF IInv, LeaderInv, ThreadAlive
<1>4. HeldInv' /\ RanksAgree'
  BY DEF IInv, HeldInv, RanksAgree
<1>5. ASSUME shut # "cut", NEW f \in Follower PROVE InStep(f)'
  <2>0. InStep(f) /\ Sent = <<op[Leader]>> /\ Sent' = <<op[Leader], Ids>>
    BY <1>0, <1>5 DEF IInv, FollowerInv, Sent, Nothing
  <2>1. CASE shut = "no"
    <3>1. CASE fpc[f] = "op" /\ wire[f] = <<op[Leader]>>
      BY <1>1, <2>0, <2>1, <3>1, AppendToOne DEF InStep, Closed
    <3>2. CASE fpc[f] = "prompt" /\ op[f] = op[Leader] /\ wire[f] = <<>>
      BY <1>0, <1>1, <2>1, <3>2 DEF InStep, Closed
    <3> QED
      BY <1>0, <2>0, <2>1, <3>1, <3>2 DEF InStep, Closed
  <2>2. CASE shut = "clean"
    <3>1. late
      BY <1>0, <2>2 DEF IInv, LeaderInv
    <3>2. wire[f] # <<>> => wire'[f] # <<>> /\ Head(wire'[f]) = Head(wire[f])
      BY <1>1, SentBehind, Messages
    <3> QED
      BY <1>0, <2>0, <2>2, <3>1, <3>2 DEF InStep
  <2> QED
    BY <1>0, <1>5, <2>1, <2>2
<1> QED
  BY <1>2, <1>3, <1>4, <1>5 DEF IInv, FollowerInv

\* A decode goes out when nothing is on the way but the shutdown.
LEMMA DecodeStepKeeps == ASSUME IInv, DecodeStep PROVE IInv'
<1>0. /\ pc = "decode" /\ op[Leader] = Nothing /\ ThreadAlive /\ ~owed
      /\ UNCHANGED <<waiting, hand, position, cache, submitted, cancelled, row, owed, fpc,
                     control, stop_event, late, shut>>
  BY DEF IInv, LeaderInv, DecodeStep, ThreadAlive, clients, lifecycle
<1>1. /\ finish' \in [Request -> {"none", "cancelled", "stop", "length"}]
      /\ generated' \in [Request -> Nat]
      /\ slots' \in [Row -> Request \cup {None}]
  BY DEF IInv, TypeOK, DecodeStep
<1>2. PICK S \in SUBSET Row :
         LET m == [op |-> "decode", inputs |-> Inputs(S)]
         IN \/ pc' = "top" /\ UNCHANGED <<op, wire>>
            \/ pc' = "forward" /\ op' = [op EXCEPT ![Leader] = m] /\ Broadcast(m)
  <2>1. \A e : Still(e) \in SUBSET Row
    BY DEF Still, Active
  <2> QED
    BY <2>1 DEF DecodeStep
<1>3. CASE pc' = "top" /\ UNCHANGED <<op, wire>>
  <2>1. TypeOK'
    BY <1>0, <1>1, <1>3 DEF IInv, TypeOK
  <2>2. LeaderInv'
    BY <1>0, <1>3 DEF IInv, LeaderInv, ThreadAlive
  <2> QED
    BY <1>0, <1>3, <2>1, <2>2, FollowersStay DEF IInv
<1>4. ASSUME NEW m, m = [op |-> "decode", inputs |-> Inputs(S)],
             pc' = "forward", op' = [op EXCEPT ![Leader] = m], Broadcast(m)
      PROVE  IInv'
  <2>1. m \in Message /\ m \in Decode /\ m.op = "decode"
    <3>1. Inputs(S) \in [Row -> (Request \cup {None}) \X Nat]
      BY DEF Inputs, IInv, TypeOK
    <3> QED
      BY <1>4, <3>1 DEF Message, Decode
  <2>2. /\ op'[Leader] = m /\ \A f \in Follower : op'[f] = op[f]
        /\ op' \in [Rank -> {Nothing} \cup Message]
    BY <1>4, <2>1, Ranks DEF IInv, TypeOK
  <2>3. TypeOK'
    <3>1. wire' \in [Follower -> Seq(Message)]
      BY <1>4, <2>1, AppendProperties DEF IInv, TypeOK, Broadcast
    <3>2. cancelled' \subseteq submitted' /\ submitted' \subseteq Request
      BY <1>0 DEF IInv, TypeOK
    <3> QED
      BY <1>0, <1>1, <1>4, <2>2, <3>1, <3>2 DEF IInv, TypeOK
  <2>4. LeaderInv'
    BY <1>0, <1>4, <2>1, <2>2, Messages DEF IInv, LeaderInv, ThreadAlive
  <2>5. HeldInv' /\ RanksAgree'
    BY <1>0, <2>2 DEF IInv, HeldInv, RanksAgree
  <2>6. ASSUME shut # "cut", NEW f \in Follower PROVE InStep(f)'
    <3>1. Sent' = <<m>>
      BY <2>1, <2>2, Messages DEF Sent
    <3> QED
      BY <1>0, <1>4, <2>1, <2>6, <3>1, Broadcasts DEF InStep, Closed
  <2> QED
    BY <1>0, <2>3, <2>4, <2>5, <2>6 DEF IInv, FollowerInv
<1> QED
  BY <1>2, <1>3, <1>4

\* All ranks compute the same rows from the same operation.
LEMMA ForwardKeeps == ASSUME IInv, Forward PROVE IInv'
<1>0. /\ pc = "forward" /\ op[Leader] # Nothing /\ ~owed
      /\ UNCHANGED <<waiting, hand, generated, finish, submitted, cancelled, wire, owed,
                     control, stop_event, late, shut>>
      /\ pc' \in {"admit", "top"}
      /\ op' = [k \in Rank |-> Nothing] /\ op'[Leader] = Nothing
      /\ \A f \in Follower : fpc[f] = "forward" /\ fpc'[f] = "op"
      /\ op[Leader] \in Header \cup Decode
  BY Ranks, Messages DEF IInv, TypeOK, LeaderInv, ThreadAlive, Forward, output, clients, lifecycle
<1>1. TypeOK'
  <2>1. \A k \in Rank : op[k] \in Header \cup Decode
    BY <1>0 DEF Rank, IInv, HeldInv
  <2>2. ASSUME NEW k \in Rank
        PROVE  After(cache[k], op[k]) \in [Row -> Seq((Request \cup {None}) \X Nat)]
    <3> DEFINE T == (Request \cup {None}) \X Nat
    <3>1. cache[k] \in [Row -> Seq(T)]
      BY DEF IInv, TypeOK
    <3>2. CASE op[k] \in Header
      <4>1. op[k].op = "prefill" /\ <<op[k].request, 0>> \in T
        BY <3>2, Messages
      <4>2. <<<<op[k].request, 0>>>> \in Seq(T)
        BY <4>1
      <4> QED
        BY <3>1, <4>1, <4>2 DEF After
    <3>3. CASE op[k] \in Decode
      <4>1. op[k].op # "prefill" /\ op[k].inputs \in [Row -> T]
        BY <3>3, Messages
      <4>2. ASSUME NEW i \in Row
            PROVE  Append(Kept(cache[k][i], op[k].inputs[i][2]), op[k].inputs[i]) \in Seq(T)
        <5>1. op[k].inputs[i] \in T /\ op[k].inputs[i][2] \in Nat
          BY <4>1
        <5>2. cache[k][i] \in Seq(T)
          BY <3>1
        <5>3. \A j \in DOMAIN cache[k][i] : cache[k][i][j] \in T
          BY <5>2
        <5>4. <<None, 0>> \in T
          OBVIOUS
        <5>5. Kept(cache[k][i], op[k].inputs[i][2]) \in Seq(T)
          <6> DEFINE n == op[k].inputs[i][2]
          <6>1. n \in Nat
            BY <5>1
          <6>2. Kept(cache[k][i], n) \in [1..n -> T]
            BY <5>3, <5>4 DEF Kept
          <6> QED
            BY <6>1, <6>2
        <5> HIDE DEF T
        <5> QED
          BY <5>1, <5>5, AppendProperties
      <4> QED
        BY <4>1, <4>2 DEF After
    <3> QED
      BY <2>1, <3>2, <3>3
  <2>3. cache' \in [Rank -> [Row -> Seq((Request \cup {None}) \X Nat)]]
    BY <2>2 DEF Forward
  <2>4. /\ position' \in [Row -> Nat] /\ slots' \in [Row -> Request \cup {None}]
        /\ row' \in 1..(Rows + 1)
    <3>1. CASE op[Leader].op = "prefill"
      <4>1. op[Leader].request \in Request \cup {None} /\ row \in Row
        BY <1>0, <3>1, Messages DEF IInv, LeaderInv
      <4>2. /\ slots' = [slots EXCEPT ![row] = op[Leader].request]
            /\ position' = [position EXCEPT ![row] = 1] /\ row' = row + 1
        BY <3>1 DEF Forward
      <4>3. slots \in [Row -> Request \cup {None}] /\ position \in [Row -> Nat]
        BY DEF IInv, TypeOK
      <4>4. row' \in 1..(Rows + 1)
        BY <4>1, <4>2, TPAssumption DEF Row
      <4> QED
        BY <4>1, <4>2, <4>3, <4>4
    <3>2. CASE op[Leader].op # "prefill"
      <4>1. /\ position' = [i \in Row |-> position[i] + IF i \in Active THEN 1 ELSE 0]
            /\ UNCHANGED <<slots, row>>
        BY <3>2 DEF Forward
      <4>2. /\ slots \in [Row -> Request \cup {None}] /\ position \in [Row -> Nat]
            /\ row \in 1..(Rows + 1)
        BY DEF IInv, TypeOK
      <4> QED
        BY <4>1, <4>2
    <3> QED
      BY <3>1, <3>2
  <2>5. op' \in [Rank -> {Nothing} \cup Message] /\ fpc' \in [Follower ->
                    {"op", "prompt", "forward", "left", "raised"}]
    BY <1>0 DEF Forward
  <2>6. cancelled' \subseteq submitted' /\ submitted' \subseteq Request
    BY <1>0 DEF IInv, TypeOK
  <2> QED
    BY <1>0, <2>3, <2>4, <2>5, <2>6 DEF IInv, TypeOK
<1>2. LeaderInv'
  BY <1>0 DEF IInv, LeaderInv, ThreadAlive
<1>3. HeldInv'
  BY <1>0 DEF HeldInv
<1>4. ASSUME shut # "cut", NEW f \in Follower PROVE op[f] = op[Leader] /\ wire[f] = Closed(<<>>)
  BY <1>0, <1>4 DEF IInv, FollowerInv, InStep
<1>5. FollowerInv'
  BY <1>0, <1>4 DEF FollowerInv, InStep, Sent, Closed
<1>6. RanksAgree'
  BY <1>0, <1>4, Ranks DEF IInv, RanksAgree, Forward
<1> QED
  BY <1>1, <1>2, <1>3, <1>5, <1>6 DEF IInv

\* The shutdown closes every wire, behind the operation that is under way.
LEMMA ShutdownKeeps == ASSUME IInv, Shutdown PROVE IInv'
<1> USE DEF Shutdown, engine, batch, output, clients
<1>0. /\ shut = "no" /\ shut' = IF owed THEN "cut" ELSE "clean"
      /\ \A f \in Follower : wire'[f] = Append(wire[f], Bye)
  BY DEF IInv, LeaderInv, Broadcast, Bye
<1>1. TypeOK'
  <2>1. wire' \in [Follower -> Seq(Message)]
    BY Messages, AppendProperties DEF IInv, TypeOK, Broadcast, Bye
  <2> QED
    BY <1>0, <2>1 DEF IInv, TypeOK
<1>2. LeaderInv'
  BY DEF IInv, LeaderInv, ThreadAlive
<1>3. HeldInv' /\ RanksAgree'
  BY <1>0 DEF IInv, HeldInv, RanksAgree
<1>4. ASSUME ~owed, NEW f \in Follower PROVE InStep(f)'
  BY <1>0, <1>4 DEF IInv, FollowerInv, InStep, Sent, Closed
<1> QED
  BY <1>0, <1>1, <1>2, <1>3, <1>4 DEF IInv, FollowerInv

\* A follower takes the next message.
LEMMA ReceiveKeeps == ASSUME IInv, NEW g \in Follower, Receive(g) PROVE IInv'
<1> DEFINE m == Head(wire[g])
<1>0. /\ UNCHANGED <<waiting, hand, slots, position, cache, generated, finish, submitted,
                     cancelled, pc, row, owed, control, stop_event, late, shut>>
      /\ fpc[g] \in {"op", "prompt"} /\ wire[g] # <<>> /\ wire'[g] = Tail(wire[g])
      /\ wire[g] \in Seq(Message) /\ m \in Message /\ Tail(wire[g]) \in Seq(Message)
      /\ Understood(g, m) \/ Misread(g, m)
      /\ \A f \in Follower \ {g} : fpc'[f] = fpc[f] /\ wire'[f] = wire[f] /\ op'[f] = op[f]
      /\ op'[Leader] = op[Leader]
  <2>1. wire[g] \in Seq(Message) /\ wire[g] # <<>>
    BY DEF Receive, IInv, TypeOK
  <2>2. m \in Message /\ Tail(wire[g]) \in Seq(Message)
    BY <2>1, HeadTailProperties
  <2> QED
    BY <2>1, <2>2, Ranks DEF Receive, Understood, Misread, IInv, TypeOK,
       batch, output, clients, lifecycle
<1> HIDE DEF m
<1>1. /\ wire' \in [Follower -> Seq(Message)]
      /\ fpc' \in [Follower -> {"op", "prompt", "forward", "left", "raised"}]
      /\ op' \in [Rank -> {Nothing} \cup Message]
      /\ HeldInv'
  <2>1. wire' \in [Follower -> Seq(Message)]
    BY <1>0 DEF IInv, TypeOK, Receive
  <2>2. Understood(g, m) =>
            /\ fpc' = [fpc EXCEPT ![g] = IF m.op = "shutdown" THEN "left"
                                         ELSE IF m.op = "prefill" THEN "prompt" ELSE "forward"]
            /\ op' = [op EXCEPT ![g] = IF m.op = "ids" THEN op[g] ELSE m]
            /\ m.op = "ids" => op[g] \in Header
    BY <1>0 DEF Understood, IInv, HeldInv
  <2>3. CASE Understood(g, m)
    <3>1. /\ fpc' \in [Follower -> {"op", "prompt", "forward", "left", "raised"}]
          /\ op' \in [Rank -> {Nothing} \cup Message]
      <4>1. fpc' \in [Follower -> {"op", "prompt", "forward", "left", "raised"}]
        BY <2>2, <2>3 DEF IInv, TypeOK
      <4>2. op \in [Rank -> {Nothing} \cup Message] /\ op[g] \in {Nothing} \cup Message
        BY Ranks DEF IInv, TypeOK
      <4>3. op' \in [Rank -> {Nothing} \cup Message]
        BY <1>0, <2>2, <2>3, <4>2
      <4> QED
        BY <4>1, <4>3
    <3>2. fpc'[g] = "prompt" => op'[g] \in Header
      BY <1>0, <2>2, <2>3, Ranks, Messages DEF IInv, TypeOK
    <3>3. fpc'[g] = "forward" => op'[g] \in Header \cup Decode
      BY <1>0, <2>2, <2>3, Ranks, Messages DEF IInv, TypeOK
    <3>4. HeldInv'
      <4> SUFFICES ASSUME NEW f \in Follower
                   PROVE  /\ fpc'[f] = "prompt" => op'[f] \in Header
                          /\ fpc'[f] = "forward" => op'[f] \in Header \cup Decode
        BY DEF HeldInv
      <4> QED
        BY <1>0, <3>2, <3>3 DEF IInv, HeldInv
    <3> QED
      BY <2>1, <3>1, <3>4
  <2>4. CASE Misread(g, m)
    <3>1. Wrong \in Header
      BY TPAssumption DEF Wrong, Header, Row
    <3>2. fpc[g] = "prompt" => [op[g] EXCEPT !.request = None] \in Header
      BY DEF IInv, HeldInv, Header
    <3>3. fpc' \in [Follower -> {"op", "prompt", "forward", "left", "raised"}]
      BY <2>4 DEF Misread, IInv, TypeOK
    <3>4. op \in [Rank -> {Nothing} \cup Message] /\ g \in Rank
      BY Ranks DEF IInv, TypeOK
    <3>5. \/ op' = op /\ fpc' = [fpc EXCEPT ![g] = "raised"]
          \/ \E h \in Header : op' = [op EXCEPT ![g] = h]
      BY <2>4, <3>1, <3>2, <3>4 DEF Misread
    <3>6. op' \in [Rank -> {Nothing} \cup Message]
      BY <3>4, <3>5, Messages
    <3>7. fpc'[g] \in {"prompt", "forward"} => op'[g] \in Header
      BY <3>4, <3>5 DEF IInv, TypeOK
    <3>8. HeldInv'
      <4> SUFFICES ASSUME NEW f \in Follower
                   PROVE  /\ fpc'[f] = "prompt" => op'[f] \in Header
                          /\ fpc'[f] = "forward" => op'[f] \in Header \cup Decode
        BY DEF HeldInv
      <4> QED
        BY <1>0, <3>7 DEF IInv, HeldInv
    <3> QED
      BY <2>1, <3>3, <3>6, <3>8
  <2> QED
    BY <1>0, <2>1, <2>3, <2>4
<1>2. TypeOK'
  <2>1. cancelled' \subseteq submitted' /\ submitted' \subseteq Request
    BY <1>0 DEF IInv, TypeOK
  <2> QED
    BY <1>0, <1>1, <2>1 DEF IInv, TypeOK
<1>3. LeaderInv'
  BY <1>0 DEF IInv, LeaderInv, ThreadAlive, Nothing
<1>4. RanksAgree'
  BY <1>0 DEF IInv, RanksAgree
<1>5. ASSUME shut # "cut" PROVE InStep(g)'
  <2>0. /\ InStep(g) /\ shut \in {"no", "clean"} /\ (shut # "clean" => Closed(<<>>) = <<>>)
        /\ (Closed(<<>>))' = Closed(<<>>) /\ (Closed(<<Ids>>))' = Closed(<<Ids>>)
    BY <1>0, <1>5, TakeFirst DEF IInv, FollowerInv, TypeOK, Closed, Ids, Bye
  <2>1. Understood(g, m) =>
            /\ fpc'[g] = IF m.op = "shutdown" THEN "left"
                         ELSE IF m.op = "prefill" THEN "prompt" ELSE "forward"
            /\ op'[g] = IF m.op = "ids" THEN op[g] ELSE m
    BY Ranks DEF Understood, IInv, TypeOK
  <2>2. CASE fpc[g] = "op" /\ m = Bye /\ shut = "clean" /\ (wire'[g] # <<>> => late)
    <3>1. Understood(g, m) /\ m.op = "shutdown"
      BY <1>0, <2>2, Messages DEF Misread
    <3> QED
      BY <1>0, <2>1, <2>2, <3>1 DEF InStep
  <2>3. CASE fpc[g] = "op" /\ (owed => shut = "no") /\ wire[g] = Closed(Sent)
    <3>1. CASE op[Leader] = Nothing
      <4>1. wire[g] = Closed(<<>>)
        BY <2>3, <3>1 DEF Sent
      <4> QED
        BY <1>0, <2>0, <2>2, <2>3, <4>1, TakeFirst DEF m
    <3>2. CASE op[Leader].op = "decode"
      <4>1. op[Leader] # Nothing /\ wire[g] = Closed(<<op[Leader]>>) /\ ~owed
        BY <2>3, <3>2, Messages DEF Sent, IInv, LeaderInv
      <4>2. m = op[Leader] /\ wire'[g] = Closed(<<>>)
        BY <1>0, <4>1, TakeFirst DEF m
      <4>3. fpc'[g] = "forward" /\ op'[g] = op[Leader]
        BY <1>0, <2>1, <2>3, <3>2, <4>2 DEF Misread
      <4> QED
        BY <1>0, <2>0, <4>1, <4>2, <4>3 DEF InStep
    <3>3. CASE op[Leader].op = "prefill" /\ owed
      <4>1. op[Leader] # Nothing /\ wire[g] = Closed(<<op[Leader]>>) /\ shut = "no"
        BY <2>3, <3>3, Messages DEF Sent
      <4>2. m = op[Leader] /\ wire'[g] = <<>>
        BY <1>0, <2>0, <4>1, TakeFirst DEF m
      <4>3. fpc'[g] = "prompt" /\ op'[g] = op[Leader]
        BY <1>0, <2>1, <2>3, <3>3, <4>2 DEF Misread
      <4> QED
        BY <1>0, <3>3, <4>1, <4>2, <4>3 DEF InStep
    <3>4. CASE op[Leader].op = "prefill" /\ ~owed
      <4>1. op[Leader] # Nothing /\ wire[g] = Closed(<<op[Leader], Ids>>)
        BY <2>3, <3>4, Messages DEF Sent
      <4>2. m = op[Leader] /\ wire'[g] = Closed(<<Ids>>)
        BY <1>0, <4>1, TakeFirstOfTwo DEF m
      <4>3. fpc'[g] = "prompt" /\ op'[g] = op[Leader]
        BY <1>0, <2>1, <2>3, <3>4, <4>2 DEF Misread
      <4> QED
        BY <1>0, <2>0, <3>4, <4>2, <4>3 DEF InStep
    <3> QED
      BY <3>1, <3>2, <3>3, <3>4 DEF IInv, LeaderInv
  <2>4. CASE /\ fpc[g] = "prompt" /\ op[Leader].op = "prefill" /\ op[g] = op[Leader]
             /\ wire[g] = IF owed THEN <<>> ELSE Closed(<<Ids>>)
    <3>1. ~owed /\ wire[g] = Closed(<<Ids>>) /\ op[Leader] # Nothing
      BY <1>0, <2>4, Messages
    <3>2. m = Ids /\ wire'[g] = Closed(<<>>)
      BY <1>0, <3>1, TakeFirst DEF m
    <3>3. fpc'[g] = "forward" /\ op'[g] = op[Leader]
      BY <1>0, <2>1, <2>4, <3>2, Messages DEF Misread
    <3> QED
      BY <1>0, <2>0, <3>1, <3>2, <3>3 DEF InStep
  <2>5. CASE fpc[g] = "op" /\ shut = "clean" /\ late /\ m = Bye
    BY <2>2, <2>5
  <2> QED
    BY <1>0, <2>0, <2>3, <2>4, <2>5 DEF InStep, m
<1>6. ASSUME shut # "cut", NEW f \in Follower \ {g} PROVE InStep(f)'
  <2>1. InStep(f) /\ (Sent' = Sent) /\ fpc'[f] = fpc[f] /\ wire'[f] = wire[f] /\ op'[f] = op[f]
    BY <1>0, <1>6 DEF IInv, FollowerInv, Sent, Nothing
  <2> QED
    BY <1>0, <2>1 DEF InStep, Closed, Nothing
<1> QED
  BY <1>0, <1>1, <1>2, <1>3, <1>4, <1>5, <1>6 DEF IInv, FollowerInv

-----------------------------------------------------------------------------
(* The theorems.                                                           *)

LEMMA Initially == Init => IInv
<1> SUFFICES ASSUME Init PROVE IInv
  OBVIOUS
<1>1. op[Leader] = Nothing /\ pc = "top" /\ control = "idle" /\ shut = "no" /\ ~owed
  BY DEF Init, Rank
<1>2. TypeOK
  <2>1. row \in 1..(Rows + 1)
    BY TPAssumption DEF Init
  <2>2. waiting \in Seq(Request) /\ wire \in [Follower -> Seq(Message)]
    BY DEF Init
  <2>3. cache \in [Rank -> [Row -> Seq((Request \cup {None}) \X Nat)]]
    BY DEF Init
  <2>4. op \in [Rank -> {Nothing} \cup Message]
    BY DEF Init
  <2> QED
    BY <2>1, <2>2, <2>3, <2>4 DEF Init, TypeOK
<1>3. LeaderInv
  BY <1>1, Messages DEF LeaderInv
<1>4. ASSUME NEW f \in Follower PROVE InStep(f)
  <2>1. fpc[f] = "op" /\ wire[f] = <<>>
    BY DEF Init
  <2> QED
    BY <1>1, <2>1 DEF InStep, Sent, Closed
<1>5. HeldInv /\ RanksAgree
  BY Ranks DEF Init, HeldInv, RanksAgree
<1> QED
  BY <1>2, <1>3, <1>4, <1>5 DEF IInv, FollowerInv

LEMMA Consecution == ASSUME IInv, [Next]_vars PROVE IInv'
<1>1. CASE UNCHANGED vars
  <2>1. TypeOK' /\ LeaderInv'
    BY <1>1 DEF vars, engine, followers, batch, output, clients, lifecycle, IInv, TypeOK, LeaderInv,
       ThreadAlive, Nothing
  <2> QED
    BY <1>1, <2>1, FollowersStay DEF vars, engine, followers, batch, lifecycle, IInv
<1>2. CASE Engine
  BY <1>2, LoopKeeps, AdmitDoneKeeps, AdmitSkipKeeps, AdmitKeeps, SendPromptKeeps,
     IdleTakeKeeps, IdlePutBackKeeps, DecodeStepKeeps DEF Engine
<1>3. CASE Forward \/ Crash
  BY <1>3, ForwardKeeps, CrashKeeps
<1>4. CASE \E f \in Follower : Receive(f)
  BY <1>4, ReceiveKeeps
<1>5. CASE \E r \in Request : Submit(r) \/ Cancel(r)
  BY <1>5, SubmitKeeps, CancelKeeps
<1>6. CASE Stop \/ Join \/ Shutdown
  BY <1>6, StopKeeps, JoinKeeps, ShutdownKeeps
<1> QED
  BY <1>1, <1>2, <1>3, <1>4, <1>5, <1>6 DEF Next

\* Whatever the leader does, crashes, stops and joins that time out included: as
\* long as no shutdown went out between a header and its prompt, each follower is
\* at one of four places in the leader's operation with just the rest of it on
\* its wire, or has the shutdown before it or behind it.
THEOREM Invariance == Spec => []IInv
BY Initially, Consecution, PTL DEF Spec

\* Type correctness, of what a follower misread too.
THEOREM TypeCorrect == Spec => []TypeOK
<1>1. IInv => TypeOK
  BY DEF IInv
<1> QED
  BY <1>1, Invariance, PTL

\* Every rank's cache is the leader's, unless a shutdown cut a prefill in two.
THEOREM CachesAgree == Spec => []RanksAgree
<1>1. IInv => RanksAgree
  BY DEF IInv
<1> QED
  BY <1>1, Invariance, PTL

\* Unless a shutdown cut a prefill in two, a follower never takes a message for
\* another kind; after the shutdown one comes only if the join timed out.
THEOREM FollowersInStep == Spec => []MessagesInStep
<1>1. ASSUME IInv PROVE MessagesInStep
  <2> SUFFICES ASSUME shut # "cut", NEW f \in Follower, wire[f] # <<>>
               PROVE  /\ fpc[f] = "left" => late
                      /\ fpc[f] = "prompt" => Head(wire[f]).op = "ids"
                      /\ fpc[f] = "op" => Head(wire[f]).op # "ids"
    BY DEF MessagesInStep
  <2>1. InStep(f)
    BY <1>1 DEF IInv, FollowerInv
  <2>2. fpc[f] = "prompt" => Head(wire[f]) = Ids
    BY <2>1, TakeFirst DEF InStep
  <2>3. fpc[f] = "op" => Head(wire[f]) \in {op[Leader], Bye}
    <3>0. SUFFICES ASSUME fpc[f] = "op", wire[f] = Closed(Sent)
                   PROVE  Head(wire[f]) \in {op[Leader], Bye}
      BY <2>1 DEF InStep
    <3>1. CASE op[Leader] = Nothing
      BY <3>0, <3>1, TakeFirst DEF Sent
    <3>2. CASE op[Leader] # Nothing
      <4>1. wire[f] = Closed(<<op[Leader], Ids>>) \/ wire[f] = Closed(<<op[Leader]>>)
        BY <3>0, <3>2 DEF Sent
      <4>2. /\ Head(Closed(<<op[Leader]>>)) = op[Leader]
            /\ Head(Closed(<<op[Leader], Ids>>)) = op[Leader]
        BY TakeFirst, TakeFirstOfTwo
      <4> QED
        BY <4>1, <4>2
    <3> QED
      BY <3>1, <3>2
  <2>4. fpc[f] = "op" => Head(wire[f]).op # "ids"
    BY <1>1, <2>3, Messages DEF IInv, LeaderInv
  <2> QED
    BY <2>1, <2>2, <2>4, Messages DEF InStep
<1> QED
  BY <1>1, Invariance, PTL

=============================================================================
