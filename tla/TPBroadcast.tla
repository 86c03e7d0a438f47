---------------------------- MODULE TPBroadcast ----------------------------
(***************************************************************************)
(* Tensor-parallel continuous batching of a StateCache model: the server on  *)
(* every rank (engine/tp_state_cache_continuous_server.py) under the         *)
(* leader's scheduler (scheduler/tp_state_cache_continuous_scheduler.py).    *)
(*                                                                         *)
(* The leader broadcasts each operation, then all ranks run its forward; the  *)
(* collectives inside it are a barrier, so a forward is one step of all       *)
(* ranks.  A prefill is two broadcasts.  A row of a rank's cache is the       *)
(* sequence of tokens it was computed from; a token is its request and its    *)
(* number, 0 for a prompt.  stop() broadcasts the shutdown when its join of    *)
(* the engine thread returned, in time or not: a follower that waits for a     *)
(* prompt, or has taken a shutdown for one, reads what comes for another kind. *)
(***************************************************************************)
EXTENDS Integers, Sequences, FiniteSets, SequencesExt

CONSTANTS Request, Follower, None,
          Rows,             \* max_batch_size
          MaxTokens,        \* max_tokens of each request
          Refused           \* empty prompts, or prompts longer than the rows

ASSUME TPAssumption ==
    /\ Rows \in Nat \ {0}
    /\ \A r \in Request : MaxTokens[r] \in Nat \ {0}
    /\ Refused \subseteq Request
    /\ "leader" \notin Follower

VARIABLES
    waiting,      \* _waiting
    hand,         \* the request that an idle loop took and puts back
    slots,        \* the request of each row, or None
    position,     \* _Slot.position; the next token is the request's token of it
    generated,    \* len(tokens_generated)
    finish,       \* finish_reason
    submitted, cancelled,
    pc, row,      \* where the leader's engine thread is, and in which row
    op,           \* the operation whose forward each rank runs
    wire,         \* broadcasts a follower has not received
    fpc,          \* where each follower is
    cache,        \* the rows of each rank
    owed,         \* a prefill's header was broadcast and its prompt was not
    control,      \* where the caller of stop() is
    stop_event,
    late,         \* the join of stop() timed out
    shut          \* the shutdown: not broadcast, broadcast, or broadcast in
                  \* between a header and its prompt ("cut")

engine == <<pc, row, op, owed>>
followers == <<wire, fpc>>
batch == <<slots, position, cache>>
output == <<generated, finish>>
clients == <<submitted, cancelled>>
lifecycle == <<control, stop_event, late, shut>>
vars == <<waiting, hand, batch, output, clients, engine, followers, lifecycle>>

Row == 1..Rows
Leader == "leader"
Rank == Follower \cup {Leader}
Nothing == [op |-> "none"]
\* What a prompt is when it is read as an operation.
Wrong == [op |-> "prefill", row |-> 1, request |-> None]
Done(r) == finish[r] # "none"
Active == {i \in Row : slots[i] # None}
ThreadAlive == pc \notin {"exit", "crash"}

Init ==
    /\ waiting = <<>>
    /\ hand = None
    /\ slots = [i \in Row |-> None]
    /\ position = [i \in Row |-> 0]
    /\ generated = [r \in Request |-> 0]
    /\ finish = [r \in Request |-> "none"]
    /\ submitted = {}
    /\ cancelled = {}
    /\ pc = "top"
    /\ row = 1
    /\ op = [k \in Rank |-> Nothing]
    /\ wire = [f \in Follower |-> <<>>]
    /\ fpc = [f \in Follower |-> "op"]
    /\ cache = [k \in Rank |-> [i \in Row |-> <<>>]]
    /\ owed = FALSE
    /\ control = "idle"
    /\ stop_event = FALSE
    /\ late = FALSE
    /\ shut = "no"

-----------------------------------------------------------------------------
(* The server.                                                             *)

Broadcast(m) == wire' = [f \in Follower |-> Append(wire[f], m)]

\* The inputs of a decode: token and position of each row, zero in a free one.
Inputs(S) == [i \in Row |-> IF i \in S THEN <<slots[i], position[i]>> ELSE <<None, 0>>]

\* The first n positions of a row; zeros where nothing was computed.
Kept(s, n) == [j \in 1..n |-> IF j \in DOMAIN s THEN s[j] ELSE <<None, 0>>]

\* The rows after a forward.  A prefill replaces its row; a decode writes one
\* position of every row, of a free one too.
After(rows, m) ==
    IF m.op = "prefill" THEN [rows EXCEPT ![m.row] = <<<<m.request, 0>>>>]
    ELSE [i \in Row |-> Append(Kept(rows[i], m.inputs[i][2]), m.inputs[i])]

\* Mutant: a follower takes every prefill into its first row.
UnderstoodFirstRow(f, m) ==
    /\ fpc[f] = "prompt" <=> m.op = "ids"
    /\ fpc' = [fpc EXCEPT ![f] = IF m.op = "shutdown" THEN "left"
                                 ELSE IF m.op = "prefill" THEN "prompt" ELSE "forward"]
    /\ op' = [op EXCEPT ![f] = IF m.op = "ids" THEN @
                              ELSE IF m.op = "prefill" THEN [m EXCEPT !.row = 1] ELSE m]

\* A message read as what it is: the ids of a prompt after its header, an
\* operation otherwise.
Understood(f, m) ==
    /\ fpc[f] = "prompt" <=> m.op = "ids"
    /\ fpc' = [fpc EXCEPT ![f] = IF m.op = "shutdown" THEN "left"
                                 ELSE IF m.op = "prefill" THEN "prompt" ELSE "forward"]
    /\ op' = [op EXCEPT ![f] = IF m.op = "ids" THEN @ ELSE m]

\* A message of the other kind: of another length than the buffer, it is refused
\* or leaves it with other ids, or with any operation.
Misread(f, m) ==
    /\ fpc[f] = "prompt" <=> m.op # "ids"
    /\ \/ fpc' = [fpc EXCEPT ![f] = "raised"] /\ UNCHANGED op
       \/ /\ fpc[f] = "prompt"
          /\ fpc' = [fpc EXCEPT ![f] = "forward"]
          /\ op' = [op EXCEPT ![f] = [@ EXCEPT !.request = None]]
       \/ /\ fpc[f] = "op"
          /\ \E place \in {"left", "prompt", "forward"} : fpc' = [fpc EXCEPT ![f] = place]
          /\ op' = [op EXCEPT ![f] = Wrong]

\* run_follower_loop: receive an operation, or the prompt of a prefill.  A
\* receive takes whatever was broadcast next.
Receive(f) ==
    /\ fpc[f] \in {"op", "prompt"}
    /\ wire[f] # <<>>
    /\ Understood(f, Head(wire[f])) \/ Misread(f, Head(wire[f]))
    /\ wire' = [wire EXCEPT ![f] = Tail(@)]
    /\ UNCHANGED <<waiting, hand, batch, output, clients, pc, row, owed, lifecycle>>

\* One forward on all ranks: it ends when every rank is in it.  After a shutdown
\* in between, a rank may run it with another operation than the leader's.
Forward ==
    /\ pc = "forward"
    /\ \A f \in Follower : fpc[f] = "forward"
    /\ cache' = [k \in Rank |-> After(cache[k], op[k])]
    /\ fpc' = [f \in Follower |-> "op"]
    /\ IF op[Leader].op = "prefill"
       THEN /\ slots' = [slots EXCEPT ![row] = op[Leader].request]
            /\ position' = [position EXCEPT ![row] = 1]
            /\ row' = row + 1
            /\ pc' = "admit"
       ELSE /\ position' = [i \in Row |-> position[i] + IF i \in Active THEN 1 ELSE 0]
            /\ pc' = "top"
            /\ UNCHANGED <<slots, row>>
    /\ op' = [k \in Rank |-> Nothing]
    /\ UNCHANGED <<waiting, hand, output, clients, wire, owed, lifecycle>>

-----------------------------------------------------------------------------
(* The leader's engine thread.                                             *)

Finish(R, reason) == finish' = [r \in Request |-> IF r \in R THEN reason ELSE finish[r]]

Loop ==
    /\ pc = "top"
    /\ pc' = IF stop_event THEN "exit" ELSE "admit"
    /\ row' = 1
    /\ UNCHANGED <<waiting, hand, batch, output, clients, op, owed, followers, lifecycle>>

\* _admit leaves its rows: every row is seen or nobody waits.
AdmitDone ==
    /\ pc = "admit"
    /\ row \in Row => (slots[row] = None /\ waiting = <<>>)
    /\ pc' = IF Active = {} THEN "idle" ELSE "decode"
    /\ UNCHANGED <<waiting, hand, batch, output, clients, row, op, owed, followers, lifecycle>>

AdmitSkip ==
    /\ pc = "admit"
    /\ row <= Rows
    /\ slots[row] # None
    /\ row' = row + 1
    /\ UNCHANGED <<waiting, hand, batch, output, clients, pc, op, owed, followers, lifecycle>>

\* Mutant: a cancelled request that waits is dropped.
CancelledBefore(r) == UNCHANGED finish

\* A request cancelled before its admission.
CancelledAdmit(r) == Finish({r}, "cancelled")

\* One request for one free row: ended at once, or the header of its prefill.
Admit ==
    /\ pc = "admit"
    /\ row <= Rows
    /\ slots[row] = None
    /\ waiting # <<>>
    /\ waiting' = Tail(waiting)
    /\ LET r == Head(waiting)
           header == [op |-> "prefill", row |-> row, request |-> r]
       IN \/ /\ r \in cancelled
             /\ CancelledAdmit(r)
             /\ row' = row + 1
             /\ UNCHANGED <<pc, op, wire, owed>>
          \/ /\ r \in Refused \ cancelled
             /\ \E reason \in {"stop", "length"} : Finish({r}, reason)
             /\ row' = row + 1
             /\ UNCHANGED <<pc, op, wire, owed>>
          \/ /\ r \notin cancelled \cup Refused
             /\ Broadcast(header)
             /\ op' = [op EXCEPT ![Leader] = header]
             /\ owed' = TRUE
             /\ pc' = "prompt"
             /\ UNCHANGED <<finish, row>>
    /\ UNCHANGED <<hand, batch, generated, clients, fpc, lifecycle>>

\* Mutant: a prefill has no second broadcast.
SendNothing ==
    /\ pc = "prompt"
    /\ owed' = FALSE
    /\ pc' = "forward"
    /\ UNCHANGED <<waiting, hand, batch, output, clients, row, op, followers, lifecycle>>

SendPrompt ==
    /\ pc = "prompt"
    /\ owed' = FALSE
    /\ Broadcast([op |-> "ids"])
    /\ pc' = "forward"
    /\ UNCHANGED <<waiting, hand, batch, output, clients, row, op, fpc, lifecycle>>

\* The idle loop takes an arrival ...
IdleTake ==
    /\ pc = "idle"
    /\ IF waiting = <<>>
       THEN pc' = "top" /\ UNCHANGED <<waiting, hand>>
       ELSE pc' = "put back" /\ hand' = Head(waiting) /\ waiting' = Tail(waiting)
    /\ UNCHANGED <<batch, output, clients, row, op, owed, followers, lifecycle>>

\* ... and puts it back, behind what was submitted meanwhile.
IdlePutBack ==
    /\ pc = "put back"
    /\ waiting' = Append(waiting, hand)
    /\ hand' = None
    /\ pc' = "top"
    /\ UNCHANGED <<batch, output, clients, row, op, owed, followers, lifecycle>>

\* The rows that decode after the pass over the slots.
Still(ends) == Active \ ends

\* _decode_step: end or emit each slot's token, then broadcast the decode.
\* A next token is the end of sequence or not.
DecodeStep ==
    /\ pc = "decode"
    /\ \E eos \in SUBSET Active :
        LET gone == {i \in Active : slots[i] \in cancelled}
            stop == eos \ gone
            emit == Active \ (gone \cup stop)
            full == {i \in emit : generated[slots[i]] + 1 >= MaxTokens[slots[i]]}
            decode == Still(gone \cup stop \cup full)
            m == [op |-> "decode", inputs |-> Inputs(decode)]
            In(r, S) == \E i \in S : slots[i] = r
        IN /\ finish' = [r \in Request |->
                IF In(r, gone) THEN "cancelled" ELSE IF In(r, stop) THEN "stop"
                ELSE IF In(r, full) THEN "length" ELSE finish[r]]
           /\ generated' = [r \in Request |-> generated[r] + IF In(r, emit) THEN 1 ELSE 0]
           /\ slots' = [i \in Row |-> IF i \in decode THEN slots[i] ELSE None]
           /\ IF decode = {}
              THEN pc' = "top" /\ UNCHANGED <<op, wire>>
              ELSE pc' = "forward" /\ op' = [op EXCEPT ![Leader] = m] /\ Broadcast(m)
    /\ UNCHANGED <<waiting, hand, position, cache, clients, row, owed, fpc, lifecycle>>

\* Whatever the leader does while it admits, between the two broadcasts of a
\* prefill, in a forward or in a decode step may raise, and ends the thread.
Crash ==
    /\ pc \in {"admit", "prompt", "forward", "decode"}
    /\ pc' = "crash"
    /\ UNCHANGED <<waiting, hand, batch, output, clients, row, op, owed, followers, lifecycle>>

Engine ==
    \/ Loop \/ AdmitDone \/ AdmitSkip \/ Admit \/ SendPrompt
    \/ IdleTake \/ IdlePutBack \/ DecodeStep

-----------------------------------------------------------------------------
(* submit(), cancel() and stop().                                          *)

\* A join that timed out has cleared _thread too.
Submit(r) ==
    /\ r \notin submitted
    /\ ThreadAlive /\ ~late
    /\ submitted' = submitted \cup {r}
    /\ waiting' = Append(waiting, r)
    /\ UNCHANGED <<hand, batch, output, cancelled, engine, followers, lifecycle>>

Cancel(r) ==
    /\ r \in submitted /\ ~Done(r)
    /\ cancelled' = cancelled \cup {r}
    /\ UNCHANGED <<waiting, hand, batch, output, submitted, engine, followers, lifecycle>>

Stop ==
    /\ control = "idle"
    /\ stop_event' = TRUE
    /\ control' = "join"
    /\ UNCHANGED <<waiting, hand, batch, output, clients, engine, followers, late, shut>>

\* What _end_in_flight ends: after a crash nothing.
Leftover == IF pc = "crash" THEN {} ELSE {slots[i] : i \in Active} \cup ToSet(waiting)

\* The join returned.  The requests that are left end unless it timed out.
Join ==
    /\ control = "join"
    /\ control' = "shutdown"
    /\ \/ /\ ~ThreadAlive
          /\ Finish(Leftover, "cancelled")
          /\ slots' = [i \in Row |-> None]
          /\ waiting' = <<>>
          /\ UNCHANGED late
       \/ /\ ThreadAlive
          /\ late' = TRUE
          /\ UNCHANGED <<finish, slots, waiting>>
    /\ UNCHANGED <<hand, position, cache, generated, clients, engine, followers, stop_event, shut>>

\* Mutant: stop() leaves the followers in their loop.
NoShutdown ==
    /\ control = "shutdown"
    /\ control' = "stopped"
    /\ UNCHANGED <<waiting, hand, batch, output, clients, engine, followers, stop_event, late, shut>>

\* shutdown(), broadcast by the caller of stop().
Shutdown ==
    /\ control = "shutdown"
    /\ Broadcast([op |-> "shutdown"])
    /\ shut' = IF owed THEN "cut" ELSE "clean"
    /\ control' = "stopped"
    /\ UNCHANGED <<waiting, hand, batch, output, clients, engine, fpc, stop_event, late>>

Next ==
    \/ Engine \/ Forward \/ Crash
    \/ \E f \in Follower : Receive(f)
    \/ \E r \in Request : Submit(r) \/ Cancel(r)
    \/ Stop \/ Join \/ Shutdown

\* The engine thread, the followers and a stop() once called go on; a join
\* returns, in time or not.
Spec ==
    /\ Init
    /\ [][Next]_vars
    /\ WF_vars(Engine) /\ WF_vars(Forward)
    /\ \A f \in Follower : WF_vars(Receive(f))
    /\ WF_vars(Join) /\ WF_vars(Shutdown)

-----------------------------------------------------------------------------
(* Properties.                                                             *)

Header == [op : {"prefill"}, row : Row, request : Request \cup {None}]
Decode == [op : {"decode"}, inputs : [Row -> (Request \cup {None}) \X Nat]]
Message == [op : {"ids", "shutdown"}] \cup Header \cup Decode

\* Every variable has its type, and a row has its request or none.
TypeOK ==
    /\ waiting \in Seq(Request)
    /\ hand \in Request \cup {None}
    /\ slots \in [Row -> Request \cup {None}]
    /\ position \in [Row -> Nat]
    /\ generated \in [Request -> Nat]
    /\ finish \in [Request -> {"none", "cancelled", "stop", "length"}]
    /\ cancelled \subseteq submitted /\ submitted \subseteq Request
    /\ pc \in {"top", "admit", "prompt", "forward", "idle", "put back", "decode", "exit", "crash"}
    /\ row \in 1..(Rows + 1)
    /\ op \in [Rank -> {Nothing} \cup Message]
    /\ wire \in [Follower -> Seq(Message)]
    /\ fpc \in [Follower -> {"op", "prompt", "forward", "left", "raised"}]
    /\ cache \in [Rank -> [Row -> Seq((Request \cup {None}) \X Nat)]]
    /\ control \in {"idle", "join", "shutdown", "stopped"}
    /\ owed \in BOOLEAN /\ stop_event \in BOOLEAN /\ late \in BOOLEAN
    /\ shut \in {"no", "clean", "cut"}

\* "every rank's cache stays identical" (the module docstring of the server),
\* in free rows too: what a free row computes is overwritten alike.  Only a
\* shutdown between a header and its prompt may end that.
RanksAgree == shut # "cut" => \A f \in Follower : cache[f] = cache[Leader]

\* Unless a shutdown cut a prefill in two, a follower receives what it waits for,
\* the ids after a prefill's header and an operation otherwise, whatever else
\* crashes or times out; and nothing follows the shutdown, unless the join timed
\* out and the leader goes on.
MessagesInStep ==
    shut # "cut" => \A f \in Follower :
        wire[f] # <<>> =>
            /\ fpc[f] = "left" => late
            /\ fpc[f] = "prompt" => Head(wire[f]).op = "ids"
            /\ fpc[f] = "op" => Head(wire[f]).op # "ids"

\* A request that was submitted ends, unless the leader's thread crashes or a
\* stop() gives up waiting for it.
EveryRequestEnds == \A r \in Request : r \in submitted ~> Done(r) \/ pc = "crash" \/ late

\* After a stop() every follower leaves its loop, unless the leader died inside
\* an operation they run with it, or the shutdown cut a prefill in two; only then
\* do they wait for the process group's timeout.
FollowersLeave ==
    control = "join" ~> \/ \A f \in Follower : fpc[f] = "left"
                        \/ pc = "crash" /\ op[Leader] # Nothing
                        \/ shut = "cut"

=============================================================================
