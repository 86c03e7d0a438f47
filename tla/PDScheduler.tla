---------------------------- MODULE PDScheduler ----------------------------
(***************************************************************************)
(* The disaggregated scheduler: workers/pd_scheduler.py over the batched     *)
(* prefill of workers/prefill_worker.py and the DecodeSession of             *)
(* workers/decode_worker.py.                                               *)
(*                                                                         *)
(* In serial mode one engine thread prefills and decodes.  In parallel mode  *)
(* a prefill thread and a decode thread share the block pool and a bounded  *)
(* handoff queue, with no lock.  A thread runs from one access of state that *)
(* another thread reads or writes to the next in one step.                 *)
(*                                                                         *)
(* A block holds one position (rounding to blocks is module PagedKV's), a    *)
(* token is its number in the output, and an output queue is only whether    *)
(* its put may time out (the rest of it is module OutputQueue).            *)
(***************************************************************************)
EXTENDS Integers, Sequences, FiniteSets, SequencesExt, Selections

CONSTANTS Request,
          Modes,            \* values of `parallel`: serial, parallel mode
          MaxConcurrent,    \* _max_concurrent
          NumBlocks,
          Prompt,           \* tokens of each prompt; 0 makes prefill_batch raise
          MaxTokens,        \* max_tokens of each request
          Slow,             \* requests whose put may time out on a full queue
          MaxStarts,        \* bound on the generations of threads
          MaxStops,         \* bound on the calls of stop()
          JoinMayTimeOut    \* a step may outlast the joins of stop()

ASSUME PDAssumption ==
    /\ MaxConcurrent \in Nat \ {0}
    /\ {NumBlocks, MaxStarts, MaxStops} \subseteq Nat
    /\ \A r \in Request : Prompt[r] \in Nat /\ MaxTokens[r] \in Nat \ {0}
    /\ Slow \subseteq Request
    /\ Modes \cup {JoinMayTimeOut} \subseteq BOOLEAN

VARIABLES
    parallel,     \* the mode the scheduler was built in
    waiting,      \* _waiting
    prefilling,   \* _prefilling
    batch,        \* each thread's local requests: the batch, the item in hand
    handoffs,     \* _handoff_queue
    session,      \* _session._ordered
    decoding,     \* _decoding (and _handoffs, which has the same keys)
    kv,           \* blocks of each session slot
    free,         \* free blocks of the pool
    held,         \* blocks of each prefill_batch's own cache
    generated,    \* len(tokens_generated)
    finish,       \* finish_reason of the terminal step; set once DONE
    cancelled,    \* cancel_event
    pc,           \* where each thread is
    gen, ended,   \* generations of threads that start() made, _end_in_flight drained
    current,      \* _thread, _decode_thread
    undrained,    \* _undrained
    joined,       \* `threads` of stop()
    stop_event, stopping, crashed,
    control, stops,
    handle, watch, late

slots == <<session, decoding, kv>>
pool == <<slots, free, held>>
queues == <<waiting, prefilling, batch, handoffs>>
output == <<generated, finish>>
lifecycle == <<parallel, gen, ended, current, undrained, joined, stop_event, stopping, control, stops>>
handles == <<handle, watch, late>>
vars == <<queues, pool, output, cancelled, crashed, pc, lifecycle, handles>>

Role == IF parallel THEN {"prefill", "decode"} ELSE {"prefill"}
Thread == {"prefill", "decode"} \X (1..MaxStarts)
Alive(t) == pc[t] \notin {"new", "exit", "crash", "crash in add_handoff"}
NoneAlive(T) == \A t \in T : ~Alive(t)
IsRunning == current # {} /\ \A t \in current : Alive(t)
Done(r) == finish[r] # "none"
At(t, where) == pc[t] = where
Go(t, where) == pc' = [pc EXCEPT ![t] = where]

Init ==
    /\ parallel \in Modes
    /\ waiting = <<>>
    /\ prefilling = <<>>
    /\ batch = [t \in Thread |-> <<>>]
    /\ handoffs = <<>>
    /\ session = <<>>
    /\ decoding = {}
    /\ kv = [r \in Request |-> 0]
    /\ free = NumBlocks
    /\ held = [t \in Thread |-> 0]
    /\ generated = [r \in Request |-> 0]
    /\ finish = [r \in Request |-> "none"]
    /\ cancelled = {}
    /\ pc = [t \in Thread |-> "new"]
    /\ gen = 0
    /\ ended = 0
    /\ current = {}
    /\ undrained = {}
    /\ joined = {}
    /\ stop_event = FALSE
    /\ stopping = FALSE
    /\ crashed = FALSE
    /\ control = "idle"
    /\ stops = 0
    /\ handle = [r \in Request |-> "none"]
    /\ watch = [r \in Request |-> {}]
    /\ late = {}

-----------------------------------------------------------------------------
(* Ending requests.                                                        *)

\* f[r] summed over R: as many as there are things, f[r] of them at each r.
Total(f, R) == Cardinality(UNION {{r} \X (1..f[r]) : r \in R})

\* _emit_terminal for each request of R: idempotent once DONE.
Terminal(R, reason) ==
    finish' = [r \in Request |-> IF r \in R /\ ~Done(r) THEN reason ELSE finish[r]]

\* Mutant: the blocks of a terminated slot are not freed.
SlotsLeaked(R, session2, kv2, free2) ==
    /\ session' \in Without(session2, R)
    /\ kv' = [r \in Request |-> IF r \in R THEN 0 ELSE kv2[r]]
    /\ free' = free2

\* remove_slot, from a session whose slots hold kv2 of the pool.
SlotsRemoved(R, session2, kv2, free2) ==
    /\ session' \in Without(session2, R)
    /\ kv' = [r \in Request |-> IF r \in R THEN 0 ELSE kv2[r]]
    /\ free' = free2 + Total(kv2, R)

\* _emit_token and _check_termination for the requests R.  Any token may be
\* the end of sequence; a put that times out cancels the request.
Report(R, session2, kv2, free2) ==
    \E eos \in SUBSET R, timeouts \in SUBSET (R \cap Slow) :
        LET full == {r \in R : generated[r] + 1 >= MaxTokens[r]}
            ends == full \cup eos
        IN /\ generated' = [r \in Request |-> generated[r] + IF r \in R THEN 1 ELSE 0]
           /\ cancelled' = cancelled \cup timeouts
           /\ finish' = [r \in Request |->
                            IF r \notin ends \/ Done(r) THEN finish[r]
                            ELSE IF r \in full THEN "length" ELSE "stop"]
           /\ decoding' = (decoding \cup R) \ ends
           /\ SlotsRemoved(ends, session2, kv2, free2)

-----------------------------------------------------------------------------
(* The prefill thread; in serial mode the one engine thread.               *)

\* The loops read _stop_event at the top, in the park of an idle iteration too.
LeaveLoop(t) ==
    /\ At(t, "top")
    /\ stop_event
    /\ Go(t, "exit")
    /\ UNCHANGED <<queues, pool, output, cancelled, crashed, lifecycle, handles>>

\* How many more requests _admit_waiting may admit.
Room == MaxConcurrent - (Len(prefilling) + Cardinality(decoding))

\* How many of the first n requests that wait are admitted.
Admitted(n) == Cardinality({i \in 1..n : waiting[i] \notin cancelled})

\* It takes requests until the room is used up or the queue is empty; those
\* cancelled before end there and use no room.
AdmitWaiting(t) ==
    /\ t[1] = "prefill"
    /\ At(t, "top")
    /\ ~stop_event
    /\ \E taken \in 0..Len(waiting) :
          /\ \A n \in 1..taken : Admitted(n - 1) < Room
          /\ taken = Len(waiting) \/ Admitted(taken) >= Room
          /\ waiting' = SubSeq(waiting, taken + 1, Len(waiting))
          /\ \E more \in Without(SubSeq(waiting, 1, taken), cancelled) :
                prefilling' = prefilling \o more
          /\ Terminal(ToSet(SubSeq(waiting, 1, taken)) \cap cancelled, "cancelled")
          /\ Go(t, IF prefilling' # <<>> THEN "prefill"
                   ELSE IF parallel THEN "top" ELSE "step")
    /\ UNCHANGED <<batch, handoffs, pool, generated, cancelled, crashed, lifecycle, handles>>

\* The blocks of a batch, held all at once.
Need(R) == Total(Prompt, R)

\* prefill_batch begins.  An empty prompt fails the whole batch and a full
\* pool cancels it; what a failed forward had allocated is freed again.
PrefillBatch(t) ==
    /\ At(t, "prefill")
    /\ prefilling' = <<>>
    /\ LET R == ToSet(prefilling)
           empty == \E r \in R : Prompt[r] = 0
       IN IF empty \/ Need(R) > free
          THEN /\ Terminal(R, IF empty THEN "failed" ELSE "cancelled")
               /\ Go(t, IF parallel THEN "top" ELSE "step")
               /\ UNCHANGED <<batch, free, held>>
          ELSE /\ batch' = [batch EXCEPT ![t] = prefilling]
               /\ free' = free - Need(R)
               /\ held' = [held EXCEPT ![t] = Need(R)]
               /\ Go(t, "forward")
               /\ UNCHANGED finish
    /\ UNCHANGED <<waiting, handoffs, slots, generated, cancelled, crashed, lifecycle, handles>>

\* It returns: the handoffs hold copies of the K/V, and the slots are freed.
PrefillReturns(t) ==
    /\ At(t, "forward")
    /\ free' = free + held[t]
    /\ held' = [held EXCEPT ![t] = 0]
    /\ Go(t, IF batch[t] = <<>> THEN "top" ELSE IF parallel THEN "put" ELSE "absorb")
    /\ UNCHANGED <<queues, slots, output, cancelled, crashed, lifecycle, handles>>

\* The parallel thread looks at cancel_event once, before it offers a handoff.
StartPut(t) ==
    /\ At(t, "put")
    /\ LET r == Head(batch[t])
       IN IF r \in cancelled
          THEN /\ Terminal({r}, "cancelled")
               /\ batch' = [batch EXCEPT ![t] = Tail(@)]
               /\ Go(t, IF Len(batch[t]) = 1 THEN "top" ELSE "put")
          ELSE Go(t, "offer") /\ UNCHANGED <<batch, finish>>
    /\ UNCHANGED <<waiting, prefilling, handoffs, pool, generated, cancelled, crashed,
                   lifecycle, handles>>

\* Mutant: the request of a put that a stop interrupts is not kept.
PutDropped(t) ==
    /\ At(t, "offer")
    /\ \/ ~stop_event /\ Len(handoffs) < MaxConcurrent /\ handoffs' = Append(handoffs, Head(batch[t]))
       \/ stop_event /\ UNCHANGED handoffs
    /\ batch' = [batch EXCEPT ![t] = Tail(@)]
    /\ Go(t, IF Len(batch[t]) = 1 THEN "top" ELSE "put")
    /\ UNCHANGED <<waiting, prefilling, pool, output, cancelled, crashed, lifecycle, handles>>

\* The put blocks while the queue is full; a stop sends the request back to
\* _prefilling, for stop() to end.
Put(t) ==
    /\ At(t, "offer")
    /\ \/ /\ ~stop_event
          /\ Len(handoffs) < MaxConcurrent
          /\ handoffs' = Append(handoffs, Head(batch[t]))
          /\ UNCHANGED prefilling
       \/ /\ stop_event
          /\ prefilling' = Append(prefilling, Head(batch[t]))
          /\ UNCHANGED handoffs
    /\ batch' = [batch EXCEPT ![t] = Tail(@)]
    /\ Go(t, IF Len(batch[t]) = 1 THEN "top" ELSE "put")
    /\ UNCHANGED <<waiting, pool, output, cancelled, crashed, lifecycle, handles>>

-----------------------------------------------------------------------------
(* The decode side: the decode thread, or the second half of an iteration  *)
(* of the serial one.                                                      *)

\* _drain_new_handoffs takes one item after the other; with no slot and no
\* item the thread parks in a get that may time out.
TakeHandoff(t) ==
    /\ t[1] = "decode"
    /\ \/ At(t, "top") /\ ~stop_event
       \/ pc[t] \in {"drain", "park"}
    /\ IF handoffs # <<>>
       THEN /\ batch' = [batch EXCEPT ![t] = <<Head(handoffs)>>]
            /\ handoffs' = Tail(handoffs)
            /\ Go(t, IF At(t, "park") THEN "absorb parked" ELSE "absorb")
       ELSE /\ Go(t, IF At(t, "park") THEN "top" ELSE IF session = <<>> THEN "park" ELSE "step")
            /\ UNCHANGED <<batch, handoffs>>
    /\ UNCHANGED <<waiting, prefilling, pool, output, cancelled, crashed, lifecycle, handles>>

\* Where a thread goes after the handoff it absorbs.
AfterAbsorb(t) ==
    CASE At(t, "absorb parked") -> "top"
      [] parallel -> "drain"
      [] OTHER -> IF Len(batch[t]) > 1 THEN "absorb" ELSE "step"

\* Add a handoff to the session and report its first token.  The parallel
\* thread first drops a cancelled request.  add_handoff is outside any try:
\* out of memory, it kills the thread, and leaves a slot with the blocks it got.
Absorb(t) ==
    /\ pc[t] \in {"absorb", "absorb parked"}
    /\ LET r == Head(batch[t])
           fits == Prompt[r] <= free
           ends == parallel /\ r \in cancelled
       IN \/ /\ ends
             /\ Terminal({r}, "cancelled")
             /\ batch' = [batch EXCEPT ![t] = Tail(@)]
             /\ Go(t, AfterAbsorb(t))
             /\ UNCHANGED <<slots, free, generated, cancelled, crashed>>
          \/ /\ ~ends /\ fits
             /\ Report({r}, Append(session, r), [kv EXCEPT ![r] = Prompt[r]], free - Prompt[r])
             /\ batch' = [batch EXCEPT ![t] = Tail(@)]
             /\ Go(t, AfterAbsorb(t))
             /\ UNCHANGED crashed
          \/ /\ ~ends /\ ~fits
             /\ session' = Append(session, r)
             /\ kv' = [kv EXCEPT ![r] = free]
             /\ free' = 0
             /\ crashed' = TRUE
             /\ Go(t, "crash in add_handoff")
             /\ UNCHANGED <<batch, decoding, output, cancelled>>
    /\ UNCHANGED <<waiting, prefilling, handoffs, held, lifecycle, handles>>

\* Mutant: a slot's first step() is not reported.
ReportedLate == {r \in decoding : r \notin cancelled /\ ~Done(r) /\ generated[r] > 1}

\* The slots of a step() whose tokens are emitted.
Reported == {r \in decoding : r \notin cancelled /\ ~Done(r)}

\* One batched forward: each slot takes a block, in slot order; out of memory
\* kills the thread.
DecodeStep(t) ==
    /\ At(t, "step")
    /\ IF Len(session) <= free
       THEN /\ Report(Reported, session,
                      [r \in Request |-> kv[r] + IF r \in ToSet(session) THEN 1 ELSE 0],
                      free - Len(session))
            /\ Go(t, "reap")
            /\ UNCHANGED crashed
       ELSE /\ kv' = [r \in Request |->
                        kv[r] + IF r \in ToSet(SubSeq(session, 1, free)) THEN 1 ELSE 0]
            /\ free' = 0
            /\ crashed' = TRUE
            /\ Go(t, "crash")
            /\ UNCHANGED <<session, decoding, output, cancelled>>
    /\ UNCHANGED <<queues, held, lifecycle, handles>>

ReapCancelled(t) ==
    /\ At(t, "reap")
    /\ LET R == {r \in decoding \cap cancelled : ~Done(r)}
       IN /\ decoding' = decoding \ R
          /\ SlotsRemoved(R, session, kv, free)
          /\ Terminal(R, "cancelled")
    /\ Go(t, "top")
    /\ UNCHANGED <<queues, held, generated, cancelled, crashed, lifecycle, handles>>

EngineThread(t) ==
    \/ LeaveLoop(t)
    \/ AdmitWaiting(t)
    \/ PrefillBatch(t)
    \/ PrefillReturns(t)
    \/ StartPut(t)
    \/ Put(t)
    \/ TakeHandoff(t)
    \/ Absorb(t)
    \/ DecodeStep(t)
    \/ ReapCancelled(t)

-----------------------------------------------------------------------------
(* start() and stop(), of one caller.                                      *)

\* Mutant: the drain forgets the handoffs that were never absorbed.
HeldAtStopNoHandoffs == decoding \cup ToSet(prefilling) \cup ToSet(waiting)

\* The requests _end_in_flight finds.
HeldAtStop == decoding \cup ToSet(handoffs) \cup ToSet(prefilling) \cup ToSet(waiting)

\* Free every slot that has a request in _decoding, and drop the session.
EndInFlight(crash) ==
    /\ finish' = [r \in Request |->
                    IF r \in HeldAtStop /\ ~Done(r) /\ ~crash THEN "cancelled" ELSE finish[r]]
    /\ free' = free + Total(kv, decoding \cap ToSet(session))
    /\ kv' = [r \in Request |-> 0]
    /\ decoding' = {}
    /\ session' = <<>>
    /\ handoffs' = <<>>
    /\ prefilling' = <<>>
    /\ waiting' = <<>>
    /\ ended' = gen

\* start() returns at once if _thread lives.  Otherwise it drains what a crash
\* or a timed-out join left.  Callers keep the rule of ADR-028 not to start
\* while a thread of a timed-out stop() lives.
Start ==
    /\ control = "idle"
    /\ gen < MaxStarts
    /\ <<"prefill", gen>> \in current => ~Alive(<<"prefill", gen>>)
    /\ NoneAlive(undrained)
    /\ IF (crashed \/ undrained # {}) /\ NoneAlive(current \cup undrained)
       THEN EndInFlight(TRUE) /\ undrained' = {}
       ELSE /\ handoffs' = <<>>
            /\ UNCHANGED <<finish, free, slots, prefilling, waiting, ended, undrained>>
    /\ stop_event' = FALSE
    /\ crashed' = FALSE
    /\ gen' = gen + 1
    /\ current' = Role \X {gen + 1}
    /\ pc' = [t \in Thread |-> IF t \in current' THEN "top" ELSE pc[t]]
    /\ UNCHANGED <<parallel, batch, held, generated, cancelled, joined, stopping, control, stops, handles>>

Stop ==
    /\ control = "idle"
    /\ stops < MaxStops
    /\ stops' = stops + 1
    /\ stopping' = TRUE
    /\ stop_event' = TRUE
    /\ joined' = current \cup undrained
    /\ control' = "join"
    /\ UNCHANGED <<queues, pool, output, cancelled, crashed, pc, parallel, gen, ended, current,
                   undrained, handles>>

Join ==
    /\ control = "join"
    /\ NoneAlive(current) \/ JoinMayTimeOut
    /\ current' = {}
    /\ control' = "end"
    /\ UNCHANGED <<queues, pool, output, cancelled, crashed, pc, parallel, gen, ended, undrained,
                   joined, stop_event, stopping, stops, handles>>

\* stop() drains unless a thread outlived its join.
StopReturns ==
    /\ control = "end"
    /\ IF NoneAlive(joined)
       THEN EndInFlight(crashed \/ undrained # {}) /\ undrained' = {}
       ELSE /\ undrained' = joined
            /\ UNCHANGED <<waiting, prefilling, handoffs, slots, free, finish, ended>>
    /\ stopping' = FALSE
    /\ control' = "idle"
    /\ UNCHANGED <<parallel, batch, held, generated, cancelled, crashed, pc, gen, current, joined,
                   stop_event, stops, handles>>

-----------------------------------------------------------------------------
(* submit() and the handles.                                               *)

Submit(r) ==
    /\ handle[r] = "none"
    /\ IsRunning
    /\ ~stop_event
    /\ handle' = [handle EXCEPT ![r] = "submits"]
    /\ watch' = [watch EXCEPT ![r] = current]
    /\ UNCHANGED <<queues, pool, output, cancelled, crashed, pc, lifecycle, late>>

\* The put of submit(); late once the drain of the threads it read is over.
Enqueue(r) ==
    /\ handle[r] = "submits"
    /\ waiting' = Append(waiting, r)
    /\ handle' = [handle EXCEPT ![r] = "waits"]
    /\ late' = IF \E t \in watch[r] : t[2] <= ended THEN late \cup {r} ELSE late
    /\ UNCHANGED <<prefilling, batch, handoffs, pool, output, cancelled, crashed, pc,
                   lifecycle, watch>>

\* cancel() has no effect once the request is DONE.
Cancel(r) ==
    /\ handle[r] = "waits"
    /\ ~Done(r)
    /\ cancelled' = cancelled \cup {r}
    /\ UNCHANGED <<queues, pool, output, crashed, pc, lifecycle, handles>>

\* Mutant: the handle watches one thread of the two.
SeesOneThread(r) ==
    /\ handle[r] = "waits"
    /\ ~Done(r)
    /\ \E t \in watch[r] : t[1] = "prefill" /\ ~Alive(t)
    /\ handle' = [handle EXCEPT ![r] = "sees dead"]
    /\ UNCHANGED <<queues, pool, output, cancelled, crashed, pc, lifecycle, watch, late>>

\* engine_alive reads the threads first ...
SeesDead(r) ==
    /\ handle[r] = "waits"
    /\ ~Done(r)
    /\ \E t \in watch[r] : ~Alive(t)
    /\ handle' = [handle EXCEPT ![r] = "sees dead"]
    /\ UNCHANGED <<queues, pool, output, cancelled, crashed, pc, lifecycle, watch, late>>

\* ... then _stopping; with neither the handle reads its queue once more,
\* cancels the request and raises.
GivesUp(r) ==
    /\ handle[r] = "sees dead"
    /\ handle' = [handle EXCEPT ![r] = IF stopping \/ Done(r) THEN "waits" ELSE "raised"]
    /\ cancelled' = IF handle'[r] = "raised" THEN cancelled \cup {r} ELSE cancelled
    /\ UNCHANGED <<queues, pool, output, crashed, pc, lifecycle, watch, late>>

Handle(r) == SeesDead(r) \/ GivesUp(r)

Next ==
    \/ \E t \in Thread : EngineThread(t)
    \/ Start
    \/ Stop
    \/ Join
    \/ StopReturns
    \/ \E r \in Request : Submit(r) \/ Enqueue(r) \/ Cancel(r) \/ Handle(r)

\* The threads, stop() once called, a submit once begun and the handles go on;
\* nobody need start, stop, submit or cancel.
Spec ==
    /\ Init
    /\ [][Next]_vars
    /\ \A t \in Thread : WF_vars(EngineThread(t))
    /\ WF_vars(Join)
    /\ WF_vars(StopReturns)
    /\ \A r \in Request : WF_vars(Enqueue(r)) /\ WF_vars(Handle(r))

-----------------------------------------------------------------------------
(* Properties.                                                             *)

\* Where r is, with its place in the queue or batch that holds it.
Places(r) ==
    {<<"waiting", i>> : i \in {k \in 1..Len(waiting) : waiting[k] = r}}
    \cup {<<"prefilling", i>> : i \in {k \in 1..Len(prefilling) : prefilling[k] = r}}
    \cup {<<"handoffs", i>> : i \in {k \in 1..Len(handoffs) : handoffs[k] = r}}
    \cup {<<"decoding">> : d \in decoding \cap {r}}
    \cup UNION {{<<"batch", t, i>> : i \in {k \in 1..Len(batch[t]) : batch[t][k] = r}} : t \in Thread}

\* As long as every thread its handle watches lives, a request that was
\* enqueued and has not ended is in exactly one place: a queue, a thread's
\* batch or a decode slot.  Two threads hand it on without a lock, through
\* admission, a blocked put, a stop and the way back to _prefilling.
NoRequestLost ==
    \A r \in Request :
        /\ handle[r] \in {"waits", "sees dead"}
        /\ ~Done(r)
        /\ \A t \in watch[r] : Alive(t)
        => Cardinality(Places(r)) = 1

\* Every block is free, in a slot of the session, or held by a prefill that
\* runs, unless an add_handoff ran out of memory: the two threads share the
\* pool and neither leaks, whatever ends a request.
PoolBalanced ==
    (\A t \in Thread : pc[t] # "crash in add_handoff")
        => free + Total(held, Thread) + Total(kv, ToSet(session)) = NumBlocks

\* The slot of a request holds its prompt and all its output but the last
\* token, which is the input of the next step(): the first token came from the
\* prefill and no forward is skipped or run twice.
SlotHoldsOutput ==
    \A r \in decoding \ cancelled :
        (\A t \in Thread : pc[t] # "crash") => kv[r] = Prompt[r] + generated[r] - 1

\* A handle raises only for a crash of a thread it watches or a request put
\* after the drain: a stop() whose joins return gives everybody a terminal step.
CleanStopGivesTerminal ==
    \A r \in Request :
        handle[r] = "raised" =>
            \/ r \in late
            \/ \E t \in watch[r] : pc[t] \in {"crash", "crash in add_handoff"}

\* A request that was enqueued ends, or its handle raises: a full handoff
\* queue, a dead thread beside a live one and a stop() hang nobody.
HandleEnds ==
    \A r \in Request : handle[r] = "waits" ~> Done(r) \/ handle[r] = "raised"

=============================================================================
