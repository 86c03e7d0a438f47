-------------------------- MODULE EngineLifecycle --------------------------
(***************************************************************************)
(* start(), stop(), submit() and the engine thread of ContinuousScheduler    *)
(* (scheduler/continuous_scheduler.py), and what a RequestHandle concludes   *)
(* from them (scheduler/request_state.py).                                 *)
(*                                                                         *)
(* One caller starts and stops the engine, API threads submit, handles poll, *)
(* engine threads run: each reads and writes _thread, _stop_event, _stopping *)
(* and _crashed with no lock, so each access that the others can tell apart  *)
(* is a step.  A request's output is only whether its terminal step was put; *)
(* the rest of its stream is module OutputQueue, an engine step is module    *)
(* ContinuousScheduler.                                                    *)
(***************************************************************************)
EXTENDS Integers, FiniteSets

CONSTANTS Request,
          MaxStarts,        \* bound on the engine threads
          MaxStops,         \* bound on the calls of stop()
          JoinMayTimeOut    \* an engine step may outlast the join of stop()

ASSUME LifecycleAssumption ==
    /\ MaxStarts \in Nat
    /\ MaxStops \in Nat
    /\ JoinMayTimeOut \in BOOLEAN

VARIABLES
    thread,      \* _thread: its number, 0 for None
    loop,        \* where each engine thread is; "stopped" and "crashed" are dead
    stop_event,
    stopping,    \* _stopping
    crashed,     \* _crashed
    control,     \* where the caller of start() and stop() is
    starts, stops,
    waiting,     \* _waiting
    running,     \* the requests of _running that are not DONE
    leftover,    \* of _end_in_flight
    handle,      \* where each request's caller is
    watch,       \* the thread that the handle watches
    terminal,    \* requests whose terminal step was put
    ended,       \* the last thread whose requests _end_in_flight drained
    late         \* requests enqueued after that drain of their thread

flags == <<stop_event, stopping, crashed>>
calls == <<control, starts, stops>>
requests == <<waiting, running, leftover, terminal>>
handles == <<handle, watch, late>>
vars == <<thread, loop, flags, calls, requests, handles, ended>>

Thread == 1..MaxStarts
Alive(t) == t # 0 /\ loop[t] \in {"top", "step"}

Init ==
    /\ thread = 0
    /\ loop = [t \in Thread |-> "new"]
    /\ stop_event = FALSE
    /\ stopping = FALSE
    /\ crashed = FALSE
    /\ control = "idle"
    /\ starts = 0
    /\ stops = 0
    /\ waiting = {}
    /\ running = {}
    /\ leftover = {}
    /\ handle = [r \in Request |-> "none"]
    /\ watch = [r \in Request |-> 0]
    /\ terminal = {}
    /\ ended = 0
    /\ late = {}

-----------------------------------------------------------------------------
(* start() and stop().                                                     *)

\* Mutant: the thread that crashed leaves its requests to the next one.
StartOverCrash ==
    /\ control = "idle"
    /\ starts < MaxStarts
    /\ ~Alive(thread)
    /\ control' = "launch"
    /\ UNCHANGED <<thread, loop, flags, starts, stops, requests, handles, ended>>

\* start() with no thread alive; _end_in_flight for one that crashed.
Start ==
    /\ control = "idle"
    /\ starts < MaxStarts
    /\ ~Alive(thread)
    /\ control' = IF crashed THEN "start_drain" ELSE "launch"
    /\ UNCHANGED <<thread, loop, flags, starts, stops, requests, handles, ended>>

Launch ==
    /\ control = "launch"
    /\ stop_event' = FALSE
    /\ crashed' = FALSE
    /\ starts' = starts + 1
    /\ thread' = starts + 1
    /\ loop' = [loop EXCEPT ![starts + 1] = "top"]
    /\ control' = "idle"
    /\ UNCHANGED <<stopping, stops, requests, handles, ended>>

\* Mutant: the handles are not told that terminal steps are to come.
StopUnannounced ==
    /\ control = "idle"
    /\ stops < MaxStops
    /\ stops' = stops + 1
    /\ stop_event' = TRUE
    /\ control' = IF thread = 0 THEN "stop_end" ELSE "join"
    /\ UNCHANGED <<thread, loop, stopping, crashed, starts, requests, handles, ended>>

Stop ==
    /\ control = "idle"
    /\ stops < MaxStops
    /\ stops' = stops + 1
    /\ stopping' = TRUE
    /\ stop_event' = TRUE
    /\ control' = IF thread = 0 THEN "stop_end" ELSE "join"
    /\ UNCHANGED <<thread, loop, crashed, starts, requests, handles, ended>>

\* The join returns; is_alive() then says whether it timed out.
Join ==
    /\ control = "join"
    /\ ~Alive(thread) \/ JoinMayTimeOut
    /\ thread' = 0
    /\ control' = IF Alive(thread) THEN "stop_end" ELSE "stop_drain"
    /\ UNCHANGED <<loop, flags, starts, stops, requests, handles, ended>>

\* _end_in_flight: collect what still runs or waits.
Drain ==
    /\ control \in {"start_drain", "stop_drain"}
    /\ leftover' = running \cup waiting
    /\ waiting' = {}
    /\ ended' = starts
    /\ control' = IF control = "start_drain" THEN "start_finish" ELSE "stop_finish"
    /\ UNCHANGED <<thread, loop, flags, starts, stops, running, terminal, handles>>

\* After a crash a request ends with no terminal step.
FinishLeftover(r) ==
    /\ control \in {"start_finish", "stop_finish"}
    /\ r \in leftover
    /\ leftover' = leftover \ {r}
    /\ running' = running \ {r}
    /\ terminal' = IF crashed THEN terminal ELSE terminal \cup {r}
    /\ UNCHANGED <<thread, loop, flags, calls, waiting, handles, ended>>

\* _reap_done.
EndInFlight ==
    /\ control \in {"start_finish", "stop_finish"}
    /\ leftover = {}
    /\ control' = IF control = "start_finish" THEN "launch" ELSE "stop_end"
    /\ UNCHANGED <<thread, loop, flags, starts, stops, requests, handles, ended>>

\* Mutant: the flag stays up when stop() returns.
StopLeavesFlag ==
    /\ control = "stop_end"
    /\ control' = "idle"
    /\ UNCHANGED <<thread, loop, flags, starts, stops, requests, handles, ended>>

StopReturns ==
    /\ control = "stop_end"
    /\ stopping' = FALSE
    /\ control' = "idle"
    /\ UNCHANGED <<thread, loop, stop_event, crashed, starts, stops, requests, handles, ended>>

-----------------------------------------------------------------------------
(* The engine thread.                                                      *)

LoopTop(t) ==
    /\ loop[t] = "top"
    /\ loop' = [loop EXCEPT ![t] = IF stop_event THEN "stopped" ELSE "step"]
    /\ UNCHANGED <<thread, flags, calls, requests, handles, ended>>

Admit(r) ==
    /\ waiting' = waiting \ {r}
    /\ running' = running \cup {r}
    /\ UNCHANGED terminal

Finish(r) ==
    /\ running' = running \ {r}
    /\ terminal' = terminal \cup {r}
    /\ UNCHANGED waiting

\* What a step may do to the requests: admit one, finish one, or neither.
Step(t) ==
    /\ loop[t] = "step"
    /\ loop' = [loop EXCEPT ![t] = "top"]
    /\ \/ \E r \in waiting : Admit(r)
       \/ \E r \in running : Finish(r)
       \/ UNCHANGED <<waiting, running, terminal>>
    /\ UNCHANGED <<thread, flags, calls, leftover, handles, ended>>

Crash(t) ==
    /\ loop[t] = "step"
    /\ loop' = [loop EXCEPT ![t] = "crashed"]
    /\ crashed' = TRUE
    /\ UNCHANGED <<thread, stop_event, stopping, calls, requests, handles, ended>>

-----------------------------------------------------------------------------
(* submit() and the handle.                                                *)

Move(r, from, to) == handle[r] = from /\ handle' = [handle EXCEPT ![r] = to]

SubmitReadsThread(r) ==
    /\ Alive(thread)
    /\ Move(r, "none", "submitting")
    /\ watch' = [watch EXCEPT ![r] = thread]
    /\ UNCHANGED <<thread, loop, flags, calls, requests, late, ended>>

SubmitPuts(r) ==
    /\ Move(r, "submitting", "open")
    /\ waiting' = waiting \cup {r}
    /\ late' = IF watch[r] <= ended THEN late \cup {r} ELSE late
    /\ UNCHANGED <<thread, loop, flags, calls, running, leftover, terminal, watch, ended>>

HandleStep(r, from, to) ==
    /\ Move(r, from, to)
    /\ UNCHANGED <<thread, loop, flags, calls, requests, watch, late, ended>>

GetTerminal(r) == r \in terminal /\ HandleStep(r, "open", "done")

\* engine_alive() on an empty queue: the thread first, then _stopping.
SeesThreadDead(r) ==
    /\ r \notin terminal
    /\ ~Alive(watch[r])
    /\ HandleStep(r, "open", "thread_dead")

SeesStopping(r) == stopping /\ HandleStep(r, "thread_dead", "open")

\* Mutant: a dead thread is enough.
IgnoresStopping(r) == HandleStep(r, "thread_dead", "recheck")

SeesStopped(r) == ~stopping /\ HandleStep(r, "thread_dead", "recheck")

Recheck(r) == r \in terminal /\ HandleStep(r, "recheck", "done")

Raise(r) == r \notin terminal /\ HandleStep(r, "recheck", "error")
-----------------------------------------------------------------------------

ControlStep ==
    \/ Start \/ Launch \/ Stop \/ Join \/ Drain \/ EndInFlight \/ StopReturns
    \/ \E r \in Request : FinishLeftover(r)

\* A call of start() or stop() that began goes on.
CallStep == control # "idle" /\ ControlStep

HandleNext(r) ==
    \/ GetTerminal(r) \/ SeesThreadDead(r) \/ SeesStopping(r) \/ SeesStopped(r)
    \/ Recheck(r) \/ Raise(r)

Next ==
    \/ ControlStep
    \/ \E t \in Thread : LoopTop(t) \/ Step(t) \/ Crash(t)
    \/ \E r \in Request : SubmitReadsThread(r) \/ SubmitPuts(r) \/ HandleNext(r)

\* Calls return once the join does, the engine loop turns, a handle polls.
Spec ==
    /\ Init
    /\ [][Next]_vars
    /\ WF_vars(CallStep)
    /\ \A t \in Thread : WF_vars(LoopTop(t) \/ Step(t))
    /\ \A r \in Request : WF_vars(SubmitPuts(r)) /\ WF_vars(HandleNext(r))

-----------------------------------------------------------------------------
(* Properties.                                                             *)

TypeOK ==
    /\ thread \in 0..MaxStarts
    /\ loop \in [Thread -> {"new", "top", "step", "stopped", "crashed"}]
    /\ stop_event \in BOOLEAN /\ stopping \in BOOLEAN /\ crashed \in BOOLEAN
    /\ control \in {"idle", "launch", "join", "start_drain", "start_finish",
                    "stop_drain", "stop_finish", "stop_end"}
    /\ starts \in 0..MaxStarts /\ stops \in 0..MaxStops
    /\ waiting \subseteq Request /\ running \subseteq Request
    /\ leftover \subseteq Request /\ terminal \subseteq Request /\ late \subseteq Request
    /\ handle \in [Request -> {"none", "submitting", "open", "thread_dead", "recheck",
                               "done", "error"}]
    /\ watch \in [Request -> 0..MaxStarts]
    /\ ended \in 0..MaxStarts
    /\ running \cap waiting = {}

\* A new engine thread starts alone and with nothing in flight, after a clean
\* stop, after a crash that a stop() ended and after one that only start() saw
\* (stop(): "a later start() begins empty").
BeginsEmpty == control = "launch" => running = {} /\ \A t \in Thread : ~Alive(t)

\* A clean stop gives every request its terminal step before the handle gives
\* up on it: EngineNotRunningError means that the engine thread crashed, or
\* that the request was enqueued after the drain of _end_in_flight.
CleanStopGivesTerminal ==
    \A r \in Request :
        handle[r] = "error" => loop[watch[r]] = "crashed" \/ r \in late

\* Once a handle found its thread dead and _stopping down, nothing is put on
\* its queue any more, so its last read misses no step; only a request enqueued
\* after the drain can be served by a later engine.
NoStepAfterGone ==
    [][\A r \in Request \ late :
          handle[r] \in {"recheck", "error"} => (r \in terminal' <=> r \in terminal)]_vars

\* A handle whose engine thread is dead ends, by the terminal step or by the
\* error, whatever is started or stopped meanwhile.
HandleEnds ==
    \A r \in Request :
        (handle[r] = "open" /\ ~Alive(watch[r])) ~> handle[r] \in {"done", "error"}

\* The module docstring: a single engine thread owns the model and the batch.
SingleEngineThread == Cardinality({t \in Thread : Alive(t)}) <= 1
=============================================================================
