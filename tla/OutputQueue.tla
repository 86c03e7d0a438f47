---------------------------- MODULE OutputQueue ----------------------------
(***************************************************************************)
(* The output stream of one request: the bounded StepQueue between the       *)
(* engine, which never blocks on it (_emit, _finish of                      *)
(* scheduler/continuous_scheduler.py), and the RequestHandle that drains it  *)
(* from an API thread (get_step) or an event loop (get_step_async), both of  *)
(* scheduler/request_state.py.                                             *)
(*                                                                         *)
(* Every access to the queue, the listener, the asyncio event and the        *)
(* liveness of the engine is a step of its own.  An intermediate step is its *)
(* number, the terminal step is End.  `engine` is what engine_alive()        *)
(* reports; module EngineLifecycle shows why "gone" means no later put.      *)
(***************************************************************************)
EXTENDS Integers, Sequences, SequencesExt

CONSTANTS Capacity,   \* DEFAULT_OUTPUT_QUEUE_SIZE
          MaxSteps,   \* bound on the intermediate steps
          End

ASSUME QueueAssumption ==
    /\ Capacity \in Nat \ {0}
    /\ MaxSteps \in Nat
    /\ End \notin Nat

VARIABLES
    queue,      \* output_queue
    sent,       \* intermediate steps the engine produced
    finished,   \* the request is DONE: its terminal step was produced
    item,       \* the step the engine is putting
    producer,   \* where the engine is in the put
    engine,     \* "running", or "gone" for good
    listener,   \* the listener of the call in progress is set
    heard,      \* the put in progress read that listener
    scheduled,  \* its call_soon_threadsafe callback is queued on the loop
    ready,      \* the asyncio.Event of the call in progress
    reader,     \* where the handle is
    received    \* steps the caller got

putting == <<sent, finished, item, producer, engine>>
waking == <<listener, heard, scheduled, ready>>
queueVars == <<queue, putting, waking, reader, received>>

QueueInit ==
    /\ queue = <<>>
    /\ sent = 0
    /\ finished = FALSE
    /\ item = End
    /\ producer = "idle"
    /\ engine = "running"
    /\ listener = FALSE
    /\ heard = FALSE
    /\ scheduled = FALSE
    /\ ready = FALSE
    /\ reader = "idle"
    /\ received = <<>>

-----------------------------------------------------------------------------
(* The engine.                                                             *)

StartPut(step) ==
    /\ producer = "idle"
    /\ engine = "running"
    /\ ~finished
    /\ item' = step
    /\ producer' = "put"
    /\ UNCHANGED <<queue, engine, waking, reader, received>>

Emit ==
    /\ sent < MaxSteps
    /\ sent' = sent + 1
    /\ StartPut(sent + 1)
    /\ UNCHANGED finished

FinishStream ==
    /\ finished' = TRUE
    /\ StartPut(End)
    /\ UNCHANGED sent

\* Mutant: the put that follows a drop does not call the listener.
RetrySilently ==
    /\ producer \in {"put", "retry"}
    /\ \/ /\ Len(queue) < Capacity
          /\ queue' = Append(queue, item)
          /\ producer' = IF producer = "put" THEN "notify" ELSE "idle"
       \/ /\ Len(queue) >= Capacity
          /\ queue' = queue
          /\ producer' = IF producer = "put" THEN "drop" ELSE "idle"
    /\ UNCHANGED <<sent, finished, item, engine, waking, reader, received>>

\* put_nowait; the second one gives up on a queue that is still full.
Put ==
    /\ producer \in {"put", "retry"}
    /\ \/ /\ Len(queue) < Capacity
          /\ queue' = Append(queue, item)
          /\ producer' = "notify"
       \/ /\ Len(queue) >= Capacity
          /\ queue' = queue
          /\ producer' = IF producer = "put" THEN "drop" ELSE "idle"
    /\ UNCHANGED <<sent, finished, item, engine, waking, reader, received>>

\* Mutant: no room is made for the step.
NothingDropped ==
    /\ producer = "drop"
    /\ producer' = "retry"
    /\ UNCHANGED <<queue, sent, finished, item, engine, waking, reader, received>>

\* The reader may have emptied the queue meanwhile.
DropOldest ==
    /\ producer = "drop"
    /\ queue' = IF queue = <<>> THEN queue ELSE Tail(queue)
    /\ producer' = "retry"
    /\ UNCHANGED <<sent, finished, item, engine, waking, reader, received>>

\* StepQueue.put after the step is in the queue: read the listener, then call it.
ReadListener ==
    /\ producer = "notify"
    /\ heard' = listener
    /\ producer' = IF listener THEN "call" ELSE "idle"
    /\ UNCHANGED <<queue, sent, finished, item, engine, listener, scheduled, ready, reader,
                   received>>

\* The listener of a call that ended meanwhile sets an event nobody waits for.
CallListener ==
    /\ producer = "call"
    /\ scheduled' = (scheduled \/ heard)
    /\ producer' = "idle"
    /\ UNCHANGED <<queue, sent, finished, item, engine, listener, heard, ready, reader, received>>

\* The engine thread exits, after a crash or for good after a stop.
EngineExits ==
    /\ producer = "idle"
    /\ engine = "running"
    /\ engine' = "gone"
    /\ UNCHANGED <<queue, sent, finished, item, producer, waking, reader, received>>

-----------------------------------------------------------------------------
(* The reader.                                                             *)

\* The call in progress ends: its listener goes, and what was queued for its
\* event sets an event nobody waits for.
EndCall ==
    /\ listener' = FALSE
    /\ heard' = FALSE
    /\ scheduled' = FALSE
    /\ ready' = FALSE

Take ==
    /\ queue # <<>>
    /\ received' = Append(received, Head(queue))
    /\ queue' = Tail(queue)
    /\ reader' = IF Head(queue) = End THEN "done" ELSE "idle"
    /\ EndCall
    /\ UNCHANGED putting

GoTo(place) == reader' = place /\ UNCHANGED <<queue, putting, received>>

\* get_step.  queue.get blocks until a step is there or a poll slice is over.
CallGetStep == reader = "idle" /\ GoTo("get") /\ UNCHANGED waking

GetStep == reader = "get" /\ Take

PollSlice == reader = "get" /\ queue = <<>> /\ GoTo("alive") /\ UNCHANGED waking

\* get_step_async: a fresh event, and the listener before the first read.
CallGetStepAsync ==
    /\ reader = "idle"
    /\ listener' = TRUE
    /\ GoTo("clear")
    /\ UNCHANGED <<heard, scheduled, ready>>

Clear ==
    /\ reader = "clear"
    /\ ready' = FALSE
    /\ GoTo("read")
    /\ UNCHANGED <<listener, heard, scheduled>>

ReadNoWait == reader = "read" /\ Take

ReadEmpty == reader = "read" /\ queue = <<>> /\ GoTo("wait") /\ UNCHANGED waking

\* The loop runs its callbacks while the reader awaits.
RunCallback ==
    /\ reader = "wait"
    /\ scheduled
    /\ scheduled' = FALSE
    /\ ready' = TRUE
    /\ UNCHANGED <<queue, putting, listener, heard, reader, received>>

Wake == reader = "wait" /\ ready /\ GoTo("clear") /\ UNCHANGED waking

PollSliceAsync == reader = "wait" /\ GoTo("alive") /\ UNCHANGED waking

\* The client disconnects: the task is cancelled where it awaits.
Disconnect == reader = "wait" /\ GoTo("left") /\ EndCall

\* _after_empty_poll: the engine may still send a step, so the call goes on,
\* or its deadline is over.
StillAlive ==
    /\ reader = "alive"
    /\ engine = "running"
    /\ \/ GoTo(IF listener THEN "clear" ELSE "get") /\ UNCHANGED waking
       \/ ~listener /\ GoTo("idle") /\ UNCHANGED waking

\* Mutant: raise on the liveness read alone.
NotAliveRaises == reader = "alive" /\ engine = "gone" /\ GoTo("error") /\ UNCHANGED waking

NotAlive == reader = "alive" /\ engine = "gone" /\ GoTo("recheck") /\ UNCHANGED waking

\* The engine may have put its last step after the empty read.
ReadOnceMore == reader = "recheck" /\ Take

\* Mutant: report that a step can still come.
KeepsPolling == reader = "recheck" /\ queue = <<>> /\ GoTo("get") /\ EndCall

\* EngineNotRunningError.
RaiseNotRunning == reader = "recheck" /\ queue = <<>> /\ GoTo("error") /\ EndCall

-----------------------------------------------------------------------------

PutStep == Put \/ DropOldest \/ ReadListener \/ CallListener

ReaderStep ==
    \/ CallGetStep \/ GetStep \/ PollSlice
    \/ CallGetStepAsync \/ Clear \/ ReadNoWait \/ ReadEmpty \/ Wake \/ PollSliceAsync
    \/ StillAlive \/ NotAlive \/ ReadOnceMore \/ RaiseNotRunning

QueueNext ==
    \/ Emit \/ FinishStream \/ EngineExits \/ PutStep
    \/ RunCallback \/ Disconnect \/ ReaderStep

\* A put does not block, and a caller of steps() or wait() keeps reading.
QueueSpec ==
    /\ QueueInit
    /\ [][QueueNext]_queueVars
    /\ WF_queueVars(PutStep)
    /\ WF_queueVars(ReaderStep)

-----------------------------------------------------------------------------
(* Properties.                                                             *)

QueueTypeOK ==
    /\ queue \in Seq(Nat \cup {End}) /\ Len(queue) <= Capacity
    /\ sent \in 0..MaxSteps
    /\ item \in Nat \cup {End}
    /\ producer \in {"idle", "put", "drop", "retry", "notify", "call"}
    /\ engine \in {"running", "gone"}
    /\ finished \in BOOLEAN /\ listener \in BOOLEAN /\ heard \in BOOLEAN
    /\ scheduled \in BOOLEAN /\ ready \in BOOLEAN
    /\ reader \in {"idle", "get", "clear", "read", "wait", "alive", "recheck", "done", "left",
                   "error"}
    /\ received \in Seq(Nat \cup {End})

\* What the caller got and what is still queued are the engine's steps in
\* order, and the terminal step of a finished request is the last of them: an
\* overflow costs intermediate steps only, although the engine drops without
\* looking at what it drops (_emit, _finish).
TerminalStepKept ==
    LET stream == received \o queue
    IN /\ \A i, j \in 1..Len(stream) : i < j =>
             stream[i] # End /\ (stream[j] = End \/ stream[i] < stream[j])
       /\ finished /\ producer \notin {"put", "drop", "retry"} =>
             stream # <<>> /\ Last(stream) = End

\* An asyncio reader never sleeps on a queue that holds a step without a wakeup
\* on its way: its event is set, or the callback is queued on the loop, or the
\* put is about to call the listener it read (the StepQueue docstring).
NoLostWakeup ==
    reader = "wait" /\ queue # <<>> =>
        ready \/ scheduled \/ producer = "notify" \/ (producer = "call" /\ heard)

\* EngineNotRunningError comes after every step the engine put: buffered steps
\* first, the terminal step included, and nothing comes after it.
ErrorAfterLastStep ==
    reader = "error" =>
        /\ engine = "gone" /\ queue = <<>> /\ producer = "idle"
        /\ ~finished

\* A caller that keeps reading ends, with the terminal step or with the error,
\* once the request is finished or the engine thread is gone.
ReaderEnds == (finished \/ engine = "gone") ~> (reader \in {"done", "error", "left"})

=============================================================================
