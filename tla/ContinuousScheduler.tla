------------------------ MODULE ContinuousScheduler ------------------------
(***************************************************************************)
(* The engine step of ContinuousScheduler                                   *)
(* (scheduler/continuous_scheduler.py): cancel, sample, reap, admit, one     *)
(* packed forward, with the device-side sampling that runs one step ahead    *)
(* (async_sampling) and the preemption that follows a forward that ran out   *)
(* of blocks.  Plain decoding: no speculation, no prefix cache.             *)
(*                                                                         *)
(* One engine thread runs the phases in order, under `pc`; API threads       *)
(* submit and cancel between any two of them.  A batch row and a cache slot  *)
(* are the same index, counted from 1 here, and every removal shifts it.    *)
(*                                                                         *)
(* Data.  A token is its request and its position in that request's text,   *)
(* so a token fed, sampled or emitted twice, skipped, or taken from another  *)
(* row is a different value from the right one.  A slot is the tokens it     *)
(* was fed and the number of blocks it holds.                               *)
(***************************************************************************)
EXTENDS Integers, Sequences, FiniteSets, SequencesExt, Selections

CONSTANTS Request,        \* requests clients may submit, each once
          PromptLen,      \* PromptLen[r]: tokens of r's prompt, 0 if empty
          MaxTokens,      \* MaxTokens[r]: max_tokens of r
          NumBlocks,      \* blocks in the pool
          Scratch,        \* of those, the scratch blocks of the CUDA graphs
          BlockSize,      \* positions per block
          ChunkSize,      \* prompt tokens one forward may take from a request
          Headroom,       \* decode_headroom_blocks
          MaxConcurrent,  \* max_concurrent
          AsyncSampling,  \* async_sampling
          None

ASSUME SchedulerAssumption ==
    /\ IsFiniteSet(Request)
    /\ PromptLen \in [Request -> Nat]
    /\ MaxTokens \in [Request -> Nat \ {0}]
    /\ NumBlocks \in Nat
    /\ Scratch \in Nat
    /\ BlockSize \in Nat \ {0}
    /\ ChunkSize \in Nat \ {0}
    /\ Headroom \in Nat
    /\ MaxConcurrent \in Nat \ {0}
    /\ AsyncSampling \in BOOLEAN
    /\ None \notin Request \cup Nat \cup {"stop", "length", "cancelled"}
    /\ None \notin [req : Request \cup {None}, pos : Nat, eos : BOOLEAN]
    /\ \A D \in SUBSET Request :
          None \notin [D -> [req : Request \cup {None}, pos : Nat, eos : BOOLEAN]]

VARIABLES
    waiting,           \* _waiting
    running,           \* _running, in admission order
    state,             \* RequestState, "new" before submit
    cancel_event,      \* set by API threads
    batch_idx,         \* the request's row, None before admission
    tokens_prefilled,
    tokens_generated,  \* emitted tokens, one output step each
    pending,           \* pending_decode_tokens: emitted, not fed yet
    last_logits,       \* the token whose row gave the request's logits
    finish_reason,
    terminals,         \* terminal steps put on the request's output queue
    slots,             \* _batched_cache
    deferred,          \* _deferred: tokens sampled on the device, by request
    snapshot,          \* _pre_forward_seq_lens
    pc                 \* the phase of the engine step

queues == <<waiting, running>>
progress == <<tokens_prefilled, tokens_generated, pending, last_logits>>
ending == <<state, finish_reason, terminals>>
cache == <<slots, batch_idx, snapshot>>
vars == <<queues, progress, ending, cache, cancel_event, deferred, pc>>

TokenOf(r, n, e) == [req |-> r, pos |-> n, eos |-> e]

\* A position an append claimed and did not write.
Unwritten == TokenOf(None, 0, FALSE)

Tokens == [req : Request \cup {None}, pos : Nat, eos : BOOLEAN]

\* The requests of _running in a set, in admission order.
RunningIn(R) == Selected(running, {i \in 1..Len(running) : running[i] \in R})

Prefilling(r) == state[r] \in {"prefilling", "chunked_prefilling"}
Decoding(r) == state[r] = "decoding"

\* Requests of _running that hold a row of the next forward, in row order.
Alive == RunningIn({r \in Request : state[r] # "done"})

Seated == Cardinality({r \in ToSet(running) : state[r] # "done"})

BlocksFor(n) == (n + BlockSize - 1) \div BlockSize

TotalOf(q) == FoldLeft(+, 0, q)

Available == NumBlocks - Scratch - TotalOf([i \in 1..Len(slots) |-> slots[i].blocks])

Init ==
    /\ waiting = <<>>
    /\ running = <<>>
    /\ state = [r \in Request |-> "new"]
    /\ cancel_event = [r \in Request |-> FALSE]
    /\ batch_idx = [r \in Request |-> None]
    /\ tokens_prefilled = [r \in Request |-> 0]
    /\ tokens_generated = [r \in Request |-> <<>>]
    /\ pending = [r \in Request |-> None]
    /\ last_logits = [r \in Request |-> None]
    /\ finish_reason = [r \in Request |-> None]
    /\ terminals = [r \in Request |-> 0]
    /\ slots = <<>>
    /\ deferred = None
    /\ snapshot = None
    /\ pc = "idle"

-----------------------------------------------------------------------------
(* API threads.                                                            *)

Submit(r) ==
    /\ state[r] = "new"
    /\ state' = [state EXCEPT ![r] = "waiting"]
    /\ waiting' = Append(waiting, r)
    /\ UNCHANGED <<running, progress, finish_reason, terminals, cache, cancel_event, deferred, pc>>

Cancel(r) ==
    /\ state[r] # "new"
    /\ ~cancel_event[r]
    /\ cancel_event' = [cancel_event EXCEPT ![r] = TRUE]
    /\ UNCHANGED <<queues, progress, ending, cache, deferred, pc>>

-----------------------------------------------------------------------------
(* What several phases share.                                              *)

\* _finish, of every request in `reason`'s domain: DONE, and one terminal step.
Finish(reason) ==
    LET D == DOMAIN reason
    IN /\ state' = [r \in Request |-> IF r \in D THEN "done" ELSE state[r]]
       /\ finish_reason' = [r \in Request |-> IF r \in D THEN reason[r] ELSE finish_reason[r]]
       /\ terminals' = [r \in Request |-> terminals[r] + IF r \in D THEN 1 ELSE 0]

\* How _consume_token ends the request that takes t, None if it goes on.
Ends(r, t) ==
    IF t.eos THEN "stop"
    ELSE IF Len(tokens_generated[r]) + 1 >= MaxTokens[r] THEN "length" ELSE None

\* _consume_token for the requests of R, each taking its token of `next`.
Consume(R, next) ==
    /\ tokens_generated' = [r \in Request |->
          IF r \in R /\ ~next[r].eos THEN Append(tokens_generated[r], next[r])
          ELSE tokens_generated[r]]
    /\ Finish([r \in {x \in R : Ends(x, next[x]) # None} |-> Ends(r, next[r])])

\* Mutant: every removal shifts every surviving row.
ReapShiftsAll(D, held) ==
    LET rows == {batch_idx[r] : r \in {x \in D : batch_idx[x] # None}}
        left == RunningIn(Request \ D)
    IN /\ running' = left
       /\ slots' = Selected(held, (1..Len(held)) \ rows)
       /\ batch_idx' = [r \in Request |-> IF r \in ToSet(left) THEN batch_idx[r] - Cardinality(rows)
                                         ELSE batch_idx[r]]
       /\ deferred' = IF left = <<>> THEN None ELSE deferred

\* _reap_done of the finished requests D, over the slots `held`: highest row
\* first, each removal shifts the rows above it.
Reap(D, held) ==
    LET rows == {batch_idx[r] : r \in {x \in D : batch_idx[x] # None}}
        left == RunningIn(Request \ D)
    IN /\ running' = left
       /\ slots' = Selected(held, (1..Len(held)) \ rows)
       /\ batch_idx' = [r \in Request |->
             IF r \in ToSet(left)
             THEN batch_idx[r] - Cardinality({i \in rows : i < batch_idx[r]})
             ELSE batch_idx[r]]
       /\ deferred' = IF left = <<>> THEN None ELSE deferred

Finished == {r \in ToSet(running) : state[r] = "done"}

-----------------------------------------------------------------------------
(* One engine step, up to the forward.                                     *)

CancelledNow == {r \in ToSet(running) : cancel_event[r] /\ state[r] # "done"}

\* An engine with nothing to do only waits.
CancelPending ==
    /\ pc = "idle"
    /\ running # <<>> \/ waiting # <<>>
    /\ Finish([r \in CancelledNow |-> "cancelled"])
    /\ pc' = IF deferred # None THEN "choose" ELSE "sample"
    /\ UNCHANGED <<queues, progress, cache, cancel_event, deferred>>

\* Mutant: one row that can run ahead is enough.
AsyncIfAny ==
    /\ \E r \in ToSet(Alive) : /\ Decoding(r)
                               /\ pending[r] = None
                               /\ r \in DOMAIN deferred
    /\ Len(Alive) >= MaxConcurrent \/ waiting = <<>>

\* Every row can take its next token from the last forward, unread, and
\* nothing can be admitted.
NextStepIsAsync ==
    /\ Alive # <<>>
    /\ \A r \in ToSet(Alive) : /\ Decoding(r)
                               /\ pending[r] = None
                               /\ r \in DOMAIN deferred
    /\ Len(Alive) >= MaxConcurrent \/ waiting = <<>>

ChooseStep ==
    /\ pc = "choose"
    /\ Reap(Finished, slots)
    /\ pc' = IF NextStepIsAsync THEN "async" ELSE "sample"
    /\ UNCHANGED <<waiting, progress, ending, cancel_event, snapshot>>

\* A row's logits give the token after the one that was fed last.
SampleFrom(r, ends) == TokenOf(last_logits[r].req, last_logits[r].pos + 1, r \in ends)

Decoders == {r \in ToSet(running) : Decoding(r)}

\* Mutant: sample for every decoder, also for one that resends.
FreshAll == Decoders

\* A decoder that resends its pending token does not sample again.
Fresh == {r \in Decoders : pending[r] = None}

SampleDecoders ==
    /\ pc = "sample"
    /\ LET fresh == Fresh
           read == IF deferred = None THEN {} ELSE fresh \cap DOMAIN deferred
       IN \E ends \in SUBSET (fresh \ read) :
            LET next == [r \in fresh |-> IF r \in read THEN deferred[r] ELSE SampleFrom(r, ends)]
            IN /\ Consume(fresh, next)
               /\ pending' = [r \in Request |->
                     IF r \in fresh /\ Ends(r, next[r]) = None THEN next[r] ELSE pending[r]]
    /\ deferred' = None
    /\ pc' = "reap"
    /\ UNCHANGED <<queues, tokens_prefilled, last_logits, cache, cancel_event>>

ReapFinished ==
    /\ pc \in {"reap", "reap_rejected"}
    /\ Reap(Finished, slots)
    /\ pc' = IF pc = "reap" THEN "admit" ELSE "forward"
    /\ UNCHANGED <<waiting, progress, ending, cancel_event, snapshot>>

\* The requests admission ends on the spot go through _running to the reap.
EndAtAdmission(r, reason) ==
    /\ waiting' = Tail(waiting)
    /\ running' = Append(running, r)
    /\ Finish([x \in {r} |-> reason])
    /\ UNCHANGED <<progress, cache, cancel_event, deferred, pc>>

Required(r) == BlocksFor(PromptLen[r]) + Headroom

\* Mutant: wait for blocks even when the pool can never hold the request.
NeverTooBig(r) == FALSE

\* The test counts the scratch blocks, which no request can have.
TooBig(r) == Required(r) > NumBlocks

Admitting == pc = "admit" /\ Seated < MaxConcurrent /\ waiting # <<>>

AdmitCancelled ==
    /\ Admitting
    /\ cancel_event[Head(waiting)]
    /\ EndAtAdmission(Head(waiting), "cancelled")

AdmitEmpty ==
    /\ Admitting
    /\ ~cancel_event[Head(waiting)]
    /\ PromptLen[Head(waiting)] = 0
    /\ EndAtAdmission(Head(waiting), "stop")

\* No pool state could ever hold the request.
AdmitRejected ==
    /\ Admitting
    /\ ~cancel_event[Head(waiting)]
    /\ PromptLen[Head(waiting)] # 0
    /\ TooBig(Head(waiting))
    /\ EndAtAdmission(Head(waiting), "cancelled")

Admissible(r) == ~cancel_event[r] /\ PromptLen[r] # 0 /\ ~TooBig(r)

Requeued == Append(Tail(waiting), Head(waiting))

\* The pool is short now: the request goes to the back of the queue.
AdmitLater ==
    /\ Admitting
    /\ Admissible(Head(waiting))
    /\ Available < Required(Head(waiting))
    /\ waiting' = Requeued
    /\ pc' = "reap_rejected"
    /\ UNCHANGED <<running, progress, ending, cache, cancel_event, deferred>>

AdmitSeat ==
    /\ Admitting
    /\ LET r == Head(waiting)
       IN /\ Admissible(r)
          /\ Available >= Required(r)
          /\ slots' = Append(slots, [kv |-> <<>>, blocks |-> 0])
          /\ batch_idx' = [batch_idx EXCEPT ![r] = Len(slots) + 1]
          /\ state' = [state EXCEPT ![r] = "prefilling"]
          /\ running' = Append(running, r)
          /\ waiting' = Tail(waiting)
    /\ UNCHANGED <<progress, finish_reason, terminals, snapshot, cancel_event, deferred, pc>>

AdmitDone ==
    /\ pc = "admit"
    /\ Seated >= MaxConcurrent \/ waiting = <<>>
    /\ pc' = "reap_rejected"
    /\ UNCHANGED <<queues, progress, ending, cache, cancel_event, deferred>>

-----------------------------------------------------------------------------
(* The packed forward.                                                     *)

\* Blocks each slot still needs for the tokens it is fed.
Demand(feed) == [i \in 1..Len(slots) |->
    LET short == BlocksFor(Len(slots[i].kv) + Len(feed[i])) - slots[i].blocks
    IN IF short > 0 THEN short ELSE 0]

Fits(feed) == TotalOf(Demand(feed)) <= Available

\* Row i of the batch goes to slot i of the cache.
AppendTokens(feed) ==
    slots' = [i \in 1..Len(slots) |-> [kv |-> slots[i].kv \o feed[i],
                                       blocks |-> slots[i].blocks + Demand(feed)[i]]]

\* The pool runs out at slot j: the slots before it claim positions that hold no
\* data, slot j keeps the blocks it got.
AppendFails(feed) ==
    LET before(n) == TotalOf(SubSeq(Demand(feed), 1, n))
    IN \E j \in 1..Len(slots) :
        /\ before(j - 1) <= Available
        /\ before(j) > Available
        /\ slots' = [i \in 1..Len(slots) |->
              CASE i < j -> [kv |-> slots[i].kv \o [k \in 1..Len(feed[i]) |-> Unwritten],
                             blocks |-> slots[i].blocks + Demand(feed)[i]]
                [] i = j -> [slots[i] EXCEPT !.blocks = @ + Available - before(j - 1)]
                [] i > j -> slots[i]]

OutOfMemory(feed) ==
    /\ ~Fits(feed)
    /\ AppendFails(feed)
    /\ snapshot' = [i \in 1..Len(slots) |-> Len(slots[i].kv)]
    /\ pc' = "oom"
    /\ UNCHANGED <<queues, progress, ending, batch_idx, cancel_event, deferred>>

\* The tokens request r contributes: its next prompt chunk or its pending token.
Chunk(r) ==
    LET room == PromptLen[r] - tokens_prefilled[r]
    IN [k \in 1..(IF room < ChunkSize THEN room ELSE ChunkSize) |->
           TokenOf(r, tokens_prefilled[r] + k, FALSE)]

Feed(r) == IF Prefilling(r) THEN Chunk(r) ELSE <<pending[r]>>

Packed == LET rows == Alive IN [i \in 1..Len(rows) |-> Feed(rows[i])]

\* A decoder takes the logits of its last row; a prefiller does when its
\* prompt is complete.
Forward ==
    /\ pc = "forward"
    /\ Alive # <<>>
    /\ Fits(Packed)
    /\ AppendTokens(Packed)
    /\ LET batch == ToSet(Alive)
           filled(r) == tokens_prefilled[r] + Len(Feed(r))
           decoders == {r \in batch : Decoding(r) \/ filled(r) = PromptLen[r]}
           row(r) == Last(Feed(r))
       IN /\ tokens_prefilled' = [r \in Request |->
                IF r \in batch /\ Prefilling(r) THEN filled(r) ELSE tokens_prefilled[r]]
          /\ state' = [r \in Request |->
                CASE r \in decoders -> "decoding"
                  [] r \in batch \ decoders -> "chunked_prefilling"
                  [] OTHER -> state[r]]
          /\ last_logits' = [r \in Request |-> IF r \in decoders THEN row(r) ELSE last_logits[r]]
          /\ pending' = [r \in Request |-> IF r \in batch THEN None ELSE pending[r]]
          /\ \E ends \in SUBSET decoders :
                deferred' = IF AsyncSampling /\ decoders # {}
                            THEN [r \in decoders |-> TokenOf(row(r).req, row(r).pos + 1, r \in ends)]
                            ELSE None
    /\ pc' = "idle"
    /\ UNCHANGED <<queues, tokens_generated, finish_reason, terminals, batch_idx, snapshot,
                   cancel_event>>

ForwardFails == pc = "forward" /\ Alive # <<>> /\ OutOfMemory(Packed)

NothingToForward ==
    /\ pc = "forward"
    /\ Alive = <<>>
    /\ pc' = "idle"
    /\ UNCHANGED <<queues, progress, ending, cache, cancel_event, deferred>>

\* The rows take the tokens of the last forward from the device.  The host reads
\* those tokens after this forward has sampled its own.
AsyncFeed == LET rows == Alive IN [i \in 1..Len(rows) |-> <<deferred[rows[i]]>>]

\* Mutant: emit the token of every row of the last forward.
ReadAll == DOMAIN deferred

\* Requests that take their token of the last forward: plain decoders still,
\* with nothing to resend.
ReadNow == {r \in DOMAIN deferred : Decoding(r) /\ pending[r] = None}

AsyncForward ==
    /\ pc = "async"
    /\ Fits(AsyncFeed)
    /\ AppendTokens(AsyncFeed)
    /\ LET batch == ToSet(Alive)
       IN /\ last_logits' = [r \in Request |-> IF r \in batch THEN deferred[r] ELSE last_logits[r]]
          /\ \E ends \in SUBSET batch :
                deferred' = [r \in batch |-> TokenOf(deferred[r].req, deferred[r].pos + 1, r \in ends)]
          /\ Consume(ReadNow, deferred)
    /\ pc' = "idle"
    /\ UNCHANGED <<queues, tokens_prefilled, pending, batch_idx, snapshot, cancel_event>>

AsyncForwardFails == pc = "async" /\ OutOfMemory(AsyncFeed)

-----------------------------------------------------------------------------
(* _preempt_on_oom: roll every slot back, cancel the youngest prefiller, or   *)
(* the youngest decoder, and reap it.                                      *)

\* Mutant: leave the claimed positions to the retry.
NotRolledBack == slots

RolledBack == [i \in 1..Len(slots) |->
    IF snapshot[i] < Len(slots[i].kv)
    THEN [kv |-> SubSeq(slots[i].kv, 1, snapshot[i]), blocks |-> BlocksFor(snapshot[i])]
    ELSE slots[i]]

Candidates ==
    LET prefillers == RunningIn({r \in Request : Prefilling(r)})
    IN IF prefillers # <<>> THEN prefillers ELSE RunningIn({r \in Request : Decoding(r)})

Preempt ==
    /\ pc = "oom"
    /\ Candidates # <<>>
    /\ Finish([r \in {Last(Candidates)} |-> "cancelled"])
    /\ Reap(Finished \cup {Last(Candidates)}, RolledBack)
    /\ snapshot' = None
    /\ pc' = "idle"
    /\ UNCHANGED <<waiting, progress, cancel_event>>

-----------------------------------------------------------------------------

EngineStep ==
    \/ CancelPending \/ ChooseStep \/ SampleDecoders \/ ReapFinished
    \/ AdmitCancelled \/ AdmitEmpty \/ AdmitRejected \/ AdmitLater \/ AdmitSeat \/ AdmitDone
    \/ Forward \/ ForwardFails \/ NothingToForward \/ AsyncForward \/ AsyncForwardFails
    \/ Preempt

Next ==
    \/ \E r \in Request : Submit(r)
    \/ \E r \in Request : Cancel(r)
    \/ EngineStep

\* The engine thread runs steps until it is stopped; clients owe nothing.
Spec == Init /\ [][Next]_vars /\ WF_vars(EngineStep)

-----------------------------------------------------------------------------
(* Properties.                                                             *)

InFlight(r) == state[r] \in {"prefilling", "chunked_prefilling", "decoding"}

\* Every variable has its type; blocks are counted by the run only.
TypeOK ==
    /\ waiting \in Seq(Request) /\ running \in Seq(Request)
    /\ state \in [Request -> {"new", "waiting", "prefilling", "chunked_prefilling",
                              "decoding", "done"}]
    /\ cancel_event \in [Request -> BOOLEAN]
    /\ batch_idx \in [Request -> Nat \cup {None}]
    /\ tokens_prefilled \in [Request -> Nat]
    /\ tokens_generated \in [Request -> Seq(Tokens)]
    /\ pending \in [Request -> Tokens \cup {None}]
    /\ last_logits \in [Request -> Tokens \cup {None}]
    /\ finish_reason \in [Request -> {None, "stop", "length", "cancelled"}]
    /\ terminals \in [Request -> Nat]
    /\ slots \in Seq(ToSet(slots))
    /\ \A i \in 1..Len(slots) : /\ slots[i] = [kv |-> slots[i].kv, blocks |-> slots[i].blocks]
                                 /\ slots[i].kv \in Seq(Tokens)
    /\ deferred # None =>
          DOMAIN deferred \subseteq Request /\ deferred \in [DOMAIN deferred -> Tokens]
    /\ pc \in {"idle", "choose", "sample", "reap", "admit", "reap_rejected", "forward", "async",
               "oom"}

\* The rows of the batch and the slots of the cache are the same list: the
\* requests of _running that have a row have the rows 1, 2, ... in admission
\* order, one slot each, whichever of them a cancel, an EOS, a length limit or
\* a preemption removed (_packed_forward asserts it row by row, and a wrong row
\* writes K/V at another request's positions).
RowsMatchSlots ==
    LET seated == RunningIn({r \in Request : batch_idx[r] # None})
    IN /\ Len(seated) = Len(slots)
       /\ \A i \in 1..Len(seated) : batch_idx[seated[i]] = i

\* A request's output is the tokens its own prompt leads to, one per position,
\* in order: no token is sampled twice after a preemption, none is skipped or
\* taken from another row by the step that runs ahead, and max_tokens holds.
EveryTokenOnce ==
    \A r \in Request :
        /\ Len(tokens_generated[r]) <= MaxTokens[r]
        /\ \A j \in 1..Len(tokens_generated[r]) :
              tokens_generated[r][j] = TokenOf(r, PromptLen[r] + j, FALSE)

\* Between forwards, the slot of a request in flight holds its prompt and its
\* output up to what it still has to feed; during the recovery from a failed
\* forward this is what the snapshot bounds.
SlotHoldsItsRequest ==
    \A r \in Request : InFlight(r) =>
        LET kv == slots[batch_idx[r]].kv
            n == IF pc = "oom" THEN snapshot[batch_idx[r]] ELSE Len(kv)
        IN /\ \A i \in 1..n : kv[i] = TokenOf(r, i, FALSE)
           /\ n = IF Prefilling(r) THEN tokens_prefilled[r]
                  ELSE PromptLen[r] + Len(tokens_generated[r])
                         - (IF pending[r] = None THEN 0 ELSE 1)

\* Whatever enters a forward has a token for every row: a prefiller has prompt
\* left at the slot's length, a decoder its pending token, and every row of a
\* step that runs ahead has its token on the device and nothing to resend.
InputsReady ==
    /\ pc = "forward" => \A r \in ToSet(Alive) :
          /\ Prefilling(r) => tokens_prefilled[r] < PromptLen[r]
          /\ Decoding(r) => pending[r] # None
    /\ pc = "async" => \A r \in ToSet(Alive) :
          Decoding(r) /\ pending[r] = None /\ r \in DOMAIN deferred

\* The terminal step is the last one: nothing is emitted after it, although a
\* step that ran ahead still holds a row of the finished request.
NothingAfterTerminal ==
    [][\A r \in Request : terminals[r] > 0 =>
          /\ terminals'[r] = terminals[r]
          /\ tokens_generated'[r] = tokens_generated[r]]_vars

\* A request that is not refused, though the blocks beside the scratch blocks
\* are too few for it.
Stubborn(r) == Required(r) \in (NumBlocks - Scratch + 1)..NumBlocks

\* Every submitted request ends, whatever is preempted, rejected, put back in
\* the queue or cancelled, except a stubborn one, which is put back for ever.
EveryRequestEnds ==
    \A r \in Request : state[r] = "waiting" /\ ~Stubborn(r) ~> state[r] = "done"

\* "the request fits in principle": one that is put back until running requests
\* free blocks leaves the queue (_admit_waiting).
PutBackLeaves ==
    \A r \in Request : state[r] = "waiting" ~> state[r] # "waiting"
=============================================================================
