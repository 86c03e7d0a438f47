------------------------ MODULE StateCacheScheduler ------------------------
(***************************************************************************)
(* Continuous batching over a StateCache with shared prompt prefixes         *)
(* (scheduler/state_cache_continuous_scheduler.py,                           *)
(* cache/state_prefix_cache.py and prefill_with_prefix_cache of               *)
(* engine/state_cache_generator.py).  A row is filled by a prefill, or by the  *)
(* snapshot of a shorter prompt and a replay of the rest, and then decoded     *)
(* beside rows at other positions.                                          *)
(*                                                                         *)
(* Logits are abstracted to what the query of their token attended to.        *)
(***************************************************************************)
EXTENDS StateLayer, SequencesExt

CONSTANTS Request, None,
          Prompt,           \* the token ids of each request's prompt
          MaxTokens,        \* max_tokens of each request
          Sampled,          \* the tokens the sampler may pick for a request
          Eos,              \* eos_token_id
          Rows,             \* max_batch_size
          MaxEntries,       \* max_entries of the prefix cache
          StopCalled        \* whether stop() is called

ASSUME SchedulerAssumption ==
    /\ {Rows, MaxEntries} \subseteq Nat \ {0}
    /\ None \notin Request
    /\ \A r \in Request : Prompt[r] \in Seq(Nat) /\ MaxTokens[r] \in Nat \ {0}
    /\ Eos \in Nat /\ \A r \in Request : Sampled[r] \subseteq Nat
    /\ StopCalled \in BOOLEAN

VARIABLES
    waiting,      \* _waiting
    hand,         \* the request that an idle loop took and puts back
    slots,        \* the request of each row, or None
    position, next_token,   \* of each _Slot
    cache,        \* the rows of _cache
    logits,       \* per row, what each query of its request attended to
    filling,      \* the request being prefilled, its temporary single-row cache, how
                  \* many tokens that was fed and their logits; or None
    entries,      \* the snapshots of _prefix_cache, oldest first
    generated,    \* tokens_generated
    finish,       \* finish_reason
    submitted, cancelled,
    pc, row,      \* where the engine thread is, and in which row
    control,      \* where the caller of stop() is
    stop_event

engine == <<pc, row>>
batch == <<slots, position, next_token, cache, logits>>
output == <<generated, finish>>
clients == <<submitted, cancelled>>
lifecycle == <<control, stop_event>>
vars == <<waiting, hand, batch, filling, entries, output, clients, engine, lifecycle>>

Row == 1..Rows
Done(r) == finish[r] # "none"
Active == {i \in Row : slots[i] # None}
ThreadAlive == pc \notin {"exit", "crash"}

Init ==
    /\ waiting = <<>>
    /\ hand = None
    /\ slots = [i \in Row |-> None]
    /\ position = [i \in Row |-> 0]
    /\ next_token = [i \in Row |-> 0]
    /\ cache = [i \in Row |-> NewRow]
    /\ logits = [i \in Row |-> <<>>]
    /\ filling = None
    /\ entries = <<>>
    /\ generated = [r \in Request |-> <<>>]
    /\ finish = [r \in Request |-> "none"]
    /\ submitted = {}
    /\ cancelled = {}
    /\ pc = "top"
    /\ row = 1
    /\ control = "idle"
    /\ stop_event = FALSE

-----------------------------------------------------------------------------
(* The prefix cache.                                                       *)

\* The blocks of a compressor that a snapshot keeps, in a new cache.
Kept(c) == [c EXCEPT !.hist = [b \in DOMAIN @ |-> IF b < c.n THEN @[b] ELSE Nothing]]

\* Mutant: the snapshot is restored without its block counters.
RestoredUncounted(r) ==
    [swa |-> r.swa,
     hca |-> [r.hca EXCEPT !.main = [Kept(@) EXCEPT !.n = 0]],
     csa |-> [r.csa EXCEPT !.main = [Kept(@) EXCEPT !.n = 0],
                           !.indexer = [Kept(@) EXCEPT !.n = 0]]]

\* snapshot_from_cache, and restore_into a new single-row cache.
Restored(r) ==
    [swa |-> r.swa,
     hca |-> [r.hca EXCEPT !.main = Kept(@)],
     csa |-> [r.csa EXCEPT !.main = Kept(@), !.indexer = Kept(@)]]

\* The cached prompts that are a prefix of x.
Matches(x) == {e \in ToSet(entries) : IsPrefix(e.prompt, x)}

\* match: the longest of them.
Match(x) == CHOOSE e \in Matches(x) : \A d \in Matches(x) : Len(d.prompt) <= Len(e.prompt)

\* insert: a known prompt keeps its snapshot, a full cache drops its oldest.
Inserted(e) ==
    IF \E d \in ToSet(entries) : d.prompt = e.prompt THEN entries
    ELSE Append(IF Len(entries) >= MaxEntries THEN Tail(entries) ELSE entries, e)

\* The temporary cache of prefill_with_prefix_cache before any replay: the longest
\* snapshot that starts the prompt, or on a miss the whole prompt, prefilled.
Temporary(r) ==
    LET x == Prompt[r]
        e == Match(x)
    IN IF Matches(x) = {}
       THEN [req |-> r, fed |-> Len(x), row |-> Prefilled(x),
             logits |-> [n \in 1..Len(x) |-> AttendsPrefill(x, n - 1)]]
       ELSE [req |-> r, fed |-> Len(e.prompt), row |-> Restored(e.row), logits |-> e.logits]

-----------------------------------------------------------------------------
(* The engine thread.                                                      *)

Finish(R, reason) == finish' = [r \in Request |-> IF r \in R THEN reason ELSE finish[r]]

Loop ==
    /\ pc = "top"
    /\ pc' = IF stop_event THEN "exit" ELSE "admit"
    /\ row' = 1
    /\ UNCHANGED <<waiting, hand, batch, filling, entries, output, clients, lifecycle>>

\* _admit leaves its rows: every row is seen or nobody waits.
AdmitDone ==
    /\ pc = "admit"
    /\ row \in Row => (slots[row] = None /\ waiting = <<>>)
    /\ pc' = IF Active = {} THEN "idle" ELSE "decode"
    /\ UNCHANGED <<waiting, hand, batch, filling, entries, output, clients, row, lifecycle>>

AdmitSkip ==
    /\ pc = "admit"
    /\ row <= Rows
    /\ slots[row] # None
    /\ row' = row + 1
    /\ UNCHANGED <<waiting, hand, batch, filling, entries, output, clients, pc, lifecycle>>

Fits(r) == Len(Prompt[r]) + MaxTokens[r] <= MaxSeqLen

\* Mutant: the accumulators stay behind.
CopiedWithoutAccumulators(dst, src) ==
    LET Move(c, d) == [d EXCEPT !.n = c.n, !.acc = c.acc]
    IN [swa |-> src.swa,
        hca |-> [src.hca EXCEPT !.main = Move(dst.hca.main, @)],
        csa |-> [src.csa EXCEPT !.main = Move(dst.csa.main, @),
                                !.indexer = Move(dst.csa.indexer, @)]]

\* copy_row_from: everything but the counters, which are of the whole cache.
Copied(dst, src) ==
    LET Move(c, d) == [d EXCEPT !.n = c.n]
    IN [swa |-> src.swa,
        hca |-> [src.hca EXCEPT !.main = Move(dst.hca.main, @)],
        csa |-> [src.csa EXCEPT !.main = Move(dst.csa.main, @),
                                !.indexer = Move(dst.csa.indexer, @)]]

\* How admission ends a request that it does not prefill.
Refusal(r) ==
    CASE r \in cancelled -> "cancelled"
      [] r \notin cancelled /\ Prompt[r] = <<>> -> "stop"
      [] r \notin cancelled /\ Prompt[r] # <<>> /\ ~Fits(r) -> "length"
      [] OTHER -> "none"

\* One request for one free row.
Admit ==
    /\ pc = "admit"
    /\ row <= Rows
    /\ slots[row] = None
    /\ waiting # <<>>
    /\ waiting' = Tail(waiting)
    /\ LET r == Head(waiting)
       IN \/ /\ Refusal(r) # "none"
             /\ Finish({r}, Refusal(r))
             /\ row' = row + 1
             /\ UNCHANGED <<pc, filling>>
          \/ /\ Refusal(r) = "none"
             /\ filling' = Temporary(r)
             /\ pc' = "prefill"
             /\ UNCHANGED <<finish, row>>
    /\ UNCHANGED <<hand, batch, entries, generated, clients, lifecycle>>

\* The scalar decode step of the next token of the prompt x.
Replayed(t, x) ==
    LET r == Decoded(t.row, t.fed, x[t.fed + 1])
    IN [t EXCEPT !.row = r, !.fed = @ + 1, !.logits = Append(@, Attends(r, t.fed))]

\* A prefix hit replays the rest of its prompt token by token; an exact hit and a
\* miss have nothing to replay.
Replay ==
    /\ pc = "prefill"
    /\ filling.fed < Len(Prompt[filling.req])
    /\ filling' = Replayed(filling, Prompt[filling.req])
    /\ UNCHANGED <<waiting, hand, batch, entries, output, clients, engine, lifecycle>>

\* The snapshot of the whole prompt, the first sample and the row's copy.
Fill ==
    /\ pc = "prefill"
    /\ LET r == filling.req
           x == Prompt[r]
       IN /\ filling.fed = Len(x)
          /\ entries' = Inserted([prompt |-> x, row |-> filling.row, logits |-> filling.logits])
          /\ cache' = [cache EXCEPT ![row] = Copied(@, filling.row)]
          /\ logits' = [logits EXCEPT ![row] = filling.logits]
          /\ slots' = [slots EXCEPT ![row] = r]
          /\ position' = [position EXCEPT ![row] = Len(x)]
          /\ \E t \in Sampled[r] : next_token' = [next_token EXCEPT ![row] = t]
    /\ filling' = None
    /\ row' = row + 1
    /\ pc' = "admit"
    /\ UNCHANGED <<waiting, hand, output, clients, lifecycle>>

\* The idle loop takes an arrival ...
IdleTake ==
    /\ pc = "idle"
    /\ IF waiting = <<>>
       THEN pc' = "top" /\ UNCHANGED <<waiting, hand>>
       ELSE pc' = "put back" /\ hand' = Head(waiting) /\ waiting' = Tail(waiting)
    /\ UNCHANGED <<batch, filling, entries, output, clients, row, lifecycle>>

\* ... and puts it back, behind what was submitted meanwhile.
IdlePutBack ==
    /\ pc = "put back"
    /\ waiting' = Append(waiting, hand)
    /\ hand' = None
    /\ pc' = "top"
    /\ UNCHANGED <<batch, filling, entries, output, clients, row, lifecycle>>

Full(i) == Len(generated[slots[i]]) + 1 >= MaxTokens[slots[i]]

\* The token and position each row decodes; zeros in a free row.
Feed(i, decode) == IF i \in decode THEN <<next_token[i], position[i]>> ELSE <<0, 0>>

\* The forward of all rows and the samples of those that decode.  It raises
\* when a position is beyond the cache.
Forward(decode) ==
    LET after == [i \in Row |-> DecodedRagged(cache[i], Feed(i, decode)[2], Feed(i, decode)[1])]
        limit == Min({MaxBlocks(m) * m : m \in {Ratio["hca"], Ratio["csa"]}})
    IN IF \E i \in Row : Feed(i, decode)[2] + 1 > limit
       THEN pc' = "crash" /\ UNCHANGED <<position, next_token, cache, logits>>
       ELSE /\ pc' = "top"
            /\ cache' = after
            /\ logits' = [i \in Row |-> IF i \in decode
                                        THEN Append(logits[i], AttendsRagged(after[i], position[i]))
                                        ELSE logits[i]]
            /\ position' = [i \in Row |-> IF i \in decode THEN position[i] + 1 ELSE position[i]]
            /\ \E s \in [decode -> UNION {Sampled[slots[i]] : i \in decode}] :
                /\ \A i \in decode : s[i] \in Sampled[slots[i]]
                /\ next_token' = [i \in Row |-> IF i \in decode THEN s[i] ELSE next_token[i]]

\* _decode_step: end or emit each slot's token, then decode the rest.
DecodeStep ==
    /\ pc = "decode"
    /\ LET gone == {i \in Active : slots[i] \in cancelled}
           stop == {i \in Active \ gone : next_token[i] = Eos}
           emit == Active \ (gone \cup stop)
           full == {i \in emit : Full(i)}
           decode == emit \ full
           At(r) == CHOOSE i \in Active : slots[i] = r
           In(r, S) == \E i \in S : slots[i] = r
       IN /\ finish' = [r \in Request |->
                IF In(r, gone) THEN "cancelled" ELSE IF In(r, stop) THEN "stop"
                ELSE IF In(r, full) THEN "length" ELSE finish[r]]
          /\ generated' = [r \in Request |-> IF In(r, emit) THEN Append(generated[r], next_token[At(r)])
                                            ELSE generated[r]]
          /\ slots' = [i \in Row |-> IF i \in decode THEN slots[i] ELSE None]
          /\ IF decode = {}
             THEN pc' = "top" /\ UNCHANGED <<position, next_token, cache, logits>>
             ELSE Forward(decode)
    /\ UNCHANGED <<waiting, hand, filling, entries, clients, row, lifecycle>>

Engine ==
    Loop \/ AdmitDone \/ AdmitSkip \/ Admit \/ Replay \/ Fill \/ IdleTake \/ IdlePutBack \/ DecodeStep

-----------------------------------------------------------------------------
(* submit(), cancel() and stop().                                          *)

Submit(r) ==
    /\ r \notin submitted
    /\ ThreadAlive
    /\ submitted' = submitted \cup {r}
    /\ waiting' = Append(waiting, r)
    /\ UNCHANGED <<hand, batch, filling, entries, output, cancelled, engine, lifecycle>>

Cancel(r) ==
    /\ r \in submitted /\ ~Done(r)
    /\ cancelled' = cancelled \cup {r}
    /\ UNCHANGED <<waiting, hand, batch, filling, entries, output, submitted, engine, lifecycle>>

Stop ==
    /\ StopCalled
    /\ control = "idle"
    /\ stop_event' = TRUE
    /\ control' = "join"
    /\ UNCHANGED <<waiting, hand, batch, filling, entries, output, clients, engine>>

\* What _end_in_flight ends.
Leftover == {slots[i] : i \in Active} \cup ToSet(waiting)

\* The join returned.
Join ==
    /\ control = "join"
    /\ ~ThreadAlive
    /\ IF pc = "crash" THEN UNCHANGED finish ELSE Finish(Leftover, "cancelled")
    /\ slots' = [i \in Row |-> None]
    /\ waiting' = <<>>
    /\ control' = "stopped"
    /\ UNCHANGED <<hand, position, next_token, cache, logits, filling, entries, generated,
                   clients, engine, stop_event>>

Next ==
    \/ Engine
    \/ \E r \in Request : Submit(r) \/ Cancel(r)
    \/ Stop \/ Join

\* The engine thread and a stop() once called go on.
Spec == Init /\ [][Next]_vars /\ WF_vars(Engine) /\ WF_vars(Join)

-----------------------------------------------------------------------------
(* Properties.                                                             *)

\* The tokens fed to a row.
Fed(i) == Prompt[slots[i]] \o generated[slots[i]]

\* Every query of a request attends to the last tokens of its own text and to
\* each complete block of it, the best ones in a csa layer, and to nothing else.
QueriesSeeTheirText ==
    \A i \in Active :
        /\ Len(logits[i]) = Len(Fed(i))
        /\ \A n \in 1..Len(logits[i]) : logits[i][n] = Ideal(SubSeq(Fed(i), 1, n))

\* A snapshot holds exactly what a prefill of its prompt would leave, and its
\* logits are that prompt's, so an exact hit continues the right text.
SnapshotsHoldTheirPrompt ==
    \A e \in ToSet(entries) :
        /\ e.logits[Len(e.prompt)] = Ideal(e.prompt)
        /\ Len(e.logits) = Len(e.prompt)
        /\ e.row.hca.main.n = Len(e.prompt) \div Ratio["hca"]
        /\ e.row.csa.main.n = Len(e.prompt) \div Ratio["csa"]
        /\ e.row.csa.indexer.n = e.row.csa.main.n

=============================================================================
