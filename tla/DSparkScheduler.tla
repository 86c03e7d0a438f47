--------------------------- MODULE DSparkScheduler ---------------------------
(***************************************************************************)
(* Speculative decoding in ContinuousScheduler                              *)
(* (scheduler/continuous_scheduler.py with engine/dspark/spec.py and         *)
(* engine/dspark/draft_cache.py): a drafter proposes a block of tokens, the   *)
(* packed forward verifies it beside plain decoders and prefills, and the     *)
(* request commits the accepted prefix and one token of the target's own.     *)
(*                                                                         *)
(* The phases that clients cannot tell apart are one action here; their       *)
(* interleavings with clients, the rows of the batch and the sampling ahead   *)
(* are ContinuousScheduler's.  Temperature 0: the target has one text per     *)
(* request, and a token is its request and its position in that text.  Any    *)
(* other token is Bad, and so is whatever the target makes of a prefix that    *)
(* is not its text.                                                        *)
(***************************************************************************)
EXTENDS Integers, Sequences, FiniteSets, SequencesExt, Selections

CONSTANTS Request, None,
          PromptLen, MaxTokens,
          EosAt,          \* the position of EOS in each request's text, or 0
          Speculates,     \* the requests whose parameters let them speculate
          BlockSize,      \* positions per block of the pool
          NumBlocks, Headroom, ChunkSize, MaxConcurrent,
          DraftBlock      \* block_size of the drafter

TokenIds == [req : Request \cup {None}, pos : Nat]

\* SpecDecodeState: the drafter's cache, the context it has not folded yet, the
\* anchor, the proposal in flight and the anchor's position.
SpecDecodeState ==
    [cache : Seq(TokenIds), context : Seq(TokenIds), anchor : TokenIds \cup {None},
     offered : Seq(TokenIds) \cup {None}, start : Nat \cup {None}]

ASSUME DSparkAssumption ==
    /\ None \notin Request /\ None \notin TokenIds
    /\ None \notin Seq(TokenIds) /\ None \notin SpecDecodeState
    /\ \A r \in Request : PromptLen[r] \in Nat \ {0}
    /\ \A r \in Request : MaxTokens[r] \in Nat \ {0}
    /\ \A r \in Request : EosAt[r] \in Nat
    /\ Speculates \subseteq Request
    /\ {BlockSize, ChunkSize, MaxConcurrent, DraftBlock} \subseteq Nat \ {0}
    /\ {NumBlocks, Headroom} \subseteq Nat

VARIABLES
    waiting,        \* _waiting
    running,        \* _running, in slot order
    state,          \* RequestState, "new" before submit
    cancel_event,
    prefilled,      \* tokens_prefilled
    generated,      \* tokens_generated
    pending,        \* pending_decode_tokens of a plain decoder
    last_logits,    \* the target's token after the last row
    spec,           \* the request's SpecDecodeState, or None
    kv, blocks,     \* the request's slot: the tokens it was fed, its blocks
    finish_reason,
    pc

vars == <<waiting, running, state, cancel_event, prefilled, generated, pending, last_logits,
          spec, kv, blocks, finish_reason, pc>>

Token(r, n) == [req |-> r, pos |-> n]
Bad == Token(None, 0)
Text(r, n) == [i \in 1..n |-> Token(r, i)]

\* The target's argmax after the tokens s.
Argmax(s) ==
    IF s # <<>> /\ s = Text(Last(s).req, Len(s)) THEN Token(Last(s).req, Len(s) + 1) ELSE Bad

IsEos(t) == t # Bad /\ t.pos = EosAt[t.req]

BlocksFor(n) == (n + BlockSize - 1) \div BlockSize
Total(f, s) == FoldLeft(LAMBDA n, r : n + f[r], 0, s)
Available == NumBlocks - Total(blocks, running)
Decoding(r) == state[r] = "decoding"
Prefilling(r) == state[r] = "prefilling"

NewSpec == [cache |-> <<>>, context |-> <<>>, anchor |-> None, offered |-> None, start |-> None]

Init ==
    /\ waiting = <<>>
    /\ running = <<>>
    /\ state = [r \in Request |-> "new"]
    /\ cancel_event = [r \in Request |-> FALSE]
    /\ prefilled = [r \in Request |-> 0]
    /\ generated = [r \in Request |-> <<>>]
    /\ pending = [r \in Request |-> None]
    /\ last_logits = [r \in Request |-> None]
    /\ spec = [r \in Request |-> None]
    /\ kv = [r \in Request |-> <<>>]
    /\ blocks = [r \in Request |-> 0]
    /\ finish_reason = [r \in Request |-> "none"]
    /\ pc = "idle"

-----------------------------------------------------------------------------
(* Clients.                                                                *)

Submit(r) ==
    /\ state[r] = "new"
    /\ state' = [state EXCEPT ![r] = "waiting"]
    /\ waiting' = Append(waiting, r)
    /\ UNCHANGED <<running, cancel_event, prefilled, generated, pending, last_logits, spec, kv,
                   blocks, finish_reason, pc>>

Cancel(r) ==
    /\ state[r] \in {"waiting", "prefilling", "decoding"}
    /\ cancel_event' = [cancel_event EXCEPT ![r] = TRUE]
    /\ UNCHANGED <<waiting, running, state, prefilled, generated, pending, last_logits, spec, kv,
                   blocks, finish_reason, pc>>

-----------------------------------------------------------------------------
(* Committing tokens.                                                      *)

\* What becomes of request r when it takes the tokens s: those emitted, and the
\* reason it ends for or "none".  EOS is not emitted.
Outcome(r, s) ==
    LET room == MaxTokens[r] - Len(generated[r])
        taken == SubSeq(s, 1, IF room < Len(s) THEN room ELSE Len(s))
        eos == {i \in DOMAIN taken : IsEos(taken[i])}
        cut == IF eos = {} THEN Len(taken) ELSE (CHOOSE i \in eos : \A j \in eos : i <= j) - 1
    IN [emitted |-> SubSeq(taken, 1, cut),
        reason |-> IF eos # {} THEN "stop"
                   ELSE IF Len(generated[r]) + cut >= MaxTokens[r] THEN "length" ELSE "none"]

\* The requests of DOMAIN o emit and end as o says, C ends as cancelled, and D
\* begins to decode.
Take(o, C, D) ==
    LET ended == {r \in DOMAIN o : o[r].reason # "none"}
    IN /\ generated' = [r \in Request |-> IF r \in DOMAIN o THEN generated[r] \o o[r].emitted
                                         ELSE generated[r]]
       /\ finish_reason' = [r \in Request |-> IF r \in ended THEN o[r].reason
                                 ELSE IF r \in C THEN "cancelled" ELSE finish_reason[r]]
       /\ state' = [r \in Request |-> IF r \in ended \cup C THEN "done"
                                       ELSE IF r \in D THEN "decoding" ELSE state[r]]

-----------------------------------------------------------------------------
(* Drafting.                                                               *)

\* The drafts that may commit besides the bonus, n tokens after the first.
Room(r, n) == IF MaxTokens[r] - n > 1 THEN MaxTokens[r] - n - 1 ELSE 0

\* A proposal of the drafter at position n: right at the offsets of R, cut to
\* the confident prefix and to the request's room.
Proposal(r, n, R, confident, room) ==
    LET block == [i \in 1..DraftBlock |-> IF i \in R THEN Token(r, n + 1 + i) ELSE Bad]
    IN SubSeq(block, 1, IF confident < room THEN confident ELSE room)

\* A retry after a failed forward reuses its proposal.
NeedsDraft(s) == s.offered = None

\* The anchor and the start of a request that reached decoding in the last step.
Anchored(r) ==
    IF spec[r].anchor # None THEN spec[r]
    ELSE [spec[r] EXCEPT !.anchor = last_logits[r], !.start = Len(kv[r])]

\* Mutant: the drafter keeps its own block.
DraftedKeepingBlock(s, offered) ==
    [s EXCEPT !.offered = offered, !.cache = @ \o s.context \o <<s.anchor>> \o offered]

\* propose_block folds the context into the drafter's cache and drops the
\* block's own entries, back to `start`.
Drafted(s, offered) ==
    [s EXCEPT !.offered = offered, !.cache = SubSeq(@ \o s.context \o <<s.anchor>> \o offered, 1, s.start)]

\* _cancel_pending, _sample_decoders and _draft_speculators.
Draft ==
    /\ pc = "idle"
    /\ running # <<>> \/ waiting # <<>>
    /\ LET live == {r \in ToSet(running) : state[r] # "done"}
           gone == {r \in live : cancel_event[r]}
           decoders == {r \in live \ gone : Decoding(r)}
           fresh == {r \in decoders : IF spec[r] = None THEN pending[r] = None
                                      ELSE spec[r].anchor = None}
           o == [r \in fresh |-> Outcome(r, <<last_logits[r]>>)]
           go == {r \in decoders : r \in fresh => o[r].reason = "none"}
           drafting == {r \in go : spec[r] # None}
       IN /\ Take(o, gone, {})
          /\ pending' = [r \in Request |-> IF r \in go \cap fresh /\ spec[r] = None
                                           THEN last_logits[r] ELSE pending[r]]
          /\ \E right \in [drafting -> SUBSET (1..DraftBlock)], confident \in [drafting -> 0..DraftBlock] :
                spec' = [r \in Request |->
                    IF r \notin drafting THEN spec[r]
                    ELSE LET s == Anchored(r)
                             n == Len(generated[r]) + IF r \in fresh THEN 1 ELSE 0
                         IN IF ~NeedsDraft(s) THEN s
                            ELSE Drafted(s, Proposal(r, s.start, right[r], confident[r], Room(r, n)))]
    /\ pc' = "admit"
    /\ UNCHANGED <<waiting, running, cancel_event, prefilled, last_logits, kv, blocks>>

-----------------------------------------------------------------------------
(* Admission.                                                              *)

\* Mutant: an oversized verify window rejects the request.
SpecBlocksAlways(r) == IF r \in Speculates THEN BlocksFor(DraftBlock + 1) + 1 ELSE 0

PlainBlocks(r) == BlocksFor(PromptLen[r]) + Headroom

\* The blocks of a verify window, unless the pool could never hold them: then
\* the request decodes plainly.
SpecBlocks(r) ==
    LET more == BlocksFor(DraftBlock + 1) + 1
    IN IF r \in Speculates /\ PlainBlocks(r) + more <= NumBlocks THEN more ELSE 0

Required(r) == PlainBlocks(r) + SpecBlocks(r)

\* _admit_waiting ends the request on the spot.
Refused(r) == cancel_event[r] \/ Required(r) > NumBlocks

\* The requests that take a seat when the first m of the queue are looked at.
Seats(m) == Cardinality({i \in 1..m : ~Refused(waiting[i])})

\* The batch becomes the requests of live and those of passed that are not refused,
\* and whoever is in neither has no slot.
Seat(live, passed) ==
    LET ended == {r \in ToSet(passed) : Refused(r)}
    IN /\ \E seated \in Without(passed, ended) :
          LET kept == ToSet(live) \cup ToSet(seated)
          IN /\ running' = live \o seated
             /\ state' = [r \in Request |-> IF r \in ToSet(seated) THEN "prefilling"
                                           ELSE IF r \in ended THEN "done" ELSE state[r]]
             /\ spec' = [r \in Request |->
                   IF r \in ToSet(seated) /\ SpecBlocks(r) > 0 THEN NewSpec
                   ELSE IF r \in kept THEN spec[r] ELSE None]
             /\ kv' = [r \in Request |-> IF r \in kept THEN kv[r] ELSE <<>>]
             /\ blocks' = [r \in Request |-> IF r \in kept THEN blocks[r] ELSE 0]
       /\ finish_reason' = [r \in Request |-> IF r \in ended THEN "cancelled" ELSE finish_reason[r]]

\* The queue without its first n, and the queue once its first, who does not fit now,
\* has gone to its end.
Rest(n) == SubSeq(waiting, n + 1, Len(waiting))
Turned(rest) == IF rest = <<>> THEN rest ELSE Append(Tail(rest), Head(rest))

\* The reap, and one pass of _admit_waiting: seat from the front of the queue
\* until the batch is full or a request does not fit now, which goes to its end.
Admit ==
    /\ pc = "admit"
    /\ \E live \in Without(running, {r \in Request : state[r] = "done"}), n \in 0..Len(waiting) :
       LET free == NumBlocks - Total(blocks, live)
           full(m) == Len(live) + Seats(m) >= MaxConcurrent
           short(m) == m < Len(waiting) /\ ~Refused(waiting[m + 1]) /\ free < Required(waiting[m + 1])
           stops(m) == m = Len(waiting) \/ full(m) \/ short(m)
       IN /\ stops(n) /\ \A m \in 0..(n - 1) : ~stops(m)
          /\ waiting' = IF full(n) THEN Rest(n) ELSE Turned(Rest(n))
          /\ Seat(live, SubSeq(waiting, 1, n))
          /\ pc' = IF running' = <<>> THEN "idle" ELSE "forward"
    /\ UNCHANGED <<cancel_event, prefilled, generated, pending, last_logits>>

-----------------------------------------------------------------------------
(* The packed forward and the verification.                                *)

\* The tokens a request contributes.
Feed(r) ==
    IF Prefilling(r)
    THEN SubSeq(Text(r, PromptLen[r]), prefilled[r] + 1,
                IF prefilled[r] + ChunkSize < PromptLen[r] THEN prefilled[r] + ChunkSize ELSE PromptLen[r])
    ELSE IF spec[r] = None THEN <<pending[r]>> ELSE <<spec[r].anchor>> \o spec[r].offered

Needed(r) ==
    LET n == BlocksFor(Len(kv[r]) + Len(Feed(r))) IN IF n > blocks[r] THEN n - blocks[r] ELSE 0

Fits == Total([r \in ToSet(running) |-> Needed(r)], running) <= Available

\* The rows before running[i]'s first token in the packed forward.
Offset(i) == Cardinality(UNION {{k} \X (1..Len(Feed(running[k]))) : k \in 1..(i - 1)})
Rows == 1..Offset(Len(running) + 1)

\* The slot that row n belongs to.
Owner(n) == CHOOSE i \in 1..Len(running) : Offset(i) < n /\ n <= Offset(i + 1)

\* The packed logits, and the packed taps: each row's own token.
PackedLogits ==
    [n \in Rows |-> LET r == running[Owner(n)]
                    IN Argmax(kv[r] \o SubSeq(Feed(r), 1, n - Offset(Owner(n))))]
Taps == [n \in Rows |-> Feed(running[Owner(n)])[n - Offset(Owner(n))]]

Slot(r) == CHOOSE i \in 1..Len(running) : running[i] = r

\* Request r's rows of a packed tensor.
Window(packed, r) == SubSeq(packed, Offset(Slot(r)) + 1, Offset(Slot(r)) + Len(Feed(r)))

\* Mutant: a match after a mismatch counts too.
AcceptedAny(window, offered) == Cardinality({i \in DOMAIN offered : window[i] = offered[i]})

\* verify_block: the length of the matching prefix.
Accepted(window, offered) ==
    LET wrong == {i \in DOMAIN offered : window[i] # offered[i]}
    IN IF wrong = {} THEN Len(offered) ELSE (CHOOSE i \in wrong : \A j \in wrong : i <= j) - 1

\* context_window: the anchor and the accepted tokens.
NextContext(taps, accepted, offered) == SubSeq(taps, 1, accepted + 1)

\* truncate_to the committed prefix.
Kept(fed, n) == SubSeq(fed, 1, n)

\* What _verify_speculators makes of a proposal, given its window of the logits.
Verdict(r, window) ==
    LET n == Accepted(window, spec[r].offered)
    IN [accepted |-> n, bonus |-> window[n + 1],
        outcome |-> Outcome(r, SubSeq(spec[r].offered, 1, n) \o <<window[n + 1]>>)]

\* The verdicts on the proposals in flight.
Verdicts(logits) ==
    [r \in {r \in ToSet(running) : spec[r] # None /\ spec[r].offered # None} |->
        Verdict(r, Window(logits, r))]

\* What the batch becomes, given its logits and the verdicts on its proposals: a
\* proposal refused in part leaves the slots and the blocks of what it committed.
Commit(logits, v) ==
    LET batch == ToSet(running)
        judged == DOMAIN v
        on == {r \in judged : v[r].outcome.reason = "none"}
        full(r) == Prefilling(r) /\ prefilled[r] + Len(Feed(r)) = PromptLen[r]
        fed(r) == kv[r] \o Feed(r)
        start(r) == spec[r].start + Len(v[r].outcome.emitted)
    IN /\ Take([r \in judged |-> v[r].outcome], {}, {r \in batch : full(r)})
       /\ prefilled' = [r \in Request |-> IF r \in batch /\ Prefilling(r)
                                         THEN prefilled[r] + Len(Feed(r)) ELSE prefilled[r]]
       /\ pending' = [r \in Request |-> IF r \in batch THEN None ELSE pending[r]]
       /\ last_logits' = [r \in Request |->
             IF r \in judged THEN None
             ELSE IF r \in batch /\ (full(r) \/ Decoding(r)) THEN Last(Window(logits, r))
             ELSE last_logits[r]]
       /\ spec' = [r \in Request |->
             IF r \in on
             THEN [spec[r] EXCEPT !.context = NextContext(Window(Taps, r), v[r].accepted, spec[r].offered),
                                  !.anchor = v[r].bonus, !.offered = None, !.start = start(r)]
             ELSE IF r \in batch /\ Prefilling(r) /\ spec[r] # None
                  THEN [spec[r] EXCEPT !.context = @ \o Window(Taps, r)]
             ELSE spec[r]]
       /\ \E slots \in {[r \in Request |-> IF r \in on THEN Kept(fed(r), start(r))
                                           ELSE IF r \in batch THEN fed(r) ELSE kv[r]]} :
             /\ kv' = slots
             /\ blocks' = [r \in Request |-> IF r \notin batch THEN blocks[r]
                               ELSE IF Len(slots[r]) < Len(fed(r)) THEN BlocksFor(Len(slots[r]))
                               ELSE blocks[r] + Needed(r)]

\* _packed_forward and _verify_speculators.
Forward ==
    /\ pc = "forward"
    /\ Fits
    /\ \E logits \in {PackedLogits} : \E v \in {Verdicts(logits)} : Commit(logits, v)
    /\ pc' = "idle"
    /\ UNCHANGED <<waiting, running, cancel_event>>

\* The request to preempt: the youngest prefiller, or else the youngest decoder.
Victim ==
    LET prefillers == {i \in 1..Len(running) : Prefilling(running[i])}
        decoders == {i \in 1..Len(running) : Decoding(running[i])}
        candidates == IF prefillers # {} THEN prefillers ELSE decoders
    IN {running[i] : i \in {i \in candidates : \A j \in candidates : j <= i}}

\* The forward ran out of blocks at slot j: every slot is rolled back, slot j
\* keeps the blocks it got, and the youngest request is cancelled and reaped.
\* Proposals stay for the retry.
Preempt ==
    /\ pc = "forward"
    /\ ~Fits
    /\ \E victim \in Victim :
       /\ LET needed == [r \in ToSet(running) |-> Needed(r)]
              before(i) == Total(needed, SubSeq(running, 1, i - 1))
              j == CHOOSE i \in 1..Len(running) : before(i) <= Available /\ before(i + 1) > Available
          IN blocks' = [r \in Request |->
                 IF r = victim THEN 0
                 ELSE IF r = running[j] THEN blocks[r] + Available - before(j)
                 ELSE IF r \in ToSet(SubSeq(running, 1, j - 1)) THEN BlocksFor(Len(kv[r]))
                 ELSE blocks[r]]
       /\ running' \in Without(running, {victim})
       /\ state' = [state EXCEPT ![victim] = "done"]
       /\ finish_reason' = [finish_reason EXCEPT ![victim] = "cancelled"]
       /\ spec' = [spec EXCEPT ![victim] = None]
       /\ kv' = [kv EXCEPT ![victim] = <<>>]
    /\ pc' = "idle"
    /\ UNCHANGED <<waiting, cancel_event, prefilled, generated, pending, last_logits>>

EngineStep == Draft \/ Admit \/ Forward \/ Preempt

Next ==
    \/ \E r \in Request : Submit(r) \/ Cancel(r)
    \/ EngineStep

\* The engine thread runs steps until it is stopped; clients owe nothing.
Spec == Init /\ [][Next]_vars /\ WF_vars(EngineStep)

-----------------------------------------------------------------------------
(* Properties.                                                             *)

Greedy == INSTANCE GreedyDecoding WITH
    Client <- Request,
    TargetText <- [r \in Request |-> [i \in 1..(MaxTokens[r] + 1) |-> Token(r, PromptLen[r] + i)]],
    MaxLen <- MaxTokens,
    EosIn <- [r \in Request |-> IF EosAt[r] > PromptLen[r] THEN EosAt[r] - PromptLen[r]
                                ELSE MaxTokens[r] + 2],
    output <- generated, reason <- finish_reason

\* Speculating or not, a request's output is the text the target alone would
\* give, whatever the drafter proposes, rejects or is preempted beside.
OutputIsGreedy == Greedy!Spec

\* (INV) of SpecDecodeState, with contents: the drafter's cache and the context
\* it has not folded yet are the target's slot, position for position; a
\* proposal in flight has folded it, also across a failed forward.
DrafterMatchesSlot ==
    \A r \in Request :
        (Prefilling(r) \/ Decoding(r)) /\ spec[r] # None =>
            /\ spec[r].cache \o (IF spec[r].offered = None THEN spec[r].context ELSE <<>>) = kv[r]
            /\ spec[r].start # None => spec[r].start = Len(kv[r])

\* "Speculation must never refuse a request that the plain path can serve."
RefusesOnlyTooBig ==
    [][\A r \in Request : state[r] = "waiting" /\ state'[r] = "done" =>
          cancel_event[r] \/ PlainBlocks(r) > NumBlocks]_vars

=============================================================================
