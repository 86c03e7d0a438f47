----------------------------- MODULE TPLockstep -----------------------------
(***************************************************************************)
(* Tensor-parallel serving of one StateCache request at a time: the server   *)
(* on every rank (engine/tp_state_cache_server.py) under the leader's FIFO    *)
(* scheduler (scheduler/tp_state_cache_scheduler.py).                        *)
(*                                                                         *)
(* The leader broadcasts a request, every rank prefills it, and before each   *)
(* next forward the leader broadcasts whether to go on and with which token.  *)
(* A rank stops at max_tokens by its own count, without a broadcast.  When      *)
(* anything of a generation raises on the leader, it fails the request and     *)
(* goes on, and tells the followers nothing.                                *)
(***************************************************************************)
EXTENDS Integers, FiniteSets, SequencesExt

CONSTANTS Request, Follower, None,
          Token,            \* what the leader samples
          MaxTokens,        \* max_tokens of each request
          Refused           \* requests with an empty prompt

ASSUME TPLAssumption ==
    /\ Token # {}
    /\ \A r \in Request : MaxTokens[r] \in Nat \ {0}
    /\ Refused \subseteq Request
    /\ "leader" \notin Follower

VARIABLES
    waiting,      \* _waiting
    current,      \* the request that _serve serves
    generated,    \* tokens_generated of each request
    finish,       \* finish_reason
    failed,       \* requests whose terminal step says failed
    submitted, cancelled,
    pc,           \* where the engine thread is
    gen,          \* the generation each rank runs: request, emitted, cache, next input
    wire,         \* broadcasts a follower has not received
    fpc,          \* where each follower is
    control,      \* where the caller of stop() and shutdown() is
    stop_event

output == <<generated, finish, failed>>
clients == <<submitted, cancelled>>
lifecycle == <<control, stop_event>>
vars == <<waiting, current, output, clients, pc, gen, wire, fpc, lifecycle>>

Leader == "leader"
Rank == Follower \cup {Leader}
Done(r) == finish[r] # "none"
NoGeneration == [request |-> None, emitted |-> 0, cache |-> <<>>, next |-> None]

Init ==
    /\ waiting = <<>>
    /\ current = None
    /\ generated = [r \in Request |-> <<>>]
    /\ finish = [r \in Request |-> "none"]
    /\ failed = {}
    /\ submitted = {}
    /\ cancelled = {}
    /\ pc = "idle"
    /\ gen = [k \in Rank |-> NoGeneration]
    /\ wire = [f \in Follower |-> <<>>]
    /\ fpc = [f \in Follower |-> "op"]
    /\ control = "idle"
    /\ stop_event = FALSE

-----------------------------------------------------------------------------
(* The server.                                                             *)

Broadcast(m) == wire' = [f \in Follower |-> Append(wire[f], m)]

\* The state in which _run_generation starts: the prompt goes in first.
Begin(r) == [request |-> r, emitted |-> 0, cache |-> <<>>, next |-> "prompt"]

\* Mutant: a follower feeds its former token.
TakenStale(g, t) == [g EXCEPT !.emitted = @ + 1]

\* A decision to go on with token t.
Taken(g, t) == [g EXCEPT !.emitted = @ + 1, !.next = t]

\* emitted >= max_new_tokens: the rank stops by itself.
Full(g) == g.emitted >= MaxTokens[g.request]

\* run_follower_loop and the broadcast inside _run_generation.  A tuple that is
\* not a decision raises in the conversion of its fields.
Receive(f) ==
    /\ fpc[f] \in {"op", "decision"}
    /\ wire[f] # <<>>
    /\ LET m == Head(wire[f])
           g == IF fpc[f] = "op" THEN Begin(m.request) ELSE Taken(gen[f], m.token)
       IN \/ /\ fpc[f] = "op" /\ m.op = "shutdown"
             /\ fpc' = [fpc EXCEPT ![f] = "left"]
             /\ UNCHANGED gen
          \/ /\ fpc[f] = "op" /\ m.op = "generate"
             /\ fpc' = [fpc EXCEPT ![f] = "forward"]
             /\ gen' = [gen EXCEPT ![f] = g]
          \/ /\ fpc[f] = "decision" /\ m.op = "decision" /\ m.cont
             /\ fpc' = [fpc EXCEPT ![f] = IF Full(g) THEN "op" ELSE "forward"]
             /\ gen' = [gen EXCEPT ![f] = IF Full(g) THEN NoGeneration ELSE g]
          \/ /\ fpc[f] = "decision" /\ m.op = "decision" /\ ~m.cont
             /\ fpc' = [fpc EXCEPT ![f] = "op"]
             /\ gen' = [gen EXCEPT ![f] = NoGeneration]
          \/ /\ (fpc[f] = "op") = (m.op = "decision")
             /\ fpc' = [fpc EXCEPT ![f] = "raised"]
             /\ UNCHANGED gen
    /\ wire' = [wire EXCEPT ![f] = Tail(@)]
    /\ UNCHANGED <<waiting, current, output, clients, pc, lifecycle>>

\* The collectives of a forward end it when every rank is in one.
Collective ==
    /\ pc = "forward"
    /\ \A f \in Follower : fpc[f] = "forward"
    /\ gen' = [k \in Rank |-> [gen[k] EXCEPT !.cache = Append(@, gen[k].next)]]
    /\ fpc' = [f \in Follower |-> "decision"]
    /\ pc' = "sample"
    /\ UNCHANGED <<waiting, current, output, clients, wire, lifecycle>>

\* A follower is still in a forward of a generation that failed on the leader.
Mixed == \E f \in Follower : fpc[f] = "forward" /\ gen[f] # gen[Leader]

\* One forward of all ranks.
Forward == Collective /\ ~Mixed

\* Where they are in different ones, the collectives may end both, or never end.
ForwardMixed == Collective /\ Mixed

-----------------------------------------------------------------------------
(* The leader's engine thread.                                             *)

Finish(r, reason) == finish' = [finish EXCEPT ![r] = reason]

\* One turn of _engine_loop: stop, or take a request.
Loop ==
    /\ pc = "idle"
    /\ \/ /\ stop_event
          /\ pc' = "exit"
          /\ UNCHANGED <<waiting, current>>
       \/ /\ ~stop_event
          /\ waiting # <<>>
          /\ current' = Head(waiting)
          /\ waiting' = Tail(waiting)
          /\ pc' = "serve"
    /\ UNCHANGED <<output, clients, gen, wire, fpc, lifecycle>>

\* The request fails; the thread goes on with the next one.
Fail ==
    /\ Finish(current, "cancelled")
    /\ failed' = failed \cup {current}
    /\ pc' = "idle"
    /\ current' = None
    /\ gen' = [gen EXCEPT ![Leader] = NoGeneration]

\* _serve up to the broadcast of generate_ids, which an empty prompt never
\* reaches.
Serve ==
    /\ pc = "serve"
    /\ \/ /\ current \in cancelled
          /\ Finish(current, "cancelled")
          /\ pc' = "idle"
          /\ current' = None
          /\ UNCHANGED <<failed, gen, wire>>
       \/ /\ current \in Refused \ cancelled
          /\ Fail
          /\ UNCHANGED wire
       \/ /\ current \notin Refused \cup cancelled
          /\ Broadcast([op |-> "generate", request |-> current])
          /\ gen' = [gen EXCEPT ![Leader] = Begin(current)]
          /\ pc' = "forward"
          /\ UNCHANGED <<finish, failed, current>>
    /\ UNCHANGED <<waiting, generated, clients, fpc, lifecycle>>

\* Mutant: the leader stops at a cancellation without a decision.
SampleSilent ==
    /\ pc = "sample"
    /\ \E t \in Token, eos \in BOOLEAN :
        LET stop == eos \/ current \in cancelled
            g == IF stop THEN gen[Leader] ELSE Taken(gen[Leader], t)
        IN /\ IF current \in cancelled THEN UNCHANGED wire
              ELSE Broadcast([op |-> "decision", cont |-> ~stop, token |-> t])
           /\ generated' = [generated EXCEPT ![current] = IF stop THEN @ ELSE Append(@, t)]
           /\ gen' = [gen EXCEPT ![Leader] = g]
           /\ pc' = IF stop \/ Full(g) THEN "ended" ELSE "forward"
    /\ UNCHANGED <<waiting, current, finish, failed, clients, fpc, lifecycle>>

\* Sample, broadcast the decision and emit: the token is the end of sequence or
\* not, and a cancellation stops like an end of sequence.
Sample ==
    /\ pc = "sample"
    /\ \E t \in Token, eos \in BOOLEAN :
        LET stop == eos \/ current \in cancelled
            g == IF stop THEN gen[Leader] ELSE Taken(gen[Leader], t)
        IN /\ Broadcast([op |-> "decision", cont |-> ~stop, token |-> t])
           /\ generated' = [generated EXCEPT ![current] = IF stop THEN @ ELSE Append(@, t)]
           /\ gen' = [gen EXCEPT ![Leader] = g]
           /\ pc' = IF stop \/ Full(g) THEN "ended" ELSE "forward"
    /\ UNCHANGED <<waiting, current, finish, failed, clients, fpc, lifecycle>>

\* A broadcast, the cache or a forward raises behind the broadcast that the
\* followers go by, sampling before the next one, or emit behind it; behind the
\* last one the followers have ended too.
GenerationFails ==
    /\ pc \in {"forward", "sample"} \/ (pc = "ended" /\ Full(gen[Leader]))
    /\ Fail
    /\ UNCHANGED <<waiting, generated, clients, wire, fpc, lifecycle>>

\* The finish reason of a generation that returned.
Reason(r) ==
    IF r \in cancelled THEN "cancelled"
    ELSE IF Len(generated[r]) >= MaxTokens[r] THEN "length" ELSE "stop"

\* generate_ids returned.
End ==
    /\ pc = "ended"
    /\ Finish(current, Reason(current))
    /\ pc' = "idle"
    /\ current' = None
    /\ gen' = [gen EXCEPT ![Leader] = NoGeneration]
    /\ UNCHANGED <<waiting, generated, failed, clients, wire, fpc, lifecycle>>

Engine == Loop \/ Serve \/ Sample \/ End

-----------------------------------------------------------------------------
(* submit(), cancel(), stop() and shutdown().                              *)

\* A join that timed out has cleared _thread too.
Submit(r) ==
    /\ r \notin submitted
    /\ pc # "exit" /\ control # "timed out"
    /\ submitted' = submitted \cup {r}
    /\ waiting' = Append(waiting, r)
    /\ UNCHANGED <<current, output, cancelled, pc, gen, wire, fpc, lifecycle>>

Cancel(r) ==
    /\ r \in submitted /\ ~Done(r)
    /\ cancelled' = cancelled \cup {r}
    /\ UNCHANGED <<waiting, current, output, submitted, pc, gen, wire, fpc, lifecycle>>

Stop ==
    /\ control = "idle"
    /\ stop_event' = TRUE
    /\ control' = "join"
    /\ UNCHANGED <<waiting, current, output, clients, pc, gen, wire, fpc>>

\* What _end_in_flight ends.
Leftover == ToSet(waiting)

\* The join returns, or times out while a generation goes on.
Join ==
    /\ control = "join"
    /\ \/ /\ pc = "exit"
          /\ finish' = [r \in Request |-> IF r \in Leftover THEN "cancelled" ELSE finish[r]]
          /\ waiting' = <<>>
          /\ control' = "joined"
       \/ /\ pc # "exit"
          /\ control' = "timed out"
          /\ UNCHANGED <<waiting, finish>>
    /\ UNCHANGED <<current, generated, failed, clients, pc, gen, wire, fpc, stop_event>>

\* The program that stopped the scheduler releases the followers.
Shutdown ==
    /\ control = "joined"
    /\ Broadcast([op |-> "shutdown"])
    /\ control' = "released"
    /\ UNCHANGED <<waiting, current, output, clients, pc, gen, fpc, stop_event>>

Next ==
    \/ Engine \/ Forward \/ ForwardMixed \/ GenerationFails
    \/ \E f \in Follower : Receive(f)
    \/ \E r \in Request : Submit(r) \/ Cancel(r)
    \/ Stop \/ Join \/ Shutdown

\* The engine thread, the followers and a stop() once called go on, and a forward
\* that all ranks run together ends.
Spec ==
    /\ Init
    /\ [][Next]_vars
    /\ WF_vars(Engine) /\ WF_vars(Forward)
    /\ \A f \in Follower : WF_vars(Receive(f))
    /\ WF_vars(Join) /\ WF_vars(Shutdown)

-----------------------------------------------------------------------------
(* Properties.                                                             *)

Message ==
    [op : {"shutdown"}] \cup [op : {"generate"}, request : Request]
    \cup [op : {"decision"}, cont : BOOLEAN, token : Token]

Generation == [request : Request \cup {None}, emitted : Nat,
               cache : Seq(Token \cup {"prompt"}), next : Token \cup {"prompt", None}]

\* Every variable has its type.
TypeOK ==
    /\ waiting \in Seq(Request)
    /\ current \in Request \cup {None}
    /\ generated \in [Request -> Seq(Token)]
    /\ finish \in [Request -> {"none", "cancelled", "stop", "length"}]
    /\ failed \subseteq Request
    /\ cancelled \subseteq submitted /\ submitted \subseteq Request
    /\ pc \in {"idle", "serve", "forward", "sample", "ended", "exit"}
    /\ gen \in [Rank -> Generation]
    /\ wire \in [Follower -> Seq(Message)]
    /\ fpc \in [Follower -> {"op", "forward", "decision", "left", "raised"}]
    /\ control \in {"idle", "join", "timed out", "joined", "released"}
    /\ stop_event \in BOOLEAN

\* "every rank feeds the same token into the next forward": ranks that meet in
\* a forward run one generation with one cache, one count and one input, which
\* are the request's prompt and the tokens its client got.
SameForward ==
    pc = "forward" =>
        /\ LET g == gen[Leader]
           IN g.cache \o <<g.next>> = <<"prompt">> \o generated[current]
        /\ \A f \in Follower : fpc[f] = "forward" /\ wire[f] = <<>> => gen[f] = gen[Leader]

\* Requests whose generation failed on the leader before its last token.
LeftBehind == {r \in failed \ Refused : Len(generated[r]) < MaxTokens[r]}

\* After a stop() whose join returns every follower is out of its loop: it read
\* the shutdown as such, or some generation failed on the leader, and the follower
\* read a later message as a decision it still waited for, or stays in a forward
\* that the leader left.
FollowersLeave ==
    control = "joined" ~>
        [](\A f \in Follower :
              fpc[f] = "left" \/ (LeftBehind # {} /\ fpc[f] \in {"raised", "forward"}))

\* Every request that was submitted ends, a cancelled one and one whose own
\* generation fails too, unless the thread exits before it is its turn, or an
\* earlier generation that failed left the followers behind.
EveryRequestEnds ==
    \A r \in Request : r \in submitted ~> Done(r) \/ pc = "exit" \/ LeftBehind # {}
=============================================================================
