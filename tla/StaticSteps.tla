----------------------------- MODULE StaticSteps -----------------------------
(***************************************************************************)
(* Steps replayed from a CUDA graph: PagedDecodeGraph, PagedPrefillGraph,   *)
(* PagedKVCache.begin_static_step and end_static_step, plan_static_step and *)
(* DeviceTokens, under the scheduler's asynchronous steps.                  *)
(*                                                                         *)
(* The host builds a step in pinned staging memory and enqueues copies, the *)
(* plan and the replay on a stream; the device runs the stream in order,    *)
(* later.  A copy reads the staging memory when it runs, so the host waits  *)
(* for an event before it writes there again.  An event is modelled by what *)
(* it waits for: the operations of that buffer still in the stream.         *)
(*                                                                         *)
(* Data.  A token is <<request, position>>, or <<Prefix, position>> inside  *)
(* the prompt prefix all requests share; positions count from 0.  The K/V   *)
(* and the next token of a row are right when its position is its token's   *)
(* and it reads exactly the tokens before its own, else Junk.  Which free   *)
(* or evictable block the pool hands out is left open by taking the least.  *)
(***************************************************************************)
EXTENDS Integers, FiniteSets, SequencesExt, Segments

CONSTANTS Requests,       \* bound: number of requests, served in any order
          MaxConcurrent,  \* ContinuousScheduler._max_concurrent
          NumBlocks, BlockSize,
          PrefixBlocks,   \* full blocks of the prompt prefix that is shared
          PromptLen,      \* length of every prompt
          MaxLen,         \* bound: longest slot
          Chunk,          \* chunk_size of the prefill
          Headroom,       \* _decode_headroom, blocks
          DecodeBuckets, PrefillBuckets, MaxRequests

ASSUME StaticStepsAssumption ==
    /\ {Requests, MaxConcurrent, NumBlocks, BlockSize, Chunk, MaxRequests} \subseteq Nat \ {0}
    /\ Headroom \in Nat
    /\ PrefixBlocks \in Nat /\ PrefixBlocks * BlockSize < PromptLen
    /\ PromptLen \in Nat /\ MaxLen \in Nat /\ PromptLen <= MaxLen
    /\ DecodeBuckets \cup PrefillBuckets \subseteq Nat \ {0}

RequestId == 1..Requests
Prefix == 0
Junk == <<-1, -1>>

\* A bucket of a graph; each graph took a scratch block when it was captured.
Graph == [kind : {"decode"}, rows : DecodeBuckets]
             \cup [kind : {"prefill"}, rows : PrefillBuckets]
Eager == [kind |-> "eager", rows |-> 0]

Scratch(kind) == IF kind = "decode" \/ DecodeBuckets = {} THEN NumBlocks ELSE NumBlocks - 1
Block == 1..NumBlocks
Pool == Block \ {Scratch(b.kind) : b \in Graph}
Address == Block \X (0..(BlockSize - 1))

\* PagedPrefillGraph.slots; a decode step has a slot per row.
SlotsOf(b) == IF b.kind = "decode" THEN b.rows
              ELSE IF MaxRequests + 1 < b.rows THEN MaxRequests + 1 ELSE b.rows

Capacity(b) == NumBlocks + SlotsOf(b) + b.rows

\* _graph_wrapper: one wrapper per shape, whichever graph the step belongs to.
WrapperOf(b) == <<SlotsOf(b), b.rows>>
Wrapper == {WrapperOf(b) : b \in Graph}

VARIABLES
    todo,       \* requests not admitted yet
    slots,      \* the cache's slots: [req, blocks, n, published]
    cached,     \* PrefixCache: the block under each key, 0 when there is none
    deferred,   \* _DeferredTokens.requests: whose ids the last forward sampled
    phase,      \* "idle", "staged", or "read" (the wait for the previous ids)
    step,       \* the step staged: its bucket or Eager, new tokens per slot,
                \* and the rows its ids come from when they stay on the device
    staging,    \* pinned host memory of the inputs, per bucket
    layout,     \* pinned host memory of StaticStep, per bucket
    stream,     \* operations enqueued and not run
    device      \* inputs, table, plan: the buffers of a step, per bucket or
                \* wrapper; sampled: the ids the last forward sampled; mem: the
                \* pool's storage; wanted: the ids it should have sampled (ghost)

host == <<todo, slots, cached, deferred, phase, step, staging, layout>>
staticVars == <<host, stream, device>>

Text(r, p) == IF p < PrefixBlocks * BlockSize THEN <<Prefix, p>> ELSE <<r, p>>
Successor(t) == IF t = Junk THEN Junk ELSE <<t[1], t[2] + 1>>

BlocksFor(n) == (n + BlockSize - 1) \div BlockSize
SmallestOf(S) == CHOOSE x \in S : \A y \in S : x <= y
LargestOf(S) == CHOOSE x \in S : \A y \in S : y <= x

\* Every request's prompt starts with the same PrefixBlocks full blocks.
Key(r, i) == IF i <= PrefixBlocks THEN <<Prefix, i>> ELSE <<r, i>>
PromptKeys == {Key(r, i) : r \in RequestId, i \in 1..(PromptLen \div BlockSize)}

EmptyInputs(b) == [ids |-> [i \in 1..b.rows |-> Junk], pos |-> [i \in 1..b.rows |-> 0],
                   last |-> [k \in 1..SlotsOf(b) |-> 1]]
EmptyLayout == [write |-> <<>>, qo |-> <<>>, indptr |-> <<>>, indices |-> <<>>, last |-> <<>>]
NoStep == [bucket |-> Eager, count |-> <<>>, rows |-> <<>>]

StaticInit ==
    /\ todo = RequestId
    /\ slots = <<>>
    /\ cached = [k \in PromptKeys |-> 0]
    /\ deferred = <<>>
    /\ phase = "idle"
    /\ step = NoStep
    /\ staging = [b \in Graph |-> EmptyInputs(b)]
    /\ layout = [b \in Graph |-> EmptyLayout]
    /\ stream = <<>>
    /\ device = [inputs |-> [b \in Graph |-> EmptyInputs(b)],
                 table |-> [b \in Graph |-> EmptyLayout],
                 plan |-> [w \in Wrapper |-> EmptyLayout],
                 sampled |-> <<>>, wanted |-> <<>>, mem |-> [a \in Address |-> Junk]]

-----------------------------------------------------------------------------
(* The pool, the prefix cache and the slots; PagedKV has them in detail.    *)

Used == UNION {ToSet(slots[k].blocks) : k \in 1..Len(slots)}
Cached == {cached[key] : key \in PromptKeys} \ {0}

\* What BlockPool.allocate hands out from now on, in its order: the free
\* blocks, then the cached ones that no slot uses, evicted.
Supply == InOrder(Pool \ (Used \cup Cached)) \o InOrder(Cached \ Used)

Available == Len(Supply)

\* The blocks each slot asks for in a step with these new tokens.
Lacking(count) ==
    [k \in 1..Len(slots) |->
        LET more == BlocksFor(slots[k].n + count[k]) - Len(slots[k].blocks)
        IN IF more > 0 THEN more ELSE 0]

OutOfMemory(count) == Total(Lacking(count)) > Available

\* The prefix cache without the blocks that were handed out.
Evict(given) == [key \in PromptKeys |-> IF cached[key] \in given THEN 0 ELSE cached[key]]

\* The slots advanced and their blocks allocated, slot by slot.
Reserved(count) ==
    LET lacking == Lacking(count)
        from == Bounds(lacking)
    IN [slots |-> [k \in 1..Len(slots) |->
            [slots[k] EXCEPT !.n = @ + count[k],
                             !.blocks = @ \o SubSeq(Supply, from[k] + 1, from[k + 1])]],
        cached |-> Evict(ToSet(SubSeq(Supply, 1, Total(lacking))))]

\* allocate raised at slot j, and the scheduler rolled back: the slots before
\* j return to their length, j keeps the blocks it got.
RolledBack(count) ==
    LET from == Bounds(Lacking(count))
        j == SegmentAt(from, Available + 1)
        blocks(k) == IF k < j THEN SubSeq(slots[k].blocks, 1, BlocksFor(slots[k].n))
                     ELSE IF k = j THEN slots[k].blocks \o SubSeq(Supply, from[k] + 1, Available)
                     ELSE slots[k].blocks
    IN [slots |-> [k \in 1..Len(slots) |-> [slots[k] EXCEPT !.blocks = blocks(k)]],
        cached |-> Evict(ToSet(Supply))]

FilledPrompt(n) == (IF n < PromptLen THEN n ELSE PromptLen) \div BlockSize

\* _publish_filled_blocks for every slot s, in order: the first one with a key
\* that is not cached yet publishes its block, and the others take the block
\* that is cached then.
Published(r) ==
    LET fills(s, i) == s.published < i /\ i <= FilledPrompt(s.n)
        sources(key) == {k \in 1..Len(r.slots) : /\ fills(r.slots[k], key[2])
                                                 /\ Key(r.slots[k].req, key[2]) = key}
        now == [key \in PromptKeys |->
                   IF r.cached[key] # 0 \/ sources(key) = {} THEN r.cached[key]
                   ELSE r.slots[SmallestOf(sources(key))].blocks[key[2]]]
        swapped(s) == [i \in 1..Len(s.blocks) |->
                          IF fills(s, i) THEN now[Key(s.req, i)] ELSE s.blocks[i]]
    IN [slots |-> [k \in 1..Len(r.slots) |->
            [r.slots[k] EXCEPT !.blocks = swapped(r.slots[k]),
                               !.published = FilledPrompt(r.slots[k].n)]],
        cached |-> now]

\* The prefix blocks of a prompt that are cached, one token at least left over.
Hits(r) ==
    LargestOf({i \in 0..((PromptLen - 1) \div BlockSize) :
                  \A j \in 1..i : cached[Key(r, j)] # 0})

-----------------------------------------------------------------------------
(* What begin_static_step and page_index build for slots ss that advanced   *)
(* by count; and the device's reading of it.                                *)

PagesOf(n) == IF n = 0 THEN 1 ELSE BlocksFor(n)
LastPageLen(n) == IF n = 0 THEN 1 ELSE ((n - 1) % BlockSize) + 1
AddressOf(blocks, p) == <<blocks[(p \div BlockSize) + 1], p % BlockSize>>

Layout(ss, count) ==
    [write |-> Flat([k \in 1..Len(ss) |->
        [j \in 1..count[k] |-> AddressOf(ss[k].blocks, ss[k].n - count[k] + j - 1)]]),
     qo |-> Bounds(count),
     indptr |-> Bounds([k \in 1..Len(ss) |-> PagesOf(ss[k].n)]),
     indices |-> Flat([k \in 1..Len(ss) |-> SubSeq(ss[k].blocks, 1, PagesOf(ss[k].n))]),
     last |-> [k \in 1..Len(ss) |-> LastPageLen(ss[k].n)]]

\* A padding slot with q rows: it writes and reads scratch pages only.
PaddingSlot(b, q) == [blocks |-> [i \in 1..PagesOf(q) |-> Scratch(b.kind)], n |-> q]

\* Each padding slot takes a row while they last, the last one the rest.
PaddingRows(b, count) ==
    LET left == b.rows - Total(count)
        free == SlotsOf(b) - Len(count)
    IN [i \in 1..free |-> IF i = free /\ left >= free THEN left - free + 1
                          ELSE IF i <= left THEN 1 ELSE 0]

StaticLayout(b, ss, count) ==
    LET padding == PaddingRows(b, count)
        pads == [i \in 1..Len(padding) |-> PaddingSlot(b, padding[i])]
    IN Layout([k \in 1..Len(ss) |-> [blocks |-> ss[k].blocks, n |-> ss[k].n]] \o pads,
              count \o padding)

\* What begin_static_step checks before it advances a slot, and at its end.
Fits(b, ss, count) ==
    /\ Len(count) <= SlotsOf(b)
    /\ Total(count) <= b.rows
    /\ Total(count) < b.rows => Len(count) < SlotsOf(b)
    /\ Len(StaticLayout(b, ss, count).indices) <= Capacity(b)

-----------------------------------------------------------------------------
(* The host: ContinuousScheduler around forward_step_packed.                *)

\* Operations of these kinds, on bucket b, that have not run.
Pending(kinds, b) == \E i \in 1..Len(stream) : stream[i].op \in kinds /\ stream[i].bucket = b

Forwards == {i \in 1..Len(stream) : stream[i].op = "forward"}

Admit ==
    /\ phase = "idle"
    /\ deferred = <<>>
    /\ Len(slots) < MaxConcurrent
    /\ Available >= BlocksFor(PromptLen) + Headroom
    /\ \E r \in todo :
        /\ todo' = todo \ {r}
        /\ slots' = Append(slots, [req |-> r, n |-> Hits(r) * BlockSize, published |-> Hits(r),
                                   blocks |-> [i \in 1..Hits(r) |-> cached[Key(r, i)]]])
    /\ UNCHANGED <<cached, deferred, phase, step, staging, layout, stream, device>>

\* The last of _reap_done: with the last request the ids go too, unread.
StillDeferred(ss) == IF ss = <<>> THEN <<>> ELSE deferred

\* A request that finished or was cancelled is reaped: later slots move down.
Reap ==
    /\ phase = "idle"
    /\ \E k \in 1..Len(slots) : slots' = RemoveAt(slots, k)
    /\ deferred' = StillDeferred(slots')
    /\ UNCHANGED <<todo, cached, phase, step, staging, layout, stream, device>>

RowOf(r) == CHOOSE i \in 1..Len(deferred) : deferred[i] = r

\* _next_step_is_async, before the look at the waiting queue.
AllDeferred ==
    /\ slots # <<>>
    /\ \A k \in 1..Len(slots) : slots[k].n >= PromptLen /\ slots[k].req \in ToSet(deferred)

\* Any other step reads the ids first (_DeferredTokens.read).
ReadDeferred ==
    /\ phase = "idle"
    /\ deferred # <<>>
    /\ AllDeferred => Len(slots) < MaxConcurrent /\ todo # {}
    /\ Forwards = {}
    /\ deferred' = <<>>
    /\ UNCHANGED <<todo, slots, cached, phase, step, staging, layout, stream, device>>

\* The new tokens of each slot: a chunk of its prompt, or one generated id.
Counts ==
    [k \in 1..Len(slots) |->
        LET left == PromptLen - slots[k].n
        IN IF left <= 0 THEN 1 ELSE IF left < Chunk THEN left ELSE Chunk]

\* Mutant: a step may have as many requests as the bucket has slots.
HoldsFull(b, total, requests) ==
    b.rows >= total /\ requests <= SlotsOf(b)

\* PagedPrefillGraph.bucket: padding rows need a slot of their own.
Holds(b, total, requests) ==
    /\ b.rows >= total
    /\ \/ requests < SlotsOf(b)
       \/ requests = SlotsOf(b) /\ total = b.rows

\* forward_step_packed: the decode graph, the prefill graph, or the eager path.
Route(count, onDevice) ==
    LET decode == {n \in DecodeBuckets : n >= Len(count) /\ \A k \in 1..Len(count) : count[k] = 1}
        prefill == {n \in PrefillBuckets :
                      ~onDevice /\ Holds([kind |-> "prefill", rows |-> n], Total(count), Len(count))}
    IN IF decode # {} THEN [kind |-> "decode", rows |-> SmallestOf(decode)]
       ELSE IF prefill # {} THEN [kind |-> "prefill", rows |-> SmallestOf(prefill)]
       ELSE Eager

HostIds(count) == Flat([k \in 1..Len(slots) |->
                      [j \in 1..count[k] |-> Text(slots[k].req, slots[k].n + j - 1)]])
Positions(count) == Flat([k \in 1..Len(slots) |->
                      [j \in 1..count[k] |-> slots[k].n + j - 1]])

\* Mutant: the ids of the last forward are taken in row order.
LeadingRows == [k \in 1..Len(slots) |-> k]

\* DeviceTokens.rows: the row of each slot's request in the last forward.
DeviceRows == [k \in 1..Len(slots) |-> RowOf(slots[k].req)]

\* staging.zero_() and the assignments after it.
Overlay(zeros, s) == [i \in DOMAIN zeros |-> IF i <= Len(s) THEN s[i] ELSE zeros[i]]

\* _inputs_copied[b].synchronize()
InputsCopied(b) == ~Pending({"inputs", "gather"}, b)

\* replay, up to begin_static_step: fill the input staging and enqueue its
\* copies.  The ids come from the host, or from the device rows.
Stage(onDevice) ==
    /\ phase = "idle"
    /\ IF onDevice THEN deferred # <<>> /\ AllDeferred ELSE deferred = <<>> /\ slots # <<>>
    /\ \A k \in 1..Len(slots) : slots[k].n + Counts[k] <= MaxLen
    /\ \E count \in {Counts} : \E b \in {Route(count, onDevice)} :
        /\ step' = [bucket |-> b, count |-> count, rows |-> IF onDevice THEN DeviceRows ELSE <<>>]
        /\ IF b = Eager THEN UNCHANGED <<staging, stream>>
           ELSE /\ InputsCopied(b)
                /\ staging' = [staging EXCEPT ![b] =
                     LET zeros == EmptyInputs(b)
                     IN [ids |-> IF onDevice THEN zeros.ids ELSE Overlay(zeros.ids, HostIds(count)),
                         pos |-> Overlay(zeros.pos, Positions(count)),
                         last |-> Overlay(zeros.last, Tail(Bounds(count)))]]
                /\ stream' = stream \o
                     IF onDevice THEN << [op |-> "positions", bucket |-> b],
                                         [op |-> "gather", bucket |-> b, rows |-> DeviceRows] >>
                                 ELSE << [op |-> "inputs", bucket |-> b] >>
    /\ phase' = "staged"
    /\ UNCHANGED <<todo, slots, cached, deferred, layout, device>>

\* Mutant: the event of the layout copy does not cover the plan's copies.
LayoutOnly(b) == ~Pending({"layout"}, b)

\* step.copy_done.synchronize(): the copy of the layout and those of the plan.
LayoutCopied(b) == ~Pending({"layout", "plan"}, b)

\* After the forward: its decoders, whose next ids it samples (_defer_sampling).
Decoders(ss) == InOrder({k \in 1..Len(ss) : ss[k].n >= PromptLen})

ForwardOperation(ss) ==
    LET take == Decoders(ss)
    IN [op |-> "forward", bucket |-> step.bucket,
        take |-> take,
        want |-> [i \in 1..Len(take) |-> Text(ss[take[i]].req, ss[take[i]].n)],
        \* the eager path sends its arguments by value
        eager |-> IF step.bucket # Eager THEN <<>>
                  ELSE << [layout |-> Layout(ss, step.count),
                           ids |-> IF step.rows = <<>> THEN HostIds(step.count) ELSE <<>>,
                           rows |-> step.rows, pos |-> Positions(step.count),
                           last |-> Tail(Bounds(step.count))] >>]

\* begin_static_step, plan_static_step, the replay and end_static_step; or the
\* eager forward.  An asynchronous step then reads the ids of the one before.
Launch ==
    /\ phase = "staged"
    /\ ~OutOfMemory(step.count)
    /\ \E r \in {Reserved(step.count)} : \E q \in {Published(r)} :
        LET b == step.bucket
            take == Decoders(r.slots)
        IN /\ IF b = Eager
              THEN /\ stream' = Append(stream, ForwardOperation(r.slots))
                   /\ UNCHANGED layout
              ELSE /\ LayoutCopied(b)
                   /\ Fits(b, r.slots, step.count)
                   /\ layout' = [layout EXCEPT ![b] = StaticLayout(b, r.slots, step.count)]
                   /\ stream' = stream \o << [op |-> "layout", bucket |-> b],
                                             [op |-> "plan", bucket |-> b],
                                             ForwardOperation(r.slots) >>
           /\ slots' = q.slots
           /\ cached' = q.cached
           /\ deferred' = [i \in 1..Len(take) |-> r.slots[take[i]].req]
    /\ phase' = IF step.rows = <<>> THEN "idle" ELSE "read"
    /\ step' = NoStep
    /\ UNCHANGED <<todo, staging, device>>

\* _consume_deferred after an asynchronous step: only its own forward may be
\* left in the stream.
ReadPrevious ==
    /\ phase = "read"
    /\ \A i, j \in Forwards : i = j
    /\ phase' = "idle"
    /\ UNCHANGED <<todo, slots, cached, deferred, step, staging, layout, stream, device>>

\* An OutOfMemoryError: roll back, cancel the youngest prefilling request, or
\* the youngest decoding one, and reap it.
RunOutOfMemory ==
    /\ phase = "staged"
    /\ step.bucket # Eager => LayoutCopied(step.bucket)
    /\ OutOfMemory(step.count)
    /\ \E r \in {RolledBack(step.count)} :
        LET prefilling == {k \in 1..Len(slots) : slots[k].n < PromptLen}
            among == IF prefilling # {} THEN prefilling ELSE 1..Len(slots)
        IN slots' = RemoveAt(r.slots, LargestOf(among)) /\ cached' = r.cached
    /\ deferred' = StillDeferred(slots')
    /\ phase' = "idle"
    /\ step' = NoStep
    /\ UNCHANGED <<todo, staging, layout, stream, device>>

\* end_static_step(publish=False)
FailedCache(r) == r.cached

\* The plan or the replay raises, or the step is refused: the engine thread
\* dies, stop() frees every slot, and start() goes on with the same pool.
Crash ==
    /\ phase = "staged"
    /\ step.bucket # Eager
    /\ LayoutCopied(step.bucket)
    /\ ~OutOfMemory(step.count)
    /\ \E r \in {Reserved(step.count)} :
        /\ cached' = FailedCache(r)
        /\ IF Fits(step.bucket, r.slots, step.count)
           THEN /\ layout' = [layout EXCEPT ![step.bucket] =
                                StaticLayout(step.bucket, r.slots, step.count)]
                /\ LET copied == Append(stream, [op |-> "layout", bucket |-> step.bucket])
                       planned == Append(copied, [op |-> "plan", bucket |-> step.bucket])
                   IN stream' \in {copied, planned}
           ELSE UNCHANGED <<layout, stream>>
    /\ slots' = <<>>
    /\ deferred' = <<>>
    /\ phase' = "idle"
    /\ step' = NoStep
    /\ UNCHANGED <<todo, staging, device>>

-----------------------------------------------------------------------------
(* The device runs the stream in order: what operation o makes of device d, *)
(* a copy with the pinned memory as it is by then.                          *)

CopyInputs(d, o, pinned) ==
    LET now == pinned[o.bucket]
        old == d.inputs[o.bucket]
    IN [d EXCEPT !.inputs[o.bucket] =
           IF o.op = "inputs" THEN now ELSE [now EXCEPT !.ids = old.ids]]

\* The rows above the real batch keep the ids of an earlier step.
Gather(d, o) ==
    [d EXCEPT !.inputs[o.bucket].ids =
        Overlay(@, [k \in 1..Len(o.rows) |-> d.sampled[o.rows[k]]])]

CopyLayout(d, o, pinned) == [d EXCEPT !.table[o.bucket] = pinned[o.bucket]]

\* The boundaries come from the pinned host views, the pages from the device.
RunPlan(d, o, pinned) ==
    [d EXCEPT !.plan[WrapperOf(o.bucket)] =
        [pinned[o.bucket] EXCEPT !.indices = d.table[o.bucket].indices]]

\* Row i of a forward reads the pages of its slot, up to its own position.
Reads(stored, p, i) ==
    LET k == SegmentAt(p.qo, i)
        len == (p.indptr[k + 1] - p.indptr[k] - 1) * BlockSize + p.last[k]
        page(j) == p.indptr[k] + ((j - 1) \div BlockSize) + 1
    IN [j \in 1..(len - (p.qo[k + 1] - i)) |->
          IF page(j) \in DOMAIN p.indices
          THEN stored[<<p.indices[page(j)], (j - 1) % BlockSize>>] ELSE Junk]

\* Every layer writes the rows' K/V through write, then attends through p.
Run(d, o, write, p, ids, pos, lastRow) ==
    LET writers(a) == {i \in 1..Len(write) : write[i] = a}
        stored == [a \in Address |->
                      IF writers(a) = {} THEN d.mem[a] ELSE ids[LargestOf(writers(a))]]
        value(i) == IF /\ ids[i] # Junk /\ pos[i] = ids[i][2]
                       /\ Reads(stored, p, i) = [j \in 1..(ids[i][2] + 1) |-> Text(ids[i][1], j - 1)]
                    THEN ids[i] ELSE Junk
    IN [d EXCEPT !.mem = [a \in Address |->
                             IF writers(a) = {} THEN d.mem[a] ELSE value(LargestOf(writers(a)))],
                 !.sampled = [i \in 1..Len(o.take) |-> Successor(value(lastRow[o.take[i]]))],
                 !.wanted = o.want]

Replay(d, o) ==
    LET b == o.bucket
    IN Run(d, o, d.table[b].write, d.plan[WrapperOf(b)], d.inputs[b].ids, d.inputs[b].pos,
           IF b.kind = "decode" THEN [k \in 1..b.rows |-> k] ELSE d.inputs[b].last)

RunEager(d, o) ==
    LET e == o.eager[1]
        ids == IF e.rows = <<>> THEN e.ids ELSE [k \in 1..Len(e.rows) |-> d.sampled[e.rows[k]]]
    IN Run(d, o, e.layout.write, e.layout, ids, e.pos, e.last)

Ran(d, o, inputs, layouts) ==
    CASE o.op \in {"inputs", "positions"} -> CopyInputs(d, o, inputs)
      [] o.op = "gather" -> Gather(d, o)
      [] o.op = "layout" -> CopyLayout(d, o, layouts)
      [] o.op = "plan" -> RunPlan(d, o, layouts)
      [] o.op = "forward" -> IF o.bucket = Eager THEN RunEager(d, o) ELSE Replay(d, o)

Execute ==
    /\ stream # <<>>
    /\ device' = Ran(device, Head(stream), staging, layout)
    /\ stream' = Tail(stream)
    /\ UNCHANGED host

\* Every request came and went.
Rest ==
    /\ todo = {} /\ slots = <<>> /\ deferred = <<>> /\ stream = <<>> /\ phase = "idle"
    /\ UNCHANGED staticVars

StaticNext ==
    \/ Admit \/ Reap \/ ReadDeferred
    \/ Stage(TRUE) \/ Stage(FALSE)
    \/ Launch \/ ReadPrevious \/ RunOutOfMemory \/ Crash
    \/ Execute \/ Rest

StaticSpec == StaticInit /\ [][StaticNext]_staticVars

-----------------------------------------------------------------------------
(* Properties.                                                              *)

\* Once the device has caught up, every slot's positions hold the K/V of its
\* own text: no staging memory was rewritten before its copy ran, no replay ran
\* with the table, the plan or the ids of another step, no padding row wrote
\* into a block of the pool, and no block that a failed step never wrote came
\* out of the prefix cache.
SlotsHoldTheirText ==
    stream = <<>> =>
        \A k \in 1..Len(slots) : \A p \in 0..(slots[k].n - 1) :
            device.mem[AddressOf(slots[k].blocks, p)] = Text(slots[k].req, p)

\* The ids a forward samples are the next ids of the requests the scheduler
\* records for its rows, in that order (_DeferredTokens), although ids, rows and
\* positions reach the device along three ways and a slot may have gone between.
SampledIsNext == device.sampled = device.wanted

\* begin_static_step serves every step that accepts() took: the requests, the
\* rows, the padding and the pages all fit, or the engine thread dies.
AcceptedStepsFit ==
    phase = "staged" /\ step.bucket # Eager /\ ~OutOfMemory(step.count) =>
        Fits(step.bucket, Reserved(step.count).slots, step.count)
=============================================================================
