------------------------------ MODULE PagedKV ------------------------------
(***************************************************************************)
(* The paged KV cache: BlockPool (cache/block_pool.py), PrefixCache         *)
(* (cache/prefix_cache.py) and PagedKVCache (cache/paged_kv_cache.py).      *)
(*                                                                         *)
(* One engine thread owns all three, so operations never interleave.  Each  *)
(* loop of the code is still a sequence of steps here, one per iteration,   *)
(* under the control state `pc`: an allocation that fails in the middle of  *)
(* a step leaves exactly the state the code leaves, and the roll back of    *)
(* ContinuousScheduler._roll_back_partial_append starts from there.         *)
(*                                                                         *)
(* Data.  The K/V of a position depends on every token before it, so the    *)
(* content of a position is modelled as the whole token prefix it was       *)
(* computed on; a hash of the chain hash_block(parent, tokens) is the token *)
(* prefix it stands for (the chain is injective: hash collisions are left   *)
(* out).  Positions and blocks of a slot count from 1.                      *)
(***************************************************************************)
EXTENDS Naturals, Sequences, FiniteSets, SequencesExt

CONSTANTS Slot,        \* names of request slots
          Token,       \* token ids
          Sampled,     \* bound: the token ids sampling may pick
          Prompt,      \* prompts a request may carry
          NumBlocks,   \* size of the pool
          BlockSize,   \* positions per block
          MaxLen,      \* bound: longest slot
          MaxChunk,    \* bound: most tokens one step appends to one slot
          None, Absent

ASSUME PagedKVAssumption ==
    /\ IsFiniteSet(Slot)
    /\ Sampled \subseteq Token
    /\ Prompt \subseteq Seq(Token)
    /\ NumBlocks \in Nat
    /\ BlockSize \in Nat \ {0}
    /\ MaxLen \in Nat
    /\ MaxChunk \in Nat
    /\ None \notin Seq(Token)
    /\ Absent \notin Seq(Token)
    /\ None \notin Slot

Block == 1..NumBlocks

VARIABLES
    free_list,   \* BlockPool._free_list; allocate pops its end
    key,         \* PrefixCache: key[b] is the token prefix b is cached under
    ref,         \* PrefixCache: _CacheEntry.refcount
    evictable,   \* PrefixCache._evictable, oldest first
    content,     \* the K/V the pool stores at <<block, offset>>
    batch,       \* live slots in batch_idx order
    prompt,      \* _slot_prompt_tokens
    blocks,      \* _block_ids
    len,         \* _num_tokens
    published,   \* _slot_num_published
    parent,      \* _slot_parent_hash
    pc,          \* the loop the engine thread is in, "idle" between operations
    cur,         \* index into batch of the loop over slots
    busy,        \* the slot an add, a truncation or a removal works on
    goal,        \* blocks that operation ends with
    need,        \* tokens each slot appends in the step in progress
    snapshot     \* lengths before that step (_pre_forward_seq_lens)

pool == <<free_list, key, ref, evictable>>
tables == <<batch, prompt, blocks, len, published, parent>>
control == <<pc, cur, busy, goal, need, snapshot>>
vars == <<pool, content, tables, control>>

Garbage == <<>>

Live == ToSet(batch)
NoTokens == [s \in Slot |-> 0]

\* Blocks that n tokens occupy.
BlocksFor(n) == (n + BlockSize - 1) \div BlockSize

\* The chained hash of the first k full blocks of p.
ChainKey(p, k) == SubSeq(p, 1, k * BlockSize)

IsCached(b) == key[b] # None

-----------------------------------------------------------------------------

Init ==
    /\ free_list = [i \in 1..NumBlocks |-> i]
    /\ key = [b \in Block |-> None]
    /\ ref = [b \in Block |-> 0]
    /\ evictable = <<>>
    /\ content = [x \in Block \X (0..BlockSize - 1) |-> Garbage]
    /\ batch = <<>>
    /\ prompt = [s \in Slot |-> <<>>]
    /\ blocks = [s \in Slot |-> <<>>]
    /\ len = [s \in Slot |-> 0]
    /\ published = [s \in Slot |-> 0]
    /\ parent = [s \in Slot |-> <<>>]
    /\ pc = "idle"
    /\ cur = 1
    /\ busy = None
    /\ goal = 0
    /\ need = NoTokens
    /\ snapshot = NoTokens

-----------------------------------------------------------------------------
(* PrefixCache and BlockPool operations.                                   *)

\* Mutant: a pinned block stays in the LRU order.
IncrefStaysEvictable(b) == ref' = [ref EXCEPT ![b] = @ + 1] /\ UNCHANGED evictable

\* PrefixCache._incref: a block leaves the LRU order when it is pinned again.
Incref(b) ==
    /\ ref' = [ref EXCEPT ![b] = @ + 1]
    /\ IF ref[b] = 0
       THEN \E i \in 1..Len(evictable) :
                evictable[i] = b /\ evictable' = RemoveAt(evictable, i)
       ELSE UNCHANGED evictable

\* Mutant: free returns cached blocks to the free list too.
FreePastCache(b) == free_list' = Append(free_list, b) /\ UNCHANGED <<key, ref, evictable>>

\* BlockPool.free: a cached block loses one reference, and is evictable at none.
Free(b) ==
    /\ UNCHANGED key
    /\ \/ /\ IsCached(b)
          /\ ref' = [ref EXCEPT ![b] = @ - 1]
          /\ evictable' = IF ref[b] = 1 THEN Append(evictable, b) ELSE evictable
          /\ UNCHANGED free_list
       \/ /\ ~IsCached(b)
          /\ free_list' = Append(free_list, b)
          /\ UNCHANGED <<ref, evictable>>

\* BlockPool.allocate from the free list, or by evicting the oldest
\* unreferenced cached block.
AllocateFree(b) ==
    /\ free_list # <<>>
    /\ b = free_list[Len(free_list)]
    /\ free_list' = Front(free_list)
    /\ UNCHANGED <<key, ref, evictable>>

AllocateEvict(b) ==
    /\ free_list = <<>>
    /\ evictable # <<>>
    /\ b = Head(evictable)
    /\ evictable' = Tail(evictable)
    /\ key' = [key EXCEPT ![b] = None]
    /\ UNCHANGED <<free_list, ref>>

Allocate(b) == AllocateFree(b) \/ AllocateEvict(b)

OutOfMemory == free_list = <<>> /\ evictable = <<>>

-----------------------------------------------------------------------------
(* add_request_slot: look the prompt up, then pin one matched block per     *)
(* step.  The code fills the table and the counters after its loop, the     *)
(* model as it goes: nothing runs in between.                               *)

\* Numbers of leading full blocks of p that are all cached (PrefixCache.lookup
\* returns the largest).
Matches(p) == {n \in 0..(Len(p) \div BlockSize) :
                  \A k \in 1..n : \E b \in Block : key[b] = ChainKey(p, k)}

\* Mutant: use every block that matched.
AllMatches(p, n) == n

\* The last-token rule: a fully cached prompt gives one block back.
UsableMatches(p, n) == IF n > 0 /\ n * BlockSize >= Len(p) THEN n - 1 ELSE n

AddRequestSlot(s, p) ==
    /\ pc = "idle"
    /\ s \notin Live
    /\ batch' = Append(batch, s)
    /\ prompt' = [prompt EXCEPT ![s] = p]
    /\ \E n \in Matches(p) :
        /\ \A m \in Matches(p) : m <= n
        /\ goal' = UsableMatches(p, n)
    /\ pc' = "hit"
    /\ busy' = s
    /\ UNCHANGED <<pool, content, blocks, len, published, parent, cur, need, snapshot>>

PinMatch ==
    /\ pc = "hit"
    /\ published[busy] < goal
    /\ LET k == published[busy] + 1
           h == ChainKey(prompt[busy], k)
       IN \E b \in Block :
            /\ key[b] = h
            /\ Incref(b)
            /\ blocks' = [blocks EXCEPT ![busy] = Append(@, b)]
            /\ len' = [len EXCEPT ![busy] = k * BlockSize]
            /\ snapshot' = [snapshot EXCEPT ![busy] = k * BlockSize]
            /\ published' = [published EXCEPT ![busy] = k]
            /\ parent' = [parent EXCEPT ![busy] = h]
    /\ UNCHANGED <<free_list, key, content, batch, prompt, pc, cur, busy, goal, need>>

SlotReady ==
    /\ pc = "hit"
    /\ published[busy] = goal
    /\ pc' = "idle"
    /\ busy' = None
    /\ goal' = 0
    /\ UNCHANGED <<pool, content, tables, cur, need, snapshot>>

-----------------------------------------------------------------------------
(* One packed forward: reserve positions slot by slot, write the K/V,       *)
(* publish the prompt blocks that filled.                                   *)

\* The tokens a forward may give slot s: none, a chunk that stays inside the
\* prompt, or generated tokens after it.
ChunkSizes(s) ==
    {n \in 0..MaxChunk :
        /\ s \in Live \/ n = 0
        /\ len[s] + n <= MaxLen
        /\ len[s] < Len(prompt[s]) => len[s] + n <= Len(prompt[s])}

BeginStep ==
    /\ pc = "idle"
    /\ \E n \in [Slot -> 0..MaxChunk] :
        /\ \A s \in Slot : n[s] \in ChunkSizes(s)
        /\ \E s \in Slot : n[s] > 0
        /\ need' = n
    /\ pc' = "reserve"
    /\ cur' = 1
    /\ UNCHANGED <<pool, content, tables, busy, goal, snapshot>>

NewTotal(s) == len[s] + need[s]

NeedsBlock(s) == need[s] > 0 /\ Len(blocks[s]) < BlocksFor(NewTotal(s))

ReserveBlock ==
    /\ pc = "reserve"
    /\ NeedsBlock(batch[cur])
    /\ \E b \in Block :
        /\ Allocate(b)
        /\ blocks' = [blocks EXCEPT ![batch[cur]] = Append(@, b)]
    /\ UNCHANGED <<content, batch, prompt, len, published, parent, control>>

AdvanceSlot ==
    /\ pc = "reserve"
    /\ ~NeedsBlock(batch[cur])
    /\ len' = [len EXCEPT ![batch[cur]] = NewTotal(batch[cur])]
    /\ IF cur < Len(batch)
       THEN cur' = cur + 1 /\ UNCHANGED pc
       ELSE cur' = 1 /\ pc' = "write"
    /\ UNCHANGED <<pool, content, batch, prompt, blocks, published, parent,
                   busy, goal, need, snapshot>>

\* allocate raises: the slots before cur have advanced, slot cur keeps the
\* blocks it got, and the scheduler rolls back.
ReserveFails ==
    /\ pc = "reserve"
    /\ NeedsBlock(batch[cur])
    /\ OutOfMemory
    /\ pc' = "rollback"
    /\ cur' = 1
    /\ UNCHANGED <<pool, content, tables, busy, goal, need, snapshot>>

Address(s, i) == <<blocks[s][((i - 1) \div BlockSize) + 1], (i - 1) % BlockSize>>

\* What the forward computes for position i of slot s: the K/V it reads for the
\* committed positions, extended by the tokens up to i.
Computed(s, i, gen) ==
    LET base == IF snapshot[s] = 0 THEN <<>> ELSE content[Address(s, snapshot[s])]
        token(j) == IF j <= Len(prompt[s]) THEN prompt[s][j] ELSE gen[s]
    IN base \o [j \in 1..(i - snapshot[s]) |-> token(snapshot[s] + j)]

WriteKV ==
    /\ pc = "write"
    /\ \E gen \in [Slot -> Sampled] :
        LET written == UNION {{s} \X (snapshot[s] + 1..len[s]) : s \in Live}
            at(x) == {w \in written : Address(w[1], w[2]) = x}
        IN content' = [x \in DOMAIN content |->
                          IF at(x) = {} THEN content[x]
                          ELSE LET w == CHOOSE w \in at(x) : TRUE
                               IN Computed(w[1], w[2], gen)]
    /\ snapshot' = len
    /\ need' = NoTokens
    /\ pc' = "publish"
    /\ UNCHANGED <<pool, tables, cur, busy, goal>>

\* Mutant: publish the last block while it is still filling.
PartialTarget(s) == Min({BlocksFor(len[s]), Len(prompt[s]) \div BlockSize})

\* Blocks of slot s that are full and lie inside its prompt.
PublishTarget(s) == Min({len[s] \div BlockSize, Len(prompt[s]) \div BlockSize})

\* Mutant: the key of a published block does not include its parent's.
ParentlessKey(s) ==
    SubSeq(prompt[s], published[s] * BlockSize + 1, (published[s] + 1) * BlockSize)

NextKey(s) ==
    parent[s] \o SubSeq(prompt[s], published[s] * BlockSize + 1,
                        (published[s] + 1) * BlockSize)

PublishFresh ==
    /\ pc = "publish"
    /\ LET s == batch[cur]
           b == blocks[s][published[s] + 1]
       IN /\ published[s] < PublishTarget(s)
          /\ \A c \in Block : key[c] # NextKey(s)
          /\ key' = [key EXCEPT ![b] = NextKey(s)]
          /\ ref' = [ref EXCEPT ![b] = 1]
          /\ published' = [published EXCEPT ![s] = @ + 1]
          /\ parent' = [parent EXCEPT ![s] = NextKey(s)]
    /\ UNCHANGED <<free_list, evictable, content, batch, prompt, blocks, len, control>>

\* The content is cached already: the slot takes the canonical block and gives
\* its own, never cached, back to the free list.
PublishDuplicate ==
    /\ pc = "publish"
    /\ LET s == batch[cur]
           k == published[s] + 1
       IN /\ published[s] < PublishTarget(s)
          /\ \E c \in Block :
                /\ key[c] = NextKey(s)
                /\ Incref(c)
                /\ blocks' = [blocks EXCEPT ![s][k] = c]
          /\ free_list' = Append(free_list, blocks[s][k])
          /\ published' = [published EXCEPT ![s] = k]
          /\ parent' = [parent EXCEPT ![s] = NextKey(s)]
    /\ UNCHANGED <<key, content, batch, prompt, len, control>>

PublishSlotDone ==
    /\ pc = "publish"
    /\ published[batch[cur]] >= PublishTarget(batch[cur])
    /\ IF cur < Len(batch)
       THEN cur' = cur + 1 /\ UNCHANGED pc
       ELSE cur' = 1 /\ pc' = "idle"
    /\ UNCHANGED <<pool, content, tables, busy, goal, need, snapshot>>

-----------------------------------------------------------------------------
(* Giving blocks back: truncate_to, remove_request and the roll back of a   *)
(* step that ran out of memory.                                             *)

TruncateTo(s, n) ==
    /\ pc = "idle"
    /\ n < len[s]
    /\ n >= published[s] * BlockSize
    /\ len' = [len EXCEPT ![s] = n]
    /\ snapshot' = [snapshot EXCEPT ![s] = n]
    /\ pc' = "free"
    /\ busy' = s
    /\ goal' = BlocksFor(n)
    /\ UNCHANGED <<pool, content, batch, prompt, blocks, published, parent, cur, need>>

RemoveRequest(s) ==
    /\ pc = "idle"
    /\ \E i \in 1..Len(batch) : batch[i] = s /\ batch' = RemoveAt(batch, i)
    /\ prompt' = [prompt EXCEPT ![s] = <<>>]
    /\ len' = [len EXCEPT ![s] = 0]
    /\ snapshot' = [snapshot EXCEPT ![s] = 0]
    /\ published' = [published EXCEPT ![s] = 0]
    /\ parent' = [parent EXCEPT ![s] = <<>>]
    /\ pc' = "free"
    /\ busy' = s
    /\ goal' = 0
    /\ UNCHANGED <<pool, content, blocks, cur, need>>

RollbackSlot ==
    /\ pc = "rollback"
    /\ busy = None
    /\ LET s == batch[cur]
       IN /\ snapshot[s] < len[s]
          /\ snapshot[s] >= published[s] * BlockSize
          /\ len' = [len EXCEPT ![s] = snapshot[s]]
          /\ busy' = s
          /\ goal' = BlocksFor(snapshot[s])
    /\ UNCHANGED <<pool, content, batch, prompt, blocks, published, parent,
                   pc, cur, need, snapshot>>

\* truncate_to is a no-op at the current length: the slot that raised keeps
\* the blocks it had got.
RollbackSkip ==
    /\ pc = "rollback"
    /\ busy = None
    /\ snapshot[batch[cur]] = len[batch[cur]]
    /\ IF cur < Len(batch)
       THEN cur' = cur + 1 /\ UNCHANGED <<pc, need>>
       ELSE cur' = 1 /\ pc' = "idle" /\ need' = NoTokens
    /\ UNCHANGED <<pool, content, tables, busy, goal, snapshot>>

\* The blocks past the first `goal` go back one by one, in table order.
FreeTail ==
    /\ pc \in {"free", "rollback"}
    /\ busy # None
    /\ Len(blocks[busy]) > goal
    /\ Free(blocks[busy][goal + 1])
    /\ blocks' = [blocks EXCEPT ![busy] = RemoveAt(@, goal + 1)]
    /\ UNCHANGED <<content, batch, prompt, len, published, parent, control>>

FreeTailDone ==
    /\ pc \in {"free", "rollback"}
    /\ busy # None
    /\ Len(blocks[busy]) <= goal
    /\ busy' = None
    /\ goal' = 0
    /\ pc' = IF pc = "free" THEN "idle" ELSE pc
    /\ UNCHANGED <<pool, content, tables, cur, need, snapshot>>

-----------------------------------------------------------------------------

Step ==
    \/ BeginStep
    \/ ReserveBlock
    \/ AdvanceSlot
    \/ ReserveFails
    \/ WriteKV
    \/ PublishFresh
    \/ PublishDuplicate
    \/ PublishSlotDone

Next ==
    \/ \E s \in Slot, p \in Prompt : AddRequestSlot(s, p)
    \/ PinMatch
    \/ SlotReady
    \/ Step
    \/ \E s \in Live : \E n \in 0..MaxLen : TruncateTo(s, n)
    \/ \E s \in Live : RemoveRequest(s)
    \/ RollbackSlot
    \/ RollbackSkip
    \/ FreeTail
    \/ FreeTailDone

Spec == Init /\ [][Next]_vars

-----------------------------------------------------------------------------
(* Properties.                                                             *)

TypeOK ==
    /\ free_list \in Seq(Block)
    /\ key \in [Block -> {None} \cup Seq(Token)]
    /\ ref \in [Block -> Nat]
    /\ evictable \in Seq(Block)
    /\ content \in [Block \X (0..BlockSize - 1) -> Seq(Token)]
    /\ batch \in Seq(Slot)
    /\ prompt \in [Slot -> Seq(Token)]
    /\ blocks \in [Slot -> Seq(Block)]
    /\ len \in [Slot -> Nat]
    /\ published \in [Slot -> Nat]
    /\ parent \in [Slot -> Seq(Token)]
    /\ pc \in {"idle", "hit", "reserve", "write", "publish", "free", "rollback"}
    /\ cur \in Nat \ {0}
    /\ busy \in {None} \cup Slot
    /\ goal \in Nat
    /\ need \in [Slot -> Nat]
    /\ snapshot \in [Slot -> Nat]

Distinct(q) == \A i, j \in 1..Len(q) : q[i] = q[j] => i = j

In(q, x) == \E i \in 1..Len(q) : q[i] = x

Holders(b) == {s \in Slot : In(blocks[s], b)}

\* Every block is in exactly one place: free and in no table, private to one
\* slot, or cached.  No block is lost and none is handed out twice, whatever
\* mix of hits, duplicate publications, evictions, truncations and failed
\* allocations came before (BlockPool.allocate and free keep no such check).
BlockOwnership ==
    /\ Distinct(free_list)
    /\ \A s \in Slot : Distinct(blocks[s])
    /\ \A b \in Block :
        /\ In(free_list, b) => ~IsCached(b) /\ Holders(b) = {}
        /\ ~IsCached(b) /\ ~In(free_list, b) =>
              \E s \in Slot : Holders(b) = {s}

\* The reference count of a cached block is the number of slots whose table
\* names it, the LRU order holds exactly the blocks nobody names, and no two
\* blocks are cached under one key: decref never sees a zero count, eviction
\* never takes a block in use.
RefCountsExact ==
    /\ \A b \in Block : IsCached(b) => ref[b] = Cardinality(Holders(b))
    /\ \A b \in Block : In(evictable, b) <=> IsCached(b) /\ ref[b] = 0
    /\ Distinct(evictable)
    /\ \A b, c \in Block : IsCached(b) /\ key[b] = key[c] => b = c

\* The first `published` blocks of a live slot are the cached blocks of its own
\* prompt and every later block is private: an append, which starts past them,
\* never writes a block another slot can read.
PublishedPrefix ==
    \A s \in Live :
        /\ published[s] * BlockSize <= snapshot[s]
        /\ parent[s] = ChainKey(prompt[s], published[s])
        /\ \A k \in 1..Len(blocks[s]) :
            key[blocks[s][k]] = IF k <= published[s] THEN ChainKey(prompt[s], k) ELSE None

\* Slots a caller may read: an add in progress has not returned its index.
Open == {s \in Live : ~(pc = "hit" /\ s = busy)}

\* The roll back after a failed allocation never asks truncate_to to cut into a
\* published block (its ValueError would kill the engine thread), and no slot
\* it has not reached yet is shorter than its snapshot
\* (_roll_back_partial_append's comment argues this).
RollbackNeverRefused ==
    pc = "rollback" =>
        \A s \in Live : /\ snapshot[s] <= len[s]
                        /\ published[s] * BlockSize <= snapshot[s]

\* The last token of the text a K/V was computed on: the token it stands for.
LastToken(e) == IF e = Garbage THEN Absent ELSE e[Len(e)]

\* The token whose K/V slot s reads at position i.
TokenAt(s, i) == LastToken(content[Address(s, i)])

\* What a slot reads at a committed position was computed on exactly the tokens
\* it reads before that position, and inside the prompt those are its prompt:
\* no hit, swap for a canonical block, eviction or roll back mixes the K/V of
\* two texts that only agree on a block's own tokens.
ReadsOwnText ==
    \A s \in Live : \A i \in 1..snapshot[s] :
        /\ Len(content[Address(s, i)]) = i
        /\ \A j \in 1..i : /\ content[Address(s, i)][j] = TokenAt(s, j)
                           /\ j <= Len(prompt[s]) => TokenAt(s, j) = prompt[s][j]

\* Both: a slot shares blocks along its own prompt only, and what it reads there
\* and everywhere else is the K/V of its own text.
SharesOnlyItsText == PublishedPrefix /\ ReadsOwnText

\* A block's K/V never changes while it stays cached under one key: later
\* sharers read what the publisher wrote.
CachedBlocksImmutable ==
    [][\A b \in Block : IsCached(b) /\ key'[b] = key[b] =>
          \A off \in 0..BlockSize - 1 : content'[<<b, off>>] = content[<<b, off>>]]_vars

-----------------------------------------------------------------------------
(* The inductive strengthening the proofs use: where the loops stand, and    *)
(* how much of each table is filled.                                        *)

\* A slot that is not in the batch has an empty table, unless its removal is
\* still freeing it.
ClosedSlots ==
    \A s \in Slot \ Live :
        /\ published[s] = 0 /\ len[s] = 0 /\ snapshot[s] = 0 /\ parent[s] = <<>>
        /\ blocks[s] = <<>> \/ (pc = "free" /\ busy = s)

\* Table, counters and prompt of a live slot bound each other.
Filled ==
    \A s \in Live :
        /\ published[s] <= Len(blocks[s])
        /\ published[s] * BlockSize <= snapshot[s]
        /\ published[s] * BlockSize <= Len(prompt[s])
        /\ snapshot[s] <= len[s]
        /\ len[s] <= Len(blocks[s]) * BlockSize
        /\ pc = "publish" => snapshot[s] = len[s]

Cursors ==
    /\ pc \in {"reserve", "write", "publish", "rollback"} => cur \in 1..Len(batch)
    /\ pc \in {"idle", "reserve", "write", "publish"} => busy = None
    /\ pc = "hit" => /\ busy \in Live
                     /\ Len(blocks[busy]) = published[busy]
                     /\ goal * BlockSize <= Len(prompt[busy])
    /\ pc = "free" => busy \in Slot /\ (busy \notin Live => goal = 0)
    /\ pc = "rollback" /\ busy # None => busy \in Live
    /\ pc \in {"free", "rollback"} /\ busy # None =>
            /\ published[busy] <= goal
            /\ busy \in Live => len[busy] <= goal * BlockSize

IInv ==
    /\ TypeOK
    /\ BlockOwnership
    /\ RefCountsExact
    /\ PublishedPrefix
    /\ Distinct(batch)
    /\ ClosedSlots
    /\ Filled
    /\ Cursors

\* The K/V of a cached block is that of the last block of its key.
CachedContent ==
    \A b \in Block : IsCached(b) =>
        \A off \in 0..BlockSize - 1 :
            LET e == content[<<b, off>>]
            IN /\ Len(e) + BlockSize = Len(key[b]) + off + 1
               /\ \A j \in 1..Len(e) : e[j] = key[b][j]

\* Outside a forward every live slot is at its snapshot, and a roll back has
\* brought there the slots it has passed.
AtSnapshot ==
    /\ pc \in {"idle", "hit", "publish", "free"} => \A s \in Live : snapshot[s] = len[s]
    /\ pc = "rollback" => \A i \in 1..cur - 1 : snapshot[batch[i]] = len[batch[i]]

\* A hit leaves a token of the prompt to the forward, and holds what it pinned.
HitIsProper ==
    pc = "hit" => /\ goal = 0 \/ goal * BlockSize < Len(prompt[busy])
                  /\ snapshot[busy] = published[busy] * BlockSize

TextInv ==
    /\ ReadsOwnText
    /\ CachedContent
    /\ AtSnapshot
    /\ HitIsProper
    /\ \A s \in Live : prompt[s] \in Prompt

-----------------------------------------------------------------------------
(* The cache implements KVStore: what a slot holds is what a gather through  *)
(* its block table reads for the committed positions.                       *)

Text == [s \in Slot |->
            IF s \in Open
            THEN [i \in 1..snapshot[s] |-> TokenAt(s, i)]
            ELSE Absent]

OpenPrompt == [s \in Slot |-> IF s \in Open THEN prompt[s] ELSE <<>>]

KV == INSTANCE KVStore WITH text <- Text, prompt <- OpenPrompt

\* PagedKVCache with its pool and prefix cache is a KVStore: a step of one slot
\* never shows in another, a new slot starts with a proper prefix of its
\* prompt, an aborted step leaves no trace.
ImplementsKVStore == KV!Spec
=============================================================================
