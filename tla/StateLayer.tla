----------------------------- MODULE StateLayer -----------------------------
(***************************************************************************)
(* What one row of a StateCache (cache/state_cache.py) holds for each kind   *)
(* of DeepSeek-V4 attention layer, what prefill and the two decode steps      *)
(* write into it and which entries a query then attends to:                   *)
(*   "swa": a circular window (models/deepseek_v4/swa.py);                    *)
(*   "hca": the window, and one compressed entry per block (hca.py);          *)
(*   "csa": blocks overlap, and an indexer with a compressor of its own       *)
(*          picks the entries (csa.py, lightning_indexer.py).                 *)
(*                                                                         *)
(* A window entry is a token and its position; an entry of a compressor's     *)
(* accumulator is a token and the index of its bias; a compressed entry is     *)
(* what its softmax spans and the position of its rotary embedding.  Numbers   *)
(* are abstracted: two entries computed from the same tokens are equal.        *)
(***************************************************************************)
EXTENDS Integers, Sequences, FiniteSets, FiniteSetsExt

CONSTANTS Win,          \* n_win
          Ratio,        \* compression_ratio of the hca and csa layers
          TopK,         \* top_k of the indexer
          Score,        \* its score of each block; scores may tie
          PrefillTies,  \* the block torch.topk takes among equal scores
          MaxSeqLen     \* max_seq_len the cache is built for

ASSUME StateLayerAssumption ==
    /\ {Win, Ratio["hca"], Ratio["csa"], TopK, MaxSeqLen} \subseteq Nat \ {0}
    /\ PrefillTies \in {"lower", "higher"}

Kind == {"swa", "hca", "csa"}
Nothing == <<>>         \* a zero entry; in an accumulator, a score of -inf

\* max_n_compressed of a layer, ceil(max_seq_len / ratio).
MaxBlocks(m) == (MaxSeqLen + m - 1) \div m

\* A compressor's state: history, accumulator, number of blocks.
NewCompressor(m, overlap) ==
    [hist |-> [b \in 0..(MaxBlocks(m) - 1) |-> Nothing],
     acc |-> [j \in 0..(IF overlap THEN 2 * m - 1 ELSE m - 1) |-> Nothing],
     n |-> 0]

\* _build_layer_state of each layer, for one row.
NewRow ==
    [swa |-> [window |-> [i \in 0..(Win - 1) |-> Nothing]],
     hca |-> [window |-> [i \in 0..(Win - 1) |-> Nothing],
              main |-> NewCompressor(Ratio["hca"], FALSE)],
     csa |-> [window |-> [i \in 0..(Win - 1) |-> Nothing],
              main |-> NewCompressor(Ratio["csa"], TRUE),
              indexer |-> NewCompressor(Ratio["csa"], TRUE)]]

-----------------------------------------------------------------------------
(* The compressor.                                                         *)

\* Block b of the tokens x as a prefill compresses it; _overlap_transform gives
\* it the block before it, and the first block none.
Block(x, b, m, overlap) ==
    LET Span(k) == [j \in 0..(m - 1) |-> IF k < 0 THEN Nothing ELSE <<x[k * m + j + 1], j>>]
    IN [prev |-> IF overlap THEN Span(b - 1) ELSE Nothing, cur |-> Span(b), pos |-> b * m]

\* forward_prefill_with_cache: the aligned blocks go to the history, the last
\* of them (overlap) and the remainder to the accumulator.
CompressorPrefill(c, x, m, overlap) ==
    LET rest == Len(x) % m
        cut == Len(x) - rest
        offset == IF overlap THEN m ELSE 0
    IN [hist |-> [b \in DOMAIN c.hist |->
                    IF b < cut \div m THEN Block(x, b, m, overlap) ELSE c.hist[b]],
        acc |-> [j \in DOMAIN c.acc |->
                    IF overlap /\ cut >= m /\ j < m THEN <<x[cut - m + j + 1], j>>
                    ELSE IF j \in offset..(offset + rest - 1)
                         THEN <<x[cut + j - offset + 1], j - offset>>
                    ELSE c.acc[j]],
        n |-> cut \div m]

\* The token's accumulator slot is written.
Accumulated(c, p, t, m, overlap) ==
    [c.acc EXCEPT ![(IF overlap THEN m ELSE 0) + (p % m)] = <<t, p % m>>]

Flushes(p, m) == (p + 1) % m = 0

\* The entry a full accumulator gives at position p.
Entry(acc, p, m, overlap) ==
    [prev |-> IF overlap THEN [j \in 0..(m - 1) |-> acc[j]] ELSE Nothing,
     cur |-> [j \in 0..(m - 1) |-> acc[IF overlap THEN m + j ELSE j]],
     pos |-> (p \div m) * m]

\* On a flush the current half becomes the previous half.
Slid(acc, p, m, overlap) ==
    [j \in DOMAIN acc |-> IF overlap /\ Flushes(p, m) /\ j < m THEN acc[m + j] ELSE acc[j]]

\* forward_decode_step and the append of its block at n_compressed_blocks.
CompressorStep(c, p, t, m, overlap) ==
    LET acc == Accumulated(c, p, t, m, overlap)
    IN [hist |-> IF Flushes(p, m) THEN [c.hist EXCEPT ![c.n] = Entry(acc, p, m, overlap)] ELSE c.hist,
        acc |-> Slid(acc, p, m, overlap),
        n |-> IF Flushes(p, m) THEN c.n + 1 ELSE c.n]

\* write_flushed_blocks: the slot comes from the row's position.
Written(c, entry, p, m) ==
    IF Flushes(p, m) THEN [c.hist EXCEPT ![Min({p \div m, MaxBlocks(m) - 1})] = entry] ELSE c.hist

\* forward_decode_step_ragged and write_flushed_blocks.
CompressorStepRagged(c, p, t, m, overlap) ==
    LET acc == Accumulated(c, p, t, m, overlap)
    IN [hist |-> Written(c, Entry(acc, p, m, overlap), p, m),
        acc |-> Slid(acc, p, m, overlap),
        n |-> c.n]

-----------------------------------------------------------------------------
(* The window.                                                             *)

\* The last tokens of a prompt, rotated so that a position keeps its slot.
WindowPrefill(w, x) ==
    LET T == Len(x)
        wrap == T % Win
        At(p) == <<x[p + 1], p>>
    IN [i \in 0..(Win - 1) |->
            IF T <= Win THEN IF i < T THEN At(i) ELSE w[i]
            ELSE IF i >= wrap THEN At(T - Win + i - wrap) ELSE At(T - wrap + i)]

WindowStep(w, p, t) == [w EXCEPT ![p % Win] = <<t, p>>]

\* _build_window_decode_topk_idxs: slots in order, without the padding.
WindowSlots(p) ==
    IF p >= Win - 1
    THEN [j \in 1..Win |-> IF j < Win - (p % Win) THEN (p % Win) + j ELSE j - (Win - (p % Win))]
    ELSE [j \in 1..(p + 1) |-> j - 1]

\* Mutant: the window counts as full one position early.
WindowSlotsRaggedEarly(p) ==
    IF p >= Win - 2
    THEN [j \in 1..Win |-> ((p % Win) + j) % Win]
    ELSE [j \in 1..Win |-> IF j - 1 <= p THEN j - 1 ELSE -1]

\* _build_window_decode_topk_idxs_ragged.
WindowSlotsRagged(p) ==
    IF p >= Win - 1
    THEN [j \in 1..Win |-> ((p % Win) + j) % Win]
    ELSE [j \in 1..Win |-> IF j - 1 <= p THEN j - 1 ELSE -1]

\* hca_mqa_with_sink: the entries at the indices, -1 is masked.
Gathered(f, idxs) == {f[idxs[j]] : j \in {j \in DOMAIN idxs : idxs[j] # -1}}

-----------------------------------------------------------------------------
(* The indexer's choice.                                                   *)

\* The TopK best of the blocks B; `ties` says which of two equals goes first.
Best(B, ties) ==
    LET ahead(a, b) == \/ Score[a] > Score[b]
                       \/ Score[a] = Score[b] /\ IF ties = "lower" THEN a < b ELSE a > b
    IN {b \in B : Cardinality({a \in B : ahead(a, b)}) < TopK}

\* _topk_lower_index_on_ties, in both decode steps.
TopBlocks(B) == Best(B, "lower")

\* The topk of a prefill, which leaves the order of equal scores open.
TopBlocksPrefill(B) == Best(B, PrefillTies)

-----------------------------------------------------------------------------
(* One layer: forward_prefill_with_cache, forward_decode and                 *)
(* forward_decode_ragged of each kind.                                     *)

SwaPrefill(row, x) == [row EXCEPT !.window = WindowPrefill(@, x)]
SwaDecode(row, p, t) == [row EXCEPT !.window = WindowStep(@, p, t)]
SwaDecodeRagged(row, p, t) == [row EXCEPT !.window = WindowStep(@, p, t)]

HcaPrefill(row, x) ==
    [row EXCEPT !.window = WindowPrefill(@, x),
                !.main = CompressorPrefill(@, x, Ratio["hca"], FALSE)]
HcaDecode(row, p, t) ==
    [row EXCEPT !.window = WindowStep(@, p, t),
                !.main = CompressorStep(@, p, t, Ratio["hca"], FALSE)]
HcaDecodeRagged(row, p, t) ==
    [row EXCEPT !.window = WindowStep(@, p, t),
                !.main = CompressorStepRagged(@, p, t, Ratio["hca"], FALSE)]

CsaPrefill(row, x) ==
    [row EXCEPT !.window = WindowPrefill(@, x),
                !.main = CompressorPrefill(@, x, Ratio["csa"], TRUE),
                !.indexer = CompressorPrefill(@, x, Ratio["csa"], TRUE)]
CsaDecode(row, p, t) ==
    [row EXCEPT !.window = WindowStep(@, p, t),
                !.main = CompressorStep(@, p, t, Ratio["csa"], TRUE),
                !.indexer = CompressorStep(@, p, t, Ratio["csa"], TRUE)]
CsaDecodeRagged(row, p, t) ==
    [row EXCEPT !.window = WindowStep(@, p, t),
                !.main = CompressorStepRagged(@, p, t, Ratio["csa"], TRUE),
                !.indexer = CompressorStepRagged(@, p, t, Ratio["csa"], TRUE)]

\* What the query of position p attends to after forward_decode.
HcaAttends(row, p) ==
    Gathered(row.main.hist, [j \in 1..((p + 1) \div Ratio["hca"]) |-> j - 1])
CsaAttends(row, p) ==
    {<<row.main.hist[b], row.indexer.hist[b]>> : b \in TopBlocks(0..(row.indexer.n - 1))}

\* ... after forward_decode_ragged, over the whole history with a mask.
HcaAttendsRagged(row, p) ==
    Gathered(row.main.hist, [j \in 1..MaxBlocks(Ratio["hca"]) |->
                                IF j - 1 < (p + 1) \div Ratio["hca"] THEN j - 1 ELSE -1])
CsaAttendsRagged(row, p) ==
    LET valid == {b \in 0..(MaxBlocks(Ratio["csa"]) - 1) : b < (p + 1) \div Ratio["csa"]}
    IN {<<row.main.hist[b], row.indexer.hist[b]>> : b \in TopBlocks(valid)}

\* ... and for the query at position p of a prefill of x.
WindowAttendsPrefill(x, p) ==
    LET slots == [j \in 1..Min({Len(x), Win}) |->
                    LET i == Max({p - Win + 1, 0}) + j - 1 IN IF i > p THEN -1 ELSE i]
    IN Gathered([i \in 0..(Len(x) - 1) |-> <<x[i + 1], i>>], slots)
HcaAttendsPrefill(x, p) ==
    LET m == Ratio["hca"]
    IN {Block(x, b, m, FALSE) : b \in {b \in 0..(Len(x) \div m - 1) : b < (p + 1) \div m}}
CsaAttendsPrefill(x, p) ==
    LET m == Ratio["csa"]
        valid == {b \in 0..(Len(x) \div m - 1) : b < (p + 1) \div m}
    IN {<<Block(x, b, m, TRUE), Block(x, b, m, TRUE)>> : b \in TopBlocksPrefill(valid)}

-----------------------------------------------------------------------------
(* One row of the model.                                                   *)

\* forward_prefill_with_cache, into a new row.
Prefilled(x) ==
    [swa |-> SwaPrefill(NewRow.swa, x), hca |-> HcaPrefill(NewRow.hca, x),
     csa |-> CsaPrefill(NewRow.csa, x)]

\* forward_decode_with_cache.
Decoded(row, p, t) ==
    [swa |-> SwaDecode(row.swa, p, t), hca |-> HcaDecode(row.hca, p, t),
     csa |-> CsaDecode(row.csa, p, t)]

\* decode_step_static, for one row.
DecodedRagged(row, p, t) ==
    [swa |-> SwaDecodeRagged(row.swa, p, t), hca |-> HcaDecodeRagged(row.hca, p, t),
     csa |-> CsaDecodeRagged(row.csa, p, t)]

Attends(row, p) ==
    [swa |-> Gathered(row.swa.window, WindowSlots(p)),
     hca |-> <<Gathered(row.hca.window, WindowSlots(p)), HcaAttends(row.hca, p)>>,
     csa |-> <<Gathered(row.csa.window, WindowSlots(p)), CsaAttends(row.csa, p)>>]

AttendsRagged(row, p) ==
    [swa |-> Gathered(row.swa.window, WindowSlotsRagged(p)),
     hca |-> <<Gathered(row.hca.window, WindowSlotsRagged(p)), HcaAttendsRagged(row.hca, p)>>,
     csa |-> <<Gathered(row.csa.window, WindowSlotsRagged(p)), CsaAttendsRagged(row.csa, p)>>]

AttendsPrefill(x, p) ==
    [swa |-> WindowAttendsPrefill(x, p),
     hca |-> <<WindowAttendsPrefill(x, p), HcaAttendsPrefill(x, p)>>,
     csa |-> <<WindowAttendsPrefill(x, p), CsaAttendsPrefill(x, p)>>]

\* What the query of the last token of x is to attend to: the last Win tokens
\* and every complete block, or the best of them.
Ideal(x) ==
    LET window == {<<x[i], i - 1>> : i \in Max({1, Len(x) - Win + 1})..Len(x)}
        Whole(m, overlap, B) == {Block(x, b, m, overlap) : b \in B}
    IN [swa |-> window,
        hca |-> <<window, Whole(Ratio["hca"], FALSE, 0..(Len(x) \div Ratio["hca"] - 1))>>,
        csa |-> <<window, {<<e, e>> : e \in
                    Whole(Ratio["csa"], TRUE, TopBlocks(0..(Len(x) \div Ratio["csa"] - 1)))}>>]
=============================================================================
