----------------------------- MODULE MCPagedKV -----------------------------
(* PagedKV with blocks of two positions and prompts that share prefixes.    *)
EXTENDS PagedKV

CONSTANTS t1, t2

\* Two prompts with a common full block, one that is exactly that block (fully
\* cached after the first publication), one that differs from the start.
MCPrompt == {<<t1, t2>>, <<t1, t2, t1, t2>>, <<t2, t2, t2>>}

\* States are told apart only by what a slot or the prefix cache can still read:
\* the K/V left behind in a free block, or past a slot's end, is overwritten
\* before anything reads it.
Readable(x) == \/ IsCached(x[1])
               \/ \E s \in Slot : \E i \in 1..snapshot[s] : Address(s, i) = x
View == <<pool, tables, control, [x \in DOMAIN content |->
                                     IF Readable(x) THEN content[x] ELSE Garbage]>>

Symmetry == Permutations(Slot)
=============================================================================
