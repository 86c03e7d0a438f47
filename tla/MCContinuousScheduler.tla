----------------------- MODULE MCContinuousScheduler -----------------------
(* A small instance of ContinuousScheduler: a pool in which r1 and r2 outgrow *)
(* each other and r2's prompt, of two chunks, has to wait for room; an empty  *)
(* prompt, one longer than the pool, and one longer than the pool without    *)
(* its scratch block.                                                       *)
EXTENDS ContinuousScheduler, TLC

CONSTANTS r1, r2, r3, r4, r5

Lengths == (r1 :> 2) @@ (r2 :> 3) @@ (r3 :> 0) @@ (r4 :> 9) @@ (r5 :> 7)
Limits == (r1 :> 3) @@ (r2 :> 2) @@ (r3 :> 1) @@ (r4 :> 1) @@ (r5 :> 1)

MCPromptLen == [r \in Request |-> Lengths[r]]
MCMaxTokens == [r \in Request |-> Limits[r]]
=============================================================================
