---------------------------- MODULE MCTPLockstep ----------------------------
(* r1 decodes for longer, r2 ends with its first token, r3 has no prompt.   *)
EXTENDS TPLockstep, TLC
CONSTANTS r1, r2, r3, f1, f2, t1, t2
MCMaxTokens == (r1 :> 3) @@ (r2 :> 1) @@ (r3 :> 2)
=============================================================================
