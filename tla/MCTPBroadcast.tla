--------------------------- MODULE MCTPBroadcast ---------------------------
(* r1 decodes for longer, r2 leaves its row early, r3 is refused.           *)
EXTENDS TPBroadcast, TLC
CONSTANTS r1, r2, r3, f1, f2
MCMaxTokens == (r1 :> 3) @@ (r2 :> 1) @@ (r3 :> 2)
=============================================================================
