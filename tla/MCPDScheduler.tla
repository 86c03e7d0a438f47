--------------------------- MODULE MCPDScheduler ---------------------------
(* Both modes, with prompts of different lengths, in a pool that a step or  *)
(* a handoff may find full; the threads may be started twice.                *)
EXTENDS PDScheduler, TLC

CONSTANTS r1, r2

MCPrompt == (r1 :> 1) @@ (r2 :> 2)
MCMaxTokens == (r1 :> 3) @@ (r2 :> 2)
MCModes == BOOLEAN
=============================================================================
