------------------------------ MODULE MCDSpark ------------------------------
(* r1 speculates and meets EOS, r2 speculates up to max_tokens, and r4 decodes *)
(* plainly: a pool of 4 blocks cannot hold its verify window.                 *)
EXTENDS DSparkScheduler, TLC
CONSTANTS r1, r2, r4
MCPromptLen == (r1 :> 2) @@ (r2 :> 1) @@ (r4 :> 3)
MCMaxTokens == (r1 :> 4) @@ (r2 :> 6) @@ (r4 :> 2)
MCEosAt == (r1 :> 5) @@ (r2 :> 0) @@ (r4 :> 0)
=============================================================================
