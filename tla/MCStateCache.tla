---------------------------- MODULE MCStateCache ----------------------------
(* r2 and r5 have the same prompt, which extends that of r1; windows wrap and *)
(* blocks of both ratios flush during the replay and the decode.  r3 does not *)
(* fit the cache.                                                            *)
EXTENDS StateCacheScheduler, TLC
CONSTANTS r1, r2, r3, r5
MCPrompt == (r1 :> <<1, 2>>) @@ (r2 :> <<1, 2, 3, 4, 5>>) @@ (r5 :> <<1, 2, 3, 4, 5>>)
            @@ (r3 :> <<1, 2, 3>>)
MCMaxTokens == (r1 :> 2) @@ (r2 :> 3) @@ (r3 :> 6) @@ (r5 :> 2)
MCSampled == (r1 :> {11, 9}) @@ (r2 :> {12}) @@ (r3 :> {14}) @@ (r5 :> {15})
MCRatio == ("hca" :> 3) @@ ("csa" :> 2)
\* Scores of the blocks, all distinct.
MCScore == (0 :> 3) @@ (1 :> 2) @@ (2 :> 4) @@ (3 :> 5) @@ (4 :> 0)
=============================================================================
