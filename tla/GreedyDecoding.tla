--------------------------- MODULE GreedyDecoding ---------------------------
(***************************************************************************)
(* What greedy decoding promises a client, however the tokens are computed:   *)
(* a request's output grows along the one text the target gives its prompt,   *)
(* up to EOS or max_tokens, and nothing follows its end.  engine/speculative.py *)
(* and engine/dspark/speculative.py state it: "token-for-token identical to    *)
(* target-alone greedy decoding".                                           *)
(***************************************************************************)
EXTENDS Integers, Sequences

CONSTANTS Client,
          TargetText,    \* TargetText[r]: the target's text for r, longer than MaxLen
          MaxLen,        \* max_tokens of each request
          EosIn          \* the place of EOS in TargetText[r], or a place beyond MaxLen

VARIABLES output, reason

vars == <<output, reason>>

Init == output = [r \in Client |-> <<>>] /\ reason = [r \in Client |-> "none"]

\* Some tokens more, the end, or both.
Moves(r) ==
    \E n \in Len(output[r])..MaxLen[r], why \in {"none", "length", "stop", "cancelled"} :
        /\ reason[r] = "none"
        /\ n < EosIn[r]
        /\ why = "length" => n = MaxLen[r]
        /\ why = "stop" => n + 1 = EosIn[r]
        /\ output'[r] = SubSeq(TargetText[r], 1, n)
        /\ reason'[r] = why

\* Several requests may move in one step.
Next ==
    \A r \in Client : Moves(r) \/ (output'[r] = output[r] /\ reason'[r] = reason[r])

Spec == Init /\ [][Next]_vars
=============================================================================
