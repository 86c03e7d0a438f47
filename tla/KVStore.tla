------------------------------ MODULE KVStore ------------------------------
(***************************************************************************)
(* What the KV cache promises its callers, without blocks, reference       *)
(* counts or eviction: every slot reads back the tokens that its own        *)
(* operations put there, in order, and no operation on one slot is ever     *)
(* visible in another.  A new slot may start with a part of its prompt      *)
(* already present (a prefix-cache hit), but never with all of it: the     *)
(* forward that follows needs at least one token to produce logits.        *)
(***************************************************************************)
EXTENDS Naturals, Sequences, SequencesExt

CONSTANTS Slot,     \* request slots
          Token,    \* token ids
          Prompt,   \* the prompts requests may carry
          Absent    \* the content of a slot that does not exist

VARIABLES prompt,   \* prompt[s]: the prompt slot s was opened with
          text      \* text[s]: the tokens slot s reads back, or Absent

kvars == <<prompt, text>>

Live == {s \in Slot : text[s] # Absent}

Init ==
    /\ prompt = [s \in Slot |-> <<>>]
    /\ text = [s \in Slot |-> Absent]

\* A slot opens with a proper prefix of its prompt.
OpenSlot(s, p) ==
    /\ s \notin Live
    /\ \E n \in 0..Len(p) :
        /\ n < Len(p) \/ n = 0
        /\ text' = [text EXCEPT ![s] = SubSeq(p, 1, n)]
    /\ prompt' = [prompt EXCEPT ![s] = p]

\* One forward extends the slots of the batch, each by its own tokens: the
\* prompt first, anything after it.
Step ==
    /\ Live # {}
    /\ \A s \in Slot \ Live : text'[s] = Absent
    /\ \A s \in Live :
        /\ text'[s] \in Seq(Token)
        /\ IsPrefix(text[s], text'[s])
        /\ \A i \in 1..Len(text'[s]) :
            i <= Len(prompt[s]) => text'[s][i] = prompt[s][i]
    /\ UNCHANGED prompt

\* Speculative decoding gives back rejected positions.
Shrink(s, n) ==
    /\ s \in Live
    /\ n < Len(text[s])
    /\ text' = [text EXCEPT ![s] = SubSeq(@, 1, n)]
    /\ UNCHANGED prompt

CloseSlot(s) ==
    /\ s \in Live
    /\ text' = [text EXCEPT ![s] = Absent]
    /\ prompt' = [prompt EXCEPT ![s] = <<>>]

Next ==
    \/ \E s \in Slot, p \in Prompt : OpenSlot(s, p)
    \/ Step
    \/ \E s \in Live : \E n \in 0..Len(text[s]) : Shrink(s, n)
    \/ \E s \in Live : CloseSlot(s)

Spec == Init /\ [][Next]_kvars
=============================================================================
