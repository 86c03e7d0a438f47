------------------------------ MODULE Selections ------------------------------
(***************************************************************************)
(* Removing elements from a list and keeping the order of the rest, as the   *)
(* schedulers do with the rows of a batch.  Defined without recursion, so     *)
(* that it can be reasoned about.                                          *)
(***************************************************************************)
EXTENDS Integers, SequencesExt, FiniteSets

\* The elements of s at the positions `at`, in their order.
Selected(s, at) ==
    [k \in 1..Cardinality(at) |-> s[CHOOSE i \in at : Cardinality({j \in at : j <= i}) = k]]

\* The sequences that are s without the elements of R, in their order: the one
\* there is when s has no element twice.
Without(s, R) ==
    {t \in SeqOf(ToSet(s) \ R, Len(s)) :
        /\ ToSet(t) = ToSet(s) \ R
        /\ \A i, j \in 1..Len(t) : i < j =>
              \E k, l \in 1..Len(s) : k < l /\ s[k] = t[i] /\ s[l] = t[j]}
=============================================================================
