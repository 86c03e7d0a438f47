------------------------------- MODULE Segments -------------------------------
(***************************************************************************)
(* Segments laid end to end, as the rows and the pages of a packed step are, *)
(* and sets of numbers in order.  Defined without recursion, so that it can  *)
(* be reasoned about.                                                      *)
(***************************************************************************)
EXTENDS Integers, Sequences, FiniteSets

\* The places of the segments before k, when the segments have these lengths.
Cells(len, k) == UNION {{j} \X (1..len[j]) : j \in 1..(k - 1)}

\* <<0, l1, l1 + l2, ...>>: the boundaries of consecutive segments.
Bounds(len) == [k \in 1..(Len(len) + 1) |-> Cardinality(Cells(len, k))]
Total(len) == Bounds(len)[Len(len) + 1]

\* The segment that place i is in.
SegmentAt(bounds, i) ==
    CHOOSE k \in 1..(Len(bounds) - 1) : bounds[k] < i /\ i <= bounds[k + 1]

\* The sequences of ss, one after the other.
Flat(ss) ==
    LET bounds == Bounds([k \in 1..Len(ss) |-> Len(ss[k])])
        at(i) == SegmentAt(bounds, i)
    IN [i \in 1..bounds[Len(ss) + 1] |-> ss[at(i)][i - bounds[at(i)]]]

\* The numbers of a set, the least one first.
InOrder(S) == [k \in 1..Cardinality(S) |-> CHOOSE x \in S : Cardinality({y \in S : y <= x}) = k]
=============================================================================
