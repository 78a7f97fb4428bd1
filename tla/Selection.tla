----------------------------- MODULE Selection -----------------------------
(***************************************************************************)
(* Python's sorted() and its list comprehensions with a condition, given   *)
(* by where each element ends up.  (SelectSeq and SortSeq say the same to  *)
(* TLC and nothing to the provers.)                                        *)
(***************************************************************************)
EXTENDS Integers, FiniteSets

(* The elements of the finite set S as a sequence, in the order R, a set of *)
(* pairs that is a strict total order on S: the n-th has n - 1 before it.   *)
InOrder(S, R) ==
    [n \in 1..Cardinality(S) |->
        CHOOSE e \in S : Cardinality({x \in S : <<x, e>> \in R}) = n - 1]

(* A finite set of numbers, smallest first                                  *)
Ascending(I) == InOrder(I, {p \in I \X I : p[1] < p[2]})

(* The elements of s at the positions I, in their order in s                *)
Kept(s, I) == [n \in 1..Cardinality(I) |-> s[Ascending(I)[n]]]
=============================================================================
