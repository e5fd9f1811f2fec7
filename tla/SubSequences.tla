---------------------------- MODULE SubSequences ----------------------------
(* Python's list comprehension with a condition: the elements of a sequence at *)
(* some of its positions.                                                      *)
EXTENDS Naturals, FiniteSets, Sequences

At(s, ks) == [n \in 1 .. Cardinality(ks) |->
    s[CHOOSE k \in ks : Cardinality({j \in ks : j < k}) = n - 1]]
=============================================================================
