------------------------------ MODULE Sublists ------------------------------
(***************************************************************************)
(* Lists and dictionaries of the analysis: comprehensions, [x for x in s   *)
(* if ...], are what a list has at some of its positions, in order.        *)
(***************************************************************************)
EXTENDS Integers, Sequences, FiniteSets

(* The numbers of a finite set, in order.                                  *)
InOrder(I) ==
    [k \in 1..Cardinality(I) |-> CHOOSE i \in I : Cardinality({j \in I : j < i}) = k - 1]

Those(s, I) == LET order == InOrder(I) IN [k \in DOMAIN order |-> s[order[k]]]

(* Each value once, where it is first.                                     *)
Firsts(s) == {i \in DOMAIN s : \A j \in 1..(i - 1) : s[j] # s[i]}
Distinct(s) == Those(s, Firsts(s))

(* The sum of a list of numbers.                                           *)
Total(s) ==
    LET upTo[i \in 0..Len(s)] == IF i = 0 THEN 0 ELSE upTo[i - 1] + s[i]
    IN  upTo[Len(s)]

(* A dictionary in which one value is set.                                 *)
Put(f, x, y) == [z \in DOMAIN f \cup {x} |-> IF z = x THEN y ELSE f[z]]
=============================================================================
