---------------------------- MODULE MCStorefront ----------------------------
(***************************************************************************)
(* Instances of Storefront for TLC.                                        *)
(***************************************************************************)
EXTENDS Storefront, TLC

\* Every checkout at the same price, or one of them twice as dear.
SamePrice == [c \in Checkouts |-> 1]
OneDear == LET dear == CHOOSE c \in Checkouts : TRUE
           IN [c \in Checkouts |-> IF c = dear THEN 2 ELSE 1]

\* Mandates, orders, callers, holds and clicks are interchangeable.
NameSymmetry ==
  Permutations(Mandates) \cup Permutations(Orders) \cup Permutations(Holds)
    \cup Permutations(Callers) \cup Permutations(Clicks)
=============================================================================
