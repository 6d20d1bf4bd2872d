----------------------------- MODULE MCPayments -----------------------------
(***************************************************************************)
(* Instances of Payments for TLC.                                          *)
(***************************************************************************)
EXTENDS PaymentsInvariants, TLC

\* Every worker a thread of one process, or every worker its own process.
SameProcess == [w \in Workers |-> CHOOSE p \in Processes : TRUE]
OwnProcess == [w \in Workers |-> w]

\* Order ids are interchangeable, and so are workers that share nothing.
OrderSymmetry == Permutations(Orders)
NameSymmetry == Permutations(Orders) \cup Permutations(Workers)
=============================================================================
