----------------------------- MODULE MCExtract -----------------------------
(***************************************************************************)
(* Small instances of Extract for TLC.                                     *)
(***************************************************************************)
EXTENDS Extract, TLC

CONSTANTS a1, a2, p1, p2

MCDeposit == [c \in Currencies |-> 4]

\* Paid out, with the fee from another wallet; to a user of the house, with
\* the fee from the same wallet, too much and little enough to be confirmed
\* at once.
MCKinds == {[quantity |-> 1, type |-> "OUTER", rate |-> 1, rateIn |-> "fee"],
            [quantity |-> 3, type |-> "INNER", rate |-> 1, rateIn |-> "coin"],
            [quantity |-> 2, type |-> "INNER", rate |-> 0, rateIn |-> "fee"]}

\* The administrators are interchangeable, and so are the tasks.
Symmetry == Permutations(Admins) \cup Permutations(Pollers)
=============================================================================
