------------------------------ MODULE MCMatcher ------------------------------
(***************************************************************************)
(* Small instances of Matcher for TLC.                                     *)
(***************************************************************************)
EXTENDS Matcher, TLC

CONSTANTS alice, bot, m1, m2, c1, c2

MCDeposit == [u \in Users |-> [c \in Currencies |-> 3]]

\* Not enough for two orders of the same side.
MCThinDeposit == [u \in Users |-> [c \in Currencies |-> 1]]

\* The threads of a kind are interchangeable.
Symmetry == Permutations(Matchers) \cup Permutations(Cancellers)
=============================================================================
