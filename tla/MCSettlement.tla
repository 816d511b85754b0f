---------------------------- MODULE MCSettlement ----------------------------
(***************************************************************************)
(* Small instances of Settlement for TLC.                                  *)
(***************************************************************************)
EXTENDS Settlement

CONSTANTS alice, bot, t1, t2

MCDeposit == [u \in Users |-> [c \in Currencies |-> 3]]

\* The first order is a purchase: with one price, the other way round differs
\* in ids only.  Where this holds it stays so, and no record exists before.
BuyFirst == orders[1].status # "NONE" => orders[1].side = "BUY"
=============================================================================
