------------------------------- MODULE MCOtc -------------------------------
(***************************************************************************)
(* Small instances of Otc for TLC.                                         *)
(***************************************************************************)
EXTENDS Otc

CONSTANTS alice, bob

MCDeposit == [u \in Users |-> 2]

FairOtcSpec == OtcSpec /\ OtcFairness
=============================================================================
