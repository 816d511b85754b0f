---------------------------- MODULE MCSpotTrade ----------------------------
(***************************************************************************)
(* Small instances of SpotTrade for TLC, of up to two users, one of whom   *)
(* pays no fee, and a robot.                                               *)
(***************************************************************************)
EXTENDS SpotTrade

CONSTANTS alice, bob, bot

\* One of the two can pay for more, the other has more to sell.
MCDeposit == [u \in Users |-> [c \in Currencies |->
    IF u = alice THEN (IF c = "currency" THEN 3 ELSE 1)
    ELSE (IF c = "currency" THEN 1 ELSE 2)]]
=============================================================================
