------------------------------- MODULE Escrow -------------------------------
(***************************************************************************)
(* What a desk that holds coins for other people's deals promises.  Coins  *)
(* are put into lots; deals are opened on a lot, never for more than it    *)
(* holds; a deal is paid to its buyer or returned, once, and never both;   *)
(* the owner gets a lot back when no deal on it is open.  Nothing else     *)
(* moves a coin.                                                           *)
(***************************************************************************)
EXTENDS IdSums

CONSTANTS
    Users,     \* who owns coins
    Lots,      \* where coins are held
    MaxDeals,  \* the deals are 1..MaxDeals
    Amounts    \* what is put into a lot or dealt at a time

VARIABLES
    available,  \* what each user may dispose of
    lot,        \* the owner and the amount of each lot
    deal        \* the deals

escrowVars == <<available, lot, deal>>

Deals == 1..MaxDeals

NoLot  == [owner |-> CHOOSE u \in Users : TRUE, amount |-> 0]
NoDeal == [state |-> "none", lot |-> CHOOSE l \in Lots : TRUE,
           to |-> CHOOSE u \in Users : TRUE, amount |-> 0]

DealsIn(state) == {d \in Deals : deal[d].state = state}

OpenDeal(l, u, q) == [state |-> "open", lot |-> l, to |-> u, amount |-> q]

EscrowInit ==
    /\ \A u \in Users : available[u] >= 0
    /\ lot  = [l \in Lots |-> NoLot]
    /\ deal = [d \in Deals |-> NoDeal]

\* What the open deals on a lot may still take from it.
Committed(l) == SumTo([d \in Deals |-> IF deal[d].state = "open" /\ deal[d].lot = l
                                       THEN deal[d].amount ELSE 0], MaxDeals)

\* A lot with q less in it.
Less(l, q) == IF lot[l].amount = q THEN NoLot ELSE [lot[l] EXCEPT !.amount = @ - q]

PutIn(u, l, q) ==
    /\ lot[l].amount = 0 /\ available[u] >= q
    /\ available' = [available EXCEPT ![u] = @ - q]
    /\ lot' = [lot EXCEPT ![l] = [owner |-> u, amount |-> q]]

\* The owner puts coins on offer.
Offer(u, l, q) == PutIn(u, l, q) /\ UNCHANGED deal

\* A new deal on what is on offer.
Open(d, l, u, q) ==
    /\ Committed(l) + q <= lot[l].amount
    /\ deal' = [deal EXCEPT ![d] = OpenDeal(l, u, q)]
    /\ UNCHANGED <<available, lot>>

\* A new deal for which the seller puts the coins in.
OfferAndOpen(d, seller, l, u, q) ==
    /\ Committed(l) = 0
    /\ PutIn(seller, l, q)
    /\ deal' = [deal EXCEPT ![d] = OpenDeal(l, u, q)]

\* An open deal is paid.
Pay(d) ==
    /\ deal' = [deal EXCEPT ![d].state = "paid"]
    /\ lot' = [lot EXCEPT ![deal[d].lot] = Less(deal[d].lot, deal[d].amount)]
    /\ available' = [available EXCEPT ![deal[d].to] = @ + deal[d].amount]

\* The coins of an open deal that comes to nothing stay on offer ...
Return(d) ==
    /\ deal' = [deal EXCEPT ![d].state = "returned"]
    /\ UNCHANGED <<available, lot>>

\* ... or go back to who put them in.
ReturnAndRefund(d) ==
    /\ deal' = [deal EXCEPT ![d].state = "returned"]
    /\ lot' = [lot EXCEPT ![deal[d].lot] = Less(deal[d].lot, deal[d].amount)]
    /\ available' = [available EXCEPT ![lot[deal[d].lot].owner] = @ + deal[d].amount]

\* The owner takes back what no deal has taken.
Refund(l) ==
    /\ Committed(l) = 0
    /\ available' = [available EXCEPT ![lot[l].owner] = @ + lot[l].amount]
    /\ lot' = [lot EXCEPT ![l] = NoLot]
    /\ UNCHANGED deal

EscrowNext ==
    \/ \E u \in Users, l \in Lots, q \in Amounts : Offer(u, l, q)
    \/ \E d \in DealsIn("none"), l \in Lots, u \in Users, q \in Amounts :
         Open(d, l, u, q) \/ \E seller \in Users : OfferAndOpen(d, seller, l, u, q)
    \/ \E d \in DealsIn("open") : Pay(d) \/ Return(d) \/ ReturnAndRefund(d)
    \/ \E l \in Lots : Refund(l)

EscrowSpec == EscrowInit /\ [][EscrowNext]_escrowVars
=============================================================================
