----------------------------- MODULE OtcEscrow -----------------------------
(***************************************************************************)
(* The over-the-counter desk implements Escrow, for every value of the     *)
(* constants, as long as no appeal is late: each step of Otc is a step of  *)
(* Escrow on the lots and the deals, or changes none of them.              *)
(***************************************************************************)
EXTENDS OtcProofs

lots  == [l \in EscrowLots |-> LotOf(l)]
deals == [r \in RecordIds |-> DealOf(r)]

-----------------------------------------------------------------------------
(* Lots and deals.                                                         *)

LEMMA LotEntries ==
  /\ \A o \in OrderIds :
       /\ o \in EscrowLots
       /\ LotOf(o) = LotWith(orders[o].owner, HeldFor(o))
       /\ LotOf(o)' = LotWith(orders'[o].owner, HeldFor(o)')
  /\ \A r \in RecordIds :
       /\ MaxOrders + r \in EscrowLots
       /\ MaxOrders + r \notin OrderIds
       /\ LotOf(MaxOrders + r) = LotWith(records[r].sellUser, HeldForRecord(r))
       /\ LotOf(MaxOrders + r)' = LotWith(records'[r].sellUser, HeldForRecord(r)')
<1>1. MaxOrders \in Nat \ {0} /\ MaxRecords \in Nat \ {0}
  BY OtcAssumption
<1>2. ASSUME NEW o \in OrderIds
      PROVE  /\ o \in EscrowLots
             /\ LotOf(o) = LotWith(orders[o].owner, HeldFor(o))
             /\ LotOf(o)' = LotWith(orders'[o].owner, HeldFor(o)')
  BY <1>1 DEF OrderIds, EscrowLots, LotOf
<1>3. ASSUME NEW r \in RecordIds
      PROVE  /\ MaxOrders + r \in EscrowLots
             /\ MaxOrders + r \notin OrderIds
             /\ LotOf(MaxOrders + r) = LotWith(records[r].sellUser, HeldForRecord(r))
             /\ LotOf(MaxOrders + r)' = LotWith(records'[r].sellUser, HeldForRecord(r)')
  <2>1. /\ MaxOrders + r \in EscrowLots /\ MaxOrders + r \notin OrderIds
        /\ ~(MaxOrders + r <= MaxOrders) /\ (MaxOrders + r) - MaxOrders = r
    BY <1>1 DEF OrderIds, RecordIds, EscrowLots
  <2> QED BY <2>1 DEF LotOf
<1> QED BY <1>2, <1>3

LEMMA EscrowLotsSplit ==
  ASSUME NEW l \in EscrowLots
  PROVE  l \in OrderIds \/ \E r \in RecordIds : l = MaxOrders + r
<1>1. MaxOrders \in Nat \ {0} /\ MaxRecords \in Nat \ {0} /\ l \in Nat
  BY OtcAssumption DEF EscrowLots
<1>2. CASE l <= MaxOrders
  BY <1>1, <1>2 DEF OrderIds, EscrowLots
<1>3. CASE ~(l <= MaxOrders)
  <2>1. l - MaxOrders \in RecordIds /\ l = MaxOrders + (l - MaxOrders)
    BY <1>1, <1>3 DEF RecordIds, EscrowLots
  <2> QED BY <2>1
<1> QED BY <1>2, <1>3

\* What orders and records hold decides what the lots are.
LEMMA LotsUpdate ==
  ASSUME NEW k \in EscrowLots, NEW new, LotOf(k)' = new,
         \A o \in OrderIds : o # k => LotOf(o)' = LotOf(o),
         \A r \in RecordIds : MaxOrders + r # k => LotOf(MaxOrders + r)' = LotOf(MaxOrders + r)
  PROVE  lots' = [lots EXCEPT ![k] = new]
<1>1. \A l \in EscrowLots : l # k => LotOf(l)' = LotOf(l)
  BY EscrowLotsSplit
<1> QED BY <1>1 DEF lots

LEMMA DealsUpdate ==
  ASSUME NEW r \in RecordIds, NEW new, DealOf(r)' = new,
         \A i \in RecordIds : i # r => DealOf(i)' = DealOf(i)
  PROVE  deals' = [deals EXCEPT ![r] = new]
BY DEF deals

\* A deal is open exactly if its record is.
LEMMA DealFacts ==
  ASSUME CoreInvariant, NEW r \in RecordIds
  PROVE  /\ DealOf(r).state = "none" <=> records[r].status = "NONE"
         /\ DealOf(r).state = "open" <=> IsOpen(records[r])
         /\ records[r].status # "NONE" =>
              /\ DealOf(r).lot = IF TypeOf(records[r]) = "SELL" THEN records[r].order ELSE MaxOrders + r
              /\ DealOf(r).to = records[r].buyUser /\ DealOf(r).amount = records[r].quantity
<1>1. records[r].status = "NONE" => ~IsOpen(records[r])
  BY DEF IsOpen, OpenStatus
<1>2. CASE records[r].status = "NONE"
  BY <1>1, <1>2 DEF DealOf
<1>3. CASE records[r].status # "NONE"
  BY <1>3 DEF DealOf, DealState
<1> QED BY <1>2, <1>3

Commitment(l) == [d \in RecordIds |-> IF DealOf(d).state = "open" /\ DealOf(d).lot = l
                                      THEN DealOf(d).amount ELSE 0]

LEMMA CommittedSum == \A l : E!Committed(l) = SumTo(Commitment(l), MaxRecords)
<1> TAKE l
<1>1. [d \in 1..MaxRecords |-> IF deals[d].state = "open" /\ deals[d].lot = l
                               THEN deals[d].amount ELSE 0] = Commitment(l)
  BY DEF Commitment, deals, RecordIds
<1>2. E!Committed(l) = E!SumTo(Commitment(l), MaxRecords)
  BY <1>1, Zenon DEF E!Committed, E!Deals, deals
<1>3. \A f, n : E!SumTo(f, n) = SumTo(f, n)
  BY Zenon DEF SumTo, E!SumTo, PartialSums, E!PartialSums
<1> QED BY <1>2, <1>3

\* Nothing is committed on a lot no open deal is about.
LEMMA NothingCommitted ==
  ASSUME NEW l, \A d \in RecordIds : DealOf(d).state = "open" => DealOf(d).lot # l
  PROVE  E!Committed(l) = 0
<1>1. Commitment(l) \in [1..MaxRecords -> Int] /\ \A d \in 1..MaxRecords : Commitment(l)[d] = 0
  BY DEF Commitment, RecordIds
<1>2. MaxRecords \in Nat
  BY OtcAssumption
<1> QED BY <1>1, <1>2, CommittedSum, SumZero

\* What is committed on the lot of a SELL order is what its records have open,
\* and the lot holds it with what is still on offer.
LEMMA CommittedOnOrder ==
  ASSUME CoreInvariant, NEW o \in OrderIds, orders[o].status # "NONE",
         orders[o].type = "SELL", ~Withdrawn(orders[o])
  PROVE  /\ E!Committed(o) = QuantityIn(o, {"TRADEING"})
         /\ QuantityIn(o, {"TRADEING"}) \in Nat
         /\ HeldFor(o) = QuantityIn(o, {"TRADEING"}) + Residue(orders[o])
         /\ HeldFor(o) \in Nat
<1>1. RecordsTyped /\ CoreType /\ orders[o] \in Order
  BY DEF CoreInvariant, CoreType, RecordsTyped
<1>2. MaxRecords \in Nat /\ RecordIds = 1..MaxRecords
  BY OtcAssumption DEF RecordIds
<1>3. \A d \in RecordIds : Commitment(o)[d] = QuantityOf(records[d], o, {"TRADEING"})
  <2> SUFFICES ASSUME NEW d \in RecordIds
               PROVE  Commitment(o)[d] = QuantityOf(records[d], o, {"TRADEING"})
    OBVIOUS
  <2>1. IsOpen(records[d]) <=> records[d].successStatus = "TRADEING"
    BY DEF CoreInvariant, RecordsFit
  <2>2. IsOpen(records[d]) => records[d].status # "NONE"
    BY DEF IsOpen, OpenStatus
  <2>3. MaxOrders + d # o
    BY LotEntries
  <2>4. IsOpen(records[d]) => (DealOf(d).lot = o <=> records[d].order = o)
    BY <2>2, <2>3, DealFacts DEF TypeOf
  <2> QED BY <2>1, <2>2, <2>4, DealFacts DEF Commitment, QuantityOf
<1>4. Commitment(o) = RecordQuantities(o, {"TRADEING"})
  BY <1>3 DEF Commitment, RecordQuantities
<1>5. E!Committed(o) = QuantityIn(o, {"TRADEING"})
  BY <1>4, CommittedSum DEF QuantityIn
<1>6. QuantityIn(o, {"TRADEING"}) \in Nat /\ QuantityIn(o, {"SUCCESS"}) \in Nat
  BY <1>1, QuantityInType
<1>7. QuantityIn(o, {"TRADEING", "SUCCESS"}) = QuantityIn(o, {"TRADEING"}) + QuantityIn(o, {"SUCCESS"})
  <2> DEFINE f(st) == RecordQuantities(o, st)
  <2>1. \A st : f(st) \in [1..MaxRecords -> Int]
    BY <1>1, <1>2, QuantityType DEF RecordsTyped, RecordQuantities
  <2>2. \A i \in 1..MaxRecords : f({"TRADEING", "SUCCESS"})[i] = f({"TRADEING"})[i] + f({"SUCCESS"})[i]
    <3>1. \A i \in RecordIds : records[i].quantity \in Nat
      BY <1>1 DEF RecordsTyped, Record
    <3> QED BY <1>2, <3>1 DEF RecordQuantities, QuantityOf
  <2> HIDE DEF f
  <2>3. SumTo(f({"TRADEING", "SUCCESS"}), MaxRecords)
          = SumTo(f({"TRADEING"}), MaxRecords) + SumTo(f({"SUCCESS"}), MaxRecords)
    BY <1>2, <2>1, <2>2, SumAdd
  <2> QED BY <2>3 DEF f, QuantityIn
<1>8. /\ orders[o].tradeQuantity = QuantityIn(o, {"TRADEING", "SUCCESS"})
      /\ orders[o].tradeQuantity <= orders[o].quantity
      /\ orders[o].quantity \in Nat /\ orders[o].tradeQuantity \in Nat
  BY <1>1 DEF CoreInvariant, TradedByRecords, Order
<1>9. HeldFor(o) = orders[o].quantity - QuantityIn(o, {"SUCCESS"})
  BY DEF HeldFor
<1>10. HeldFor(o) = QuantityIn(o, {"TRADEING"}) + Residue(orders[o])
  BY <1>6, <1>7, <1>8, <1>9 DEF Residue
<1>11. HeldFor(o) \in Nat
  BY <1>6, <1>8, <1>10 DEF Residue
<1> QED BY <1>5, <1>6, <1>10, <1>11

-----------------------------------------------------------------------------
(* A record is decided.                                                    *)

\* Taking q out of a lot that holds h for v.
LEMMA LessLot ==
  ASSUME NEW k \in EscrowLots, NEW v, NEW h \in Nat, NEW q \in Nat \ {0}, q <= h,
         LotOf(k) = LotWith(v, h)
  PROVE  E!Less(k, q) = LotWith(v, h - q) /\ lots[k].owner = v
<1>1. lots[k] = [owner |-> v, amount |-> h]
  BY DEF lots, LotWith
<1>2. E!Less(k, q) = IF lots[k].amount = q THEN E!NoLot ELSE [lots[k] EXCEPT !.amount = @ - q]
  BY DEF E!Less, lots
<1>3. CASE h = q
  <2>1. h - q = 0 /\ lots[k].amount = q /\ lots[k].owner = v
    BY <1>1, <1>3
  <2>2. LotWith(v, 0) = E!NoLot
    BY Zenon DEF LotWith, E!NoLot
  <2> QED BY <1>2, <2>1, <2>2
<1>4. CASE h # q
  BY <1>1, <1>2, <1>4 DEF LotWith
<1> QED BY <1>1, <1>3, <1>4

\* The deal of a record that is decided, and the others.
LEMMA DecidedDeals ==
  ASSUME CoreInvariant, NEW r \in RecordIds, IsOpen(records[r]),
         NEW st \in ClosedStatus, NEW su \in {"SUCCESS", "CANCEL"}, SetRecord(r, st, su),
         \A i \in RecordIds : TypeOf(records[i])' = TypeOf(records[i])
  PROVE  deals' = [deals EXCEPT ![r].state = IF su = "SUCCESS" THEN "paid" ELSE "returned"]
<1>1. /\ \A i \in RecordIds : i # r => records'[i] = records[i]
      /\ records'[r].status = st /\ records'[r].successStatus = su
      /\ records'[r].order = records[r].order
      /\ records'[r].quantity = records[r].quantity
      /\ records'[r].buyUser = records[r].buyUser
  BY SetRecordEffect DEF CoreInvariant, CoreType, RecordsTyped, ClosedStatus
<1>2. st \notin OpenStatus /\ st # "NONE" /\ records[r].status # "NONE"
  BY DEF ClosedStatus, IsOpen, OpenStatus
<1>3. \A i \in RecordIds : i # r => DealOf(i)' = DealOf(i)
  BY <1>1 DEF DealOf, DealState, IsOpen
<1> DEFINE done == IF su = "SUCCESS" THEN "paid" ELSE "returned"
<1>4. DealOf(r)' = [DealOf(r) EXCEPT !.state = done]
  <2>1. DealOf(r) = [state |-> DealState(records[r]), to |-> records[r].buyUser,
          lot |-> IF TypeOf(records[r]) = "SELL" THEN records[r].order ELSE MaxOrders + r,
          amount |-> records[r].quantity]
    BY <1>2 DEF DealOf
  <2>2. DealOf(r)' = [state |-> DealState(records'[r]), to |-> records[r].buyUser,
          lot |-> IF TypeOf(records[r]) = "SELL" THEN records[r].order ELSE MaxOrders + r,
          amount |-> records[r].quantity]
    BY <1>1, <1>2 DEF DealOf
  <2>3. DealState(records'[r]) = done
    BY <1>1, <1>2 DEF DealState, IsOpen
  <2> QED BY <2>1, <2>2, <2>3
<1> HIDE DEF done
<1>5. deals' = [deals EXCEPT ![r] = [DealOf(r) EXCEPT !.state = done]]
  BY <1>3, <1>4, DealsUpdate
<1>6. deals[r] = DealOf(r)
  BY DEF deals
<1> QED BY <1>5, <1>6 DEF done

\* The lot of an open record belongs to its seller and holds what it needs.
LEMMA OpenLot ==
  ASSUME CoreInvariant, NEW r \in RecordIds, IsOpen(records[r]),
         NEW k, k = DealOf(r).lot, NEW q, q = records[r].quantity,
         NEW v, v = records[r].sellUser, NEW o, o = records[r].order
  PROVE  /\ k \in EscrowLots /\ k = (IF orders[o].type = "SELL" THEN o ELSE MaxOrders + r)
         /\ q \in Nat \ {0} /\ o \in OrderIds /\ orders[o].type \in {"BUY", "SELL"}
         /\ deals[r].lot = k /\ deals[r].amount = q /\ deals[r].to = records[r].buyUser
         /\ r \in E!DealsIn("open")
         /\ orders[o].type = "SELL" => /\ HeldFor(o) \in Nat /\ q <= HeldFor(o)
                                       /\ LotOf(k) = LotWith(v, HeldFor(o))
         /\ orders[o].type = "BUY" => LotOf(k) = LotWith(v, q)
<1>1. /\ o \in OrderIds /\ q \in Nat \ {0} /\ orders[o] \in Order
      /\ orders[o].status # "NONE" /\ ~Withdrawn(orders[o])
      /\ records[r].status # "NONE" /\ records[r].successStatus = "TRADEING"
      /\ orders[o].type = "SELL" => orders[o].owner = v
  BY RecordFacts
<1>2. /\ k = IF orders[o].type = "SELL" THEN o ELSE MaxOrders + r
      /\ DealOf(r).amount = q /\ DealOf(r).to = records[r].buyUser /\ DealOf(r).state = "open"
  BY <1>1, DealFacts DEF TypeOf
<1>3. k \in EscrowLots
  BY <1>1, <1>2, LotEntries
<1>4. /\ deals[r].lot = k /\ deals[r].amount = q /\ deals[r].to = records[r].buyUser
      /\ r \in E!DealsIn("open")
  <2>1. r \in E!Deals
    BY DEF E!Deals, RecordIds
  <2> QED BY <1>2, <2>1 DEF deals, E!DealsIn
<1>5. ASSUME orders[o].type = "SELL"
      PROVE  HeldFor(o) \in Nat /\ q <= HeldFor(o) /\ LotOf(k) = LotWith(v, HeldFor(o))
  <2>1. QuantityOf(records[r], o, {"TRADEING"}) = q
    BY <1>1 DEF QuantityOf
  <2>2. QuantityIn(o, {"TRADEING"}) >= q
    BY <1>1, <2>1, QuantityInType DEF CoreInvariant, CoreType, RecordsTyped
  <2>3. /\ HeldFor(o) = QuantityIn(o, {"TRADEING"}) + Residue(orders[o])
        /\ QuantityIn(o, {"TRADEING"}) \in Nat /\ HeldFor(o) \in Nat
    BY <1>1, <1>5, CommittedOnOrder
  <2>4. Residue(orders[o]) \in Nat
    <3>1. /\ orders[o].tradeQuantity <= orders[o].quantity
          /\ orders[o].quantity \in Nat /\ orders[o].tradeQuantity \in Nat
      BY <1>1 DEF CoreInvariant, TradedByRecords, Order
    <3> QED BY <3>1 DEF Residue
  <2>5. LotOf(k) = LotWith(v, HeldFor(o))
    BY <1>1, <1>2, <1>5, LotEntries
  <2> QED BY <1>1, <2>2, <2>3, <2>4, <2>5
<1>6. orders[o].type = "BUY" => LotOf(k) = LotWith(v, q)
  <2>1. orders[o].type = "BUY" => HeldForRecord(r) = q
    BY DEF HeldForRecord, TypeOf
  <2> QED BY <1>2, <2>1, LotEntries
<1>7. orders[o].type \in {"BUY", "SELL"}
  BY <1>1 DEF Order
<1> QED BY <1>1, <1>2, <1>3, <1>4, <1>5, <1>6, <1>7

\* A record whose coins are handed over is a deal that is paid.
LEMMA CompletesPays ==
  ASSUME CoreInvariant, NEW r \in RecordIds, Completes(r)
  PROVE  r \in E!DealsIn("open") /\ E!Pay(r)
<1>0. PICK rec, o, q, v, b, k :
        /\ rec = records[r] /\ o = rec.order /\ q = rec.quantity
        /\ v = rec.sellUser /\ b = rec.buyUser /\ k = DealOf(r).lot
  OBVIOUS
<1>1. IsOpen(records[r]) /\ rec.successStatus = "TRADEING"
  BY <1>0, RecordFacts DEF Completes
<1>2. PICK st \in ClosedStatus : SetRecord(r, st, "SUCCESS")
  BY DEF Completes
<1>3. orders' = orders /\ using' = [using EXCEPT ![b] = @ + q]
  BY <1>0 DEF Completes, HandOver
<1>4. CoreType /\ RecordsTyped /\ RecordsFit /\ CoreInvariant'
  BY CompletesCore DEF CoreInvariant, CoreType, RecordsTyped
<1>5. RecordsTyped'
  BY <1>4 DEF CoreInvariant, CoreType, RecordsTyped
<1>6. \A i \in RecordIds : TypeOf(records[i])' = TypeOf(records[i])
  BY <1>1, <1>2, <1>3, <1>4, DecidedFit
<1>7. /\ k \in EscrowLots /\ k = (IF orders[o].type = "SELL" THEN o ELSE MaxOrders + r)
      /\ q \in Nat \ {0} /\ o \in OrderIds /\ orders[o].type \in {"BUY", "SELL"}
      /\ deals[r].lot = k /\ deals[r].amount = q /\ deals[r].to = b
      /\ r \in E!DealsIn("open")
      /\ orders[o].type = "SELL" => /\ HeldFor(o) \in Nat /\ q <= HeldFor(o)
                                    /\ LotOf(k) = LotWith(v, HeldFor(o))
      /\ orders[o].type = "BUY" => LotOf(k) = LotWith(v, q)
  BY <1>0, <1>1, OpenLot
<1>8. deals' = [deals EXCEPT ![r].state = "paid"]
  BY <1>1, <1>2, <1>6, DecidedDeals
<1>9. ASSUME NEW i \in OrderIds
      PROVE  HeldFor(i)' = IF o = i /\ orders[i].type = "SELL" THEN HeldFor(i) - q ELSE HeldFor(i)
  <2>1. QuantityIn(i, {"SUCCESS"})' = QuantityIn(i, {"SUCCESS"}) + (IF o = i THEN q ELSE 0)
    BY <1>0, <1>1, <1>2, <1>4, <1>5, DecidedQuantities
  <2>2. /\ QuantityIn(i, {"SUCCESS"}) \in Nat /\ orders[i].quantity \in Nat
        /\ orders[i].type \in {"BUY", "SELL"}
    BY <1>4, QuantityInType DEF CoreType, Order
  <2>3. o = i => orders[i].status # "NONE" /\ ~Withdrawn(orders[i])
    BY <1>0, <1>1, RecordFacts
  <2> QED BY <1>3, <1>7, <2>1, <2>2, <2>3 DEF HeldFor
<1>10. /\ \A i \in RecordIds : /\ i # r => HeldForRecord(i)' = HeldForRecord(i)
                               /\ records'[i].sellUser = records[i].sellUser
       /\ HeldForRecord(r)' = 0
       /\ HeldForRecord(r) = IF orders[o].type = "BUY" THEN q ELSE 0
  BY <1>0, <1>1, <1>2, <1>4, <1>6, DecidedHeld DEF TypeOf
<1>11. lots' = [lots EXCEPT ![k] = E!Less(k, q)]
  <2>1. /\ \A i \in OrderIds : i # k => LotOf(i)' = LotOf(i)
        /\ \A i \in RecordIds : MaxOrders + i # k => LotOf(MaxOrders + i)' = LotOf(MaxOrders + i)
    <3>1. ASSUME NEW i \in OrderIds, i # k PROVE LotOf(i)' = LotOf(i)
      <4>1. HeldFor(i)' = HeldFor(i)
        BY <1>7, <1>9, <3>1
      <4> QED BY <1>3, <4>1, LotEntries
    <3>2. ASSUME NEW i \in RecordIds, MaxOrders + i # k
          PROVE  LotOf(MaxOrders + i)' = LotOf(MaxOrders + i)
      <4>1. HeldForRecord(i)' = HeldForRecord(i)
        BY <1>7, <1>10, <3>2
      <4> QED BY <1>10, <4>1, LotEntries
    <3> QED BY <3>1, <3>2
  <2>2. LotOf(k)' = E!Less(k, q)
    <3>1. CASE orders[o].type = "SELL"
      <4>1. orders[o].owner = v
        BY <1>0, <1>1, <3>1, RecordFacts
      <4>2. LotOf(k)' = LotWith(v, HeldFor(o) - q)
        BY <1>3, <1>7, <1>9, <3>1, <4>1, LotEntries
      <4> QED BY <1>7, <3>1, <4>2, LessLot
    <3>2. CASE orders[o].type = "BUY"
      <4>1. LotOf(k)' = LotWith(v, 0)
        BY <1>0, <1>7, <1>10, <3>2, LotEntries
      <4>2. q - q = 0 /\ q <= q /\ q \in Nat
        BY <1>7
      <4> QED BY <1>7, <3>2, <4>1, <4>2, LessLot
    <3> QED BY <1>7, <3>1, <3>2
  <2> QED BY <1>7, <2>1, <2>2, LotsUpdate
<1> QED BY <1>3, <1>7, <1>8, <1>11 DEF lots, deals, E!Pay

\* A record whose coins are given back is a deal that is returned, to the
\* lot of its SELL order or to the seller of a BUY order.
LEMMA ReturnsReturns ==
  ASSUME CoreInvariant, NEW r \in RecordIds, Returns(r)
  PROVE  r \in E!DealsIn("open") /\ (E!Return(r) \/ E!ReturnAndRefund(r))
<1>0. PICK rec, o, q, v, k :
        /\ rec = records[r] /\ o = rec.order /\ q = rec.quantity
        /\ v = rec.sellUser /\ k = DealOf(r).lot
  OBVIOUS
<1>1. /\ IsOpen(records[r]) /\ rec.successStatus = "TRADEING"
      /\ orders[o].status # "NONE" /\ ~Withdrawn(orders[o])
      /\ orders[o] \in Order /\ orders[o].tradeQuantity >= q
  BY <1>0, RecordFacts DEF Returns
<1>2. PICK st \in ClosedStatus : SetRecord(r, st, "CANCEL")
  BY DEF Returns
<1>3. /\ orders' = [orders EXCEPT ![o].tradeQuantity = @ - q, ![o].status = "WAIT"]
      /\ IF orders[o].type = "BUY" THEN ModifyWallet(v, q, -q) ELSE UNCHANGED <<using, freeze>>
  BY <1>0 DEF Returns, GiveBack, TypeOf
<1>4. CoreType /\ RecordsTyped /\ RecordsFit /\ CoreInvariant'
  BY ReturnsCore DEF CoreInvariant, CoreType, RecordsTyped
<1>5. RecordsTyped' /\ TradedByRecords'
  BY <1>4 DEF CoreInvariant, CoreType, RecordsTyped
<1>6. /\ k \in EscrowLots /\ k = (IF orders[o].type = "SELL" THEN o ELSE MaxOrders + r)
      /\ q \in Nat \ {0} /\ o \in OrderIds /\ orders[o].type \in {"BUY", "SELL"}
      /\ deals[r].lot = k /\ deals[r].amount = q
      /\ r \in E!DealsIn("open")
      /\ orders[o].type = "BUY" => LotOf(k) = LotWith(v, q)
  BY <1>0, <1>1, OpenLot
<1>7. /\ \A i \in OrderIds : i # o => orders'[i] = orders[i]
      /\ orders'[o].owner = orders[o].owner /\ orders'[o].type = orders[o].type
      /\ orders'[o].quantity = orders[o].quantity /\ orders'[o].status = "WAIT"
  BY <1>1, <1>3, <1>4, <1>6 DEF CoreType, Order
<1>8. \A i \in RecordIds : TypeOf(records[i])' = TypeOf(records[i])
  <2>1. \A i \in OrderIds : /\ orders'[i].owner = orders[i].owner
                            /\ orders'[i].type = orders[i].type
                            /\ orders[i].status # "NONE" => orders'[i].status # "NONE"
    BY <1>7
  <2> QED BY <1>1, <1>2, <1>4, <2>1, DecidedFit
<1>9. deals' = [deals EXCEPT ![r].state = "returned"]
  BY <1>1, <1>2, <1>8, DecidedDeals
<1>10. ASSUME NEW i \in OrderIds PROVE HeldFor(i)' = HeldFor(i)
  <2>1. QuantityIn(i, {"SUCCESS"})' = QuantityIn(i, {"SUCCESS"}) + 0
    BY <1>0, <1>1, <1>2, <1>4, <1>5, DecidedQuantities
  <2>2. QuantityIn(i, {"SUCCESS"}) \in Nat
    BY <1>4, QuantityInType
  <2>3. ~Withdrawn(orders'[o])
    BY <1>7 DEF Withdrawn
  <2> QED BY <1>1, <1>7, <2>1, <2>2, <2>3 DEF HeldFor
<1>11. /\ \A i \in RecordIds : /\ i # r => HeldForRecord(i)' = HeldForRecord(i)
                               /\ records'[i].sellUser = records[i].sellUser
       /\ HeldForRecord(r)' = 0
       /\ HeldForRecord(r) = IF orders[o].type = "BUY" THEN q ELSE 0
  BY <1>0, <1>1, <1>2, <1>4, <1>8, DecidedHeld DEF TypeOf
<1>12. /\ \A i \in OrderIds : LotOf(i)' = LotOf(i)
       /\ \A i \in RecordIds : i # r => LotOf(MaxOrders + i)' = LotOf(MaxOrders + i)
  BY <1>7, <1>10, <1>11, LotEntries
<1>13. CASE orders[o].type = "SELL"
  <2>1. lots' = lots
    <3>1. LotOf(MaxOrders + r)' = LotOf(MaxOrders + r)
      BY <1>11, <1>13, LotEntries
    <3>2. \A l \in EscrowLots : LotOf(l)' = LotOf(l)
      BY <1>12, <3>1, EscrowLotsSplit
    <3> QED BY <3>2 DEF lots
  <2> QED BY <1>3, <1>6, <1>9, <1>13, <2>1 DEF lots, deals, E!Return
<1>14. CASE orders[o].type = "BUY"
  <2>1. LotOf(k)' = LotWith(v, 0)
    BY <1>0, <1>6, <1>11, <1>14, LotEntries
  <2>2. q - q = 0 /\ q <= q /\ q \in Nat
    BY <1>6
  <2>3. LotOf(k)' = E!Less(k, q) /\ lots[k].owner = v
    BY <1>6, <1>14, <2>1, <2>2, LessLot
  <2>4. \A i \in RecordIds : MaxOrders + i # k => LotOf(MaxOrders + i)' = LotOf(MaxOrders + i)
    BY <1>6, <1>12, <1>14
  <2>5. lots' = [lots EXCEPT ![k] = E!Less(k, q)]
    BY <1>6, <1>12, <2>3, <2>4, LotsUpdate
  <2>6. using' = [using EXCEPT ![v] = @ + q]
    BY <1>3, <1>14 DEF ModifyWallet
  <2> QED BY <1>6, <1>9, <2>3, <2>5, <2>6 DEF lots, deals, E!ReturnAndRefund
<1> QED BY <1>6, <1>13, <1>14

-----------------------------------------------------------------------------
(* An order or a record goes on.                                           *)

\* The deals of records that stay as they are.
LEMMA SameDeals ==
  ASSUME CoreType, records' = records,
         \A i \in RecordIds : records[i].status # "NONE" => TypeOf(records[i])' = TypeOf(records[i])
  PROVE  deals' = deals
<1>1. \A i \in RecordIds : DealOf(i)' = DealOf(i)
  BY DEF DealOf, DealState, IsOpen
<1> QED BY <1>1 DEF deals

\* A record that proceeds is the same open deal.
LEMMA ProceedsStutters ==
  ASSUME CoreInvariant, NEW r \in RecordIds, Proceeds(r)
  PROVE  UNCHANGED <<using, lots, deals>>
<1>1. UNCHANGED <<using, freeze, orders>> /\ IsOpen(records[r]) /\ CoreType
  BY DEF Proceeds, CoreInvariant
<1>2. /\ \A i \in RecordIds : i # r => records'[i] = records[i]
      /\ IsOpen(records'[r])
      /\ records'[r].successStatus = "TRADEING"
      /\ records'[r].order = records[r].order
      /\ records'[r].quantity = records[r].quantity
      /\ records'[r].buyUser = records[r].buyUser
      /\ records'[r].sellUser = records[r].sellUser
  <2>1. PICK st \in OpenStatus, type \in {"BUY", "SELL"} :
          records' = [records EXCEPT ![r] = [@ EXCEPT !.status = st, !.appealType = type,
                                                      !.successStatus = "TRADEING"]]
    BY DEF Proceeds
  <2> QED BY <1>1, <2>1 DEF CoreType, Record, IsOpen
<1>3. records[r].successStatus = "TRADEING"
  BY <1>1, RecordFacts
<1>4. /\ \A i \in RecordIds : TypeOf(records[i])' = TypeOf(records[i])
      /\ \A i \in RecordIds : IsOpen(records'[i]) <=> IsOpen(records[i])
      /\ records[r].status # "NONE" /\ records'[r].status # "NONE"
  BY <1>1, <1>2 DEF TypeOf, IsOpen, OpenStatus
<1>5. \A i \in RecordIds : DealOf(i)' = DealOf(i)
  BY <1>1, <1>2, <1>4 DEF DealOf, DealState
<1>6. \A o \in OrderIds : QuantityIn(o, {"SUCCESS"})' = QuantityIn(o, {"SUCCESS"})
  <2>1. \A i \in RecordIds, o \in OrderIds :
          QuantityOf(records'[i], o, {"SUCCESS"}) = QuantityOf(records[i], o, {"SUCCESS"})
    BY <1>2, <1>3 DEF QuantityOf
  <2> QED BY <2>1 DEF QuantityIn, RecordQuantities
<1>7. /\ \A o \in OrderIds : HeldFor(o)' = HeldFor(o)
      /\ \A i \in RecordIds : HeldForRecord(i)' = HeldForRecord(i)
  BY <1>1, <1>2, <1>4, <1>6 DEF HeldFor, HeldForRecord
<1>8. \A l \in EscrowLots : LotOf(l)' = LotOf(l)
  BY <1>1, <1>2, <1>7, EscrowLotsSplit, LotEntries
<1> QED BY <1>1, <1>5, <1>8 DEF lots, deals

\* So is an order that goes off the shelf or back.
LEMMA ShelvesStutters ==
  ASSUME CoreInvariant, NEW o \in OrderIds, Shelves(o)
  PROVE  UNCHANGED <<using, lots, deals>>
<1>1. UNCHANGED <<using, freeze, records>> /\ orders[o].status = "WAIT" /\ CoreType
  BY DEF Shelves, CoreInvariant
<1>2. \A i \in OrderIds :
        /\ orders'[i].owner = orders[i].owner /\ orders'[i].type = orders[i].type
        /\ orders'[i].quantity = orders[i].quantity /\ orders'[i].status = orders[i].status
        /\ orders'[i].tradeQuantity = orders[i].tradeQuantity
  BY <1>1 DEF Shelves, CoreType, Order
<1>3. \A i \in RecordIds : TypeOf(records[i])' = TypeOf(records[i])
  BY <1>1, <1>2 DEF TypeOf, CoreType, Record
<1>4. /\ \A i \in OrderIds : HeldFor(i)' = HeldFor(i)
      /\ \A i \in RecordIds : HeldForRecord(i)' = HeldForRecord(i)
  <2>1. \A i \in OrderIds : QuantityIn(i, {"SUCCESS"})' = QuantityIn(i, {"SUCCESS"})
    BY <1>1, QuantityInSame
  <2> QED BY <1>1, <1>2, <1>3, <2>1 DEF HeldFor, HeldForRecord, Withdrawn, Residue
<1>5. \A l \in EscrowLots : LotOf(l)' = LotOf(l)
  BY <1>1, <1>2, <1>4, EscrowLotsSplit, LotEntries
<1>6. deals' = deals
  BY <1>1, <1>3, SameDeals
<1> QED BY <1>1, <1>5, <1>6 DEF lots

\* A withdrawn SELL order is a lot that is refunded; a BUY order has no lot.
LEMMA WithdrawsRefunds ==
  ASSUME CoreInvariant, NEW o \in OrderIds, Withdraws(o)
  PROVE  (o \in EscrowLots /\ E!Refund(o)) \/ UNCHANGED <<using, lots, deals>>
<1>1. CoreType /\ TradedByRecords /\ CoreInvariant'
  BY WithdrawsCore DEF CoreInvariant
<1>2. PICK v \in Users, done \in Nat, left \in Int :
        /\ v = orders[o].owner /\ done = QuantityIn(o, {"SUCCESS"})
        /\ left = orders[o].quantity - done /\ done = orders[o].tradeQuantity
        /\ records' = records /\ orders[o].status = "WAIT" /\ CanCancel(o)
        /\ \A i \in OrderIds : i # o => orders'[i] = orders[i]
        /\ orders'[o].owner = v /\ orders'[o].type = orders[o].type
        /\ orders'[o].quantity = orders[o].quantity /\ orders'[o].status = "END"
        /\ orders'[o].tradeQuantity = orders[o].tradeQuantity
        /\ orders' \in [OrderIds -> Order]
        /\ IF orders[o].type = "SELL" THEN ModifyWallet(v, left, -left)
           ELSE UNCHANGED <<using, freeze>>
  BY WithdrawsEffect
<1>3. \A i \in RecordIds : /\ TypeOf(records[i])' = TypeOf(records[i])
                           /\ HeldForRecord(i)' = HeldForRecord(i)
  <2>1. \A i \in RecordIds : TypeOf(records[i])' = TypeOf(records[i])
    BY <1>1, <1>2 DEF TypeOf, CoreType, Record
  <2> QED BY <1>2, <2>1 DEF HeldForRecord
<1>4. deals' = deals
  BY <1>1, <1>2, <1>3, SameDeals
<1>5. left > 0 /\ orders[o].type \in {"BUY", "SELL"}
  BY <1>1, <1>2 DEF TradedByRecords, Residue, CoreType, Order
<1>6. /\ HeldFor(o) = IF orders[o].type = "SELL" THEN left ELSE 0
      /\ HeldFor(o)' = 0
      /\ \A i \in OrderIds : i # o => HeldFor(i)' = HeldFor(i)
  <2>1. \A i \in OrderIds : QuantityIn(i, {"SUCCESS"})' = QuantityIn(i, {"SUCCESS"})
    BY <1>2, QuantityInSame
  <2>2. Withdrawn(orders'[o]) /\ ~Withdrawn(orders[o]) /\ orders[o].status # "NONE"
    BY <1>2, <1>5 DEF Withdrawn, Residue
  <2> QED BY <1>2, <1>5, <2>1, <2>2 DEF HeldFor
<1>7. /\ LotOf(o) = LotWith(v, HeldFor(o)) /\ LotOf(o)' = LotWith(v, 0)
      /\ \A i \in OrderIds : i # o => LotOf(i)' = LotOf(i)
      /\ \A i \in RecordIds : LotOf(MaxOrders + i)' = LotOf(MaxOrders + i)
      /\ o \in EscrowLots
  BY <1>2, <1>3, <1>6, LotEntries
<1>8. CASE orders[o].type = "SELL"
  <2>1. lots[o] = [owner |-> v, amount |-> left]
    BY <1>5, <1>6, <1>7, <1>8 DEF lots, LotWith
  <2>2. LotOf(o)' = E!NoLot
    BY <1>7, Zenon DEF LotWith, E!NoLot
  <2>3. lots' = [lots EXCEPT ![o] = E!NoLot]
    BY <1>7, <2>2, LotsUpdate
  <2>4. using' = [using EXCEPT ![v] = @ + left]
    BY <1>2, <1>8 DEF ModifyWallet
  <2>5. E!Committed(o) = 0
    <3>1. ASSUME NEW d \in RecordIds, DealOf(d).state = "open" PROVE DealOf(d).lot # o
      <4>1. IsOpen(records[d]) /\ records[d].status # "NONE" /\ records[d].order # o
        BY <1>2, <3>1, DealFacts DEF CanCancel, IsOpen, OpenStatus
      <4>2. DealOf(d).lot \in {records[d].order, MaxOrders + d}
        BY <4>1, DealFacts
      <4> QED BY <4>1, <4>2, LotEntries
    <3> QED BY <3>1, NothingCommitted
  <2>6. using' = [using EXCEPT ![lots[o].owner] = @ + lots[o].amount]
    BY <2>1, <2>4
  <2> QED BY <1>4, <1>7, <2>3, <2>5, <2>6 DEF lots, deals, E!Refund
<1>9. CASE orders[o].type = "BUY"
  <2>1. LotOf(o)' = LotOf(o)
    BY <1>6, <1>7, <1>9
  <2>2. lots' = lots
    BY <1>7, <2>1, EscrowLotsSplit DEF lots
  <2> QED BY <1>2, <1>4, <1>9, <2>2
<1> QED BY <1>5, <1>8, <1>9

\* A published SELL order is a lot put on offer; a BUY order has no lot.
LEMMA PublishOffers ==
  ASSUME CoreInvariant, NEW v \in Users, NEW type \in {"BUY", "SELL"},
         NEW q \in Quantities, Publish(v, type, q)
  PROVE  (\E o \in EscrowLots : E!Offer(v, o, q)) \/ UNCHANGED <<using, lots, deals>>
<1>1. CoreType /\ RecordsFit /\ CoreInvariant'
  BY PublishCore DEF CoreInvariant
<1>2. PICK o \in OrderIds :
        /\ orders[o].status = "NONE"
        /\ orders' = [orders EXCEPT ![o] =
             [status |-> "WAIT", owner |-> v, type |-> type, quantity |-> q,
              tradeQuantity |-> 0, cancel |-> "NORMAL"]]
  BY DEF Publish, NextOrderId
<1>3. /\ records' = records /\ q \in Nat \ {0}
      /\ IF type = "SELL" THEN ModifyWallet(v, -q, q) ELSE UNCHANGED <<using, freeze>>
  BY OtcAssumption DEF Publish
<1>4. /\ \A i \in OrderIds : i # o => orders'[i] = orders[i]
      /\ orders'[o].owner = v /\ orders'[o].type = type /\ orders'[o].quantity = q
      /\ orders'[o].status = "WAIT" /\ orders'[o].tradeQuantity = 0
  BY <1>1, <1>2, <1>3 DEF CoreType
<1>5. \A r \in RecordIds : records[r].status # "NONE" => records[r].order \in OrderIds \ {o}
  BY <1>1, <1>2, UnpublishedOrder DEF CoreType, Record
<1>6. \A r \in RecordIds : /\ records[r].status # "NONE" => TypeOf(records[r])' = TypeOf(records[r])
                           /\ HeldForRecord(r)' = HeldForRecord(r)
  <2>1. \A r \in RecordIds : records[r].status # "NONE" => TypeOf(records[r])' = TypeOf(records[r])
    BY <1>3, <1>4, <1>5 DEF TypeOf
  <2> QED BY <1>3, <2>1 DEF HeldForRecord, IsOpen, OpenStatus
<1>7. deals' = deals
  BY <1>1, <1>3, <1>6, SameDeals
<1>8. /\ HeldFor(o) = 0 /\ HeldFor(o)' = IF type = "SELL" THEN q ELSE 0
      /\ \A i \in OrderIds : i # o => HeldFor(i)' = HeldFor(i)
  <2>1. \A i \in OrderIds : QuantityIn(i, {"SUCCESS"})' = QuantityIn(i, {"SUCCESS"})
    BY <1>3, QuantityInSame
  <2>2. QuantityIn(o, {"SUCCESS"}) = 0
    BY <1>2, UnpublishedOrder
  <2> QED BY <1>2, <1>3, <1>4, <2>1, <2>2 DEF HeldFor, Withdrawn
<1>9. /\ LotOf(o) = LotWith(orders[o].owner, 0) /\ LotOf(o)' = LotWith(v, HeldFor(o)')
      /\ \A i \in OrderIds : i # o => LotOf(i)' = LotOf(i)
      /\ \A i \in RecordIds : LotOf(MaxOrders + i)' = LotOf(MaxOrders + i)
      /\ o \in EscrowLots
  BY <1>3, <1>4, <1>6, <1>8, LotEntries
<1>10. CASE type = "SELL"
  <2>1. LotOf(o)' = [owner |-> v, amount |-> q]
    BY <1>3, <1>8, <1>9, <1>10 DEF LotWith
  <2>2. lots' = [lots EXCEPT ![o] = [owner |-> v, amount |-> q]]
    BY <1>9, <2>1, LotsUpdate
  <2>3. using[v] >= q /\ using' = [using EXCEPT ![v] = @ - q]
    BY <1>1, <1>3, <1>10 DEF ModifyWallet, CoreType
  <2>4. lots[o].amount = 0
    BY <1>9 DEF lots, LotWith
  <2> QED BY <1>7, <1>9, <2>2, <2>3, <2>4 DEF lots, deals, E!Offer, E!PutIn
<1>11. CASE type = "BUY"
  <2>1. LotOf(o)' = LotOf(o)
    BY <1>8, <1>9, <1>11 DEF LotWith
  <2>2. lots' = lots
    BY <1>9, <2>1, EscrowLotsSplit DEF lots
  <2> QED BY <1>3, <1>7, <1>11, <2>2
<1> QED BY <1>10, <1>11

\* A trade of a SELL order is a deal on its lot; a trade of a BUY order puts
\* the seller's coins into a lot of their own.
LEMMA TradeOpens ==
  ASSUME CoreInvariant, NEW v \in Users, NEW o \in OrderIds, NEW q \in Parts, Trade(v, o, q)
  PROVE  \E r \in E!DealsIn("none"), l \in EscrowLots, u \in Users :
           E!Open(r, l, u, q) \/ E!OfferAndOpen(r, v, l, u, q)
<1>1. CoreType /\ RecordsTyped /\ RecordsFit /\ TradedByRecords /\ CoreInvariant'
  BY TradeCore DEF CoreInvariant, CoreType, RecordsTyped
<1>2. /\ q \in Nat \ {0} /\ orders[o] \in Order /\ orders[o].status = "WAIT"
      /\ orders[o].owner # v /\ Residue(orders[o]) >= q
      /\ orders' \in [OrderIds -> Order]
      /\ \A i \in OrderIds : i # o => orders'[i] = orders[i]
      /\ orders'[o].owner = orders[o].owner /\ orders'[o].type = orders[o].type
      /\ orders'[o].quantity = orders[o].quantity
      /\ orders'[o].tradeQuantity = orders[o].tradeQuantity + q
      /\ orders'[o].status = IF Residue(orders[o]) = q THEN "END" ELSE "WAIT"
      /\ IF orders[o].type = "BUY" THEN ModifyWallet(v, -q, q) ELSE UNCHANGED <<using, freeze>>
  BY TradeEffect
<1>3. PICK r \in RecordIds :
        /\ records[r].status = "NONE"
        /\ records' \in [RecordIds -> Record]
        /\ \A i \in RecordIds : i # r => records'[i] = records[i]
        /\ records'[r].order = o /\ records'[r].quantity = q
        /\ records'[r].status = "WAIT" /\ records'[r].successStatus = "TRADEING"
        /\ records'[r].buyUser  = IF orders[o].type = "BUY" THEN orders[o].owner ELSE v
        /\ records'[r].sellUser = IF orders[o].type = "BUY" THEN v ELSE orders[o].owner
  BY TradeEffect
<1>4. /\ \A i \in RecordIds : i # r => TypeOf(records[i])' = TypeOf(records[i])
      /\ TypeOf(records[r])' = orders[o].type
      /\ orders[o].type \in {"BUY", "SELL"} /\ orders[o].owner \in Users
  BY <1>1, <1>2, <1>3 DEF TypeOf, RecordsTyped, Record, Order
<1>5. ~IsOpen(records[r]) /\ IsOpen(records'[r]) /\ records[r].successStatus = "NONE"
  BY <1>1, <1>3 DEF RecordsFit, IsOpen, OpenStatus
<1>6. r \in E!DealsIn("none")
  <2>1. r \in E!Deals /\ deals[r].state = "none"
    BY <1>1, <1>3, DealFacts DEF deals, E!Deals, RecordIds
  <2> QED BY <2>1 DEF deals, E!DealsIn
<1>7. ASSUME NEW i \in OrderIds PROVE HeldFor(i)' = HeldFor(i)
  <2>1. RecordsTyped'
    BY <1>3 DEF RecordsTyped
  <2>2. /\ QuantityOf(records[r], i, {"SUCCESS"}) = 0
        /\ QuantityOf(records'[r], i, {"SUCCESS"}) = 0
    BY <1>3, <1>5 DEF QuantityOf
  <2>3. QuantityIn(i, {"SUCCESS"})' = QuantityIn(i, {"SUCCESS"}) + (0 - 0)
    BY <1>1, <1>3, <2>1, <2>2, QuantityInUpdate
  <2>4. QuantityIn(i, {"SUCCESS"}) \in Nat
    BY <1>1, QuantityInType
  <2>5. ~Withdrawn(orders[o]) /\ ~Withdrawn(orders'[o])
    BY <1>2 DEF Withdrawn, Residue, Order
  <2> QED BY <1>2, <2>3, <2>4, <2>5 DEF HeldFor
<1>8. /\ \A i \in RecordIds : i # r => HeldForRecord(i)' = HeldForRecord(i)
      /\ HeldForRecord(r) = 0
      /\ HeldForRecord(r)' = IF orders[o].type = "BUY" THEN q ELSE 0
  BY <1>3, <1>4, <1>5 DEF HeldForRecord
<1>9. /\ \A i \in OrderIds : LotOf(i)' = LotOf(i)
      /\ \A i \in RecordIds : i # r => LotOf(MaxOrders + i)' = LotOf(MaxOrders + i)
      /\ LotOf(MaxOrders + r) = LotWith(records[r].sellUser, 0)
      /\ LotOf(MaxOrders + r)' = LotWith(records'[r].sellUser, HeldForRecord(r)')
      /\ MaxOrders + r \in EscrowLots /\ MaxOrders + r \notin OrderIds /\ o \in EscrowLots
      /\ LotOf(o) = LotWith(orders[o].owner, HeldFor(o))
  BY <1>2, <1>3, <1>7, <1>8, LotEntries
<1>10. PICK l, u : /\ l = IF orders[o].type = "SELL" THEN o ELSE MaxOrders + r
                   /\ u = records'[r].buyUser
  OBVIOUS
<1>11. deals' = [deals EXCEPT ![r] = E!OpenDeal(l, u, q)]
  <2>1. DealOf(r)' = E!OpenDeal(l, u, q)
    BY <1>3, <1>4, <1>5, <1>10 DEF DealOf, DealState, E!OpenDeal
  <2>2. \A i \in RecordIds : i # r => DealOf(i)' = DealOf(i)
    BY <1>3, <1>4 DEF DealOf, DealState, IsOpen
  <2> QED BY <2>1, <2>2, DealsUpdate
<1>12. CASE orders[o].type = "SELL"
  <2>1. LotOf(MaxOrders + r)' = LotOf(MaxOrders + r)
    BY <1>8, <1>9, <1>12 DEF LotWith
  <2>2. lots' = lots
    BY <1>9, <2>1, EscrowLotsSplit DEF lots
  <2>3. E!Committed(o) + q <= lots[o].amount
    <3>1. ~Withdrawn(orders[o]) /\ orders[o].status # "NONE"
      BY <1>2 DEF Withdrawn
    <3>2. /\ E!Committed(o) = QuantityIn(o, {"TRADEING"}) /\ QuantityIn(o, {"TRADEING"}) \in Nat
          /\ HeldFor(o) = QuantityIn(o, {"TRADEING"}) + Residue(orders[o])
      BY <1>12, <3>1, CommittedOnOrder
    <3>3. lots[o].amount = HeldFor(o)
      BY <1>9 DEF lots, LotWith
    <3>4. Residue(orders[o]) \in Int
      BY <1>2 DEF Residue, Order
    <3> QED BY <1>2, <3>2, <3>3, <3>4
  <2>4. l = o /\ u = v
    BY <1>3, <1>10, <1>12
  <2>5. E!Committed(l) + q <= lots[l].amount
    BY <2>3, <2>4
  <2>6. using' = using
    BY <1>2, <1>12
  <2>7. E!Open(r, l, u, q)
    BY <1>11, <2>2, <2>5, <2>6 DEF lots, deals, E!Open
  <2> QED BY <1>6, <1>9, <2>4, <2>7
<1>13. CASE orders[o].type = "BUY"
  <2>1. l = MaxOrders + r /\ u = orders[o].owner
    BY <1>3, <1>10, <1>13
  <2>2. LotOf(l)' = [owner |-> v, amount |-> q]
    BY <1>2, <1>3, <1>8, <1>9, <1>13, <2>1 DEF LotWith
  <2>3. \A i \in RecordIds : MaxOrders + i # l => LotOf(MaxOrders + i)' = LotOf(MaxOrders + i)
    BY <1>9, <2>1
  <2>4. lots' = [lots EXCEPT ![l] = [owner |-> v, amount |-> q]]
    BY <1>9, <2>1, <2>2, <2>3, LotsUpdate
  <2>5. using[v] >= q /\ using' = [using EXCEPT ![v] = @ - q]
    BY <1>1, <1>2, <1>13 DEF ModifyWallet, CoreType
  <2>6. lots[l].amount = 0
    BY <1>9, <2>1 DEF lots, LotWith
  <2>7. E!Committed(l) = 0
    <3>1. ASSUME NEW d \in RecordIds, DealOf(d).state = "open" PROVE DealOf(d).lot # l
      <4>1. IsOpen(records[d]) /\ records[d].status # "NONE"
        BY <3>1, <1>1, DealFacts DEF IsOpen, OpenStatus
      <4>2. d # r /\ records[d].order \in OrderIds
        BY <1>1, <1>5, <4>1 DEF RecordsTyped, Record
      <4>3. MaxOrders + d # MaxOrders + r
        BY <4>2, OtcAssumption DEF RecordIds
      <4>4. DealOf(d).lot \in {records[d].order, MaxOrders + d}
        BY <1>1, <4>1, DealFacts
      <4> QED BY <1>9, <2>1, <4>2, <4>3, <4>4
    <3> QED BY <3>1, NothingCommitted
  <2>8. E!OfferAndOpen(r, v, l, u, q)
    BY <1>11, <2>4, <2>5, <2>6, <2>7 DEF lots, deals, E!OfferAndOpen, E!PutIn
  <2> QED BY <1>4, <1>6, <1>9, <2>1, <2>8
<1> QED BY <1>4, <1>12, <1>13

-----------------------------------------------------------------------------
(* The refinement.                                                         *)

\* At the start nothing is held and no deal has been made.
LEMMA InitEscrow == OtcInit => E!EscrowInit
<1> SUFFICES ASSUME OtcInit PROVE E!EscrowInit
  OBVIOUS
<1>1. \A u \in Users : using[u] >= 0
  BY OtcAssumption DEF OtcInit
<1>2. /\ \A o \in OrderIds : HeldFor(o) = 0
      /\ \A r \in RecordIds : HeldForRecord(r) = 0 /\ records[r].status = "NONE"
  BY DEF OtcInit, HeldFor, HeldForRecord, NoOrder, NoRecord, IsOpen, OpenStatus
<1>3. \A u : LotWith(u, 0) = E!NoLot
  BY Zenon DEF LotWith, E!NoLot
<1>4. \A l \in EscrowLots : LotOf(l) = E!NoLot
  BY <1>2, <1>3, EscrowLotsSplit, LotEntries
<1>5. \A r \in RecordIds : DealOf(r) = E!NoDeal
  BY <1>2, Zenon DEF DealOf, E!NoDeal
<1> QED BY <1>1, <1>4, <1>5 DEF E!EscrowInit, E!Deals, RecordIds

\* A step that changes neither wallets nor orders nor records.
LEMMA QueueStepStutters ==
  ASSUME UNCHANGED <<using, freeze, orders, records>>
  PROVE  UNCHANGED <<using, lots, deals>>
<1>1. \A l \in EscrowLots : LotOf(l)' = LotOf(l)
  <2>1. \A o \in OrderIds : HeldFor(o)' = HeldFor(o)
    BY QuantityInSame DEF HeldFor
  <2>2. \A r \in RecordIds : HeldForRecord(r)' = HeldForRecord(r)
    BY DEF HeldForRecord, TypeOf
  <2> QED BY <2>1, <2>2, EscrowLotsSplit, LotEntries
<1>2. \A r \in RecordIds : DealOf(r)' = DealOf(r)
  BY DEF DealOf, TypeOf
<1> QED BY <1>1, <1>2 DEF lots, deals

\* Each step of the desk is a step of the escrow or changes nothing of it.
LEMMA NextEscrow == InTime /\ [OtcNext]_vars => [E!EscrowNext]_(E!escrowVars)
<1> SUFFICES ASSUME InTime, [OtcNext]_vars
             PROVE  E!EscrowNext \/ UNCHANGED <<using, lots, deals>>
  BY DEF E!escrowVars, lots, deals
<1>1. CoreInvariant
  BY DEF InTime, OtcInvariant, OtcTypeOK, CoreInvariant, CoreType
<1>2. CASE \E u \in Users, type \in {"BUY", "SELL"}, q \in Quantities : Publish(u, type, q)
  BY <1>1, <1>2, PublishOffers DEF E!EscrowNext
<1>3. CASE \E u \in Users, o \in OrderIds, q \in Parts : Trade(u, o, q)
  BY <1>1, <1>3, TradeOpens DEF E!EscrowNext
<1>4. CASE \E o \in OrderIds : Shelves(o) \/ Withdraws(o)
  BY <1>1, <1>4, ShelvesStutters, WithdrawsRefunds DEF E!EscrowNext
<1>5. CASE \E r \in RecordIds : Completes(r) \/ Returns(r) \/ Proceeds(r)
  BY <1>1, <1>5, CompletesPays, ReturnsReturns, ProceedsStutters DEF E!EscrowNext
<1>6. CASE UNCHANGED <<using, freeze, orders, records>>
  BY <1>6, QueueStepStutters
<1> QED BY <1>2, <1>3, <1>4, <1>5, <1>6, StepKinds DEF InTime

\* The coins of a record are handed over or given back, once and not both, out
\* of coins held for it alone, for every set of users, orders and records.
THEOREM OtcImplementsEscrow == OtcSpec /\ ~LateAppeal => ImplementsEscrow
BY InitEscrow, InitInTime, NextInTime, NextEscrow, PTL
   DEF OtcSpec, ImplementsEscrow, E!EscrowSpec
-----------------------------------------------------------------------------
(* What the escrow gives the desk.                                         *)

\* What the open records may still take out of a lot is in it.
DealsCovered == \A l \in EscrowLots : E!Committed(l) <= LotOf(l).amount

LEMMA OrderLotCovered ==
  ASSUME CoreInvariant, NEW o \in OrderIds
  PROVE  E!Committed(o) <= LotOf(o).amount
<1>1. LotOf(o).amount = HeldFor(o)
  BY LotEntries DEF LotWith
<1>2. orders[o] \in Order
  BY DEF CoreInvariant, CoreType
<1>3. CASE orders[o].status # "NONE" /\ orders[o].type = "SELL" /\ ~Withdrawn(orders[o])
  <2>1. /\ E!Committed(o) = QuantityIn(o, {"TRADEING"}) /\ QuantityIn(o, {"TRADEING"}) \in Nat
        /\ HeldFor(o) = QuantityIn(o, {"TRADEING"}) + Residue(orders[o])
    BY <1>3, CommittedOnOrder
  <2>2. Residue(orders[o]) \in Nat
    BY <1>2 DEF CoreInvariant, TradedByRecords, Residue, Order
  <2>3. ASSUME NEW a \in Nat, NEW b \in Nat PROVE a <= a + b
    BY <2>3
  <2> QED BY <1>1, <2>1, <2>2, <2>3
<1>4. CASE ~(orders[o].status # "NONE" /\ orders[o].type = "SELL" /\ ~Withdrawn(orders[o]))
  <2>1. HeldFor(o) = 0
    BY <1>2, <1>4 DEF HeldFor, Order
  <2>2. ASSUME NEW d \in RecordIds, DealOf(d).state = "open" PROVE DealOf(d).lot # o
    <3>1. IsOpen(records[d]) /\ records[d].status # "NONE"
      BY <2>2, DealFacts DEF IsOpen, OpenStatus
    <3>2. CASE TypeOf(records[d]) = "SELL"
      <4>1. DealOf(d).lot = records[d].order
        BY <3>1, <3>2, DealFacts
      <4>2. orders[records[d].order].status # "NONE" /\ ~Withdrawn(orders[records[d].order])
        BY <3>1, RecordFacts
      <4> QED BY <1>4, <3>2, <4>1, <4>2 DEF TypeOf
    <3>3. CASE TypeOf(records[d]) # "SELL"
      <4>1. DealOf(d).lot = MaxOrders + d
        BY <3>1, <3>3, DealFacts
      <4> QED BY <4>1, LotEntries
    <3> QED BY <3>2, <3>3
  <2>3. E!Committed(o) = 0
    BY <2>2, NothingCommitted
  <2> QED BY <1>1, <2>1, <2>3
<1> QED BY <1>3, <1>4

LEMMA RecordLotCovered ==
  ASSUME CoreInvariant, NEW r \in RecordIds
  PROVE  E!Committed(MaxOrders + r) <= LotOf(MaxOrders + r).amount
<1> DEFINE l == MaxOrders + r
<1>1. LotOf(l).amount = HeldForRecord(r) /\ l \notin OrderIds
  <2>1. /\ LotOf(MaxOrders + r) = LotWith(records[r].sellUser, HeldForRecord(r))
        /\ MaxOrders + r \notin OrderIds
    BY LotEntries
  <2>2. \A u, q : LotWith(u, q).amount = q
    BY DEF LotWith
  <2> QED BY <2>1, <2>2
<1>2. ASSUME NEW d \in RecordIds, DealOf(d).state = "open", DealOf(d).lot = l
      PROVE  d = r /\ IsOpen(records[d]) /\ TypeOf(records[d]) # "SELL"
  <2>1. IsOpen(records[d]) /\ records[d].status # "NONE"
    BY <1>2, DealFacts DEF IsOpen, OpenStatus
  <2>2. records[d].order \in OrderIds
    BY <2>1, RecordFacts
  <2>3. DealOf(d).lot = IF TypeOf(records[d]) = "SELL" THEN records[d].order ELSE MaxOrders + d
    BY <2>1, DealFacts
  <2>4. TypeOf(records[d]) # "SELL" /\ MaxOrders + d = MaxOrders + r
    BY <1>1, <1>2, <2>2, <2>3
  <2> QED BY <2>1, <2>4, OtcAssumption DEF RecordIds
<1>3. CASE IsOpen(records[r]) /\ TypeOf(records[r]) = "BUY"
  <2>1. /\ records[r].status # "NONE" /\ records[r].quantity \in Nat
        /\ HeldForRecord(r) = records[r].quantity
    BY <1>3, RecordFacts DEF HeldForRecord
  <2>2. /\ MaxRecords \in Nat /\ RecordIds = 1..MaxRecords
    BY OtcAssumption DEF RecordIds
  <2> DEFINE f == Commitment(l)
  <2> DEFINE z == [d \in 1..MaxRecords |-> 0]
  <2>3. f[r] = records[r].quantity
    <3>1. DealOf(r).state = "open" /\ DealOf(r).lot = l /\ DealOf(r).amount = records[r].quantity
      BY <1>3, <2>1, DealFacts
    <3> QED BY <3>1 DEF Commitment
  <2>4. \A d \in 1..MaxRecords : d # r => f[d] = 0
    BY <1>2, <2>2 DEF Commitment
  <2>5. f \in [1..MaxRecords -> Int]
    <3>1. \A d \in 1..MaxRecords : f[d] \in Int
      BY <2>1, <2>2, <2>3, <2>4
    <3> QED BY <2>2, <3>1 DEF Commitment
  <2>6. z \in [1..MaxRecords -> Int] /\ z[r] = 0 /\ \A d \in 1..MaxRecords : z[d] = 0
    BY <2>2
  <2> HIDE DEF f, z, l
  <2>7. r \in 1..MaxRecords /\ \A d \in 1..MaxRecords : d # r => f[d] = z[d]
    BY <2>2, <2>4, <2>6
  <2>8. SumTo(f, MaxRecords) = SumTo(z, MaxRecords) + (f[r] - z[r])
    BY <2>2, <2>5, <2>6, <2>7, SumUpdate
  <2>9. SumTo(z, MaxRecords) = 0
    BY <2>2, <2>6, SumZero
  <2>10. E!Committed(l) = records[r].quantity
    BY <2>1, <2>3, <2>6, <2>8, <2>9, CommittedSum DEF f
  <2> QED BY <1>1, <2>1, <2>10 DEF l
<1>4. CASE ~(IsOpen(records[r]) /\ TypeOf(records[r]) = "BUY")
  <2>1. HeldForRecord(r) = 0
    BY <1>4 DEF HeldForRecord
  <2>2. ASSUME NEW d \in RecordIds, DealOf(d).state = "open" PROVE DealOf(d).lot # l
    <3>1. IsOpen(records[d]) => TypeOf(records[d]) \in {"BUY", "SELL"}
      <4>1. IsOpen(records[d]) => orders[records[d].order] \in Order
        BY RecordFacts
      <4> QED BY <4>1 DEF TypeOf, Order
    <3> QED BY <1>2, <1>4, <2>2, <3>1
  <2>3. E!Committed(l) = 0
    BY <2>2, NothingCommitted
  <2> QED BY <1>1, <2>1, <2>3
<1> QED BY <1>3, <1>4

\* Whenever a record is completed or cancelled, by whomever, the coins it moves
\* are still there: what the open records of an order, or a record whose seller
\* put the coins in, may take is in the lot they take it from.
THEOREM RecordsAreCovered == OtcSpec /\ ~LateAppeal => []DealsCovered
<1>1. InTime => DealsCovered
  <2> SUFFICES ASSUME InTime PROVE DealsCovered
    OBVIOUS
  <2>1. CoreInvariant
    BY DEF InTime, OtcInvariant, OtcTypeOK, CoreInvariant, CoreType
  <2> QED BY <2>1, EscrowLotsSplit, OrderLotCovered, RecordLotCovered DEF DealsCovered
<1> QED BY <1>1, InitInTime, NextInTime, PTL DEF OtcSpec

\* A record that has been completed or cancelled is never written again: no
\* timer, appeal or late call of a party decides it a second time.
THEOREM DecidedRecordsStay == OtcSpec /\ ~LateAppeal => DecidedStays
<1> DEFINE Stays == \A r \in RecordIds : records[r].successStatus \in {"SUCCESS", "CANCEL"}
                                           => records'[r] = records[r]
<1>1. InTime /\ [OtcNext]_vars => Stays
  <2> SUFFICES ASSUME InTime, [OtcNext]_vars, NEW r \in RecordIds,
                      records[r].successStatus \in {"SUCCESS", "CANCEL"}
               PROVE  records'[r] = records[r]
    OBVIOUS
  <2>1. CoreInvariant /\ records \in [RecordIds -> Record]
    BY DEF InTime, OtcInvariant, OtcTypeOK, CoreInvariant, CoreType
  <2>2. ~IsOpen(records[r]) /\ records[r].status # "NONE"
    BY <2>1, RecordFacts DEF CoreInvariant, RecordsFit
  <2>3. CASE \E u \in Users, type \in {"BUY", "SELL"}, q \in Quantities : Publish(u, type, q)
    BY <2>3 DEF Publish
  <2>4. CASE \E u \in Users, o \in OrderIds, q \in Parts : Trade(u, o, q)
    <3>1. PICK u \in Users, o \in OrderIds, q \in Parts : Trade(u, o, q)
      BY <2>4
    <3> QED BY <2>1, <2>2, <3>1, TradeEffect
  <2>5. CASE \E o \in OrderIds : Shelves(o) \/ Withdraws(o)
    BY <2>5 DEF Shelves, Withdraws
  <2>6. CASE \E i \in RecordIds : Completes(i) \/ Returns(i) \/ Proceeds(i)
    <3>1. PICK i \in RecordIds : Completes(i) \/ Returns(i) \/ Proceeds(i)
      BY <2>6
    <3>2. i # r
      BY <2>2, <3>1 DEF Completes, Returns, Proceeds
    <3> QED BY <2>1, <3>1, <3>2 DEF Completes, Returns, Proceeds, SetRecord
  <2> QED BY <2>3, <2>4, <2>5, <2>6, StepKinds DEF InTime
<1>2. InTime /\ [OtcNext]_vars => [Stays]_vars
  BY <1>1
<1> QED BY <1>2, InitInTime, NextInTime, PTL DEF OtcSpec, DecidedStays
=============================================================================
