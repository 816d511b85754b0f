----------------------------- MODULE OtcProofs -----------------------------
(***************************************************************************)
(* The over-the-counter desk for every set of users and merchants, every   *)
(* quantity, deposit and bound, as long as no appeal is late: types, what  *)
(* is frozen, and what an order has traded.                                *)
(*                                                                         *)
(* OtcInvariant is inductive.  A step changes one order and one record, so *)
(* that the sums over orders and records change by one entry each.         *)
(***************************************************************************)
EXTENDS Otc, IdSumTheorems

-----------------------------------------------------------------------------
(* What the records of an order are about.                                 *)

RecordsTyped == records \in [RecordIds -> Record]

LEMMA QuantityType ==
  ASSUME NEW rec \in Record, NEW o \in OrderIds, NEW st
  PROVE  QuantityOf(rec, o, st) \in Nat
BY DEF QuantityOf, Record

\* What an order's records are about is a natural, at least what one is about.
LEMMA QuantityInType ==
  ASSUME RecordsTyped, NEW o \in OrderIds, NEW st
  PROVE  /\ QuantityIn(o, st) \in Nat
         /\ \A r \in RecordIds : QuantityIn(o, st) >= QuantityOf(records[r], o, st)
<1>1. RecordQuantities(o, st) \in [1..MaxRecords -> Nat]
  BY QuantityType DEF RecordsTyped, RecordQuantities, RecordIds
<1>2. MaxRecords \in Nat
  BY OtcAssumption
<1>3. \A r \in 1..MaxRecords : RecordQuantities(o, st)[r] = QuantityOf(records[r], o, st)
  BY DEF RecordQuantities, RecordIds
<1> QED BY <1>1, <1>2, <1>3, SumAtLeast DEF QuantityIn, RecordIds

\* A step that changes record r alone.
LEMMA QuantityInUpdate ==
  ASSUME RecordsTyped, RecordsTyped', NEW o \in OrderIds, NEW st, NEW r \in RecordIds,
         \A i \in RecordIds : i # r => records'[i] = records[i]
  PROVE  QuantityIn(o, st)' = QuantityIn(o, st)
           + (QuantityOf(records'[r], o, st) - QuantityOf(records[r], o, st))
<1> DEFINE f == [i \in 1..MaxRecords |-> QuantityOf(records[i], o, st)]
<1> DEFINE h == [i \in 1..MaxRecords |-> QuantityOf(records'[i], o, st)]
<1>1. f \in [1..MaxRecords -> Int] /\ h \in [1..MaxRecords -> Int]
  BY QuantityType DEF RecordsTyped, RecordIds
<1>2. r \in 1..MaxRecords /\ MaxRecords \in Nat
  BY OtcAssumption DEF RecordIds
<1>3. \A i \in 1..MaxRecords : i # r => h[i] = f[i]
  BY DEF RecordIds
<1>4. RecordQuantities(o, st) = f /\ RecordQuantities(o, st)' = h
  BY DEF RecordQuantities, RecordIds
<1>5. f[r] = QuantityOf(records[r], o, st) /\ h[r] = QuantityOf(records'[r], o, st)
  BY <1>2
<1> HIDE DEF f, h
<1>6. SumTo(h, MaxRecords) = SumTo(f, MaxRecords) + (h[r] - f[r])
  BY <1>1, <1>2, <1>3, SumUpdate
<1>7. QuantityIn(o, st)' = SumTo(h, MaxRecords) /\ QuantityIn(o, st) = SumTo(f, MaxRecords)
  BY <1>4 DEF QuantityIn
<1> QED BY <1>5, <1>6, <1>7

\* Records that are all left as they are.
LEMMA QuantityInSame ==
  ASSUME records' = records, NEW o, NEW st
  PROVE  QuantityIn(o, st)' = QuantityIn(o, st)
BY DEF QuantityIn, RecordQuantities

\* The records of an order that no record names are about nothing.
LEMMA QuantityInNone ==
  ASSUME RecordsTyped, NEW o \in OrderIds, NEW st,
         \A r \in RecordIds : QuantityOf(records[r], o, st) = 0
  PROVE  QuantityIn(o, st) = 0
<1>1. RecordQuantities(o, st) \in [1..MaxRecords -> Int]
  BY QuantityType DEF RecordsTyped, RecordQuantities, RecordIds
<1>2. \A r \in 1..MaxRecords : RecordQuantities(o, st)[r] = 0
  BY DEF RecordQuantities, RecordIds
<1>3. MaxRecords \in Nat
  BY OtcAssumption
<1> QED BY <1>1, <1>2, <1>3, SumZero DEF QuantityIn

-----------------------------------------------------------------------------
(* The invariant without the queues, and the kinds of steps that touch it. *)

CoreType == /\ using   \in [Users -> Nat]
            /\ freeze  \in [Users -> Nat]
            /\ orders  \in [OrderIds -> Order]
            /\ records \in [RecordIds -> Record]

CoreInvariant == CoreType /\ RecordsFit /\ TradedByRecords /\ FreezeExplained

ClosedStatus == RecordStatus \ (OpenStatus \cup {"NONE"})

\* An open record is decided: its coins are handed over ...
Completes(r) == /\ IsOpen(records[r]) /\ HandOver(records[r])
                /\ \E st \in ClosedStatus : SetRecord(r, st, "SUCCESS")

\* ... or given back.
Returns(r) == /\ IsOpen(records[r]) /\ \E u \in Users : GiveBack(records[r], u)
              /\ \E st \in ClosedStatus : SetRecord(r, st, "CANCEL")

\* An open record takes another open status.
Proceeds(r) ==
    /\ IsOpen(records[r])
    /\ \E st \in OpenStatus, type \in {"BUY", "SELL"} :
         records' = [records EXCEPT ![r] = [@ EXCEPT !.status = st, !.appealType = type,
                                                     !.successStatus = "TRADEING"]]
    /\ UNCHANGED <<using, freeze, orders>>

\* An order goes off the shelf or back, or is withdrawn.
Shelves(o) ==
    /\ orders[o].status = "WAIT"
    /\ \E cancel \in {"NORMAL", "CANCEL"} : orders' = [orders EXCEPT ![o].cancel = cancel]
    /\ UNCHANGED <<using, freeze, records>>

Withdraws(o) ==
    /\ orders[o].status = "WAIT" /\ CanCancel(o) /\ records' = records
    /\ \E cancel \in {"NORMAL", "CANCEL"} :
         Withdraw(o, [orders[o] EXCEPT !.cancel = cancel])

LEMMA StepKinds ==
  ASSUME OtcInvariant, ~LateAppeal, [OtcNext]_vars
  PROVE  \/ \E u \in Users, type \in {"BUY", "SELL"}, q \in Quantities : Publish(u, type, q)
         \/ \E u \in Users, o \in OrderIds, q \in Parts : Trade(u, o, q)
         \/ \E o \in OrderIds : Shelves(o) \/ Withdraws(o)
         \/ \E r \in RecordIds : Completes(r) \/ Returns(r) \/ Proceeds(r)
         \/ UNCHANGED <<using, freeze, orders, records>>
<1>1. ASSUME NEW o \in OrderIds,
             CancelOrder(o) \/ AdminCancelOrder(o)
               \/ \E cancel \in {"NORMAL", "CANCEL"} : SetShelf(o, cancel)
      PROVE  Shelves(o) \/ Withdraws(o)
  <2>0. orders \in [OrderIds -> Order]
    BY DEF OtcInvariant, OtcTypeOK
  <2>1. CASE CancelOrder(o)
    BY <2>0, <2>1 DEF CancelOrder, Shelves, Withdraws
  <2>2. CASE AdminCancelOrder(o)
    <3>1. orders[o] = [orders[o] EXCEPT !.cancel = orders[o].cancel]
          /\ orders[o].cancel \in {"NORMAL", "CANCEL"}
      BY <2>0 DEF Order
    <3> QED BY <2>2, <3>1 DEF AdminCancelOrder, Withdraws
  <2>3. CASE \E cancel \in {"NORMAL", "CANCEL"} : SetShelf(o, cancel)
    BY <2>3 DEF SetShelf, Shelves
  <2> QED BY <1>1, <2>1, <2>2, <2>3
<1>2. ASSUME NEW u \in Users, NEW r \in RecordIds,
             Take(u, r) \/ Pay(u, r) \/ Appeal(u, r)
      PROVE  Proceeds(r)
  <2>0. records \in [RecordIds -> Record] /\ records[r] \in Record
    BY DEF OtcInvariant, OtcTypeOK
  <2>1. IsOpen(records[r]) => records[r].successStatus = "TRADEING"
    BY DEF OtcInvariant, RecordsFit
  <2>2. CASE Take(u, r) \/ Pay(u, r)
    <3>1. PICK st \in {"WAITPAY", "WAITGATHERING"} : SetRecord(r, st, "TRADEING")
      BY <2>2 DEF Take, Pay
    <3>2. records' = [records EXCEPT ![r] = [@ EXCEPT !.status = st,
                        !.appealType = records[r].appealType, !.successStatus = "TRADEING"]]
      BY <2>0, <3>1 DEF SetRecord, Record
    <3>3. records[r].appealType \in {"BUY", "SELL"} /\ st \in OpenStatus
      BY <2>0 DEF Record, OpenStatus
    <3> QED BY <2>2, <3>2, <3>3 DEF Proceeds, Take, Pay, IsOpen, OpenStatus
  <2>3. CASE Appeal(u, r)
    <3>1. records[r].status = "WAITGATHERING"
      BY <2>3 DEF Appeal, OtcInvariant, AppealsFit
    <3>2. IsOpen(records[r])
      BY <3>1 DEF IsOpen, OpenStatus
    <3> DEFINE type == IF records[r].sellUser = u THEN "SELL" ELSE "BUY"
    <3>3. records' = [records EXCEPT ![r].status = "APPEAL", ![r].appealType = type]
      BY <2>3 DEF Appeal
    <3> HIDE DEF type
    <3>4. records' = [records EXCEPT ![r] = [@ EXCEPT !.status = "APPEAL",
                        !.appealType = type, !.successStatus = "TRADEING"]]
      BY <2>0, <2>1, <3>2, <3>3 DEF Record
    <3>5. type \in {"BUY", "SELL"} /\ "APPEAL" \in OpenStatus
      BY DEF type, OpenStatus
    <3> QED BY <2>3, <3>2, <3>4, <3>5 DEF Proceeds, Appeal
  <2> QED BY <1>2, <2>2, <2>3
<1>3. ASSUME NEW u \in Users, NEW r \in RecordIds, Gathering(u, r) \/ CancelRecord(u, r)
      PROVE  Completes(r) \/ Returns(r)
  BY <1>3 DEF Gathering, CancelRecord, Completes, Returns, IsOpen, OpenStatus,
              ClosedStatus, RecordStatus
<1>4. ASSUME NEW r \in RecordIds, AppealSuccess(r) \/ AppealFail(r)
      PROVE  Completes(r) \/ Returns(r)
  <2>0. records[r].buyUser \in Users /\ records[r].sellUser \in Users
    BY DEF OtcInvariant, OtcTypeOK, Record
  <2> QED BY <1>4, <2>0 DEF AppealSuccess, AppealFail, Completes, Returns, IsOpen,
              OpenStatus, ClosedStatus, RecordStatus
<1>5. ASSUME NEW r \in RecordIds, NEW st \in {"WAIT", "WAITPAY"}, AutoCancel(r, st)
      PROVE  Returns(r) \/ UNCHANGED <<using, freeze, orders, records>>
  <2>0. records[r].buyUser \in Users /\ records[r].sellUser \in Users
    BY DEF OtcInvariant, OtcTypeOK, Record
  <2> QED BY <1>5, <2>0 DEF AutoCancel, Returns, IsOpen, OpenStatus, ClosedStatus, RecordStatus
<1>6. ASSUME NEW u \in Users, NEW r \in RecordIds, AskAppeal(u, r)
      PROVE  UNCHANGED <<using, freeze, orders, records>>
  BY <1>6 DEF AskAppeal
<1>7. UNCHANGED vars => UNCHANGED <<using, freeze, orders, records>>
  BY DEF vars
<1> QED BY <1>1, <1>2, <1>3, <1>4, <1>5, <1>6, <1>7 DEF OtcNext

-----------------------------------------------------------------------------
(* What is held.                                                           *)

Explained(u) ==
    freeze[u] = SumTo(OrderHold(u), MaxOrders) + SumTo(RecordHold(u), MaxRecords)

\* What an order and a record hold are numbers.
HoldsTyped == \A u \in Users : /\ OrderHold(u) \in [1..MaxOrders -> Int]
                               /\ RecordHold(u) \in [1..MaxRecords -> Int]

LEMMA HoldsType == CoreType => HoldsTyped
<1> SUFFICES ASSUME CoreType, NEW u \in Users
             PROVE  /\ OrderHold(u) \in [1..MaxOrders -> Int]
                    /\ RecordHold(u) \in [1..MaxRecords -> Int]
  BY DEF HoldsTyped
<1>1. ASSUME NEW o \in OrderIds PROVE HeldFor(o) \in Int
  <2>1. orders[o].quantity \in Nat /\ QuantityIn(o, {"SUCCESS"}) \in Nat
    BY QuantityInType DEF CoreType, RecordsTyped, Order
  <2> QED BY <2>1 DEF HeldFor
<1>2. ASSUME NEW r \in RecordIds PROVE HeldForRecord(r) \in Int
  <2>1. records[r].quantity \in Nat
    BY DEF CoreType, Record
  <2> QED BY <2>1 DEF HeldForRecord
<1> QED BY <1>1, <1>2 DEF OrderHold, RecordHold, OrderIds, RecordIds

\* A wallet stays explained when its frozen amount follows the hold of the one
\* order and of the one record that change.
LEMMA FreezeFollows ==
  ASSUME CoreType, CoreType', NEW u \in Users, NEW o \in OrderIds, NEW r \in RecordIds,
         \A i \in OrderIds : i # o => OrderHold(u)'[i] = OrderHold(u)[i],
         \A i \in RecordIds : i # r => RecordHold(u)'[i] = RecordHold(u)[i],
         NEW x \in Int, x = OrderHold(u)'[o] - OrderHold(u)[o],
         NEW y \in Int, y = RecordHold(u)'[r] - RecordHold(u)[r],
         freeze'[u] = freeze[u] + x + y, Explained(u)
  PROVE  Explained(u)'
<1> DEFINE f == OrderHold(u)
<1> DEFINE h == RecordHold(u)
<1>1. /\ f \in [1..MaxOrders -> Int] /\ h \in [1..MaxRecords -> Int]
      /\ f' \in [1..MaxOrders -> Int] /\ h' \in [1..MaxRecords -> Int]
  <2>1. f \in [1..MaxOrders -> Int] /\ h \in [1..MaxRecords -> Int]
    BY HoldsType DEF HoldsTyped
  <2>2. CoreType'
    OBVIOUS
  <2>3. HoldsTyped'
    BY <2>2, HoldsType, PTL
  <2> QED BY <2>1, <2>3 DEF HoldsTyped
<1>2. /\ o \in 1..MaxOrders /\ MaxOrders \in Nat
      /\ r \in 1..MaxRecords /\ MaxRecords \in Nat
  BY OtcAssumption DEF OrderIds, RecordIds
<1>3. /\ \A i \in 1..MaxOrders : i # o => f'[i] = f[i]
      /\ \A i \in 1..MaxRecords : i # r => h'[i] = h[i]
  BY DEF OrderIds, RecordIds
<1>4. x = f'[o] - f[o] /\ y = h'[r] - h[r]
  OBVIOUS
<1>5. /\ Explained(u) <=> freeze[u] = SumTo(f, MaxOrders) + SumTo(h, MaxRecords)
      /\ Explained(u)' <=> freeze'[u] = SumTo(f', MaxOrders) + SumTo(h', MaxRecords)
  BY DEF Explained
<1> HIDE DEF f, h
<1>6. /\ SumTo(f', MaxOrders) = SumTo(f, MaxOrders) + x
      /\ SumTo(h', MaxRecords) = SumTo(h, MaxRecords) + y
  BY <1>1, <1>2, <1>3, <1>4, SumUpdate
<1>7. SumTo(f, MaxOrders) \in Int /\ SumTo(h, MaxRecords) \in Int
  BY <1>1, <1>2, SumType
<1> QED BY <1>5, <1>6, <1>7

\* What is known of a record that has been issued, and of its order.
LEMMA RecordFacts ==
  ASSUME CoreInvariant, NEW r \in RecordIds, IsOpen(records[r]),
         NEW o, o = records[r].order, NEW q, q = records[r].quantity
  PROVE  /\ o \in OrderIds /\ q \in Nat \ {0} /\ orders[o] \in Order /\ records[r] \in Record
         /\ records[r].buyUser \in Users /\ records[r].sellUser \in Users
         /\ orders[o].status # "NONE" /\ ~Withdrawn(orders[o])
         /\ records[r].status # "NONE" /\ records[r].successStatus = "TRADEING"
         /\ orders[o].tradeQuantity >= q
         /\ orders[o].owner = IF orders[o].type = "BUY" THEN records[r].buyUser
                              ELSE records[r].sellUser
<1>1. /\ o \in OrderIds /\ q \in Nat /\ orders[o] \in Order /\ records[r] \in Record
      /\ records[r].buyUser \in Users /\ records[r].sellUser \in Users
  BY DEF CoreInvariant, CoreType, Record
<1>2. records[r].status # "NONE" /\ records[r].successStatus = "TRADEING"
  BY DEF CoreInvariant, RecordsFit, IsOpen, OpenStatus
<1>3. /\ q > 0 /\ orders[o].status # "NONE"
      /\ orders[o].owner = IF orders[o].type = "BUY" THEN records[r].buyUser
                           ELSE records[r].sellUser
  BY <1>2 DEF CoreInvariant, RecordsFit
<1>4. ~Withdrawn(orders[o])
  BY <1>1 DEF CoreInvariant, TradedByRecords, CanCancel
<1>5. orders[o].tradeQuantity >= q
  <2>1. QuantityOf(records[r], o, {"TRADEING", "SUCCESS"}) = q
    BY <1>2 DEF QuantityOf
  <2>2. QuantityIn(o, {"TRADEING", "SUCCESS"}) >= q
    BY <1>1, <2>1, QuantityInType DEF CoreInvariant, CoreType, RecordsTyped
  <2> QED BY <1>1, <2>2 DEF CoreInvariant, TradedByRecords
<1> QED BY <1>1, <1>2, <1>3, <1>4, <1>5

-----------------------------------------------------------------------------
(* Records that are decided or proceed.                                    *)

LEMMA SetRecordEffect ==
  ASSUME RecordsTyped, NEW r \in RecordIds, NEW st \in RecordStatus,
         NEW su \in {"TRADEING", "SUCCESS", "CANCEL"}, SetRecord(r, st, su)
  PROVE  /\ RecordsTyped'
         /\ \A i \in RecordIds : i # r => records'[i] = records[i]
         /\ records'[r].status = st /\ records'[r].successStatus = su
         /\ records'[r].order = records[r].order
         /\ records'[r].quantity = records[r].quantity
         /\ records'[r].buyUser = records[r].buyUser
         /\ records'[r].sellUser = records[r].sellUser
BY DEF RecordsTyped, SetRecord, Record

\* The records fit after one of them has been decided.
LEMMA DecidedFit ==
  ASSUME RecordsTyped, RecordsFit, NEW r \in RecordIds, IsOpen(records[r]),
         NEW st \in ClosedStatus, NEW su \in {"SUCCESS", "CANCEL"}, SetRecord(r, st, su),
         \A i \in OrderIds : /\ orders'[i].owner = orders[i].owner
                             /\ orders'[i].type = orders[i].type
                             /\ orders[i].status # "NONE" => orders'[i].status # "NONE"
  PROVE  /\ RecordsFit'
         /\ \A i \in OrderIds : CanCancel(i) => CanCancel(i)'
         /\ \A i \in RecordIds : TypeOf(records[i])' = TypeOf(records[i])
<1>0. st \in RecordStatus \ {"NONE"} /\ st \notin OpenStatus
  BY DEF ClosedStatus
<1>1. /\ \A i \in RecordIds : i # r => records'[i] = records[i]
      /\ records'[r].status = st /\ records'[r].successStatus = su
      /\ records'[r].order = records[r].order
      /\ records'[r].quantity = records[r].quantity
      /\ records'[r].buyUser = records[r].buyUser
      /\ records'[r].sellUser = records[r].sellUser
  BY <1>0, SetRecordEffect
<1>2. \A i \in RecordIds : records[i].order \in OrderIds
  BY DEF RecordsTyped, Record
<1>3. \A i \in RecordIds : records'[i].order = records[i].order
  BY <1>1
<1>4. \A i \in RecordIds : TypeOf(records[i])' = TypeOf(records[i])
  BY <1>2, <1>3 DEF TypeOf
<1>5. records[r].status # "NONE"
  BY DEF IsOpen, OpenStatus
<1>6. RecordsFit'
  BY <1>0, <1>1, <1>2, <1>3, <1>5 DEF RecordsFit, IsOpen
<1>7. \A i \in OrderIds : CanCancel(i) => CanCancel(i)'
  BY <1>0, <1>1, <1>3 DEF CanCancel, IsOpen
<1> QED BY <1>4, <1>6, <1>7

\* What a decided record counts for, with its order and with any other.
LEMMA DecidedQuantities ==
  ASSUME RecordsTyped, RecordsTyped', NEW r \in RecordIds, NEW st, NEW su,
         IsOpen(records[r]) , records[r].successStatus = "TRADEING",
         SetRecord(r, st, su), NEW i \in OrderIds,
         NEW q, q = IF records[r].order = i THEN records[r].quantity ELSE 0
  PROVE  /\ QuantityIn(i, {"TRADEING", "SUCCESS"})'
              = QuantityIn(i, {"TRADEING", "SUCCESS"}) - (IF su \in {"TRADEING", "SUCCESS"} THEN 0 ELSE q)
         /\ QuantityIn(i, {"SUCCESS"})'
              = QuantityIn(i, {"SUCCESS"}) + (IF su = "SUCCESS" THEN q ELSE 0)
<1>1. /\ \A k \in RecordIds : k # r => records'[k] = records[k]
      /\ records'[r].successStatus = su
      /\ records'[r].order = records[r].order
      /\ records'[r].quantity = records[r].quantity
      /\ q \in Nat
  BY DEF RecordsTyped, SetRecord, Record
<1>2. /\ QuantityOf(records[r], i, {"TRADEING", "SUCCESS"}) = q
      /\ QuantityOf(records'[r], i, {"TRADEING", "SUCCESS"})
           = IF su \in {"TRADEING", "SUCCESS"} THEN q ELSE 0
      /\ QuantityOf(records[r], i, {"SUCCESS"}) = 0
      /\ QuantityOf(records'[r], i, {"SUCCESS"}) = IF su = "SUCCESS" THEN q ELSE 0
  BY <1>1 DEF QuantityOf
<1>3. \A set : QuantityIn(i, set) \in Nat /\ QuantityIn(i, set)' = QuantityIn(i, set)
                  + (QuantityOf(records'[r], i, set) - QuantityOf(records[r], i, set))
  BY <1>1, QuantityInType, QuantityInUpdate
<1>4. /\ QuantityIn(i, {"TRADEING", "SUCCESS"}) \in Nat
      /\ QuantityIn(i, {"TRADEING", "SUCCESS"})' = QuantityIn(i, {"TRADEING", "SUCCESS"})
           + ((IF su \in {"TRADEING", "SUCCESS"} THEN q ELSE 0) - q)
      /\ QuantityIn(i, {"SUCCESS"}) \in Nat
      /\ QuantityIn(i, {"SUCCESS"})' = QuantityIn(i, {"SUCCESS"})
           + ((IF su = "SUCCESS" THEN q ELSE 0) - 0)
  BY <1>2, <1>3
<1> HIDE DEF IsOpen
<1> QED BY <1>1, <1>4

\* What the other records hold is untouched by the decision of r, and what r
\* held for a BUY order is held no more.
LEMMA DecidedHeld ==
  ASSUME CoreType, NEW r \in RecordIds, IsOpen(records[r]),
         NEW st \in ClosedStatus, NEW su, SetRecord(r, st, su),
         \A i \in RecordIds : TypeOf(records[i])' = TypeOf(records[i])
  PROVE  /\ \A i \in RecordIds : /\ i # r => HeldForRecord(i)' = HeldForRecord(i)
                                 /\ records'[i].sellUser = records[i].sellUser
         /\ HeldForRecord(r)' = 0
         /\ HeldForRecord(r) = IF TypeOf(records[r]) = "BUY" THEN records[r].quantity ELSE 0
<1>1. /\ \A k \in RecordIds : k # r => records'[k] = records[k]
      /\ records'[r].status = st /\ records'[r].sellUser = records[r].sellUser
  BY DEF CoreType, SetRecord, Record
<1>2. st \notin OpenStatus
  BY DEF ClosedStatus
<1>3. \A i \in RecordIds : i # r => HeldForRecord(i)' = HeldForRecord(i)
  BY <1>1 DEF HeldForRecord, IsOpen
<1>4. HeldForRecord(r)' = 0
  BY <1>1, <1>2 DEF HeldForRecord, IsOpen
<1>5. HeldForRecord(r) = IF TypeOf(records[r]) = "BUY" THEN records[r].quantity ELSE 0
  BY DEF HeldForRecord
<1> QED BY <1>1, <1>3, <1>4, <1>5

LEMMA DecidedHold ==
  ASSUME CoreType, NEW r \in RecordIds, IsOpen(records[r]),
         NEW st \in ClosedStatus, NEW su, SetRecord(r, st, su), NEW u \in Users,
         \A i \in RecordIds : TypeOf(records[i])' = TypeOf(records[i])
  PROVE  /\ \A i \in RecordIds : i # r => RecordHold(u)'[i] = RecordHold(u)[i]
         /\ RecordHold(u)'[r] - RecordHold(u)[r]
              = IF records[r].sellUser = u /\ TypeOf(records[r]) = "BUY"
                THEN -records[r].quantity ELSE 0
<1>1. /\ \A i \in RecordIds : /\ i # r => HeldForRecord(i)' = HeldForRecord(i)
                              /\ records'[i].sellUser = records[i].sellUser
      /\ HeldForRecord(r)' = 0
      /\ HeldForRecord(r) = IF TypeOf(records[r]) = "BUY" THEN records[r].quantity ELSE 0
  BY DecidedHeld
<1>2. \A i \in RecordIds :
        /\ RecordHold(u)[i]  = IF records[i].sellUser = u THEN HeldForRecord(i) ELSE 0
        /\ RecordHold(u)'[i] = IF records'[i].sellUser = u THEN HeldForRecord(i)' ELSE 0
  BY DEF RecordHold
<1>3. records[r].quantity \in Nat
  BY DEF CoreType, Record
<1> QED BY <1>1, <1>2, <1>3

LEMMA OrderHoldEntry ==
  ASSUME NEW u \in Users, NEW i \in OrderIds
  PROVE  /\ OrderHold(u)[i]  = IF orders[i].owner = u THEN HeldFor(i) ELSE 0
         /\ OrderHold(u)'[i] = IF orders'[i].owner = u THEN HeldFor(i)' ELSE 0
BY DEF OrderHold

\* Handing over takes the coins out of what is held for the order or for the
\* record.
LEMMA CompletesCore ==
  ASSUME CoreInvariant, NEW r \in RecordIds, Completes(r)
  PROVE  CoreInvariant'
<1>0. PICK rec, o, q, v, b : /\ rec = records[r] /\ o = rec.order /\ q = rec.quantity
                             /\ v = rec.sellUser /\ b = rec.buyUser
  OBVIOUS
<1>1. /\ o \in OrderIds /\ q \in Nat \ {0} /\ orders[o] \in Order /\ rec \in Record
      /\ b \in Users /\ v \in Users
      /\ orders[o].status # "NONE" /\ ~Withdrawn(orders[o])
      /\ rec.successStatus = "TRADEING"
      /\ orders[o].owner = IF orders[o].type = "BUY" THEN b ELSE v
  BY <1>0, RecordFacts DEF Completes
<1>2. PICK st \in ClosedStatus : SetRecord(r, st, "SUCCESS")
  BY DEF Completes
<1>3. /\ freeze[v] >= q /\ freeze' = [freeze EXCEPT ![v] = @ - q]
      /\ using' = [using EXCEPT ![b] = @ + q] /\ orders' = orders
  BY <1>0 DEF Completes, HandOver
<1>4. CoreType /\ RecordsTyped /\ RecordsFit /\ TradedByRecords /\ FreezeExplained
  BY DEF CoreInvariant, CoreType, RecordsTyped
<1>5. CoreType' /\ RecordsTyped'
  <2>1. RecordsTyped'
    BY <1>2, <1>4, SetRecordEffect DEF ClosedStatus
  <2>2. \A n \in Nat, k \in Nat : n >= k => n - k \in Nat /\ n + k \in Nat
    OBVIOUS
  <2>3. /\ using' \in [Users -> Nat] /\ freeze' \in [Users -> Nat]
        /\ orders' \in [OrderIds -> Order]
    <3>1. using \in [Users -> Nat] /\ freeze \in [Users -> Nat] /\ orders \in [OrderIds -> Order]
      BY <1>4 DEF CoreType
    <3> QED BY <1>1, <1>3, <3>1
  <2> QED BY <2>1, <2>3 DEF CoreType, RecordsTyped
<1>6. IsOpen(records[r])
  BY DEF Completes
<1>7. /\ RecordsFit' /\ \A i \in OrderIds : CanCancel(i) => CanCancel(i)'
      /\ \A i \in RecordIds : TypeOf(records[i])' = TypeOf(records[i])
  BY <1>2, <1>3, <1>4, <1>6, DecidedFit
<1>8. ASSUME NEW i \in OrderIds
      PROVE  /\ QuantityIn(i, {"TRADEING", "SUCCESS"})' = QuantityIn(i, {"TRADEING", "SUCCESS"})
             /\ QuantityIn(i, {"SUCCESS"})' = QuantityIn(i, {"SUCCESS"}) + (IF o = i THEN q ELSE 0)
             /\ QuantityIn(i, {"SUCCESS"}) \in Nat
  <2>1. /\ QuantityIn(i, {"TRADEING", "SUCCESS"})'
              = QuantityIn(i, {"TRADEING", "SUCCESS"}) - 0
        /\ QuantityIn(i, {"SUCCESS"})'
              = QuantityIn(i, {"SUCCESS"}) + (IF o = i THEN q ELSE 0)
    BY <1>0, <1>1, <1>2, <1>4, <1>5, <1>6, DecidedQuantities
  <2>2. QuantityIn(i, {"TRADEING", "SUCCESS"}) \in Nat /\ QuantityIn(i, {"SUCCESS"}) \in Nat
    BY <1>4, QuantityInType
  <2> QED BY <2>1, <2>2
<1>9. TradedByRecords'
  BY <1>3, <1>4, <1>7, <1>8 DEF TradedByRecords
<1>10. ASSUME NEW u \in Users PROVE Explained(u)'
  <2> DEFINE x == IF orders[o].owner = u /\ orders[o].type = "SELL" THEN -q ELSE 0
  <2> DEFINE y == IF v = u /\ orders[o].type = "BUY" THEN -q ELSE 0
  <2>1. \A i \in OrderIds : HeldFor(i)' = HeldFor(i) + (IF o = i /\ orders[o].type = "SELL" THEN -q ELSE 0)
    <3>1. \A i \in OrderIds : orders[i] \in Order
      BY <1>4 DEF CoreType
    <3>2. \A i \in OrderIds : orders[i].type \in {"BUY", "SELL"} /\ orders[i].quantity \in Nat
      BY <3>1 DEF Order
    <3> QED BY <1>1, <1>3, <1>8, <3>2 DEF HeldFor
  <2>2. \A i \in OrderIds : i # o => OrderHold(u)'[i] = OrderHold(u)[i]
    <3>1. \A i \in OrderIds : HeldFor(i) \in Int
      BY <1>4, <1>8 DEF HeldFor, CoreType, Order
    <3> QED BY <1>3, <2>1, <3>1, OrderHoldEntry
  <2>3. x = OrderHold(u)'[o] - OrderHold(u)[o]
    <3>1. HeldFor(o) \in Int
      BY <1>1, <1>8 DEF HeldFor, Order
    <3>2. /\ OrderHold(u)[o]  = IF orders[o].owner = u THEN HeldFor(o) ELSE 0
          /\ OrderHold(u)'[o] = IF orders[o].owner = u THEN HeldFor(o)' ELSE 0
      BY <1>1, <1>3, OrderHoldEntry
    <3>3. HeldFor(o)' = HeldFor(o) + (IF orders[o].type = "SELL" THEN -q ELSE 0)
      BY <1>1, <2>1
    <3> QED BY <1>1, <3>1, <3>2, <3>3
  <2>4. /\ \A i \in RecordIds : i # r => RecordHold(u)'[i] = RecordHold(u)[i]
        /\ y = RecordHold(u)'[r] - RecordHold(u)[r]
    BY <1>0, <1>2, <1>4, <1>5, <1>6, <1>7, DecidedHold DEF TypeOf
  <2>5. freeze'[u] = freeze[u] + x + y /\ x \in Int /\ y \in Int
    <3>1. freeze \in [Users -> Nat] /\ orders[o].type \in {"BUY", "SELL"}
      BY <1>1, <1>4 DEF CoreType, Order
    <3> QED BY <1>1, <1>3, <3>1
  <2>6. Explained(u)
    BY <1>4 DEF FreezeExplained, Explained
  <2> HIDE DEF x, y
  <2> QED BY <1>1, <1>4, <1>5, <2>2, <2>3, <2>4, <2>5, <2>6, FreezeFollows
<1>11. FreezeExplained'
  BY <1>10 DEF FreezeExplained, Explained
<1> QED BY <1>5, <1>7, <1>9, <1>11 DEF CoreInvariant

\* Giving back leaves what is held for the order, which is on offer again, and
\* takes what was held for the record back into the wallet.
LEMMA ReturnsCore ==
  ASSUME CoreInvariant, NEW r \in RecordIds, Returns(r)
  PROVE  CoreInvariant'
<1>0. PICK rec, o, q, v, b : /\ rec = records[r] /\ o = rec.order /\ q = rec.quantity
                             /\ v = rec.sellUser /\ b = rec.buyUser
  OBVIOUS
<1>1. /\ o \in OrderIds /\ q \in Nat \ {0} /\ orders[o] \in Order /\ rec \in Record
      /\ b \in Users /\ v \in Users
      /\ orders[o].status # "NONE" /\ ~Withdrawn(orders[o])
      /\ rec.successStatus = "TRADEING" /\ orders[o].tradeQuantity >= q
      /\ orders[o].owner = IF orders[o].type = "BUY" THEN b ELSE v
  BY <1>0, RecordFacts DEF Returns
<1>2. PICK st \in ClosedStatus : SetRecord(r, st, "CANCEL")
  BY DEF Returns
<1>3. /\ orders' = [orders EXCEPT ![o].tradeQuantity = @ - q, ![o].status = "WAIT"]
      /\ IF orders[o].type = "BUY" THEN ModifyWallet(v, q, -q) ELSE UNCHANGED <<using, freeze>>
  BY <1>0 DEF Returns, GiveBack, TypeOf
<1>4. CoreType /\ RecordsTyped /\ RecordsFit /\ TradedByRecords /\ FreezeExplained
  BY DEF CoreInvariant, CoreType, RecordsTyped
<1>5. /\ \A i \in OrderIds : i # o => orders'[i] = orders[i]
      /\ orders'[o] \in Order
      /\ orders'[o].owner = orders[o].owner /\ orders'[o].type = orders[o].type
      /\ orders'[o].quantity = orders[o].quantity /\ orders'[o].status = "WAIT"
      /\ orders'[o].tradeQuantity = orders[o].tradeQuantity - q
      /\ orders' \in [OrderIds -> Order]
  <2>1. orders[o].tradeQuantity - q \in Nat
    BY <1>1 DEF Order
  <2> QED BY <1>1, <1>3, <1>4, <2>1 DEF CoreType, Order
<1>6. IsOpen(records[r])
  BY DEF Returns
<1>7. CoreType' /\ RecordsTyped'
  <2>1. RecordsTyped'
    BY <1>2, <1>4, SetRecordEffect DEF ClosedStatus
  <2>2. using' \in [Users -> Nat] /\ freeze' \in [Users -> Nat]
    BY <1>1, <1>3, <1>4 DEF CoreType, ModifyWallet
  <2> QED BY <1>5, <2>1, <2>2 DEF CoreType, RecordsTyped
<1>8. /\ RecordsFit' /\ \A i \in OrderIds : CanCancel(i) => CanCancel(i)'
      /\ \A i \in RecordIds : TypeOf(records[i])' = TypeOf(records[i])
  <2>1. \A i \in OrderIds : /\ orders'[i].owner = orders[i].owner
                            /\ orders'[i].type = orders[i].type
                            /\ orders[i].status # "NONE" => orders'[i].status # "NONE"
    BY <1>5
  <2> QED BY <1>2, <1>4, <1>6, <2>1, DecidedFit
<1>9. ASSUME NEW i \in OrderIds
      PROVE  /\ QuantityIn(i, {"TRADEING", "SUCCESS"})'
                  = QuantityIn(i, {"TRADEING", "SUCCESS"}) - (IF o = i THEN q ELSE 0)
             /\ QuantityIn(i, {"SUCCESS"})' = QuantityIn(i, {"SUCCESS"})
             /\ QuantityIn(i, {"SUCCESS"}) \in Nat
  <2>1. /\ QuantityIn(i, {"TRADEING", "SUCCESS"})'
              = QuantityIn(i, {"TRADEING", "SUCCESS"}) - (IF o = i THEN q ELSE 0)
        /\ QuantityIn(i, {"SUCCESS"})' = QuantityIn(i, {"SUCCESS"}) + 0
    BY <1>0, <1>1, <1>2, <1>4, <1>6, <1>7, DecidedQuantities
  <2>2. QuantityIn(i, {"SUCCESS"}) \in Nat
    BY <1>4, QuantityInType
  <2> QED BY <2>1, <2>2
<1>10. TradedByRecords'
  <2> SUFFICES ASSUME NEW i \in OrderIds
               PROVE  /\ orders'[i].tradeQuantity = QuantityIn(i, {"TRADEING", "SUCCESS"})'
                      /\ orders'[i].tradeQuantity <= orders'[i].quantity
                      /\ orders'[i].status = "WAIT" => Residue(orders'[i]) > 0
                      /\ Withdrawn(orders'[i]) => CanCancel(i)'
    BY DEF TradedByRecords
  <2>1. /\ orders[i].tradeQuantity = QuantityIn(i, {"TRADEING", "SUCCESS"})
        /\ orders[i].tradeQuantity <= orders[i].quantity
        /\ orders[i].status = "WAIT" => Residue(orders[i]) > 0
        /\ Withdrawn(orders[i]) => CanCancel(i)
        /\ orders[i].tradeQuantity \in Nat /\ orders[i].quantity \in Nat
    BY <1>4 DEF TradedByRecords, CoreType, Order
  <2>2. CASE i # o
    <3>1. /\ orders'[i] = orders[i]
          /\ QuantityIn(i, {"TRADEING", "SUCCESS"})' = QuantityIn(i, {"TRADEING", "SUCCESS"}) - 0
      BY <1>5, <1>9, <2>2
    <3> QED BY <1>8, <2>1, <3>1
  <2>3. CASE i = o
    BY <1>1, <1>5, <1>9, <2>1, <2>3 DEF Residue, Withdrawn
  <2> QED BY <2>2, <2>3
<1>11. ASSUME NEW u \in Users PROVE Explained(u)'
  <2> DEFINE y == IF v = u /\ orders[o].type = "BUY" THEN -q ELSE 0
  <2>1. \A i \in OrderIds : HeldFor(i)' = HeldFor(i) /\ HeldFor(i) \in Int
    <3>1. \A i \in OrderIds : orders[i].quantity \in Nat
      BY <1>4 DEF CoreType, Order
    <3> QED BY <1>1, <1>5, <1>9, <3>1 DEF HeldFor, Withdrawn
  <2>2. \A i \in OrderIds : OrderHold(u)'[i] = OrderHold(u)[i] /\ OrderHold(u)[i] \in Int
    BY <1>5, <2>1, OrderHoldEntry
  <2>3. 0 = OrderHold(u)'[o] - OrderHold(u)[o]
    BY <1>1, <2>2
  <2>4. /\ \A i \in RecordIds : i # r => RecordHold(u)'[i] = RecordHold(u)[i]
        /\ y = RecordHold(u)'[r] - RecordHold(u)[r]
    BY <1>0, <1>2, <1>4, <1>6, <1>7, <1>8, DecidedHold DEF TypeOf
  <2>5. freeze'[u] = freeze[u] + 0 + y /\ y \in Int
    BY <1>1, <1>3, <1>4 DEF CoreType, ModifyWallet
  <2>6. Explained(u)
    BY <1>4 DEF FreezeExplained, Explained
  <2> HIDE DEF y
  <2> QED BY <1>1, <1>4, <1>7, <2>2, <2>3, <2>4, <2>5, <2>6, FreezeFollows
<1>12. FreezeExplained'
  BY <1>11 DEF FreezeExplained, Explained
<1> QED BY <1>7, <1>8, <1>10, <1>12 DEF CoreInvariant

\* A record that proceeds holds and counts for what it did.
LEMMA ProceedsCore ==
  ASSUME CoreInvariant, NEW r \in RecordIds, Proceeds(r)
  PROVE  CoreInvariant'
<1>1. CoreType /\ RecordsTyped /\ RecordsFit /\ TradedByRecords /\ FreezeExplained
  BY DEF CoreInvariant, CoreType, RecordsTyped
<1>2. UNCHANGED <<using, freeze, orders>> /\ IsOpen(records[r])
  BY DEF Proceeds
<1>3. /\ \A i \in RecordIds : i # r => records'[i] = records[i]
      /\ IsOpen(records'[r]) /\ records'[r].status # "NONE"
      /\ records'[r].successStatus = "TRADEING"
      /\ records'[r].order = records[r].order
      /\ records'[r].quantity = records[r].quantity
      /\ records'[r].buyUser = records[r].buyUser
      /\ records'[r].sellUser = records[r].sellUser
      /\ records' \in [RecordIds -> Record]
  <2>1. PICK st \in OpenStatus, type \in {"BUY", "SELL"} :
          records' = [records EXCEPT ![r] = [@ EXCEPT !.status = st, !.appealType = type,
                                                      !.successStatus = "TRADEING"]]
    BY DEF Proceeds
  <2>2. st \in RecordStatus /\ st # "NONE"
    BY DEF RecordStatus, OpenStatus
  <2> QED BY <1>1, <2>1, <2>2 DEF RecordsTyped, Record, IsOpen
<1>4. records[r].successStatus = "TRADEING" /\ records[r].status # "NONE"
  BY <1>1, <1>2 DEF RecordsFit, IsOpen, OpenStatus
<1>5. /\ \A i \in RecordIds, o \in OrderIds :
             /\ QuantityOf(records'[i], o, {"SUCCESS"}) = QuantityOf(records[i], o, {"SUCCESS"})
             /\ QuantityOf(records'[i], o, {"TRADEING", "SUCCESS"})
                  = QuantityOf(records[i], o, {"TRADEING", "SUCCESS"})
      /\ \A i \in RecordIds : /\ IsOpen(records'[i]) <=> IsOpen(records[i])
                              /\ records'[i].order = records[i].order
  BY <1>2, <1>3, <1>4 DEF QuantityOf
<1>6. \A o \in OrderIds :
        /\ QuantityIn(o, {"SUCCESS"})' = QuantityIn(o, {"SUCCESS"})
        /\ QuantityIn(o, {"TRADEING", "SUCCESS"})' = QuantityIn(o, {"TRADEING", "SUCCESS"})
        /\ CanCancel(o)' <=> CanCancel(o)
  BY <1>5 DEF QuantityIn, RecordQuantities, CanCancel
<1>7. TradedByRecords'
  BY <1>1, <1>2, <1>6 DEF TradedByRecords
<1>8. \A i \in RecordIds : /\ HeldForRecord(i)' = HeldForRecord(i)
                           /\ records'[i].sellUser = records[i].sellUser
  BY <1>2, <1>3, <1>5 DEF HeldForRecord, TypeOf
<1>9. \A o \in OrderIds : HeldFor(o)' = HeldFor(o)
  BY <1>2, <1>6 DEF HeldFor
<1>10. ASSUME NEW u \in Users PROVE OrderHold(u)' = OrderHold(u) /\ RecordHold(u)' = RecordHold(u)
  BY <1>2, <1>8, <1>9 DEF OrderHold, RecordHold
<1>11. FreezeExplained'
  BY <1>1, <1>2, <1>10 DEF FreezeExplained
<1>12. RecordsFit'
  BY <1>1, <1>2, <1>3, <1>4, <1>5 DEF RecordsFit
<1> QED BY <1>1, <1>2, <1>3, <1>7, <1>11, <1>12 DEF CoreInvariant, CoreType

-----------------------------------------------------------------------------
(* Orders.                                                                 *)

\* A step that changes order o alone, neither its owner nor its type, and no
\* record.
LEMMA OrderStepFit ==
  ASSUME CoreInvariant, NEW o \in OrderIds, records' = records,
         \A i \in OrderIds : i # o => orders'[i] = orders[i],
         orders'[o].owner = orders[o].owner, orders'[o].type = orders[o].type,
         orders'[o].status # "NONE"
  PROVE  /\ RecordsFit'
         /\ \A i \in OrderIds : \A st : QuantityIn(i, st)' = QuantityIn(i, st)
         /\ \A i \in OrderIds : /\ CanCancel(i)' <=> CanCancel(i)
                                /\ i # o => HeldFor(i)' = HeldFor(i)
         /\ \A u \in Users : RecordHold(u)' = RecordHold(u)
<1>1. \A i \in RecordIds : records[i].order \in OrderIds
  BY DEF CoreInvariant, CoreType, Record
<1>2. \A i \in OrderIds : /\ orders'[i].owner = orders[i].owner
                          /\ orders'[i].type = orders[i].type
  OBVIOUS
<1>3. RecordsFit'
  BY <1>1, <1>2 DEF CoreInvariant, RecordsFit, IsOpen
<1>4. \A i \in OrderIds : \A st : QuantityIn(i, st)' = QuantityIn(i, st)
  BY QuantityInSame
<1>5. \A i \in OrderIds : CanCancel(i)' <=> CanCancel(i)
  BY DEF CanCancel
<1>6. \A i \in OrderIds : i # o => HeldFor(i)' = HeldFor(i)
  BY <1>4 DEF HeldFor
<1>7. \A u \in Users : RecordHold(u)' = RecordHold(u)
  <2>1. \A i \in RecordIds : HeldForRecord(i)' = HeldForRecord(i)
    BY <1>1, <1>2 DEF HeldForRecord, TypeOf
  <2> QED BY <2>1 DEF RecordHold
<1> QED BY <1>3, <1>4, <1>5, <1>6, <1>7

\* When nothing is open for an order, what it has traded is what succeeded.
LEMMA NothingOpen ==
  ASSUME CoreInvariant, NEW o \in OrderIds, CanCancel(o)
  PROVE  QuantityIn(o, {"SUCCESS"}) = orders[o].tradeQuantity
<1>1. \A r \in RecordIds : QuantityOf(records[r], o, {"SUCCESS"})
                             = QuantityOf(records[r], o, {"TRADEING", "SUCCESS"})
  BY DEF CoreInvariant, RecordsFit, CanCancel, QuantityOf
<1>2. QuantityIn(o, {"SUCCESS"}) = QuantityIn(o, {"TRADEING", "SUCCESS"})
  BY <1>1 DEF QuantityIn, RecordQuantities
<1> QED BY <1>2 DEF CoreInvariant, TradedByRecords

LEMMA ShelvesCore ==
  ASSUME CoreInvariant, NEW o \in OrderIds, Shelves(o)
  PROVE  CoreInvariant'
<1>1. CoreType /\ TradedByRecords /\ FreezeExplained
  BY DEF CoreInvariant
<1>2. UNCHANGED <<using, freeze, records>> /\ orders[o].status = "WAIT"
  BY DEF Shelves
<1>3. /\ \A i \in OrderIds : i # o => orders'[i] = orders[i]
      /\ orders'[o].owner = orders[o].owner /\ orders'[o].type = orders[o].type
      /\ orders'[o].quantity = orders[o].quantity /\ orders'[o].status = orders[o].status
      /\ orders'[o].tradeQuantity = orders[o].tradeQuantity
      /\ orders' \in [OrderIds -> Order]
  BY <1>1 DEF Shelves, CoreType, Order
<1>4. /\ RecordsFit'
      /\ \A i \in OrderIds : \A st : QuantityIn(i, st)' = QuantityIn(i, st)
      /\ \A i \in OrderIds : CanCancel(i)' <=> CanCancel(i)
      /\ \A u \in Users : RecordHold(u)' = RecordHold(u)
  BY <1>2, <1>3, OrderStepFit
<1>5. /\ \A i \in OrderIds : /\ orders'[i].owner = orders[i].owner
                             /\ orders'[i].type = orders[i].type
                             /\ orders'[i].quantity = orders[i].quantity
                             /\ orders'[i].status = orders[i].status
                             /\ orders'[i].tradeQuantity = orders[i].tradeQuantity
  BY <1>3
<1>6. TradedByRecords'
  BY <1>1, <1>4, <1>5 DEF TradedByRecords, Withdrawn, Residue
<1>7. \A i \in OrderIds : HeldFor(i)' = HeldFor(i)
  BY <1>4, <1>5 DEF HeldFor, Withdrawn, Residue
<1>8. \A u \in Users : OrderHold(u)' = OrderHold(u)
  BY <1>5, <1>7 DEF OrderHold
<1>9. FreezeExplained'
  BY <1>1, <1>2, <1>4, <1>8 DEF FreezeExplained
<1> QED BY <1>1, <1>2, <1>3, <1>4, <1>6, <1>9 DEF CoreInvariant, CoreType

\* What a withdrawal does to its order.
LEMMA WithdrawsEffect ==
  ASSUME CoreInvariant, NEW o \in OrderIds, Withdraws(o)
  PROVE  \E v \in Users, done \in Nat, left \in Int :
           /\ v = orders[o].owner /\ done = QuantityIn(o, {"SUCCESS"})
           /\ left = orders[o].quantity - done /\ done = orders[o].tradeQuantity
           /\ records' = records /\ orders[o].status = "WAIT" /\ CanCancel(o)
           /\ \A i \in OrderIds : i # o => orders'[i] = orders[i]
           /\ orders'[o].owner = v /\ orders'[o].type = orders[o].type
           /\ orders'[o].quantity = orders[o].quantity /\ orders'[o].status = "END"
           /\ orders'[o].tradeQuantity = orders[o].tradeQuantity
           /\ orders' \in [OrderIds -> Order]
           /\ IF orders[o].type = "SELL" THEN ModifyWallet(v, left, -left)
              ELSE UNCHANGED <<using, freeze>>
<1>0. PICK v, done, left : /\ v = orders[o].owner /\ done = QuantityIn(o, {"SUCCESS"})
                           /\ left = orders[o].quantity - done
  OBVIOUS
<1>1. CoreType
  BY DEF CoreInvariant
<1>2. records' = records /\ orders[o].status = "WAIT" /\ CanCancel(o) /\ orders[o] \in Order
  BY <1>1 DEF Withdraws, CoreType
<1>3. done = orders[o].tradeQuantity /\ done \in Nat /\ left \in Int /\ v \in Users
  BY <1>0, <1>2, NothingOpen DEF Order
<1>4. PICK cancel \in {"NORMAL", "CANCEL"} :
        Withdraw(o, [orders[o] EXCEPT !.cancel = cancel])
  BY DEF Withdraws
<1>5. /\ \A i \in OrderIds : i # o => orders'[i] = orders[i]
      /\ orders'[o].owner = v /\ orders'[o].type = orders[o].type
      /\ orders'[o].quantity = orders[o].quantity /\ orders'[o].status = "END"
      /\ orders'[o].tradeQuantity = orders[o].tradeQuantity
      /\ orders' \in [OrderIds -> Order]
      /\ IF orders[o].type = "SELL" THEN ModifyWallet(v, left, -left)
         ELSE UNCHANGED <<using, freeze>>
  <2> DEFINE row == [orders[o] EXCEPT !.cancel = cancel]
  <2>1. /\ row.owner = v /\ row.type = orders[o].type /\ row.quantity = orders[o].quantity
        /\ row.tradeQuantity = orders[o].tradeQuantity /\ row \in Order
    BY <1>0, <1>2 DEF Order
  <2> HIDE DEF row
  <2>2. CASE row.type = "SELL"
    <3>1. /\ ModifyWallet(v, left, -left)
          /\ orders' = [orders EXCEPT ![o] = [row EXCEPT !.status = "END",
                                                         !.tradeQuantity = done]]
      BY <1>0, <1>4, <2>1, <2>2 DEF Withdraw, row
    <3> QED BY <1>1, <1>2, <1>3, <2>1, <2>2, <3>1 DEF CoreType, Order
  <2>3. CASE row.type # "SELL"
    <3>1. /\ UNCHANGED <<using, freeze>>
          /\ orders' = [orders EXCEPT ![o] = [row EXCEPT !.status = "END"]]
      BY <1>4, <2>3 DEF Withdraw, row
    <3> QED BY <1>1, <1>2, <1>3, <2>1, <2>3, <3>1 DEF CoreType, Order
  <2> QED BY <2>2, <2>3
<1> QED BY <1>0, <1>2, <1>3, <1>5

\* A withdrawn order holds nothing, and its seller has back what it held.
LEMMA WithdrawsCore ==
  ASSUME CoreInvariant, NEW o \in OrderIds, Withdraws(o)
  PROVE  CoreInvariant'
<1>1. CoreType /\ RecordsTyped /\ TradedByRecords /\ FreezeExplained
  BY DEF CoreInvariant, CoreType, RecordsTyped
<1>2. PICK v \in Users, done \in Nat, left \in Int :
        /\ v = orders[o].owner /\ done = QuantityIn(o, {"SUCCESS"})
        /\ left = orders[o].quantity - done /\ done = orders[o].tradeQuantity
        /\ records' = records /\ orders[o].status = "WAIT" /\ CanCancel(o)
        /\ \A i \in OrderIds : i # o => orders'[i] = orders[i]
        /\ orders'[o].owner = v /\ orders'[o].type = orders[o].type
        /\ orders'[o].quantity = orders[o].quantity /\ orders'[o].status = "END"
        /\ orders'[o].tradeQuantity = orders[o].tradeQuantity
        /\ orders' \in [OrderIds -> Order]
        /\ IF orders[o].type = "SELL" THEN ModifyWallet(v, left, -left)
           ELSE UNCHANGED <<using, freeze>>
  BY WithdrawsEffect
<1>3. /\ RecordsFit'
      /\ \A i \in OrderIds : \A st : QuantityIn(i, st)' = QuantityIn(i, st)
      /\ \A i \in OrderIds : /\ CanCancel(i)' <=> CanCancel(i)
                             /\ i # o => HeldFor(i)' = HeldFor(i)
      /\ \A u \in Users : RecordHold(u)' = RecordHold(u)
  BY <1>2, OrderStepFit
<1>4. CoreType'
  BY <1>1, <1>2 DEF CoreType, ModifyWallet
<1>5. TradedByRecords'
  BY <1>1, <1>2, <1>3 DEF TradedByRecords, Withdrawn, Residue
<1>6. ASSUME NEW u \in Users PROVE Explained(u)'
  <2> DEFINE x == IF v = u /\ orders[o].type = "SELL" THEN -left ELSE 0
  <2>1. HeldFor(o) = IF orders[o].type = "SELL" THEN left ELSE 0
    BY <1>2 DEF HeldFor, Withdrawn, Order
  <2>2. HeldFor(o)' = 0
    <3>1. orders[o].quantity - done > 0 \/ orders[o].quantity - done = 0
      BY <1>1, <1>2 DEF TradedByRecords, CoreType, Order
    <3>2. Withdrawn(orders'[o]) <=> orders[o].quantity - done > 0
      BY <1>2 DEF Withdrawn, Residue
    <3>3. QuantityIn(o, {"SUCCESS"})' = done
      BY <1>2, <1>3
    <3> QED BY <1>2, <3>1, <3>2, <3>3 DEF HeldFor
  <2>3. x = OrderHold(u)'[o] - OrderHold(u)[o]
    BY <1>2, <2>1, <2>2, OrderHoldEntry
  <2>4. \A i \in OrderIds : i # o => OrderHold(u)'[i] = OrderHold(u)[i]
    BY <1>2, <1>3, OrderHoldEntry
  <2>5. 1 \in RecordIds /\ RecordHold(u)[1] \in Int
    <3>1. 1 \in RecordIds
      BY OtcAssumption DEF RecordIds
    <3>2. RecordHold(u) \in [1..MaxRecords -> Int]
      BY <1>1, HoldsType DEF HoldsTyped
    <3> QED BY <3>1, <3>2 DEF RecordIds
  <2>6. 0 = RecordHold(u)'[1] - RecordHold(u)[1] /\ RecordHold(u)' = RecordHold(u)
    BY <1>3, <2>5
  <2>7. freeze'[u] = freeze[u] + x + 0 /\ x \in Int
    BY <1>1, <1>2 DEF CoreType, ModifyWallet
  <2>8. Explained(u)
    BY <1>1 DEF FreezeExplained, Explained
  <2> HIDE DEF x
  <2> QED BY <1>1, <1>4, <2>3, <2>4, <2>5, <2>6, <2>7, <2>8, FreezeFollows
<1>7. FreezeExplained'
  BY <1>6 DEF FreezeExplained, Explained
<1> QED BY <1>3, <1>4, <1>5, <1>7 DEF CoreInvariant

\* No record is about an order that has not been published.
LEMMA UnpublishedOrder ==
  ASSUME CoreInvariant, NEW o \in OrderIds, orders[o].status = "NONE"
  PROVE  /\ \A r \in RecordIds : records[r].status # "NONE" => records[r].order # o
         /\ \A st \in SUBSET {"TRADEING", "SUCCESS"} : QuantityIn(o, st) = 0
<1>1. \A r \in RecordIds : records[r].status # "NONE" => records[r].order # o
  BY DEF CoreInvariant, RecordsFit
<1>2. ASSUME NEW st \in SUBSET {"TRADEING", "SUCCESS"} PROVE QuantityIn(o, st) = 0
  <2>1. \A r \in RecordIds : records[r].status = "NONE" => records[r].successStatus = "NONE"
    BY DEF CoreInvariant, RecordsFit
  <2>2. \A r \in RecordIds : QuantityOf(records[r], o, st) = 0
    BY <1>1, <2>1 DEF QuantityOf
  <2> QED BY <2>2, QuantityInNone DEF CoreInvariant, CoreType, RecordsTyped
<1> QED BY <1>1, <1>2

\* A published SELL order holds what it offers.
LEMMA PublishCore ==
  ASSUME CoreInvariant, NEW v \in Users, NEW type \in {"BUY", "SELL"},
         NEW q \in Quantities, Publish(v, type, q)
  PROVE  CoreInvariant'
<1>1. CoreType /\ RecordsTyped /\ RecordsFit /\ TradedByRecords /\ FreezeExplained
  BY DEF CoreInvariant, CoreType, RecordsTyped
<1>2. PICK o \in OrderIds :
        /\ orders[o].status = "NONE"
        /\ orders' = [orders EXCEPT ![o] =
             [status |-> "WAIT", owner |-> v, type |-> type, quantity |-> q,
              tradeQuantity |-> 0, cancel |-> "NORMAL"]]
  BY DEF Publish, NextOrderId
<1>3. /\ records' = records /\ q \in Nat \ {0}
      /\ IF type = "SELL" THEN ModifyWallet(v, -q, q) ELSE UNCHANGED <<using, freeze>>
  BY OtcAssumption DEF Publish
<1>4. /\ \A i \in OrderIds : i # o => orders'[i] = orders[i]
      /\ orders'[o].owner = v /\ orders'[o].type = type /\ orders'[o].quantity = q
      /\ orders'[o].status = "WAIT" /\ orders'[o].tradeQuantity = 0
      /\ orders' \in [OrderIds -> Order]
  BY <1>1, <1>2, <1>3 DEF CoreType, Order
<1>5. CoreType'
  BY <1>1, <1>3, <1>4 DEF CoreType, ModifyWallet
<1>6. /\ \A r \in RecordIds : records[r].status # "NONE" => records[r].order # o
      /\ QuantityIn(o, {"TRADEING", "SUCCESS"}) = 0 /\ QuantityIn(o, {"SUCCESS"}) = 0
  BY <1>2, UnpublishedOrder DEF CoreInvariant
<1>7. /\ \A r \in RecordIds : records[r].order \in OrderIds
      /\ \A i, st : QuantityIn(i, st)' = QuantityIn(i, st)
  BY <1>1, <1>3, QuantityInSame DEF RecordsTyped, Record
<1>8. RecordsFit'
  <2>1. \A r \in RecordIds : records[r].status # "NONE" =>
          orders'[records[r].order] = orders[records[r].order]
    BY <1>4, <1>6, <1>7
  <2> QED BY <1>1, <1>3, <2>1 DEF RecordsFit, IsOpen
<1>9. TradedByRecords'
  <2>1. \A i \in OrderIds : CanCancel(i)' <=> CanCancel(i)
    BY <1>3 DEF CanCancel
  <2>2. \A i \in OrderIds : i # o => orders'[i] = orders[i]
    BY <1>4
  <2>3. ~Withdrawn(orders'[o]) /\ Residue(orders'[o]) > 0
    BY <1>3, <1>4 DEF Withdrawn, Residue
  <2> QED BY <1>1, <1>3, <1>4, <1>6, <1>7, <2>1, <2>2, <2>3 DEF TradedByRecords
<1>10. ASSUME NEW u \in Users PROVE Explained(u)'
  <2> DEFINE x == IF v = u /\ type = "SELL" THEN q ELSE 0
  <2>1. HeldFor(o) = 0
    BY <1>2 DEF HeldFor
  <2>2. HeldFor(o)' = IF type = "SELL" THEN q ELSE 0
    BY <1>3, <1>4, <1>6, <1>7 DEF HeldFor, Withdrawn
  <2>3. x = OrderHold(u)'[o] - OrderHold(u)[o]
    BY <1>3, <1>4, <2>1, <2>2, OrderHoldEntry
  <2>4. \A i \in OrderIds : i # o => OrderHold(u)'[i] = OrderHold(u)[i]
    <3>1. \A i \in OrderIds : i # o => HeldFor(i)' = HeldFor(i)
      BY <1>4, <1>7 DEF HeldFor
    <3> QED BY <1>4, <3>1, OrderHoldEntry
  <2>5. 1 \in RecordIds /\ RecordHold(u)[1] \in Int
    <3>1. 1 \in RecordIds
      BY OtcAssumption DEF RecordIds
    <3>2. RecordHold(u) \in [1..MaxRecords -> Int]
      BY <1>1, HoldsType DEF HoldsTyped
    <3> QED BY <3>1, <3>2 DEF RecordIds
  <2>6. RecordHold(u)' = RecordHold(u)
    <3>1. \A r \in RecordIds : HeldForRecord(r)' = HeldForRecord(r)
      <4>1. \A r \in RecordIds : IsOpen(records[r]) => records[r].order \in OrderIds \ {o}
        BY <1>6, <1>7 DEF IsOpen, OpenStatus
      <4> QED BY <1>3, <1>4, <4>1 DEF HeldForRecord, TypeOf
    <3> QED BY <1>3, <3>1 DEF RecordHold
  <2>7. 0 = RecordHold(u)'[1] - RecordHold(u)[1]
    BY <2>5, <2>6
  <2>8. freeze'[u] = freeze[u] + x + 0 /\ x \in Int
    BY <1>1, <1>3 DEF CoreType, ModifyWallet
  <2>9. Explained(u)
    BY <1>1 DEF FreezeExplained, Explained
  <2> HIDE DEF x
  <2> QED BY <1>1, <1>5, <2>3, <2>4, <2>5, <2>6, <2>7, <2>8, <2>9, FreezeFollows
<1>11. FreezeExplained'
  BY <1>10 DEF FreezeExplained, Explained
<1> QED BY <1>5, <1>8, <1>9, <1>11 DEF CoreInvariant

\* What a trade does to its order and to its record.
LEMMA TradeEffect ==
  ASSUME CoreInvariant, NEW v \in Users, NEW o \in OrderIds, NEW q \in Parts, Trade(v, o, q)
  PROVE  /\ q \in Nat \ {0} /\ orders[o] \in Order /\ orders[o].status = "WAIT"
         /\ orders[o].owner # v /\ Residue(orders[o]) >= q
         /\ orders' \in [OrderIds -> Order]
         /\ \A i \in OrderIds : i # o => orders'[i] = orders[i]
         /\ orders'[o].owner = orders[o].owner /\ orders'[o].type = orders[o].type
         /\ orders'[o].quantity = orders[o].quantity
         /\ orders'[o].tradeQuantity = orders[o].tradeQuantity + q
         /\ orders'[o].status = IF Residue(orders[o]) = q THEN "END" ELSE "WAIT"
         /\ IF orders[o].type = "BUY" THEN ModifyWallet(v, -q, q)
            ELSE UNCHANGED <<using, freeze>>
         /\ \E r \in RecordIds :
              /\ records[r].status = "NONE"
              /\ records' \in [RecordIds -> Record]
              /\ \A i \in RecordIds : i # r => records'[i] = records[i]
              /\ records'[r].order = o /\ records'[r].quantity = q
              /\ records'[r].status = "WAIT" /\ records'[r].successStatus = "TRADEING"
              /\ records'[r].buyUser  = IF orders[o].type = "BUY" THEN orders[o].owner ELSE v
              /\ records'[r].sellUser = IF orders[o].type = "BUY" THEN v ELSE orders[o].owner
<1>1. CoreType /\ orders[o] \in Order /\ q \in Nat \ {0}
  BY OtcAssumption DEF CoreInvariant, CoreType
<1>2. /\ orders[o].status = "WAIT" /\ orders[o].owner # v /\ Residue(orders[o]) >= q
      /\ orders' = [orders EXCEPT ![o].tradeQuantity = @ + q,
                                  ![o].status = IF Residue(orders[o]) = q THEN "END" ELSE @]
  BY DEF Trade
<1>3. IF orders[o].type = "BUY" THEN ModifyWallet(v, -q, q) ELSE UNCHANGED <<using, freeze>>
  BY DEF Trade
<1>4. /\ orders' \in [OrderIds -> Order]
      /\ \A i \in OrderIds : i # o => orders'[i] = orders[i]
      /\ orders'[o].owner = orders[o].owner /\ orders'[o].type = orders[o].type
      /\ orders'[o].quantity = orders[o].quantity
      /\ orders'[o].tradeQuantity = orders[o].tradeQuantity + q
      /\ orders'[o].status = IF Residue(orders[o]) = q THEN "END" ELSE "WAIT"
  <2> DEFINE tq == orders[o].tradeQuantity + q
  <2> DEFINE st == IF Residue(orders[o]) = q THEN "END" ELSE "WAIT"
  <2>1. tq \in Nat /\ st \in {"NONE", "WAIT", "END"}
    BY <1>1 DEF Order
  <2>2. orders' = [orders EXCEPT ![o] = [@ EXCEPT !.tradeQuantity = tq, !.status = st]]
    BY <1>1, <1>2 DEF CoreType, Order
  <2> HIDE DEF tq, st
  <2>3. orders' \in [OrderIds -> Order] /\ \A i \in OrderIds : i # o => orders'[i] = orders[i]
    BY <1>1, <2>1, <2>2 DEF CoreType, Order
  <2>4. /\ orders'[o].owner = orders[o].owner /\ orders'[o].type = orders[o].type
        /\ orders'[o].quantity = orders[o].quantity
        /\ orders'[o].tradeQuantity = tq /\ orders'[o].status = st
    BY <1>1, <2>2 DEF CoreType, Order
  <2> QED BY <2>3, <2>4 DEF tq, st
<1>5. PICK r \in RecordIds :
         /\ records[r].status = "NONE"
         /\ records' = [records EXCEPT ![r] =
                [order |-> o, quantity |-> q, status |-> "WAIT",
                 buyUser  |-> IF orders[o].type = "BUY" THEN orders[o].owner ELSE v,
                 sellUser |-> IF orders[o].type = "BUY" THEN v ELSE orders[o].owner,
                 appealType |-> "BUY", successStatus |-> "TRADEING"]]
  BY DEF Trade, NextRecordId
<1>6. orders[o].owner \in Users /\ "WAIT" \in RecordStatus
  BY <1>1 DEF Order, RecordStatus, OpenStatus
<1>7. /\ records' \in [RecordIds -> Record]
      /\ \A i \in RecordIds : i # r => records'[i] = records[i]
      /\ records'[r].order = o /\ records'[r].quantity = q
      /\ records'[r].status = "WAIT" /\ records'[r].successStatus = "TRADEING"
      /\ records'[r].buyUser  = IF orders[o].type = "BUY" THEN orders[o].owner ELSE v
      /\ records'[r].sellUser = IF orders[o].type = "BUY" THEN v ELSE orders[o].owner
  BY <1>1, <1>5, <1>6 DEF CoreType, Record
<1> QED BY <1>1, <1>2, <1>3, <1>4, <1>5, <1>7

\* A trade leaves what is held for the order; for a BUY order the new record
\* holds what its seller has frozen.
LEMMA TradeCore ==
  ASSUME CoreInvariant, NEW v \in Users, NEW o \in OrderIds, NEW q \in Parts, Trade(v, o, q)
  PROVE  CoreInvariant'
<1>1. CoreType /\ RecordsTyped /\ RecordsFit /\ TradedByRecords /\ FreezeExplained
  BY DEF CoreInvariant, CoreType, RecordsTyped
<1>2. /\ q \in Nat \ {0} /\ orders[o] \in Order /\ orders[o].status = "WAIT"
      /\ orders[o].owner # v /\ Residue(orders[o]) >= q
      /\ orders' \in [OrderIds -> Order]
      /\ \A i \in OrderIds : i # o => orders'[i] = orders[i]
      /\ orders'[o].owner = orders[o].owner /\ orders'[o].type = orders[o].type
      /\ orders'[o].quantity = orders[o].quantity
      /\ orders'[o].tradeQuantity = orders[o].tradeQuantity + q
      /\ orders'[o].status = IF Residue(orders[o]) = q THEN "END" ELSE "WAIT"
      /\ IF orders[o].type = "BUY" THEN ModifyWallet(v, -q, q) ELSE UNCHANGED <<using, freeze>>
  BY TradeEffect
<1>3. PICK r \in RecordIds :
        /\ records[r].status = "NONE"
        /\ records' \in [RecordIds -> Record]
        /\ \A i \in RecordIds : i # r => records'[i] = records[i]
        /\ records'[r].order = o /\ records'[r].quantity = q
        /\ records'[r].status = "WAIT" /\ records'[r].successStatus = "TRADEING"
        /\ records'[r].buyUser  = IF orders[o].type = "BUY" THEN orders[o].owner ELSE v
        /\ records'[r].sellUser = IF orders[o].type = "BUY" THEN v ELSE orders[o].owner
  BY TradeEffect
<1>4. CoreType' /\ RecordsTyped'
  BY <1>1, <1>2, <1>3 DEF CoreType, ModifyWallet, RecordsTyped
<1>5. /\ \A i \in RecordIds : records[i].order \in OrderIds
      /\ \A i \in OrderIds : orders'[i].owner = orders[i].owner /\ orders'[i].type = orders[i].type
      /\ \A i \in OrderIds : orders[i].status # "NONE" => orders'[i].status # "NONE"
  BY <1>1, <1>2 DEF RecordsTyped, Record
<1>6. RecordsFit'
  BY <1>1, <1>2, <1>3, <1>5 DEF RecordsFit, IsOpen, OpenStatus
<1>7. records[r].successStatus = "NONE" /\ ~IsOpen(records[r]) /\ IsOpen(records'[r])
  BY <1>1, <1>3 DEF RecordsFit, IsOpen, OpenStatus
<1>8. \A i \in OrderIds :
        /\ QuantityIn(i, {"TRADEING", "SUCCESS"}) \in Nat /\ QuantityIn(i, {"SUCCESS"}) \in Nat
        /\ QuantityIn(i, {"TRADEING", "SUCCESS"})'
             = QuantityIn(i, {"TRADEING", "SUCCESS"}) + (IF i = o THEN q ELSE 0)
        /\ QuantityIn(i, {"SUCCESS"})' = QuantityIn(i, {"SUCCESS"})
  <2> TAKE i \in OrderIds
  <2>1. /\ QuantityOf(records[r], i, {"TRADEING", "SUCCESS"}) = 0
        /\ QuantityOf(records'[r], i, {"TRADEING", "SUCCESS"}) = IF i = o THEN q ELSE 0
        /\ QuantityOf(records[r], i, {"SUCCESS"}) = 0
        /\ QuantityOf(records'[r], i, {"SUCCESS"}) = 0
    BY <1>3, <1>7 DEF QuantityOf
  <2>2. /\ QuantityIn(i, {"TRADEING", "SUCCESS"}) \in Nat /\ QuantityIn(i, {"SUCCESS"}) \in Nat
        /\ QuantityIn(i, {"TRADEING", "SUCCESS"})'
             = QuantityIn(i, {"TRADEING", "SUCCESS"}) + ((IF i = o THEN q ELSE 0) - 0)
        /\ QuantityIn(i, {"SUCCESS"})' = QuantityIn(i, {"SUCCESS"}) + (0 - 0)
    BY <1>1, <1>3, <1>4, <2>1, QuantityInType, QuantityInUpdate
  <2> QED BY <1>2, <2>2
<1>9. TradedByRecords'
  <2> SUFFICES ASSUME NEW i \in OrderIds
               PROVE  /\ orders'[i].tradeQuantity = QuantityIn(i, {"TRADEING", "SUCCESS"})'
                      /\ orders'[i].tradeQuantity <= orders'[i].quantity
                      /\ orders'[i].status = "WAIT" => Residue(orders'[i]) > 0
                      /\ Withdrawn(orders'[i]) => CanCancel(i)'
    BY DEF TradedByRecords
  <2>1. CASE i # o
    <3>1. CanCancel(i) => CanCancel(i)'
      BY <1>3, <2>1 DEF CanCancel
    <3>2. /\ orders'[i] = orders[i]
          /\ QuantityIn(i, {"TRADEING", "SUCCESS"})' = QuantityIn(i, {"TRADEING", "SUCCESS"}) + 0
      BY <1>2, <1>8, <2>1
    <3>3. orders[i].tradeQuantity = QuantityIn(i, {"TRADEING", "SUCCESS"})'
      BY <1>1, <1>8, <3>2 DEF TradedByRecords
    <3> QED BY <1>1, <3>1, <3>2, <3>3 DEF TradedByRecords
  <2>2. CASE i = o
    <3>1. /\ orders[o].tradeQuantity \in Nat /\ orders[o].quantity \in Nat
          /\ orders[o].quantity - orders[o].tradeQuantity >= q
      BY <1>2 DEF Residue, Order
    <3>2. orders'[o].tradeQuantity = QuantityIn(o, {"TRADEING", "SUCCESS"})'
      BY <1>1, <1>2, <1>8 DEF TradedByRecords
    <3>3. /\ orders'[o].tradeQuantity <= orders'[o].quantity
          /\ orders'[o].status = "WAIT" => orders'[o].quantity - orders'[o].tradeQuantity > 0
          /\ orders'[o].status = "END" => orders'[o].quantity - orders'[o].tradeQuantity = 0
      BY <1>2, <3>1 DEF Residue
    <3> QED BY <2>2, <3>1, <3>2, <3>3 DEF Residue, Withdrawn
  <2> QED BY <2>1, <2>2
<1>10. ASSUME NEW u \in Users PROVE Explained(u)'
  <2> DEFINE y == IF v = u /\ orders[o].type = "BUY" THEN q ELSE 0
  <2>1. \A i \in OrderIds : HeldFor(i)' = HeldFor(i) /\ HeldFor(i) \in Int
    <3>1. \A i \in OrderIds : orders[i].quantity \in Nat /\ orders[i].tradeQuantity \in Nat
      BY <1>1 DEF CoreType, Order
    <3>2. ~Withdrawn(orders[o]) /\ ~Withdrawn(orders'[o])
      BY <1>2, <3>1 DEF Withdrawn, Residue
    <3> QED BY <1>2, <1>8, <3>1, <3>2 DEF HeldFor
  <2>2. /\ \A i \in OrderIds : i # o => OrderHold(u)'[i] = OrderHold(u)[i]
        /\ 0 = OrderHold(u)'[o] - OrderHold(u)[o]
    BY <1>5, <2>1, OrderHoldEntry
  <2>3. \A i \in RecordIds : i # r => HeldForRecord(i)' = HeldForRecord(i)
    BY <1>3, <1>5 DEF HeldForRecord, TypeOf
  <2>4. HeldForRecord(r) = 0
    BY <1>7 DEF HeldForRecord
  <2>5. HeldForRecord(r)' = IF orders[o].type = "BUY" THEN q ELSE 0
    BY <1>2, <1>3, <1>7 DEF HeldForRecord, TypeOf
  <2>6. \A i \in RecordIds :
          /\ RecordHold(u)[i]  = IF records[i].sellUser = u THEN HeldForRecord(i) ELSE 0
          /\ RecordHold(u)'[i] = IF records'[i].sellUser = u THEN HeldForRecord(i)' ELSE 0
    BY DEF RecordHold
  <2>7. /\ \A i \in RecordIds : i # r => RecordHold(u)'[i] = RecordHold(u)[i]
        /\ y = RecordHold(u)'[r] - RecordHold(u)[r]
    BY <1>2, <1>3, <2>3, <2>4, <2>5, <2>6
  <2>8. freeze'[u] = freeze[u] + 0 + y /\ y \in Int
    BY <1>1, <1>2 DEF CoreType, ModifyWallet
  <2>9. Explained(u)
    BY <1>1 DEF FreezeExplained, Explained
  <2> HIDE DEF y
  <2> QED BY <1>1, <1>4, <2>2, <2>7, <2>8, <2>9, FreezeFollows
<1>11. FreezeExplained'
  BY <1>10 DEF FreezeExplained, Explained
<1> QED BY <1>4, <1>6, <1>9, <1>11 DEF CoreInvariant

-----------------------------------------------------------------------------
(* The queues.                                                             *)

QueuesType == /\ jobs \subseteq RecordIds \X {"WAIT", "WAITPAY"}
              /\ cancels \in [Users -> Nat]
              /\ asking \subseteq Users \X RecordIds

LEMMA NextQueuesType ==
  ASSUME OtcTypeOK, [OtcNext]_vars
  PROVE  QueuesType'
<1>1. /\ QueuesType
      /\ \A r \in RecordIds : records[r].buyUser \in Users /\ records[r].sellUser \in Users
  BY DEF OtcTypeOK, QueuesType, Record
<1>2. \A u \in Users : [cancels EXCEPT ![u] = @ + 1] \in [Users -> Nat]
  BY <1>1 DEF QueuesType
<1>3. ASSUME NEW u \in Users, NEW type \in {"BUY", "SELL"}, NEW q \in Quantities,
             Publish(u, type, q)
      PROVE  QueuesType'
  BY <1>1, <1>3 DEF Publish, QueuesType
<1>4. ASSUME NEW u \in Users, NEW o \in OrderIds, NEW q \in Parts, Trade(u, o, q)
      PROVE  QueuesType'
  BY <1>1, <1>4 DEF Trade, JobFor, QueuesType
<1>5. ASSUME NEW o \in OrderIds,
             CancelOrder(o) \/ AdminCancelOrder(o)
               \/ \E cancel \in {"NORMAL", "CANCEL"} : SetShelf(o, cancel)
      PROVE  QueuesType'
  BY <1>1, <1>5 DEF CancelOrder, AdminCancelOrder, SetShelf, QueuesType
<1>6. ASSUME NEW u \in Users, NEW r \in RecordIds, Take(u, r) \/ Pay(u, r) \/ Appeal(u, r)
      PROVE  QueuesType'
  BY <1>1, <1>6 DEF Take, Pay, Appeal, JobFor, QueuesType
<1>7. ASSUME NEW u \in Users, NEW r \in RecordIds,
             Gathering(u, r) \/ CancelRecord(u, r) \/ AskAppeal(u, r)
      PROVE  QueuesType'
  BY <1>1, <1>2, <1>7 DEF Gathering, CancelRecord, AskAppeal, HandOver, GiveBack, QueuesType
<1>8. ASSUME NEW r \in RecordIds, AppealSuccess(r) \/ AppealFail(r)
      PROVE  QueuesType'
  BY <1>1, <1>2, <1>8 DEF AppealSuccess, AppealFail, HandOver, GiveBack, QueuesType
<1>9. ASSUME NEW r \in RecordIds, NEW st \in {"WAIT", "WAITPAY"}, AutoCancel(r, st)
      PROVE  QueuesType'
  BY <1>1, <1>2, <1>9 DEF AutoCancel, GiveBack, QueuesType
<1>10. CASE UNCHANGED vars
  BY <1>1, <1>10 DEF vars, QueuesType
<1> QED BY <1>3, <1>4, <1>5, <1>6, <1>7, <1>8, <1>9, <1>10 DEF OtcNext

\* Appeals that are on their way stay about records that wait to be confirmed.
LEMMA NextAppealsFit ==
  ASSUME OtcInvariant, ~LateAppeal, [OtcNext]_vars
  PROVE  AppealsFit'
<1>1. /\ records \in [RecordIds -> Record] /\ asking \subseteq Users \X RecordIds
      /\ \A u, v \in Users, r \in RecordIds : <<u, r>> \in asking =>
           records[r].status = "WAITGATHERING" /\ (<<v, r>> \in asking => v = u)
  BY DEF OtcInvariant, OtcTypeOK, AppealsFit
<1>2. ASSUME asking' \subseteq asking,
             \A r \in RecordIds : records'[r] = records[r]
                                  \/ \A u \in Users : <<u, r>> \notin asking'
      PROVE  AppealsFit'
  BY <1>1, <1>2 DEF AppealsFit
<1>3. ASSUME NEW r \in RecordIds, records[r].status # "WAITGATHERING" \/ Unasked(r),
             asking' \subseteq asking,
             \A i \in RecordIds : i # r => records'[i] = records[i]
      PROVE  AppealsFit'
  BY <1>1, <1>2, <1>3 DEF Unasked
<1>4. ASSUME NEW u \in Users, NEW o \in OrderIds, NEW q \in Parts, Trade(u, o, q)
      PROVE  AppealsFit'
  <2>1. PICK r \in RecordIds : records[r].status = "NONE"
                               /\ \A i \in RecordIds : i # r => records'[i] = records[i]
    BY <1>1, <1>4 DEF Trade, NextRecordId
  <2>2. asking' = asking
    BY <1>4 DEF Trade
  <2> QED BY <1>3, <2>1, <2>2
<1>5. ASSUME NEW u \in Users, NEW r \in RecordIds, Take(u, r) \/ Pay(u, r)
      PROVE  AppealsFit'
  <2>1. /\ records[r].status # "WAITGATHERING" /\ asking' = asking
        /\ \A i \in RecordIds : i # r => records'[i] = records[i]
    BY <1>1, <1>5 DEF Take, Pay, SetRecord
  <2> QED BY <1>3, <2>1
<1>6. ASSUME NEW u \in Users, NEW r \in RecordIds, Unasked(r),
             Gathering(u, r) \/ CancelRecord(u, r)
      PROVE  AppealsFit'
  <2>1. asking' = asking /\ \A i \in RecordIds : i # r => records'[i] = records[i]
    BY <1>1, <1>6 DEF Gathering, CancelRecord, SetRecord
  <2> QED BY <1>3, <1>6, <2>1
<1>7. ASSUME NEW u \in Users, NEW r \in RecordIds, Unasked(r), AskAppeal(u, r)
      PROVE  AppealsFit'
  BY <1>1, <1>7 DEF AskAppeal, Unasked, AppealsFit
<1>8. ASSUME NEW u \in Users, NEW r \in RecordIds, Appeal(u, r)
      PROVE  AppealsFit'
  <2>1. /\ asking' = asking \ {<<u, r>>} /\ <<u, r>> \in asking
        /\ \A i \in RecordIds : i # r => records'[i] = records[i]
    BY <1>1, <1>8 DEF Appeal
  <2>2. \A v \in Users : <<v, r>> \notin asking'
    BY <1>1, <2>1
  <2> QED BY <1>2, <2>1, <2>2
<1>9. ASSUME NEW r \in RecordIds, AppealSuccess(r) \/ AppealFail(r)
      PROVE  AppealsFit'
  <2>1. /\ records[r].status # "WAITGATHERING" /\ asking' = asking
        /\ \A i \in RecordIds : i # r => records'[i] = records[i]
    BY <1>1, <1>9 DEF AppealSuccess, AppealFail, SetRecord
  <2> QED BY <1>3, <2>1
<1>10. ASSUME NEW r \in RecordIds, NEW st \in {"WAIT", "WAITPAY"}, AutoCancel(r, st)
       PROVE  AppealsFit'
  <2>1. CASE records[r].status = st
    <3>1. asking' = asking /\ \A i \in RecordIds : i # r => records'[i] = records[i]
      BY <1>1, <1>10, <2>1 DEF AutoCancel, SetRecord
    <3> QED BY <1>3, <2>1, <3>1
  <2>2. CASE records[r].status # st
    BY <1>2, <1>10, <2>2 DEF AutoCancel
  <2> QED BY <2>1, <2>2
<1>11. ASSUME \/ \E u \in Users, type \in {"BUY", "SELL"}, q \in Quantities : Publish(u, type, q)
              \/ \E o \in OrderIds :
                   \/ CancelOrder(o) \/ AdminCancelOrder(o)
                   \/ \E cancel \in {"NORMAL", "CANCEL"} : SetShelf(o, cancel)
              \/ UNCHANGED vars
       PROVE  AppealsFit'
  BY <1>2, <1>11 DEF Publish, CancelOrder, AdminCancelOrder, SetShelf, vars
<1> QED BY <1>4, <1>5, <1>6, <1>7, <1>8, <1>9, <1>10, <1>11 DEF OtcNext

-----------------------------------------------------------------------------
(* The invariant.                                                          *)

LEMMA InitOtcInvariant == OtcInit => OtcInvariant
<1> SUFFICES ASSUME OtcInit PROVE OtcInvariant
  OBVIOUS
<1>1. OtcTypeOK
  <2>1. 1 \in OrderIds
    BY OtcAssumption DEF OrderIds
  <2>2. NoOrder \in Order
    BY OtcAssumption DEF NoOrder, Order
  <2>3. NoRecord \in Record
    BY <2>1, OtcAssumption DEF NoRecord, Record, RecordStatus
  <2> QED BY <2>2, <2>3, OtcAssumption DEF OtcInit, OtcTypeOK
<1>2. RecordsFit /\ AppealsFit
  BY DEF OtcInit, RecordsFit, AppealsFit, NoRecord, IsOpen, OpenStatus
<1>3. TradedByRecords
  <2>1. \A o \in OrderIds, st \in SUBSET {"TRADEING", "SUCCESS"} : QuantityIn(o, st) = 0
    <3> TAKE o \in OrderIds, st \in SUBSET {"TRADEING", "SUCCESS"}
    <3>1. \A r \in RecordIds : QuantityOf(records[r], o, st) = 0
      BY DEF OtcInit, NoRecord, QuantityOf
    <3> QED BY <1>1, <3>1, QuantityInNone DEF OtcTypeOK, RecordsTyped
  <2>2. \A o \in OrderIds : QuantityIn(o, {"TRADEING", "SUCCESS"}) = 0
    BY <2>1
  <2> QED BY <2>2 DEF OtcInit, TradedByRecords, NoOrder, Withdrawn
<1>4. FreezeExplained
  <2> SUFFICES ASSUME NEW u \in Users
               PROVE  freeze[u] = SumTo(OrderHold(u), MaxOrders) + SumTo(RecordHold(u), MaxRecords)
    BY DEF FreezeExplained
  <2>1. OrderHold(u) \in [1..MaxOrders -> Int] /\ \A o \in 1..MaxOrders : OrderHold(u)[o] = 0
    BY DEF OtcInit, OrderHold, HeldFor, NoOrder, OrderIds
  <2>2. RecordHold(u) \in [1..MaxRecords -> Int] /\ \A r \in 1..MaxRecords : RecordHold(u)[r] = 0
    BY DEF OtcInit, RecordHold, HeldForRecord, NoRecord, IsOpen, OpenStatus, RecordIds
  <2>3. MaxOrders \in Nat /\ MaxRecords \in Nat
    BY OtcAssumption
  <2>4. SumTo(OrderHold(u), MaxOrders) = 0 /\ SumTo(RecordHold(u), MaxRecords) = 0
    BY <2>1, <2>2, <2>3, SumZero
  <2> QED BY <2>4 DEF OtcInit
<1> QED BY <1>1, <1>2, <1>3, <1>4 DEF OtcInvariant

\* Every step keeps the invariant as long as no appeal is late.
LEMMA NextOtcInvariant == OtcInvariant /\ ~LateAppeal /\ [OtcNext]_vars => OtcInvariant'
<1> SUFFICES ASSUME OtcInvariant, ~LateAppeal, [OtcNext]_vars PROVE OtcInvariant'
  OBVIOUS
<1>1. CoreInvariant
  BY DEF OtcInvariant, OtcTypeOK, CoreInvariant, CoreType
<1>2. CoreInvariant'
  <2>1. CASE \E u \in Users, type \in {"BUY", "SELL"}, q \in Quantities : Publish(u, type, q)
    BY <1>1, <2>1, PublishCore
  <2>2. CASE \E u \in Users, o \in OrderIds, q \in Parts : Trade(u, o, q)
    BY <1>1, <2>2, TradeCore
  <2>3. CASE \E o \in OrderIds : Shelves(o) \/ Withdraws(o)
    BY <1>1, <2>3, ShelvesCore, WithdrawsCore
  <2>4. CASE \E r \in RecordIds : Completes(r) \/ Returns(r) \/ Proceeds(r)
    BY <1>1, <2>4, CompletesCore, ReturnsCore, ProceedsCore
  <2>5. CASE UNCHANGED <<using, freeze, orders, records>>
    BY <1>1, <2>5 DEF CoreInvariant, CoreType, RecordsFit, IsOpen, TradedByRecords,
         QuantityIn, RecordQuantities, CanCancel, FreezeExplained, OrderHold, RecordHold,
         HeldFor, HeldForRecord, TypeOf
  <2> QED BY <2>1, <2>2, <2>3, <2>4, <2>5, StepKinds
<1>3. AppealsFit'
  BY NextAppealsFit
<1>4. QueuesType'
  BY NextQueuesType DEF OtcInvariant
<1> QED BY <1>2, <1>3, <1>4 DEF OtcInvariant, OtcTypeOK, CoreInvariant, CoreType, QueuesType

\* The invariant of the executions in which no appeal is late.
InTime == OtcInvariant /\ ~LateAppeal

LEMMA InitInTime == OtcInit /\ ~LateAppeal => InTime
BY InitOtcInvariant DEF InTime

LEMMA NextInTime == InTime /\ [OtcNext]_vars => InTime'
BY NextOtcInvariant DEF InTime

\* No balance, no frozen amount and no traded quantity is ever negative.
THEOREM OtcTypeCorrect == OtcSpec /\ ~LateAppeal => []OtcTypeOK
<1>1. InTime => OtcTypeOK
  BY DEF InTime, OtcInvariant
<1> QED BY <1>1, InitInTime, NextInTime, PTL DEF OtcSpec

\* What is frozen in a wallet is what its orders have on offer and what its open
\* records hold (publish, trade, cancel, gathering, autoCancel, appealSuccess,
\* appealFail).
THEOREM FreezeIsExplained == OtcSpec /\ ~LateAppeal => []FreezeExplained
<1>1. InTime => FreezeExplained
  BY DEF InTime, OtcInvariant
<1> QED BY <1>1, InitInTime, NextInTime, PTL DEF OtcSpec

\* An order has traded what its open and its successful records say, and never
\* more than it offers.
THEOREM OrdersMatchRecords == OtcSpec /\ ~LateAppeal => []TradedByRecords
<1>1. InTime => TradedByRecords
  BY DEF InTime, OtcInvariant
<1> QED BY <1>1, InitInTime, NextInTime, PTL DEF OtcSpec

\* A withdrawn order has no open record, and all that touches an order but a
\* cancellation or a trade of it, which need it open, is about an open record:
\* what has been paid back is never on offer again.
THEOREM WithdrawnOrdersStay == OtcSpec /\ ~LateAppeal => WithdrawnStays
<1>1. ASSUME InTime, [OtcNext]_vars, NEW o \in OrderIds, Withdrawn(orders[o])
      PROVE  orders'[o] = orders[o]
  <2>1. /\ CoreInvariant /\ orders \in [OrderIds -> Order]
        /\ orders[o].status # "WAIT" /\ orders[o].status # "NONE"
    BY <1>1 DEF InTime, OtcInvariant, OtcTypeOK, CoreInvariant, CoreType, Withdrawn
  <2>2. CASE \E u \in Users, type \in {"BUY", "SELL"}, q \in Quantities : Publish(u, type, q)
    BY <2>1, <2>2 DEF Publish, NextOrderId
  <2>3. CASE \E u \in Users, i \in OrderIds, q \in Parts : Trade(u, i, q)
    BY <2>1, <2>3 DEF Trade
  <2>4. CASE \E i \in OrderIds : Shelves(i) \/ Withdraws(i)
    <3>1. PICK i \in OrderIds : Shelves(i) \/ Withdraws(i)
      BY <2>4
    <3>2. i # o
      BY <2>1, <3>1 DEF Shelves, Withdraws
    <3> QED BY <2>1, <3>1, <3>2 DEF Shelves, Withdraws, Withdraw
  <2>5. CASE \E r \in RecordIds : Completes(r) \/ Returns(r) \/ Proceeds(r)
    <3>1. PICK r \in RecordIds : Completes(r) \/ Returns(r) \/ Proceeds(r)
      BY <2>5
    <3>2. records[r].order # o
      BY <1>1, <2>1, <3>1, RecordFacts DEF Completes, Returns, Proceeds
    <3> QED BY <2>1, <3>1, <3>2 DEF Completes, HandOver, Returns, GiveBack, Proceeds
  <2> QED BY <1>1, <2>2, <2>3, <2>4, <2>5, StepKinds DEF InTime
<1>2. InTime /\ [OtcNext]_vars
        => [\A o \in OrderIds : Withdrawn(orders[o]) => orders'[o] = orders[o]]_vars
  BY <1>1
<1> QED BY <1>2, InitInTime, NextInTime, PTL DEF OtcSpec, WithdrawnStays
=============================================================================
