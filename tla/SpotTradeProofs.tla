-------------------------- MODULE SpotTradeProofs --------------------------
(***************************************************************************)
(* SpotTrade for every set of users, every price and quantity, and every   *)
(* number of orders and records: types, and the accounting of the frozen   *)
(* amounts.                                                                *)
(***************************************************************************)
EXTENDS SpotTrade, IdSumTheorems

-----------------------------------------------------------------------------
(* Amounts.                                                                *)

\* Rounding down a product of naturals gives a natural.
LEMMA MulType == ASSUME NEW a \in Nat, NEW b \in Nat
                 PROVE  Mul(a, b) \in Nat
<1>1. a * b \in Nat
  OBVIOUS
<1>2. \A x \in Nat : x \div Unit \in Nat
  BY ConstantsAssumption
<1> QED BY <1>1, <1>2 DEF Mul

\* A number has one quotient.
LEMMA Quotient ==
  ASSUME NEW n \in Nat, NEW m \in Nat, NEW r \in Nat, n = Unit * m + r, r < Unit
  PROVE  n \div Unit = m
BY ConstantsAssumption

\* A product taken in two parts and rounded twice is worth as much as the whole,
\* or one less if the second part is rounded.
LEMMA MulSplit ==
  ASSUME NEW a \in Nat, NEW b \in Nat, NEW p \in Nat
  PROVE  /\ Mul(a, p) + Mul(b, p) <= Mul(a + b, p)
         /\ Mul(a + b, p) <= Mul(a, p) + Mul(b, p) + (IF (b * p) % Unit # 0 THEN 1 ELSE 0)
<1> DEFINE x == a * p
<1> DEFINE y == b * p
<1>1. x \in Nat /\ y \in Nat /\ (a + b) * p = x + y
  OBVIOUS
<1> HIDE DEF x, y
<1>2. /\ (x \div Unit) + (y \div Unit) <= (x + y) \div Unit
      /\ (x + y) \div Unit <= (x \div Unit) + (y \div Unit) + 1
  BY <1>1, ConstantsAssumption
<1>3. ASSUME y % Unit = 0
      PROVE  (x + y) \div Unit = (x \div Unit) + (y \div Unit)
  <2> DEFINE m == x \div Unit
  <2> DEFINE k == y \div Unit
  <2> DEFINE r == x % Unit
  <2>1. /\ Unit \in Nat \ {0} /\ m \in Nat /\ k \in Nat /\ r \in Nat /\ r < Unit
        /\ x = Unit * m + r /\ y = Unit * k
    BY <1>1, <1>3, ConstantsAssumption
  <2> HIDE DEF m, k, r
  <2>2. Unit * (m + k) = Unit * m + Unit * k
    BY <2>1
  <2>3. x + y = Unit * (m + k) + r /\ x + y \in Nat /\ m + k \in Nat
    BY <1>1, <2>1, <2>2
  <2>4. (x + y) \div Unit = m + k
    BY <2>1, <2>3, Quotient
  <2> QED BY <2>4 DEF m, k
<1>4. /\ Mul(a, p) = x \div Unit
      /\ Mul(b, p) = y \div Unit
      /\ Mul(a + b, p) = (x + y) \div Unit
  BY <1>1 DEF Mul, x, y
<1>5. x \div Unit \in Int /\ y \div Unit \in Int
  BY <1>1, ConstantsAssumption
<1> QED BY <1>2, <1>3, <1>4, <1>5 DEF y

LEMMA FeeType ==
  ASSUME NEW u \in Users, NEW q \in Nat, NEW p \in Nat
  PROVE  BuyFee(u, q) \in Nat /\ SellFee(u, q, p) \in Nat
<1>1. q * BuyRate \in Nat /\ q * p * SellRate \in Nat /\ Unit * RateScale \in Nat \ {0}
  <2>1. q * p \in Nat
    OBVIOUS
  <2>2. \A x, y \in Nat : x * y \in Nat
    OBVIOUS
  <2>3. Unit * RateScale # 0
    BY ConstantsAssumption
  <2>4. BuyRate \in Nat /\ SellRate \in Nat /\ Unit \in Nat /\ RateScale \in Nat
    BY ConstantsAssumption
  <2>5. q * BuyRate \in Nat
    BY <2>2, <2>4
  <2>6. q * p * SellRate \in Nat
    BY <2>1, <2>2, <2>4
  <2>7. Unit * RateScale \in Nat
    BY <2>2, <2>4
  <2> QED BY <2>3, <2>5, <2>6, <2>7
<1>2. \A x \in Nat, y \in Nat \ {0} : x \div y \in Nat
  OBVIOUS
<1>3. RateScale \in Nat \ {0}
  BY ConstantsAssumption
<1>4. /\ (q * BuyRate) \div RateScale \in Nat
      /\ (q * p * SellRate) \div (Unit * RateScale) \in Nat
  BY <1>1, <1>2, <1>3
<1> QED BY <1>4 DEF BuyFee, SellFee

-----------------------------------------------------------------------------
(* Types.                                                                  *)

LEMMA InitTypeOK == Init => TypeOK
<1>1. 1 \in OrderIds
  BY ConstantsAssumption DEF OrderIds
<1> QED BY <1>1, ConstantsAssumption DEF Init, TypeOK, NoOrder, NoRecord, Order, Record, OrderStatus,
           WalletStatus, Sides

\* A wallet update keeps both columns natural: its guard says so.
LEMMA ModifyWalletType ==
  ASSUME TypeOK, NEW u \in Users, NEW c \in Currencies, NEW x \in Int, NEW y \in Int,
         ModifyWallet(u, c, x, y)
  PROVE  /\ using'  \in [Users -> [Currencies -> Nat]]
         /\ freeze' \in [Users -> [Currencies -> Nat]]
BY DEF TypeOK, ModifyWallet, CanModify

LEMMA SpendAmountType ==
  ASSUME NEW side \in Sides, NEW p \in Nat, NEW q \in Nat
  PROVE  SpendAmount(side, p, q) \in Nat /\ SpendCurrency(side) \in Currencies
BY MulType DEF SpendAmount, SpendCurrency, Currencies

\* The remainders that DoTrade compares are integers, and what it trades is
\* one of them, not more than the other.
LEMMA TradeQuantityType ==
  ASSUME TypeOK, NEW b \in OrderIds, NEW s \in OrderIds, TradeQuantity(b, s) > 0
  PROVE  /\ TradeQuantity(b, s) \in Nat \ {0}
         /\ TradeQuantity(b, s) <= Surplus(orders[b])
         /\ TradeQuantity(b, s) <= Surplus(orders[s])
BY DEF TypeOK, Order, Surplus, TradeQuantity

LEMMA FilledType ==
  ASSUME NEW order \in Order, NEW q \in Nat
  PROVE  Filled(order, q) \in Order
<1> DEFINE traded == order.tradeQuantity + q
<1> DEFINE st == IF order.owner \in Robots \/ order.quantity <= traded
                 THEN "SUCCESS" ELSE order.status
<1>1. traded \in Nat /\ st \in OrderStatus
  BY DEF Order, OrderStatus
<1>2. Filled(order, q) = [order EXCEPT !.tradeQuantity = traded, !.status = st]
  BY DEF Filled
<1> HIDE DEF traded, st
<1> QED BY <1>1, <1>2 DEF Order

\* Changing a status leaves an order an order, and a record a record.
LEMMA OrderStatusType ==
  ASSUME NEW order \in Order, NEW st \in OrderStatus
  PROVE  [order EXCEPT !.status = st] \in Order
BY DEF Order

LEMMA RecordStatusType ==
  ASSUME NEW rec \in Record, NEW st \in WalletStatus
  PROVE  /\ [rec EXCEPT !.buyStatus = st] \in Record
         /\ [rec EXCEPT !.sellStatus = st] \in Record
BY DEF Record

LEMMA NewRecordType ==
  ASSUME TypeOK, NEW b \in OrderIds, NEW s \in OrderIds, NEW q \in Nat
  PROVE  NewRecord(b, s, q) \in Record
<1>1. /\ orders[b].owner \in Users /\ orders[s].owner \in Users
      /\ orders[b].price \in Nat /\ orders[s].price \in Nat
  BY DEF TypeOK, Order
<1> QED BY <1>1, FeeType DEF NewRecord, Record, WalletStatus

\* The fields of an order and of a record.
LEMMA OrderParts ==
  ASSUME TypeOK, NEW o \in OrderIds
  PROVE  /\ orders[o] \in Order
         /\ orders[o].owner \in Users /\ orders[o].side \in Sides
         /\ orders[o].price \in Nat /\ orders[o].quantity \in Nat
         /\ orders[o].tradeQuantity \in Nat /\ orders[o].status \in OrderStatus
         /\ Surplus(orders[o]) \in Int
BY DEF TypeOK, Order, Surplus

LEMMA RecordParts ==
  ASSUME TypeOK, NEW r \in RecordIds
  PROVE  /\ records[r] \in Record
         /\ records[r].buy \in OrderIds /\ records[r].sell \in OrderIds
         /\ records[r].buyUser \in Users /\ records[r].sellUser \in Users
         /\ records[r].quantity \in Nat
         /\ records[r].buyPrice \in Nat /\ records[r].sellPrice \in Nat
         /\ records[r].buyCharge \in Nat /\ records[r].sellCharge \in Nat
         /\ records[r].buyStatus \in WalletStatus
         /\ records[r].sellStatus \in WalletStatus
BY DEF TypeOK, Record

\* One step keeps the types.
LEMMA NextTypeOK == TypeOK /\ [Next]_vars => TypeOK'
<1> SUFFICES ASSUME TypeOK, [Next]_vars PROVE TypeOK'
  OBVIOUS
<1>1. ASSUME NEW u \in Users, NEW side \in Sides, NEW p \in Prices,
             NEW q \in Quantities, PublishTrade(u, side, p, q)
      PROVE  TypeOK'
  <2>1. p \in Nat /\ q \in Nat
    BY ConstantsAssumption
  <2>2. orders' \in [OrderIds -> Order]
    BY <1>1, <2>1 DEF PublishTrade, TypeOK, Order, OrderStatus
  <2>3. /\ using' \in [Users -> [Currencies -> Nat]]
        /\ freeze' \in [Users -> [Currencies -> Nat]]
    <3>1. CASE u \in Robots
      BY <1>1, <3>1 DEF PublishTrade, TypeOK
    <3>2. CASE u \notin Robots
      <4>1. /\ SpendAmount(side, p, q) \in Nat /\ SpendCurrency(side) \in Currencies
            /\ -SpendAmount(side, p, q) \in Int
        BY <2>1, SpendAmountType
      <4>2. ModifyWallet(u, SpendCurrency(side), -SpendAmount(side, p, q),
                         SpendAmount(side, p, q))
        BY <1>1, <3>2 DEF PublishTrade
      <4> QED BY <4>1, <4>2, ModifyWalletType
    <3> QED BY <3>1, <3>2
  <2> QED BY <1>1, <2>2, <2>3 DEF PublishTrade, TypeOK
<1>2. ASSUME NEW b \in OrderIds, NEW s \in OrderIds, DoTrade(b, s)
      PROVE  TypeOK'
  <2> DEFINE q == TradeQuantity(b, s)
  <2>1. q \in Nat
    BY <1>2, TradeQuantityType DEF DoTrade
  <2>2. NewRecord(b, s, q) \in Record
    BY <2>1, NewRecordType
  <2>3. \A o \in OrderIds : Filled(orders[o], q) \in Order
    BY <2>1, FilledType DEF TypeOK
  <2>4. b # s
    BY <1>2 DEF DoTrade, CanTrade
  <2>5. orders' \in [OrderIds -> Order]
    <3>1. orders' = [orders EXCEPT ![b] = Filled(orders[b], q),
                                   ![s] = Filled(orders[s], q)]
      BY <1>2, <2>4 DEF DoTrade, TypeOK
    <3> HIDE DEF q
    <3> QED BY <2>3, <3>1 DEF TypeOK
  <2>6. records' \in [RecordIds -> Record]
    BY <1>2, <2>2 DEF DoTrade, TypeOK
  <2> QED BY <1>2, <2>5, <2>6 DEF DoTrade, TypeOK
<1>3. ASSUME NEW o \in OrderIds, DoCancel(o)
      PROVE  TypeOK'
  <2> DEFINE amount == SpendAmount(orders[o].side, orders[o].price, Surplus(orders[o]))
  <2>1. orders' \in [OrderIds -> Order] /\ records' \in [RecordIds -> Record]
    BY <1>3 DEF DoCancel, TypeOK, Order, OrderStatus
  <2>2. CASE UNCHANGED <<using, freeze>>
    BY <2>1, <2>2 DEF TypeOK
  <2>3. CASE ModifyWallet(orders[o].owner, SpendCurrency(orders[o].side), amount, -amount)
    <3>1. /\ orders[o].owner \in Users /\ SpendCurrency(orders[o].side) \in Currencies
          /\ orders[o].price \in Nat /\ Surplus(orders[o]) \in Int
      BY DEF TypeOK, Order, Surplus, SpendCurrency, Currencies
    <3>2. amount \in Int
      <4>1. \A x \in Int, y \in Nat : Mul(x, y) \in Int
        <5> SUFFICES ASSUME NEW x \in Int, NEW y \in Nat PROVE Mul(x, y) \in Int
          OBVIOUS
        <5>1. x * y \in Int
          OBVIOUS
        <5> QED BY <5>1, ConstantsAssumption DEF Mul
      <4> QED BY <3>1, <4>1 DEF SpendAmount
    <3>3. -amount \in Int
      BY <3>2
    <3> HIDE DEF amount
    <3> QED BY <2>1, <2>3, <3>1, <3>2, <3>3, ModifyWalletType DEF TypeOK
  <2> QED BY <1>3, <2>2, <2>3 DEF DoCancel
<1>4. ASSUME NEW o \in OrderIds, MarkError(o)
      PROVE  TypeOK'
  <2>1. "ERROR" \in OrderStatus
    BY DEF OrderStatus
  <2>2. [orders[o] EXCEPT !.status = "ERROR"] \in Order
    BY <2>1, OrderStatusType DEF TypeOK
  <2>3. orders' = [orders EXCEPT ![o] = [orders[o] EXCEPT !.status = "ERROR"]]
    BY <1>4 DEF MarkError, TypeOK
  <2> QED BY <1>4, <2>2, <2>3 DEF MarkError, TypeOK
<1>5. CASE ErrorModify
  <2>1. "WAIT" \in OrderStatus
    BY DEF OrderStatus
  <2>2. \A o \in OrderIds : [orders[o] EXCEPT !.status = "WAIT"] \in Order
    BY <2>1, OrderStatusType DEF TypeOK
  <2> QED BY <1>5, <2>2 DEF ErrorModify, TypeOK
<1>6. CASE DeleteRobotCancel
  <2>1. "DELETED" \in OrderStatus
    BY DEF OrderStatus
  <2>2. \A o \in OrderIds : [orders[o] EXCEPT !.status = "DELETED"] \in Order
    BY <2>1, OrderStatusType DEF TypeOK
  <2> QED BY <1>6, <2>2 DEF DeleteRobotCancel, TypeOK
<1>7. ASSUME NEW r \in RecordIds, SettleBuy(r)
      PROVE  TypeOK'
  <2> DEFINE rec == records[r]
  <2> DEFINE gain == rec.quantity - rec.buyCharge
  <2> DEFINE cost == Mul(rec.quantity, rec.buyPrice)
  <2>1. /\ rec \in Record /\ rec.buyUser \in Users /\ gain \in Int /\ cost \in Nat
    <3>1. /\ rec \in Record /\ rec.quantity \in Nat /\ rec.buyUser \in Users
          /\ rec.buyPrice \in Nat /\ rec.buyCharge \in Nat
      BY RecordParts
    <3> HIDE DEF rec
    <3>2. Mul(rec.quantity, rec.buyPrice) \in Nat
      BY <3>1, MulType
    <3> QED BY <3>1, <3>2
  <2>2. records' \in [RecordIds -> Record]
    <3>1. "SUCCESS" \in WalletStatus
      BY DEF WalletStatus
    <3>2. [records[r] EXCEPT !.buyStatus = "SUCCESS"] \in Record
      BY <2>1, <3>1, RecordStatusType
    <3>3. records' = [records EXCEPT ![r] = [records[r] EXCEPT !.buyStatus = "SUCCESS"]]
      BY <1>7 DEF SettleBuy, TypeOK
    <3> QED BY <3>2, <3>3 DEF TypeOK
  <2> HIDE DEF gain, cost
  <2>3. CASE UNCHANGED <<using, freeze>>
    BY <1>7, <2>2, <2>3 DEF SettleBuy, TypeOK
  <2>4. CASE MovesMoney(rec.buy)
    <3>1. /\ using[rec.buyUser]["tradeCurrency"] + gain >= 0
          /\ freeze[rec.buyUser]["currency"] + (-cost) >= 0
          /\ using' = [using EXCEPT ![rec.buyUser]["tradeCurrency"] = @ + gain]
          /\ freeze' = [freeze EXCEPT ![rec.buyUser]["currency"] = @ - cost]
      BY <1>7, <2>4 DEF SettleBuy, CanModify, gain, cost
    <3>2. /\ using' \in [Users -> [Currencies -> Nat]]
          /\ freeze' \in [Users -> [Currencies -> Nat]]
      <4> HIDE DEF rec
      <4> QED BY <2>1, <3>1 DEF TypeOK, Currencies
    <3> QED BY <1>7, <2>2, <3>2 DEF SettleBuy, TypeOK
  <2> QED BY <1>7, <2>3, <2>4 DEF SettleBuy
<1>8. ASSUME NEW r \in RecordIds, SettleSell(r)
      PROVE  TypeOK'
  <2> DEFINE rec == records[r]
  <2> DEFINE gain == Mul(rec.quantity, rec.sellPrice) - rec.sellCharge
  <2> DEFINE cost == rec.quantity
  <2>1. /\ rec \in Record /\ rec.sellUser \in Users /\ gain \in Int /\ cost \in Nat
    <3>1. /\ rec \in Record /\ rec.quantity \in Nat /\ rec.sellUser \in Users
          /\ rec.sellPrice \in Nat /\ rec.sellCharge \in Nat
      BY RecordParts
    <3> HIDE DEF rec
    <3>2. Mul(rec.quantity, rec.sellPrice) \in Nat
      BY <3>1, MulType
    <3> QED BY <3>1, <3>2
  <2>2. records' \in [RecordIds -> Record]
    <3>1. "SUCCESS" \in WalletStatus
      BY DEF WalletStatus
    <3>2. [records[r] EXCEPT !.sellStatus = "SUCCESS"] \in Record
      BY <2>1, <3>1, RecordStatusType
    <3>3. records' = [records EXCEPT ![r] = [records[r] EXCEPT !.sellStatus = "SUCCESS"]]
      BY <1>8 DEF SettleSell, TypeOK
    <3> QED BY <3>2, <3>3 DEF TypeOK
  <2> HIDE DEF gain, cost
  <2>3. CASE UNCHANGED <<using, freeze>>
    BY <1>8, <2>2, <2>3 DEF SettleSell, TypeOK
  <2>4. CASE MovesMoney(rec.sell)
    <3>1. /\ freeze[rec.sellUser]["tradeCurrency"] + (-cost) >= 0
          /\ using[rec.sellUser]["currency"] + gain >= 0
          /\ freeze' = [freeze EXCEPT ![rec.sellUser]["tradeCurrency"] = @ - cost]
          /\ using' = [using EXCEPT ![rec.sellUser]["currency"] = @ + gain]
      BY <1>8, <2>4 DEF SettleSell, CanModify, gain, cost
    <3>2. /\ using' \in [Users -> [Currencies -> Nat]]
          /\ freeze' \in [Users -> [Currencies -> Nat]]
      <4> HIDE DEF rec
      <4> QED BY <2>1, <3>1 DEF TypeOK, Currencies
    <3> QED BY <1>8, <2>2, <3>2 DEF SettleSell, TypeOK
  <2> QED BY <1>8, <2>3, <2>4 DEF SettleSell
<1>9. ASSUME NEW r \in RecordIds, FailBuy(r) \/ FailSell(r)
      PROVE  TypeOK'
  <2>1. "FAIL" \in WalletStatus
    BY DEF WalletStatus
  <2>2. /\ [records[r] EXCEPT !.buyStatus = "FAIL"] \in Record
        /\ [records[r] EXCEPT !.sellStatus = "FAIL"] \in Record
    BY <2>1, RecordStatusType DEF TypeOK
  <2>3. \/ records' = [records EXCEPT ![r] = [records[r] EXCEPT !.buyStatus = "FAIL"]]
        \/ records' = [records EXCEPT ![r] = [records[r] EXCEPT !.sellStatus = "FAIL"]]
    BY <1>9 DEF FailBuy, FailSell, TypeOK
  <2> QED BY <1>9, <2>2, <2>3 DEF FailBuy, FailSell, TypeOK
<1>10. CASE UNCHANGED vars
  BY <1>10 DEF vars, TypeOK
<1> QED BY <1>1, <1>2, <1>3, <1>4, <1>5, <1>6, <1>7, <1>8, <1>9, <1>10 DEF Next, OrderNext, SettleNext

\* Every wallet column, order and record keeps its type; in particular no
\* column of a wallet ever goes below zero.
THEOREM TypeCorrect == Spec => []TypeOK
BY InitTypeOK, NextTypeOK, PTL DEF Spec

-----------------------------------------------------------------------------
(* The frozen amounts.  Accounting is inductive.  A step changes at most    *)
(* one order's hold and one record's due per user and currency (a match     *)
(* changes the buy order's in one currency and the sell order's in the      *)
(* other), so that the sums Held is made of change by the change of one     *)
(* entry each.                                                              *)

(* The sums that make up Held.                                             *)

\* A hold and a due are numbers; they are natural while no order is
\* overfilled.
LEMMA HoldType ==
  ASSUME NEW order \in Order, NEW u \in Users, NEW c \in Currencies
  PROVE  /\ HoldOf(order, u, c) \in Int
         /\ order.tradeQuantity <= order.quantity => HoldOf(order, u, c) \in Nat
<1>1. /\ Surplus(order) \in Int /\ order.price \in Nat /\ order.side \in Sides
      /\ order.tradeQuantity <= order.quantity => Surplus(order) \in Nat
  BY DEF Order, Surplus
<1>2. \A x \in Int, y \in Nat : Mul(x, y) \in Int
  <2> SUFFICES ASSUME NEW x \in Int, NEW y \in Nat PROVE Mul(x, y) \in Int
    OBVIOUS
  <2>1. x * y \in Int
    OBVIOUS
  <2>2. \A z \in Int : z \div Unit \in Int
    BY ConstantsAssumption
  <2> QED BY <2>1, <2>2 DEF Mul
<1>3. SpendAmount(order.side, order.price, Surplus(order)) \in Int
  BY <1>1, <1>2 DEF SpendAmount
<1>4. order.tradeQuantity <= order.quantity
        => SpendAmount(order.side, order.price, Surplus(order)) \in Nat
  BY <1>1, SpendAmountType
<1> QED BY <1>3, <1>4 DEF HoldOf

LEMMA DueType ==
  ASSUME NEW rec \in Record, NEW u \in Users, NEW c \in Currencies
  PROVE  DueOf(rec, u, c) \in Nat
<1>1. /\ rec.quantity \in Nat /\ rec.buyPrice \in Nat
      /\ Mul(rec.quantity, rec.buyPrice) \in Nat
  BY MulType DEF Record
<1> QED BY <1>1 DEF DueOf

\* The sum of the holds after a step that changes the hold of order o alone.
LEMMA OrderHoldUpdate ==
  ASSUME TypeOK, TypeOK', NEW u \in Users, NEW c \in Currencies, NEW o \in OrderIds,
         \A i \in OrderIds : i # o => HoldOf(orders'[i], u, c) = HoldOf(orders[i], u, c)
  PROVE  SumTo(OrderHold(u, c)', MaxOrders)
           = SumTo(OrderHold(u, c), MaxOrders)
             + (HoldOf(orders'[o], u, c) - HoldOf(orders[o], u, c))
<1> DEFINE f == [i \in 1..MaxOrders |-> HoldOf(orders[i], u, c)]
<1> DEFINE h == [i \in 1..MaxOrders |-> HoldOf(orders'[i], u, c)]
<1>1. f \in [1..MaxOrders -> Int] /\ h \in [1..MaxOrders -> Int]
  BY HoldType DEF TypeOK, OrderIds
<1>2. o \in 1..MaxOrders /\ MaxOrders \in Nat
  BY ConstantsAssumption DEF OrderIds
<1>3. \A i \in 1..MaxOrders : i # o => h[i] = f[i]
  BY DEF OrderIds
<1>4. OrderHold(u, c) = f /\ OrderHold(u, c)' = h
  BY DEF OrderHold, OrderIds
<1>5. f[o] = HoldOf(orders[o], u, c) /\ h[o] = HoldOf(orders'[o], u, c)
  BY <1>2
<1> HIDE DEF f, h
<1>6. SumTo(h, MaxOrders) = SumTo(f, MaxOrders) + (h[o] - f[o])
  BY <1>1, <1>2, <1>3, SumUpdate
<1> QED BY <1>4, <1>5, <1>6

LEMMA OrderHoldSame ==
  ASSUME TypeOK, TypeOK', NEW u \in Users, NEW c \in Currencies,
         \A i \in OrderIds : HoldOf(orders'[i], u, c) = HoldOf(orders[i], u, c)
  PROVE  SumTo(OrderHold(u, c)', MaxOrders) = SumTo(OrderHold(u, c), MaxOrders)
<1>1. OrderHold(u, c)' = OrderHold(u, c)
  BY DEF OrderHold
<1> QED BY <1>1

\* The sum of the dues after a step that changes record r alone.
LEMMA RecordHoldUpdate ==
  ASSUME TypeOK, TypeOK', NEW u \in Users, NEW c \in Currencies, NEW r \in RecordIds,
         \A i \in RecordIds : i # r => records'[i] = records[i]
  PROVE  SumTo(RecordHold(u, c)', MaxRecords)
           = SumTo(RecordHold(u, c), MaxRecords)
             + (DueOf(records'[r], u, c) - DueOf(records[r], u, c))
<1> DEFINE f == [i \in 1..MaxRecords |-> DueOf(records[i], u, c)]
<1> DEFINE h == [i \in 1..MaxRecords |-> DueOf(records'[i], u, c)]
<1>1. f \in [1..MaxRecords -> Int] /\ h \in [1..MaxRecords -> Int]
  BY DueType DEF TypeOK, RecordIds
<1>2. r \in 1..MaxRecords /\ MaxRecords \in Nat
  BY ConstantsAssumption DEF RecordIds
<1>3. \A i \in 1..MaxRecords : i # r => h[i] = f[i]
  BY DEF RecordIds
<1>4. RecordHold(u, c) = f /\ RecordHold(u, c)' = h
  BY DEF RecordHold, RecordIds
<1>5. f[r] = DueOf(records[r], u, c) /\ h[r] = DueOf(records'[r], u, c)
  BY <1>2
<1> HIDE DEF f, h
<1>6. SumTo(h, MaxRecords) = SumTo(f, MaxRecords) + (h[r] - f[r])
  BY <1>1, <1>2, <1>3, SumUpdate
<1> QED BY <1>4, <1>5, <1>6

\* What is stranded after a step that changes what record r strands alone.
LEMMA StrandUpdate ==
  ASSUME NEW u \in Users, NEW c \in Currencies, NEW r \in RecordIds,
         \A i \in RecordIds : i # r => records'[i] = records[i]
  PROVE  Stranded(u, c)' = Stranded(u, c)
                             + (StrandOf(records'[r], u, c) - StrandOf(records[r], u, c))
<1> DEFINE f == [i \in 1..MaxRecords |-> StrandOf(records[i], u, c)]
<1> DEFINE h == [i \in 1..MaxRecords |-> StrandOf(records'[i], u, c)]
<1>1. f \in [1..MaxRecords -> Int] /\ h \in [1..MaxRecords -> Int]
  BY DEF StrandOf
<1>2. r \in 1..MaxRecords /\ MaxRecords \in Nat
  BY ConstantsAssumption DEF RecordIds
<1>3. \A i \in 1..MaxRecords : i # r => h[i] = f[i]
  BY DEF RecordIds
<1>4. RecordStrand(u, c) = f /\ RecordStrand(u, c)' = h
  BY DEF RecordStrand, RecordIds
<1>5. f[r] = StrandOf(records[r], u, c) /\ h[r] = StrandOf(records'[r], u, c)
  BY <1>2
<1> HIDE DEF f, h
<1>6. SumTo(h, MaxRecords) = SumTo(f, MaxRecords) + (h[r] - f[r])
  BY <1>1, <1>2, <1>3, SumUpdate
<1> QED BY <1>4, <1>5, <1>6 DEF Stranded

\* The sums are integers.
LEMMA SumsType ==
  ASSUME TypeOK, NEW u \in Users, NEW c \in Currencies
  PROVE  /\ SumTo(OrderHold(u, c), MaxOrders) \in Int
         /\ SumTo(RecordHold(u, c), MaxRecords) \in Int
         /\ Stranded(u, c) \in Int
<1>1. OrderHold(u, c) \in [1..MaxOrders -> Int]
  BY HoldType DEF OrderHold, OrderIds, TypeOK
<1>2. RecordHold(u, c) \in [1..MaxRecords -> Int]
  BY DueType DEF RecordHold, RecordIds, TypeOK
<1>3. RecordStrand(u, c) \in [1..MaxRecords -> Int]
  BY DEF RecordStrand, StrandOf, RecordIds
<1>4. MaxOrders \in Nat /\ MaxRecords \in Nat
  BY ConstantsAssumption
<1> QED BY <1>1, <1>2, <1>3, <1>4, SumType DEF Stranded

\* What is stranded after a step that changes what no record strands.
LEMMA StrandSame ==
  ASSUME TypeOK, NEW u \in Users, NEW c \in Currencies,
         \A i \in RecordIds : StrandOf(records'[i], u, c) = StrandOf(records[i], u, c)
  PROVE  Stranded(u, c)' = Stranded(u, c) + 0
<1>1. RecordStrand(u, c)' = RecordStrand(u, c)
  BY DEF RecordStrand
<1> QED BY <1>1, SumsType DEF Stranded

-----------------------------------------------------------------------------
(* One wallet row against what it owes.                                    *)

Balanced(u, c) == /\ freeze[u][c] >= Held(u, c)
                  /\ freeze[u][c] <= Held(u, c) + Stranded(u, c)

\* The two invariants say that every row is balanced.
LEMMA BalancedRows ==
  FreezeBacked /\ FreezeTight <=> \A u \in Users, c \in Currencies : Balanced(u, c)
BY DEF FreezeBacked, FreezeTight, Balanced

\* A row stays balanced when the frozen amount follows the two sums, ahead of
\* them by no more than what is stranded anew.
LEMMA StaysBalanced ==
  ASSUME TypeOK, TypeOK', NEW u \in Users, NEW c \in Currencies, Balanced(u, c),
         NEW x \in Int, NEW y \in Int, NEW z \in Int,
         SumTo(OrderHold(u, c)', MaxOrders) = SumTo(OrderHold(u, c), MaxOrders) + x,
         SumTo(RecordHold(u, c)', MaxRecords) = SumTo(RecordHold(u, c), MaxRecords) + y,
         Stranded(u, c)' = Stranded(u, c) + z,
         freeze'[u][c] >= freeze[u][c] + x + y,
         freeze'[u][c] <= freeze[u][c] + x + y + z
  PROVE  Balanced(u, c)'
<1>1. /\ SumTo(OrderHold(u, c), MaxOrders) \in Int
      /\ SumTo(RecordHold(u, c), MaxRecords) \in Int
      /\ Stranded(u, c) \in Int
      /\ freeze[u][c] \in Int /\ freeze'[u][c] \in Int
  BY SumsType DEF TypeOK
<1>2. Held(u, c) = SumTo(OrderHold(u, c), MaxOrders) + SumTo(RecordHold(u, c), MaxRecords)
  BY DEF Held
<1>3. Held(u, c)' = SumTo(OrderHold(u, c)', MaxOrders) + SumTo(RecordHold(u, c)', MaxRecords)
  BY DEF Held
<1>4. freeze[u][c] >= Held(u, c) /\ freeze[u][c] <= Held(u, c) + Stranded(u, c)
  BY DEF Balanced
<1>5. freeze'[u][c] >= Held(u, c)' /\ freeze'[u][c] <= Held(u, c)' + Stranded(u, c)'
  BY <1>1, <1>2, <1>3, <1>4
<1> QED BY <1>5 DEF Balanced

\* A wallet update changes the one entry of freeze.
LEMMA ModifyFreeze ==
  ASSUME TypeOK, NEW v \in Users, NEW d \in Currencies, NEW x \in Int, NEW y \in Int,
         ModifyWallet(v, d, x, y), NEW u \in Users, NEW c \in Currencies
  PROVE  freeze'[u][c] = freeze[u][c] + (IF u = v /\ c = d THEN y ELSE 0)
BY DEF ModifyWallet, TypeOK

-----------------------------------------------------------------------------
(* Publishing, trading, cancelling.                                        *)

\* A published order holds what was frozen for it.
LEMMA PublishBalanced ==
  ASSUME TypeOK, TypeOK', NEW v \in Users, NEW side \in Sides, NEW p \in Prices,
         NEW q \in Quantities, PublishTrade(v, side, p, q),
         NEW u \in Users, NEW c \in Currencies, Balanced(u, c)
  PROVE  Balanced(u, c)'
<1> DEFINE new == [status |-> "WAIT", owner |-> v, side |-> side, price |-> p,
                   quantity |-> q, tradeQuantity |-> 0]
<1> DEFINE x == IF u = v /\ v \notin Robots /\ SpendCurrency(side) = c
                THEN SpendAmount(side, p, q) ELSE 0
<1>1. p \in Nat /\ q \in Nat
  BY ConstantsAssumption
<1>2. /\ SpendAmount(side, p, q) \in Nat /\ SpendCurrency(side) \in Currencies
      /\ -SpendAmount(side, p, q) \in Int
  BY <1>1, SpendAmountType
<1>3. PICK o \in OrderIds : /\ orders[o].status = "NONE"
                            /\ orders' = [orders EXCEPT ![o] = new]
  BY DEF PublishTrade, NextOrderId
<1>4. HoldOf(new, u, c) = x
  BY <1>1 DEF HoldOf, Open, Surplus
<1>5. HoldOf(orders[o], u, c) = 0
  BY <1>3 DEF HoldOf, Open
<1> HIDE DEF new
<1>6. orders'[o] = new /\ \A i \in OrderIds : i # o => orders'[i] = orders[i]
  BY <1>3 DEF TypeOK
<1>7. x \in Int
  BY <1>2
<1>8. freeze'[u][c] = freeze[u][c] + x
  <2>1. CASE v \in Robots
    BY <2>1 DEF PublishTrade, TypeOK
  <2>2. CASE v \notin Robots
    <3>1. ModifyWallet(v, SpendCurrency(side), -SpendAmount(side, p, q),
                       SpendAmount(side, p, q))
      BY <2>2 DEF PublishTrade
    <3> QED BY <1>2, <2>2, <3>1, ModifyFreeze
  <2> QED BY <2>1, <2>2
<1> HIDE DEF x
<1>9. SumTo(OrderHold(u, c)', MaxOrders) = SumTo(OrderHold(u, c), MaxOrders) + x
  <2>1. SumTo(OrderHold(u, c)', MaxOrders) = SumTo(OrderHold(u, c), MaxOrders) + (x - 0)
    BY <1>4, <1>5, <1>6, OrderHoldUpdate
  <2> QED BY <1>7, <2>1
<1>10. SumTo(RecordHold(u, c)', MaxRecords) = SumTo(RecordHold(u, c), MaxRecords) + 0
  <2>1. RecordHold(u, c)' = RecordHold(u, c)
    BY DEF PublishTrade, RecordHold
  <2> QED BY <2>1, SumsType
<1>11. freeze[u][c] \in Int
  BY DEF TypeOK
<1>12. freeze'[u][c] >= freeze[u][c] + x + 0 /\ freeze'[u][c] <= freeze[u][c] + x + 0 + 0
  BY <1>7, <1>8, <1>11
<1>13. Stranded(u, c)' = Stranded(u, c) + 0
  BY StrandSame DEF PublishTrade
<1> QED BY <1>7, <1>9, <1>10, <1>12, <1>13, StaysBalanced

\* What an order holds pays for a trade of q and for what is left of it, and
\* exceeds both by one at most, for a buyer whose cost was rounded.
LEMMA FilledHold ==
  ASSUME NEW order \in Order, order.status = "WAIT", NEW q \in Nat, q <= Surplus(order),
         NEW u \in Users, NEW c \in Currencies, NEW x \in Int,
         x = IF u = order.owner /\ u \notin Robots /\ SpendCurrency(order.side) = c
             THEN SpendAmount(order.side, order.price, q) ELSE 0,
         NEW z \in Int,
         z = IF /\ u = order.owner /\ u \notin Robots /\ SpendCurrency(order.side) = c
                /\ c = "currency" /\ (q * order.price) % Unit # 0
             THEN 1 ELSE 0
  PROVE  /\ HoldOf(Filled(order, q), u, c) + x <= HoldOf(order, u, c)
         /\ HoldOf(order, u, c) <= HoldOf(Filled(order, q), u, c) + x + z
<1> DEFINE new  == Filled(order, q)
<1> DEFINE left == Surplus(order) - q
<1>1. /\ new.owner = order.owner /\ new.side = order.side /\ new.price = order.price
      /\ new.quantity = order.quantity /\ new.tradeQuantity = order.tradeQuantity + q
      /\ new.status = IF order.owner \in Robots \/ order.quantity <= order.tradeQuantity + q
                      THEN "SUCCESS" ELSE "WAIT"
  BY DEF Filled, Order
<1>2. left \in Nat /\ left + q = Surplus(order) /\ Surplus(order) \in Nat
      /\ Surplus(new) = left /\ order.price \in Nat /\ order.side \in Sides
  BY <1>1 DEF Order, Surplus
<1> HIDE DEF new
<1>3. CASE ~(u = order.owner /\ u \notin Robots /\ SpendCurrency(order.side) = c)
  <2>1. HoldOf(new, u, c) = 0 /\ HoldOf(order, u, c) = 0 /\ x = 0 /\ z = 0
    BY <1>1, <1>3 DEF HoldOf
  <2> QED BY <2>1 DEF new
<1>4. CASE u = order.owner /\ u \notin Robots /\ SpendCurrency(order.side) = c
  <2>1. HoldOf(order, u, c) = SpendAmount(order.side, order.price, left + q)
    BY <1>2, <1>4 DEF HoldOf, Open
  <2>2. HoldOf(new, u, c) = SpendAmount(order.side, order.price, left)
    <3>1. CASE new.status = "WAIT"
      BY <1>1, <1>2, <1>4, <3>1 DEF HoldOf, Open
    <3>2. CASE new.status # "WAIT"
      <4>1. left = 0
        BY <1>1, <1>2, <1>4, <3>2 DEF Order, Surplus
      <4>2. Mul(0, order.price) = 0
        <5>1. 0 * order.price = 0
          BY <1>2
        <5>2. 0 \div Unit = 0
          BY ConstantsAssumption
        <5> QED BY <5>1, <5>2 DEF Mul
      <4>3. HoldOf(new, u, c) = 0
        BY <1>1, <3>2 DEF HoldOf, Open
      <4> QED BY <4>1, <4>2, <4>3 DEF SpendAmount
    <3> QED BY <3>1, <3>2
  <2>3. x = SpendAmount(order.side, order.price, q)
    BY <1>4
  <2>4. /\ Mul(left, order.price) + Mul(q, order.price) <= Mul(left + q, order.price)
        /\ Mul(left + q, order.price)
             <= Mul(left, order.price) + Mul(q, order.price)
                  + (IF (q * order.price) % Unit # 0 THEN 1 ELSE 0)
    BY <1>2, MulSplit
  <2>5. /\ Mul(left, order.price) \in Nat /\ Mul(q, order.price) \in Nat
        /\ Mul(left + q, order.price) \in Nat
    BY <1>2, MulType
  <2>6. /\ order.side = "BUY" => z = (IF (q * order.price) % Unit # 0 THEN 1 ELSE 0)
        /\ order.side # "BUY" => z = 0
    BY <1>4 DEF SpendCurrency
  <2> HIDE DEF left
  <2>7. CASE order.side = "BUY"
    <3>1. /\ HoldOf(new, u, c) = Mul(left, order.price) /\ x = Mul(q, order.price)
          /\ HoldOf(order, u, c) = Mul(left + q, order.price)
      BY <2>1, <2>2, <2>3, <2>7 DEF SpendAmount
    <3>2. /\ HoldOf(new, u, c) + x <= HoldOf(order, u, c)
          /\ HoldOf(order, u, c) <= HoldOf(new, u, c) + x + z
      BY <2>4, <2>5, <2>6, <2>7, <3>1
    <3> QED BY <3>2 DEF new
  <2>8. CASE order.side # "BUY"
    <3>1. HoldOf(new, u, c) = left /\ x = q /\ HoldOf(order, u, c) = left + q /\ z = 0
      BY <2>1, <2>2, <2>3, <2>6, <2>8 DEF SpendAmount
    <3>2. /\ HoldOf(new, u, c) + x <= HoldOf(order, u, c)
          /\ HoldOf(order, u, c) <= HoldOf(new, u, c) + x + z
      BY <1>2, <3>1
    <3> QED BY <3>2 DEF new
  <2> QED BY <2>7, <2>8
<1> QED BY <1>3, <1>4

\* Filling an order does not turn it round.
LEMMA FilledSide ==
  ASSUME NEW order \in Order, NEW q
  PROVE  Filled(order, q).side = order.side
BY DEF Filled, Order

\* What a match takes over from the holds of the two orders is due by the new
\* record: in currency from the buy order's, in tradeCurrency from the sell
\* order's.
LEMMA TradeBalanced ==
  ASSUME TypeOK, TypeOK', RecordsMatchOrders,
         NEW b \in OrderIds, NEW s \in OrderIds, DoTrade(b, s),
         NEW u \in Users, NEW c \in Currencies, Balanced(u, c)
  PROVE  Balanced(u, c)'
<1> DEFINE q == TradeQuantity(b, s)
<1> DEFINE rec == NewRecord(b, s, q)
<1>1. /\ q \in Nat /\ q <= Surplus(orders[b]) /\ q <= Surplus(orders[s])
      /\ orders[b].status = "WAIT" /\ orders[s].status = "WAIT"
      /\ orders[b].side = "BUY" /\ orders[s].side = "SELL" /\ b # s
  BY TradeQuantityType DEF DoTrade, CanTrade
<1>2. PICK r \in RecordIds : /\ records[r].buyStatus = "NONE"
                             /\ records[r].sellStatus = "NONE"
                             /\ records' = [records EXCEPT ![r] = rec]
  BY DEF DoTrade, NextRecordId, RecordsMatchOrders
<1>3. orders' = [orders EXCEPT ![b] = Filled(orders[b], q), ![s] = Filled(orders[s], q)]
  BY <1>1 DEF DoTrade, TypeOK
<1>4. /\ rec.quantity = q /\ rec.buyStatus = "NOT" /\ rec.sellStatus = "NOT"
      /\ rec.buyUser = orders[b].owner /\ rec.buyPrice = orders[b].price
      /\ rec.sellUser = orders[s].owner
  BY DEF NewRecord
<1>5. freeze' = freeze
  BY DEF DoTrade
<1> HIDE DEF q, rec
<1>6. /\ orders[b] \in Order /\ orders[s] \in Order
      /\ orders'[b] = Filled(orders[b], q) /\ orders'[s] = Filled(orders[s], q)
      /\ \A i \in OrderIds \ {b, s} : orders'[i] = orders[i]
  BY <1>1, <1>3 DEF TypeOK
<1>7. /\ \A i \in RecordIds : i # r => records'[i] = records[i]
      /\ records'[r] = rec
  BY <1>2 DEF TypeOK
<1>8. ASSUME NEW e \in OrderIds, NEW i \in OrderIds, {e, i} = {b, s},
             SpendCurrency(orders[e].side) = c, SpendCurrency(orders[i].side) # c,
             DueOf(rec, u, c) = IF u = orders[e].owner /\ u \notin Robots
                                THEN SpendAmount(orders[e].side, orders[e].price, q) ELSE 0,
             StrandOf(rec, u, c) = IF /\ u = orders[e].owner /\ u \notin Robots
                                      /\ c = "currency" /\ (q * orders[e].price) % Unit # 0
                                   THEN 1 ELSE 0
      PROVE  Balanced(u, c)'
  <2> DEFINE x == DueOf(rec, u, c)
  <2> DEFINE y == HoldOf(orders'[e], u, c) - HoldOf(orders[e], u, c)
  <2> DEFINE z == StrandOf(rec, u, c)
  <2>1. /\ x \in Int /\ z \in Int /\ HoldOf(orders[e], u, c) \in Int /\ HoldOf(orders'[e], u, c) \in Int
        /\ freeze[u][c] \in Int /\ Stranded(u, c) \in Int
    <3>1. rec \in Record /\ orders[e] \in Order /\ orders'[e] \in Order
      BY <1>2, <1>7 DEF TypeOK
    <3> QED BY <3>1, DueType, HoldType, SumsType DEF TypeOK, StrandOf
  <2>2. e \in {b, s} /\ i \in {b, s} /\ e # i
    BY <1>1, <1>8
  <2>3. /\ HoldOf(orders'[e], u, c) + x <= HoldOf(orders[e], u, c)
        /\ HoldOf(orders[e], u, c) <= HoldOf(orders'[e], u, c) + x + z
    <3>1. /\ orders[e].status = "WAIT" /\ q <= Surplus(orders[e]) /\ orders[e] \in Order
          /\ orders'[e] = Filled(orders[e], q)
      BY <1>1, <1>6, <2>2
    <3>2. x = IF u = orders[e].owner /\ u \notin Robots /\ SpendCurrency(orders[e].side) = c
              THEN SpendAmount(orders[e].side, orders[e].price, q) ELSE 0
      BY <1>8
    <3>3. z = IF /\ u = orders[e].owner /\ u \notin Robots /\ SpendCurrency(orders[e].side) = c
                 /\ c = "currency" /\ (q * orders[e].price) % Unit # 0
              THEN 1 ELSE 0
      BY <1>8
    <3> HIDE DEF x, z
    <3> QED BY <1>1, <2>1, <3>1, <3>2, <3>3, FilledHold
  <2>4. \A j \in OrderIds : j # e => HoldOf(orders'[j], u, c) = HoldOf(orders[j], u, c)
    <3>1. orders'[i].side = orders[i].side
      <4>1. orders[i] \in Order /\ orders'[i] = Filled(orders[i], q)
        BY <1>6, <2>2
      <4> QED BY <4>1, FilledSide
    <3>2. HoldOf(orders'[i], u, c) = 0 /\ HoldOf(orders[i], u, c) = 0
      BY <1>8, <3>1 DEF HoldOf
    <3>3. \A j \in OrderIds : j # e /\ j # i => orders'[j] = orders[j]
      BY <1>6, <1>8
    <3> QED BY <3>2, <3>3
  <2>5. DueOf(records[r], u, c) = 0 /\ StrandOf(records[r], u, c) = 0
    BY <1>2 DEF DueOf, Unsettled, StrandOf
  <2>6. SumTo(OrderHold(u, c)', MaxOrders) = SumTo(OrderHold(u, c), MaxOrders) + y
    BY <2>4, OrderHoldUpdate
  <2>7. SumTo(RecordHold(u, c)', MaxRecords) = SumTo(RecordHold(u, c), MaxRecords) + x
    <3>1. SumTo(RecordHold(u, c)', MaxRecords) = SumTo(RecordHold(u, c), MaxRecords) + (x - 0)
      BY <1>7, <2>5, RecordHoldUpdate
    <3> HIDE DEF x
    <3> QED BY <2>1, <3>1
  <2>8. /\ y \in Int
        /\ freeze'[u][c] >= freeze[u][c] + y + x
        /\ freeze'[u][c] <= freeze[u][c] + y + x + z
    <3> HIDE DEF x, z
    <3> QED BY <1>5, <2>1, <2>3
  <2>9. Stranded(u, c)' = Stranded(u, c) + z
    <3>1. Stranded(u, c)' = Stranded(u, c) + (z - 0)
      BY <1>7, <2>5, StrandUpdate
    <3> HIDE DEF z
    <3> QED BY <2>1, <3>1
  <2> HIDE DEF x, y, z
  <2> QED BY <2>1, <2>6, <2>7, <2>8, <2>9, StaysBalanced
<1>9. CASE c = "currency"
  <2>1. /\ SpendCurrency(orders[b].side) = c /\ SpendCurrency(orders[s].side) # c
        /\ DueOf(rec, u, c) = IF u = orders[b].owner /\ u \notin Robots
                              THEN SpendAmount(orders[b].side, orders[b].price, q) ELSE 0
    BY <1>1, <1>4, <1>9 DEF SpendCurrency, SpendAmount, DueOf, Unsettled
  <2>2. StrandOf(rec, u, c) = IF /\ u = orders[b].owner /\ u \notin Robots
                                 /\ c = "currency" /\ (q * orders[b].price) % Unit # 0
                              THEN 1 ELSE 0
    BY <1>4 DEF StrandOf
  <2> QED BY <1>8, <2>1, <2>2
<1>10. CASE c = "tradeCurrency"
  <2>1. /\ SpendCurrency(orders[s].side) = c /\ SpendCurrency(orders[b].side) # c
        /\ DueOf(rec, u, c) = IF u = orders[s].owner /\ u \notin Robots
                              THEN SpendAmount(orders[s].side, orders[s].price, q) ELSE 0
    BY <1>1, <1>4, <1>10 DEF SpendCurrency, SpendAmount, DueOf, Unsettled
  <2>2. StrandOf(rec, u, c) = 0
    BY <1>10 DEF StrandOf
  <2> QED BY <1>8, <1>10, <2>1, <2>2
<1> QED BY <1>9, <1>10 DEF Currencies

\* A cancellation gives back all that the order still holds.
LEMMA CancelBalanced ==
  ASSUME TypeOK, TypeOK', NotOverfilled, NEW o \in OrderIds, DoCancel(o),
         NEW u \in Users, NEW c \in Currencies, Balanced(u, c)
  PROVE  Balanced(u, c)'
<1> DEFINE v == orders[o].owner
<1> DEFINE d == SpendCurrency(orders[o].side)
<1> DEFINE amount == SpendAmount(orders[o].side, orders[o].price, Surplus(orders[o]))
<1> DEFINE y == HoldOf(orders[o], u, c)
<1>1. /\ orders[o] \in Order /\ v \in Users /\ d \in Currencies /\ orders[o].price \in Nat
      /\ orders[o].side \in Sides /\ Surplus(orders[o]) \in Nat
  BY OrderParts DEF NotOverfilled, Surplus, SpendCurrency, Currencies
<1>2. amount \in Nat /\ -amount \in Int
  <2>1. amount \in Nat
    BY <1>1, SpendAmountType
  <2> HIDE DEF amount
  <2> QED BY <2>1
<1>3. y = IF u = v /\ v \notin Robots /\ c = d THEN amount ELSE 0
  BY DEF HoldOf, Open, DoCancel
<1>4. orders' = [orders EXCEPT ![o].status = "CANCEL"] /\ records' = records
  BY DEF DoCancel
<1>5. /\ orders'[o].status = "CANCEL"
      /\ \A i \in OrderIds : i # o => orders'[i] = orders[i]
  BY <1>1, <1>4 DEF TypeOK, Order
<1>6. HoldOf(orders'[o], u, c) = 0
  BY <1>5 DEF HoldOf, Open
<1>7. \/ (v \in Robots \/ amount <= 0) /\ freeze' = freeze
      \/ v \notin Robots /\ ModifyWallet(v, d, amount, -amount)
  BY DEF DoCancel
<1> HIDE DEF amount, v, d
<1>8. y \in Int /\ freeze[u][c] \in Int
  BY <1>2, <1>3 DEF TypeOK
<1> HIDE DEF y
<1>9. freeze'[u][c] = freeze[u][c] - y
  <2>1. CASE (v \in Robots \/ amount <= 0) /\ freeze' = freeze
    BY <1>2, <1>3, <1>8, <2>1
  <2>2. CASE v \notin Robots /\ ModifyWallet(v, d, amount, -amount)
    <3>1. freeze'[u][c] = freeze[u][c] + (IF u = v /\ c = d THEN -amount ELSE 0)
      BY <1>1, <1>2, <2>2, ModifyFreeze
    <3> QED BY <1>2, <1>3, <1>8, <2>2, <3>1
  <2> QED BY <1>7, <2>1, <2>2
<1>10. SumTo(OrderHold(u, c)', MaxOrders) = SumTo(OrderHold(u, c), MaxOrders) + (0 - y)
  BY <1>5, <1>6, OrderHoldUpdate DEF y
<1>11. SumTo(RecordHold(u, c)', MaxRecords) = SumTo(RecordHold(u, c), MaxRecords) + 0
  <2>1. RecordHold(u, c)' = RecordHold(u, c)
    BY <1>4 DEF RecordHold
  <2> QED BY <2>1, SumsType
<1>12. /\ 0 - y \in Int
       /\ freeze'[u][c] >= freeze[u][c] + (0 - y) + 0
       /\ freeze'[u][c] <= freeze[u][c] + (0 - y) + 0 + 0
  BY <1>8, <1>9
<1>13. Stranded(u, c)' = Stranded(u, c) + 0
  BY <1>4, StrandSame
<1> QED BY <1>10, <1>11, <1>12, <1>13, StaysBalanced

-----------------------------------------------------------------------------
(* Steps that move no frozen amount, and settling.                         *)

\* A step that keeps the frozen amounts, and every order's hold and every
\* record's due and what it strands.
LEMMA StatusBalanced ==
  ASSUME TypeOK, TypeOK', NEW u \in Users, NEW c \in Currencies, Balanced(u, c),
         freeze' = freeze,
         \A i \in OrderIds : HoldOf(orders'[i], u, c) = HoldOf(orders[i], u, c),
         \A i \in RecordIds : /\ DueOf(records'[i], u, c) = DueOf(records[i], u, c)
                              /\ StrandOf(records'[i], u, c) = StrandOf(records[i], u, c)
  PROVE  Balanced(u, c)'
<1>1. OrderHold(u, c)' = OrderHold(u, c)
  BY DEF OrderHold
<1>2. RecordHold(u, c)' = RecordHold(u, c)
  BY DEF RecordHold
<1>3. RecordStrand(u, c)' = RecordStrand(u, c)
  BY DEF RecordStrand
<1> QED BY <1>1, <1>2, <1>3 DEF Balanced, Held, Stranded

\* Setting an order aside, putting orders back and dropping robots' orders
\* leaves every hold as it is.
LEMMA StatusChangeBalanced ==
  ASSUME TypeOK, TypeOK', NEW u \in Users, NEW c \in Currencies, Balanced(u, c),
         ErrorModify \/ DeleteRobotCancel \/ (\E o \in OrderIds : MarkError(o))
  PROVE  Balanced(u, c)'
<1> DEFINE WithStatus(order, st) == [order EXCEPT !.status = st]
<1>1. ASSUME NEW order \in Order, NEW st \in OrderStatus, Open(order) <=> st \in {"WAIT", "ERROR"}
      PROVE  HoldOf(WithStatus(order, st), u, c) = HoldOf(order, u, c)
  <2>1. /\ WithStatus(order, st).status = st
        /\ WithStatus(order, st).owner = order.owner
        /\ WithStatus(order, st).side = order.side
        /\ WithStatus(order, st).price = order.price
        /\ WithStatus(order, st).quantity = order.quantity
        /\ WithStatus(order, st).tradeQuantity = order.tradeQuantity
    BY DEF Order
  <2> HIDE DEF WithStatus
  <2> QED BY <1>1, <2>1 DEF HoldOf, Open, Surplus
<1>2. \A i \in OrderIds :
        \/ orders'[i] = orders[i]
        \/ Open(orders[i]) /\ orders'[i] = WithStatus(orders[i], "WAIT")
        \/ Open(orders[i]) /\ orders'[i] = WithStatus(orders[i], "ERROR")
        \/ ~Open(orders[i]) /\ orders'[i] = WithStatus(orders[i], "DELETED")
  BY DEF ErrorModify, DeleteRobotCancel, Deletable, MarkError, Open, TypeOK
<1>3. {"WAIT", "ERROR", "DELETED"} \subseteq OrderStatus
  BY DEF OrderStatus
<1> HIDE DEF WithStatus
<1>4. \A i \in OrderIds : HoldOf(orders'[i], u, c) = HoldOf(orders[i], u, c)
  <2> TAKE i \in OrderIds
  <2>1. orders[i] \in Order
    BY DEF TypeOK
  <2> QED BY <1>1, <1>2, <1>3, <2>1
<1>5. freeze' = freeze /\ records' = records
  BY DEF ErrorModify, DeleteRobotCancel, MarkError
<1> QED BY <1>4, <1>5, StatusBalanced

\* A failure leaves a side due.
LEMMA FailBalanced ==
  ASSUME TypeOK, TypeOK', NEW u \in Users, NEW c \in Currencies, Balanced(u, c),
         NEW r \in RecordIds, FailBuy(r) \/ FailSell(r)
  PROVE  Balanced(u, c)'
<1>1. /\ records'[r].quantity = records[r].quantity
      /\ records'[r].buyPrice = records[r].buyPrice
      /\ records'[r].buyUser = records[r].buyUser
      /\ records'[r].sellUser = records[r].sellUser
      /\ Unsettled(records'[r].buyStatus) <=> Unsettled(records[r].buyStatus)
      /\ Unsettled(records'[r].sellStatus) <=> Unsettled(records[r].sellStatus)
      /\ records'[r].buyStatus = "NONE" <=> records[r].buyStatus = "NONE"
      /\ \A i \in RecordIds : i # r => records'[i] = records[i]
  BY DEF FailBuy, FailSell, TypeOK, Record, Unsettled
<1>2. \A i \in RecordIds : /\ DueOf(records'[i], u, c) = DueOf(records[i], u, c)
                           /\ StrandOf(records'[i], u, c) = StrandOf(records[i], u, c)
  BY <1>1 DEF DueOf, StrandOf
<1>3. freeze' = freeze /\ orders' = orders
  BY DEF FailBuy, FailSell
<1> QED BY <1>2, <1>3, StatusBalanced

\* The user a record names pays exactly if the order moves money.
LEMMA PaysIfDue ==
  ASSUME RecordsMatchOrders, DeletedAreRobots, TypeOK, NEW r \in RecordIds,
         records[r].buyStatus # "NONE"
  PROVE  /\ MovesMoney(records[r].buy) <=> records[r].buyUser \notin Robots
         /\ MovesMoney(records[r].sell) <=> records[r].sellUser \notin Robots
<1>1. records[r].buy \in OrderIds /\ records[r].sell \in OrderIds
  BY RecordParts
<1> QED BY <1>1 DEF RecordsMatchOrders, DeletedAreRobots, MovesMoney

\* Settling a side takes what is due, and nothing is due any more.
LEMMA SettleBalanced ==
  ASSUME TypeOK, TypeOK', RecordsMatchOrders, DeletedAreRobots,
         NEW u \in Users, NEW c \in Currencies, Balanced(u, c),
         NEW r \in RecordIds, SettleBuy(r) \/ SettleSell(r)
  PROVE  Balanced(u, c)'
<1> DEFINE x == DueOf(records'[r], u, c) - DueOf(records[r], u, c)
<1>1. /\ orders' = orders
      /\ \A i \in RecordIds : i # r => records'[i] = records[i]
      /\ records'[r] \in Record /\ records[r] \in Record
  BY DEF SettleBuy, SettleSell, TypeOK
<1>2. /\ x \in Int /\ freeze[u][c] \in Int
      /\ DueOf(records'[r], u, c) \in Nat /\ DueOf(records[r], u, c) \in Nat
  BY <1>1, DueType DEF TypeOK
<1>3. SumTo(RecordHold(u, c)', MaxRecords) = SumTo(RecordHold(u, c), MaxRecords) + x
  BY <1>1, RecordHoldUpdate
<1>4. SumTo(OrderHold(u, c)', MaxOrders) = SumTo(OrderHold(u, c), MaxOrders) + 0
  <2>1. OrderHold(u, c)' = OrderHold(u, c)
    BY <1>1 DEF OrderHold
  <2> QED BY <2>1, SumsType
<1>5. freeze'[u][c] = freeze[u][c] + x
  <2>1. CASE SettleBuy(r)
    <3> DEFINE v    == records[r].buyUser
    <3> DEFINE cost == Mul(records[r].quantity, records[r].buyPrice)
    <3>1. v \in Users /\ cost \in Nat
      BY RecordParts, MulType
    <3>2. /\ records'[r].quantity = records[r].quantity
          /\ records'[r].sellUser = records[r].sellUser
          /\ records'[r].sellStatus = records[r].sellStatus
          /\ records'[r].buyStatus = "SUCCESS"
          /\ records[r].buyStatus \in {"NOT", "FAIL"}
      BY <2>1 DEF SettleBuy, TypeOK, Record
    <3>3. x = IF u = v /\ v \notin Robots /\ c = "currency" THEN -cost ELSE 0
      <4>1. DueOf(records[r], u, "currency") = IF u = v /\ v \notin Robots THEN cost ELSE 0
        BY <3>2 DEF DueOf, Unsettled
      <4>2. DueOf(records'[r], u, "currency") = 0
        BY <3>2 DEF DueOf, Unsettled
      <4>3. c # "currency" => DueOf(records'[r], u, c) = DueOf(records[r], u, c)
        BY <3>2 DEF DueOf
      <4> HIDE DEF v, cost
      <4> QED BY <1>2, <3>1, <4>1, <4>2, <4>3
    <3>4. \/ v \in Robots /\ freeze' = freeze
          \/ v \notin Robots /\ freeze' = [freeze EXCEPT ![v]["currency"] = @ - cost]
      BY <2>1, <3>2, PaysIfDue DEF SettleBuy
    <3> HIDE DEF v, cost, x
    <3> QED BY <1>2, <3>1, <3>3, <3>4 DEF TypeOK, Currencies
  <2>2. CASE SettleSell(r)
    <3> DEFINE v    == records[r].sellUser
    <3> DEFINE cost == records[r].quantity
    <3>1. v \in Users /\ cost \in Nat
      BY RecordParts
    <3>2. /\ records'[r].quantity = records[r].quantity
          /\ records'[r].buyPrice = records[r].buyPrice
          /\ records'[r].buyUser = records[r].buyUser
          /\ records'[r].buyStatus = records[r].buyStatus
          /\ records'[r].sellStatus = "SUCCESS"
          /\ records[r].sellStatus \in {"NOT", "FAIL"}
          /\ records[r].buyStatus # "NONE"
      BY <2>2 DEF SettleSell, TypeOK, Record, RecordsMatchOrders
    <3>3. x = IF u = v /\ v \notin Robots /\ c = "tradeCurrency" THEN -cost ELSE 0
      <4>1. DueOf(records[r], u, "tradeCurrency") = IF u = v /\ v \notin Robots THEN cost ELSE 0
        BY <3>2 DEF DueOf, Unsettled
      <4>2. DueOf(records'[r], u, "tradeCurrency") = 0
        BY <3>2 DEF DueOf, Unsettled
      <4>3. DueOf(records'[r], u, "currency") = DueOf(records[r], u, "currency")
        BY <3>2 DEF DueOf
      <4>4. c = "currency" \/ c = "tradeCurrency"
        BY DEF Currencies
      <4> HIDE DEF v, cost
      <4> QED BY <1>2, <3>1, <4>1, <4>2, <4>3, <4>4
    <3>4. \/ v \in Robots /\ freeze' = freeze
          \/ v \notin Robots /\ freeze' = [freeze EXCEPT ![v]["tradeCurrency"] = @ - cost]
      BY <2>2, <3>2, PaysIfDue DEF SettleSell
    <3> HIDE DEF v, cost, x
    <3> QED BY <1>2, <3>1, <3>3, <3>4 DEF TypeOK, Currencies
  <2> QED BY <2>1, <2>2
<1> HIDE DEF x
<1>6. freeze'[u][c] >= freeze[u][c] + 0 + x /\ freeze'[u][c] <= freeze[u][c] + 0 + x + 0
  BY <1>2, <1>5
<1>7. x \in Int /\ 0 \in Int
  BY <1>2
<1>8. Stranded(u, c)' = Stranded(u, c) + 0
  <2>1. /\ records'[r].quantity = records[r].quantity
        /\ records'[r].buyPrice = records[r].buyPrice
        /\ records'[r].buyUser = records[r].buyUser
        /\ records'[r].buyStatus = "NONE" <=> records[r].buyStatus = "NONE"
    BY <1>1 DEF SettleBuy, SettleSell, TypeOK, Record
  <2>2. \A i \in RecordIds : StrandOf(records'[i], u, c) = StrandOf(records[i], u, c)
    BY <1>1, <2>1 DEF StrandOf
  <2> QED BY <2>2, StrandSame
<1> QED BY <1>3, <1>4, <1>6, <1>7, <1>8, StaysBalanced

-----------------------------------------------------------------------------
(* Orders and records.                                                     *)

\* An issued order keeps its owner, side, price and quantity.
LEMMA OrderRowStep ==
  ASSUME TypeOK, [Next]_vars, NEW i \in OrderIds, orders[i].status # "NONE"
  PROVE  /\ orders'[i].status # "NONE" /\ orders'[i].owner = orders[i].owner
         /\ orders'[i].side = orders[i].side /\ orders'[i].price = orders[i].price
         /\ orders'[i].quantity = orders[i].quantity
<1>0. orders[i] \in Order
  BY DEF TypeOK
<1>1. ASSUME NEW u \in Users, NEW side \in Sides, NEW p \in Prices,
             NEW q \in Quantities, PublishTrade(u, side, p, q)
      PROVE  orders'[i] = orders[i]
  BY <1>1 DEF PublishTrade, NextOrderId, TypeOK
<1>2. ASSUME NEW b \in OrderIds, NEW s \in OrderIds, DoTrade(b, s)
      PROVE  orders'[i] = orders[i] \/ \E q : orders'[i] = Filled(orders[i], q)
  <2>1. b # s
    BY <1>2 DEF DoTrade, CanTrade
  <2> QED BY <1>2, <2>1 DEF DoTrade, TypeOK
<1>3. ASSUME NEW q, orders'[i] = Filled(orders[i], q)
      PROVE  /\ orders'[i].status # "NONE" /\ orders'[i].owner = orders[i].owner
             /\ orders'[i].side = orders[i].side /\ orders'[i].price = orders[i].price
             /\ orders'[i].quantity = orders[i].quantity
  BY <1>0, <1>3 DEF Filled, Order
<1>4. ASSUME \/ ErrorModify \/ DeleteRobotCancel
             \/ \E o \in OrderIds : DoCancel(o) \/ MarkError(o)
      PROVE  \/ orders'[i] = orders[i]
             \/ \E st \in {"WAIT", "CANCEL", "ERROR", "DELETED"} :
                  orders'[i] = [orders[i] EXCEPT !.status = st]
  BY <1>4 DEF ErrorModify, DeleteRobotCancel, DoCancel, MarkError, TypeOK
<1>5. ASSUME NEW st \in {"WAIT", "CANCEL", "ERROR", "DELETED"},
             orders'[i] = [orders[i] EXCEPT !.status = st]
      PROVE  /\ orders'[i].status # "NONE" /\ orders'[i].owner = orders[i].owner
             /\ orders'[i].side = orders[i].side /\ orders'[i].price = orders[i].price
             /\ orders'[i].quantity = orders[i].quantity
  BY <1>0, <1>5 DEF Order
<1>6. ASSUME NEW r \in RecordIds, SettleBuy(r) \/ SettleSell(r) \/ FailBuy(r) \/ FailSell(r)
      PROVE  orders'[i] = orders[i]
  BY <1>6 DEF SettleBuy, SettleSell, FailBuy, FailSell
<1>7. CASE UNCHANGED vars
  BY <1>7 DEF vars
<1> QED BY <1>1, <1>2, <1>3, <1>4, <1>5, <1>6, <1>7 DEF Next, OrderNext, SettleNext

\* A step leaves a record as it is but for its two statuses, issues none
\* of them anew, or writes the record of a match.
LEMMA RecordStep ==
  ASSUME TypeOK, RecordsMatchOrders, [Next]_vars, NEW r \in RecordIds
  PROVE  \/ /\ records'[r].buy = records[r].buy /\ records'[r].sell = records[r].sell
            /\ records'[r].buyUser = records[r].buyUser
            /\ records'[r].sellUser = records[r].sellUser
            /\ records'[r].buyPrice = records[r].buyPrice
            /\ records'[r].sellPrice = records[r].sellPrice
            /\ records'[r].buyStatus = "NONE" <=> records[r].buyStatus = "NONE"
            /\ records'[r].sellStatus = "NONE" <=> records[r].sellStatus = "NONE"
         \/ \E b, s \in OrderIds : \E q : CanTrade(b, s) /\ records'[r] = NewRecord(b, s, q)
<1>0. records[r] \in Record
  BY DEF TypeOK
<1>1. ASSUME NEW b \in OrderIds, NEW s \in OrderIds, DoTrade(b, s)
      PROVE  records'[r] = records[r] \/ \E q : CanTrade(b, s) /\ records'[r] = NewRecord(b, s, q)
  BY <1>1 DEF DoTrade, TypeOK
<1>2. ASSUME NEW k \in RecordIds, SettleBuy(k) \/ SettleSell(k) \/ FailBuy(k) \/ FailSell(k)
      PROVE  \/ records'[r] = records[r]
             \/ \E st \in {"SUCCESS", "FAIL"} :
                  \/ /\ records[r].buyStatus # "NONE"
                     /\ records'[r] = [records[r] EXCEPT !.buyStatus = st]
                  \/ /\ records[r].sellStatus # "NONE"
                     /\ records'[r] = [records[r] EXCEPT !.sellStatus = st]
  BY <1>2 DEF SettleBuy, SettleSell, FailBuy, FailSell, TypeOK
<1>3. ASSUME \/ \E u \in Users, side \in Sides, p \in Prices, q \in Quantities :
                   PublishTrade(u, side, p, q)
             \/ \E o \in OrderIds : DoCancel(o) \/ MarkError(o)
             \/ ErrorModify \/ DeleteRobotCancel \/ UNCHANGED vars
      PROVE  records' = records
  BY <1>3 DEF PublishTrade, DoCancel, MarkError, ErrorModify, DeleteRobotCancel, vars
<1>4. ASSUME NEW st \in {"SUCCESS", "FAIL"},
             \/ /\ records[r].buyStatus # "NONE"
                /\ records'[r] = [records[r] EXCEPT !.buyStatus = st]
             \/ /\ records[r].sellStatus # "NONE"
                /\ records'[r] = [records[r] EXCEPT !.sellStatus = st]
      PROVE  /\ records'[r].buy = records[r].buy /\ records'[r].sell = records[r].sell
             /\ records'[r].buyUser = records[r].buyUser
             /\ records'[r].sellUser = records[r].sellUser
             /\ records'[r].buyPrice = records[r].buyPrice
             /\ records'[r].sellPrice = records[r].sellPrice
             /\ records'[r].buyStatus = "NONE" <=> records[r].buyStatus = "NONE"
             /\ records'[r].sellStatus = "NONE" <=> records[r].sellStatus = "NONE"
  BY <1>0, <1>4 DEF Record
<1> QED BY <1>1, <1>2, <1>3, <1>4 DEF Next, OrderNext, SettleNext

LEMMA NextRecordsMatch ==
  ASSUME TypeOK, RecordsMatchOrders, [Next]_vars
  PROVE  RecordsMatchOrders'
<1> SUFFICES ASSUME NEW r \in RecordIds
             PROVE  /\ records'[r].buyStatus = "NONE" <=> records'[r].sellStatus = "NONE"
                    /\ records'[r].buyStatus # "NONE" =>
                         LET b == orders'[records'[r].buy]
                             s == orders'[records'[r].sell]
                         IN  /\ b.status # "NONE" /\ b.side = "BUY"
                             /\ s.status # "NONE" /\ s.side = "SELL"
                             /\ b.owner = records'[r].buyUser
                             /\ b.price = records'[r].buyPrice
                             /\ s.owner = records'[r].sellUser
                             /\ s.price = records'[r].sellPrice
  BY DEF RecordsMatchOrders
<1>1. records[r].buy \in OrderIds /\ records[r].sell \in OrderIds
  BY RecordParts
<1>2. CASE \E b, s \in OrderIds : \E q : CanTrade(b, s) /\ records'[r] = NewRecord(b, s, q)
  <2>1. PICK b, s \in OrderIds : \E q : CanTrade(b, s) /\ records'[r] = NewRecord(b, s, q)
    BY <1>2
  <2>2. /\ records'[r].buy = b /\ records'[r].sell = s
        /\ records'[r].buyUser = orders[b].owner /\ records'[r].buyPrice = orders[b].price
        /\ records'[r].sellUser = orders[s].owner /\ records'[r].sellPrice = orders[s].price
        /\ records'[r].buyStatus = "NOT" /\ records'[r].sellStatus = "NOT"
        /\ orders[b].status = "WAIT" /\ orders[b].side = "BUY"
        /\ orders[s].status = "WAIT" /\ orders[s].side = "SELL"
    BY <2>1 DEF NewRecord, CanTrade
  <2> QED BY <2>2, OrderRowStep
<1>3. CASE /\ records'[r].buy = records[r].buy /\ records'[r].sell = records[r].sell
           /\ records'[r].buyUser = records[r].buyUser
           /\ records'[r].sellUser = records[r].sellUser
           /\ records'[r].buyPrice = records[r].buyPrice
           /\ records'[r].sellPrice = records[r].sellPrice
           /\ records'[r].buyStatus = "NONE" <=> records[r].buyStatus = "NONE"
           /\ records'[r].sellStatus = "NONE" <=> records[r].sellStatus = "NONE"
  BY <1>1, <1>3, OrderRowStep DEF RecordsMatchOrders
<1> QED BY <1>2, <1>3, RecordStep

\* Only the clean-up deletes orders, and only robots'.
LEMMA NextDeletedAreRobots ==
  ASSUME TypeOK, DeletedAreRobots, [Next]_vars
  PROVE  DeletedAreRobots'
<1> SUFFICES ASSUME NEW i \in OrderIds, orders'[i].status = "DELETED"
             PROVE  orders'[i].owner \in Robots
  BY DEF DeletedAreRobots
<1>0. orders[i] \in Order
  BY DEF TypeOK
<1>1. ASSUME NEW u \in Users, NEW side \in Sides, NEW p \in Prices,
             NEW q \in Quantities, PublishTrade(u, side, p, q)
      PROVE  orders'[i] = orders[i]
  BY <1>1 DEF PublishTrade, TypeOK
<1>2. ASSUME NEW b \in OrderIds, NEW s \in OrderIds, DoTrade(b, s)
      PROVE  orders'[i] = orders[i]
  <2>1. b # s /\ orders[b].status = "WAIT" /\ orders[s].status = "WAIT"
    BY <1>2 DEF DoTrade, CanTrade
  <2>2. ASSUME NEW q, orders[i].status = "WAIT" PROVE Filled(orders[i], q).status # "DELETED"
    BY <1>0, <2>2 DEF Filled, Order
  <2> QED BY <1>2, <2>1, <2>2 DEF DoTrade, TypeOK
<1>3. ASSUME NEW o \in OrderIds, DoCancel(o) \/ MarkError(o)
      PROVE  orders'[i] = orders[i]
  BY <1>3, <1>0 DEF DoCancel, MarkError, TypeOK, Order
<1>4. CASE ErrorModify
  BY <1>4, <1>0 DEF ErrorModify, DeletedAreRobots, TypeOK, Order
<1>5. CASE DeleteRobotCancel
  BY <1>5, <1>0 DEF DeleteRobotCancel, Deletable, DeletedAreRobots, TypeOK, Order
<1>6. ASSUME NEW r \in RecordIds, SettleBuy(r) \/ SettleSell(r) \/ FailBuy(r) \/ FailSell(r)
      PROVE  orders'[i] = orders[i]
  BY <1>6 DEF SettleBuy, SettleSell, FailBuy, FailSell
<1>7. CASE UNCHANGED vars
  BY <1>7 DEF vars, DeletedAreRobots
<1> QED BY <1>1, <1>2, <1>3, <1>4, <1>5, <1>6, <1>7 DEF Next, OrderNext, SettleNext, DeletedAreRobots

\* No order trades more than it offers.
LEMMA NextNotOverfilled ==
  ASSUME TypeOK, NotOverfilled, [Next]_vars
  PROVE  NotOverfilled'
<1> SUFFICES ASSUME NEW i \in OrderIds
             PROVE  orders'[i].tradeQuantity <= orders'[i].quantity
  BY DEF NotOverfilled
<1>0. orders[i] \in Order /\ orders[i].tradeQuantity <= orders[i].quantity
  BY DEF TypeOK, NotOverfilled
<1>1. ASSUME NEW u \in Users, NEW side \in Sides, NEW p \in Prices,
             NEW q \in Quantities, PublishTrade(u, side, p, q)
      PROVE  orders'[i].tradeQuantity <= orders'[i].quantity
  <2>1. q \in Nat
    BY ConstantsAssumption
  <2> QED BY <1>0, <1>1, <2>1 DEF PublishTrade, TypeOK
<1>2. ASSUME NEW b \in OrderIds, NEW s \in OrderIds, DoTrade(b, s)
      PROVE  orders'[i].tradeQuantity <= orders'[i].quantity
  <2> DEFINE q == TradeQuantity(b, s)
  <2>1. /\ b # s /\ q \in Nat
        /\ q <= Surplus(orders[b]) /\ q <= Surplus(orders[s])
    BY <1>2, TradeQuantityType DEF DoTrade, CanTrade
  <2>2. /\ Filled(orders[i], q).tradeQuantity = orders[i].tradeQuantity + q
        /\ Filled(orders[i], q).quantity = orders[i].quantity
    BY <1>0 DEF Filled, Order
  <2>3. orders'[i] = orders[i] \/ (i \in {b, s} /\ orders'[i] = Filled(orders[i], q))
    BY <1>2, <2>1 DEF DoTrade, TypeOK
  <2> HIDE DEF q
  <2> QED BY <1>0, <2>1, <2>2, <2>3 DEF Surplus, Order
<1>3. ASSUME \/ ErrorModify \/ DeleteRobotCancel
             \/ \E o \in OrderIds : DoCancel(o) \/ MarkError(o)
      PROVE  orders'[i].tradeQuantity <= orders'[i].quantity
  <2>1. \/ orders'[i] = orders[i]
        \/ \E st \in {"WAIT", "CANCEL", "ERROR", "DELETED"} :
             orders'[i] = [orders[i] EXCEPT !.status = st]
    BY <1>3 DEF ErrorModify, DeleteRobotCancel, DoCancel, MarkError, TypeOK
  <2> QED BY <1>0, <2>1 DEF Order
<1>4. ASSUME NEW r \in RecordIds, SettleBuy(r) \/ SettleSell(r) \/ FailBuy(r) \/ FailSell(r)
      PROVE  orders'[i] = orders[i]
  BY <1>4 DEF SettleBuy, SettleSell, FailBuy, FailSell
<1>5. CASE UNCHANGED vars
  BY <1>0, <1>5 DEF vars
<1> QED BY <1>0, <1>1, <1>2, <1>3, <1>4, <1>5 DEF Next, OrderNext, SettleNext

-----------------------------------------------------------------------------
(* The invariant.                                                          *)

\* At the start nothing is held and nothing is frozen.
LEMMA InitAccounting == Init => Accounting
<1> SUFFICES ASSUME Init PROVE Accounting
  OBVIOUS
<1>1. TypeOK
  BY InitTypeOK
<1>2. RecordsMatchOrders /\ DeletedAreRobots /\ NotOverfilled
  BY DEF Init, RecordsMatchOrders, DeletedAreRobots, NotOverfilled, NoOrder, NoRecord
<1>3. ASSUME NEW u \in Users, NEW c \in Currencies PROVE Balanced(u, c)
  <2>1. \A o \in OrderIds : HoldOf(orders[o], u, c) = 0
    BY DEF Init, NoOrder, HoldOf, Open
  <2>2. \A r \in RecordIds : DueOf(records[r], u, c) = 0
    BY DEF Init, NoRecord, DueOf, Unsettled
  <2>3. SumTo(OrderHold(u, c), MaxOrders) = 0
    <3>1. /\ OrderHold(u, c) \in [1..MaxOrders -> Int]
          /\ \A o \in 1..MaxOrders : OrderHold(u, c)[o] = 0
      BY <2>1 DEF OrderHold, OrderIds
    <3>2. MaxOrders \in Nat
      BY ConstantsAssumption
    <3> QED BY <3>1, <3>2, SumZero
  <2>4. SumTo(RecordHold(u, c), MaxRecords) = 0
    <3>1. /\ RecordHold(u, c) \in [1..MaxRecords -> Int]
          /\ \A r \in 1..MaxRecords : RecordHold(u, c)[r] = 0
      BY <2>2 DEF RecordHold, RecordIds
    <3>2. MaxRecords \in Nat
      BY ConstantsAssumption
    <3> QED BY <3>1, <3>2, SumZero
  <2>5. freeze[u][c] = 0
    BY DEF Init
  <2>6. Stranded(u, c) = 0
    <3>1. /\ RecordStrand(u, c) \in [1..MaxRecords -> Int]
          /\ \A r \in 1..MaxRecords : RecordStrand(u, c)[r] = 0
      BY DEF Init, NoRecord, RecordStrand, StrandOf, RecordIds
    <3>2. MaxRecords \in Nat
      BY ConstantsAssumption
    <3> QED BY <3>1, <3>2, SumZero DEF Stranded
  <2> QED BY <2>3, <2>4, <2>5, <2>6 DEF Balanced, Held
<1> QED BY <1>1, <1>2, <1>3, BalancedRows DEF Accounting

\* Every step keeps the accounting.
LEMMA NextAccounting == Accounting /\ [Next]_vars => Accounting'
<1> SUFFICES ASSUME Accounting, [Next]_vars PROVE Accounting'
  OBVIOUS
<1>1. TypeOK /\ RecordsMatchOrders /\ DeletedAreRobots /\ NotOverfilled
  BY DEF Accounting
<1>2. TypeOK'
  BY <1>1, NextTypeOK
<1>3. RecordsMatchOrders' /\ DeletedAreRobots' /\ NotOverfilled'
  BY <1>1, NextRecordsMatch, NextDeletedAreRobots, NextNotOverfilled
<1>4. ASSUME NEW u \in Users, NEW c \in Currencies PROVE Balanced(u, c)'
  <2>0. Balanced(u, c)
    BY BalancedRows DEF Accounting
  <2>1. CASE \E v \in Users, side \in Sides, p \in Prices, q \in Quantities :
               PublishTrade(v, side, p, q)
    BY <1>1, <1>2, <2>0, <2>1, PublishBalanced
  <2>2. CASE \E b, s \in OrderIds : DoTrade(b, s)
    BY <1>1, <1>2, <2>0, <2>2, TradeBalanced
  <2>3. CASE \E o \in OrderIds : DoCancel(o)
    BY <1>1, <1>2, <2>0, <2>3, CancelBalanced
  <2>4. CASE ErrorModify \/ DeleteRobotCancel \/ \E o \in OrderIds : MarkError(o)
    BY <1>1, <1>2, <2>0, <2>4, StatusChangeBalanced
  <2>5. CASE \E r \in RecordIds : SettleBuy(r) \/ SettleSell(r)
    BY <1>1, <1>2, <2>0, <2>5, SettleBalanced
  <2>6. CASE \E r \in RecordIds : FailBuy(r) \/ FailSell(r)
    BY <1>1, <1>2, <2>0, <2>6, FailBalanced
  <2>7. CASE UNCHANGED vars
    <3>1. freeze' = freeze /\ orders' = orders /\ records' = records
      BY <2>7 DEF vars
    <3> QED BY <1>1, <1>2, <2>0, <3>1, StatusBalanced
  <2> QED BY <2>1, <2>2, <2>3, <2>4, <2>5, <2>6, <2>7 DEF Next, OrderNext, SettleNext
<1>5. (\A u \in Users, c \in Currencies : Balanced(u, c))'
  BY <1>4
<1>6. FreezeBacked' /\ FreezeTight'
  BY <1>5, BalancedRows, PTL
<1> QED BY <1>2, <1>3, <1>6 DEF Accounting

\* At every moment the frozen amount of every wallet covers the open orders and
\* the unsettled sides of trades (publishTrade, doTrade, doCancelBuyTrade,
\* doCancelSellTrade, tradeBuyWallet, tradeSellWallet).
THEOREM FreezeIsBacked == Spec => []FreezeBacked
<1>1. Accounting => FreezeBacked
  BY DEF Accounting
<1> QED BY <1>1, InitAccounting, NextAccounting, PTL DEF Spec

\* Nothing is frozen beyond that but one smallest amount for each trade whose
\* cost was rounded (MathUtil.mul, publishTrade, tradeBuyWallet, doCancelBuyTrade).
THEOREM FreezeIsTight == Spec => []FreezeTight
<1>1. Accounting => FreezeTight
  BY DEF Accounting
<1> QED BY <1>1, InitAccounting, NextAccounting, PTL DEF Spec

\* Backed frozen amounts pay for each unsettled side alone.
LEMMA AccountingFundsSettlement == Accounting => SettlementFunded
<1> SUFFICES ASSUME Accounting, NEW r \in RecordIds
             PROVE  /\ Unsettled(records[r].buyStatus) /\ records[r].buyUser \notin Robots
                         => freeze[records[r].buyUser]["currency"]
                              >= Mul(records[r].quantity, records[r].buyPrice)
                    /\ Unsettled(records[r].sellStatus) /\ records[r].sellUser \notin Robots
                         => freeze[records[r].sellUser]["tradeCurrency"] >= records[r].quantity
  BY DEF SettlementFunded
<1>1. TypeOK /\ NotOverfilled /\ FreezeBacked
  BY DEF Accounting
<1>2. ASSUME NEW u \in Users, NEW c \in Currencies
      PROVE  freeze[u][c] >= DueOf(records[r], u, c)
  <2>1. OrderHold(u, c) \in [1..MaxOrders -> Nat]
    <3>1. \A o \in OrderIds : orders[o] \in Order /\ orders[o].tradeQuantity <= orders[o].quantity
      BY <1>1 DEF TypeOK, NotOverfilled
    <3>2. \A o \in OrderIds : HoldOf(orders[o], u, c) \in Nat
      BY <3>1, HoldType
    <3> QED BY <3>2 DEF OrderHold, OrderIds
  <2>2. RecordHold(u, c) \in [1..MaxRecords -> Nat]
    <3>1. \A k \in RecordIds : DueOf(records[k], u, c) \in Nat
      BY <1>1, DueType DEF TypeOK
    <3> QED BY <3>1 DEF RecordHold, RecordIds
  <2>3. MaxOrders \in Nat /\ MaxRecords \in Nat /\ r \in 1..MaxRecords
    BY ConstantsAssumption DEF RecordIds
  <2>4. SumTo(OrderHold(u, c), MaxOrders) \in Nat
    BY <2>1, <2>3, SumAtLeast
  <2>5. /\ SumTo(RecordHold(u, c), MaxRecords) \in Nat
        /\ SumTo(RecordHold(u, c), MaxRecords) >= RecordHold(u, c)[r]
    BY <2>2, <2>3, SumAtLeast
  <2>6. RecordHold(u, c)[r] = DueOf(records[r], u, c)
    BY DEF RecordHold
  <2>7. DueOf(records[r], u, c) \in Nat /\ freeze[u][c] \in Nat
    BY <1>1, DueType DEF TypeOK
  <2>8. freeze[u][c] >= Held(u, c)
    BY <1>1 DEF FreezeBacked
  <2>9. Held(u, c) = SumTo(OrderHold(u, c), MaxOrders) + SumTo(RecordHold(u, c), MaxRecords)
    BY DEF Held
  <2> QED BY <2>4, <2>5, <2>6, <2>7, <2>8, <2>9
<1>3. records[r].buyUser \in Users /\ records[r].sellUser \in Users
  BY <1>1, RecordParts
<1>4. "currency" \in Currencies /\ "tradeCurrency" \in Currencies
  BY DEF Currencies
<1> QED BY <1>2, <1>3, <1>4 DEF DueOf

\* Whatever was published, matched, cancelled, set aside or given up before, the
\* guarded wallet updates of tradeBuyWallet and tradeSellWallet find the frozen
\* amount they take.
THEOREM SettlementIsFunded == Spec => []SettlementFunded
BY InitAccounting, NextAccounting, AccountingFundsSettlement, PTL DEF Spec
=============================================================================
