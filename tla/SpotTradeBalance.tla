-------------------------- MODULE SpotTradeBalance --------------------------
(***************************************************************************)
(* What users own and what orders have traded, for every instance of       *)
(* SpotTrade.  Each is a sum over the trade records; a step changes one    *)
(* record, and the sum by that record's change.                            *)
(***************************************************************************)
EXTENDS SpotTradeProofs

-----------------------------------------------------------------------------
(* The sums.                                                               *)

LEMMA NetType ==
  ASSUME NEW rec \in Record, NEW u \in Users, NEW c \in Currencies
  PROVE  NetOf(rec, u, c) \in Int
<1>1. /\ rec.quantity \in Nat /\ rec.buyCharge \in Nat /\ rec.sellCharge \in Nat
      /\ Mul(rec.quantity, rec.buyPrice) \in Nat /\ Mul(rec.quantity, rec.sellPrice) \in Nat
  BY MulType DEF Record
<1> QED BY <1>1 DEF NetOf

LEMMA FillType ==
  ASSUME NEW rec \in Record, NEW o \in OrderIds
  PROVE  FillOf(rec, o) \in Int
BY DEF FillOf, Record

\* What the settled sides have moved, after a step that changes record r alone.
LEMMA NetUpdate ==
  ASSUME TypeOK, TypeOK', NEW u \in Users, NEW c \in Currencies, NEW r \in RecordIds,
         \A i \in RecordIds : i # r => records'[i] = records[i]
  PROVE  SumTo(RecordNet(u, c)', MaxRecords)
           = SumTo(RecordNet(u, c), MaxRecords)
             + (NetOf(records'[r], u, c) - NetOf(records[r], u, c))
<1> DEFINE f == [i \in 1..MaxRecords |-> NetOf(records[i], u, c)]
<1> DEFINE h == [i \in 1..MaxRecords |-> NetOf(records'[i], u, c)]
<1>1. f \in [1..MaxRecords -> Int] /\ h \in [1..MaxRecords -> Int]
  BY NetType DEF TypeOK, RecordIds
<1>2. r \in 1..MaxRecords /\ MaxRecords \in Nat
  BY ConstantsAssumption DEF RecordIds
<1>3. \A i \in 1..MaxRecords : i # r => h[i] = f[i]
  BY DEF RecordIds
<1>4. RecordNet(u, c) = f /\ RecordNet(u, c)' = h
  BY DEF RecordNet, RecordIds
<1>5. f[r] = NetOf(records[r], u, c) /\ h[r] = NetOf(records'[r], u, c)
  BY <1>2
<1> HIDE DEF f, h
<1>6. SumTo(h, MaxRecords) = SumTo(f, MaxRecords) + (h[r] - f[r])
  BY <1>1, <1>2, <1>3, SumUpdate
<1> QED BY <1>4, <1>5, <1>6

\* What the records have traded of order o, after such a step.
LEMMA FillUpdate ==
  ASSUME TypeOK, TypeOK', NEW o \in OrderIds, NEW r \in RecordIds,
         \A i \in RecordIds : i # r => FillOf(records'[i], o) = FillOf(records[i], o)
  PROVE  SumTo(RecordFill(o)', MaxRecords)
           = SumTo(RecordFill(o), MaxRecords)
             + (FillOf(records'[r], o) - FillOf(records[r], o))
<1> DEFINE f == [i \in 1..MaxRecords |-> FillOf(records[i], o)]
<1> DEFINE h == [i \in 1..MaxRecords |-> FillOf(records'[i], o)]
<1>1. f \in [1..MaxRecords -> Int] /\ h \in [1..MaxRecords -> Int]
  BY FillType DEF TypeOK, RecordIds
<1>2. r \in 1..MaxRecords /\ MaxRecords \in Nat
  BY ConstantsAssumption DEF RecordIds
<1>3. \A i \in 1..MaxRecords : i # r => h[i] = f[i]
  BY DEF RecordIds
<1>4. RecordFill(o) = f /\ RecordFill(o)' = h
  BY DEF RecordFill, RecordIds
<1>5. f[r] = FillOf(records[r], o) /\ h[r] = FillOf(records'[r], o)
  BY <1>2
<1> HIDE DEF f, h
<1>6. SumTo(h, MaxRecords) = SumTo(f, MaxRecords) + (h[r] - f[r])
  BY <1>1, <1>2, <1>3, SumUpdate
<1> QED BY <1>4, <1>5, <1>6

LEMMA RecordSumsType ==
  ASSUME TypeOK
  PROVE  /\ \A u \in Users, c \in Currencies : SumTo(RecordNet(u, c), MaxRecords) \in Int
         /\ \A o \in OrderIds : SumTo(RecordFill(o), MaxRecords) \in Int
<1>1. MaxRecords \in Nat
  BY ConstantsAssumption
<1>2. \A u \in Users, c \in Currencies : RecordNet(u, c) \in [1..MaxRecords -> Int]
  BY NetType DEF RecordNet, RecordIds, TypeOK
<1>3. \A o \in OrderIds : RecordFill(o) \in [1..MaxRecords -> Int]
  BY FillType DEF RecordFill, RecordIds, TypeOK
<1> QED BY <1>1, <1>2, <1>3, SumType

-----------------------------------------------------------------------------
(* What a user owns of one currency.                                       *)

Owned(u, c) == using[u][c] + freeze[u][c]

Explained(u, c) == Owned(u, c) = Deposit[u][c] + SumTo(RecordNet(u, c), MaxRecords)

\* A wallet stays explained when it and the sum change by as much.
LEMMA StaysExplained ==
  ASSUME TypeOK, TypeOK', NEW u \in Users, NEW c \in Currencies, Explained(u, c),
         NEW x \in Int, Owned(u, c)' = Owned(u, c) + x,
         SumTo(RecordNet(u, c)', MaxRecords) = SumTo(RecordNet(u, c), MaxRecords) + x
  PROVE  Explained(u, c)'
<1>1. /\ Owned(u, c) \in Int /\ Deposit[u][c] \in Int
      /\ SumTo(RecordNet(u, c), MaxRecords) \in Int
  BY RecordSumsType, ConstantsAssumption DEF Owned, TypeOK
<1>2. Owned(u, c)' = Deposit[u][c] + SumTo(RecordNet(u, c)', MaxRecords)
  BY <1>1 DEF Explained
<1> QED BY <1>2 DEF Explained

\* An update that moves an amount between the two columns of a row changes
\* nothing that is owned.
LEMMA MoveKeepsOwned ==
  ASSUME TypeOK, NEW v \in Users, NEW d \in Currencies, NEW x \in Int, NEW y \in Int,
         x + y = 0, ModifyWallet(v, d, x, y), NEW u \in Users, NEW c \in Currencies
  PROVE  Owned(u, c)' = Owned(u, c)
<1>1. /\ using'[u][c] = using[u][c] + (IF u = v /\ c = d THEN x ELSE 0)
      /\ freeze'[u][c] = freeze[u][c] + (IF u = v /\ c = d THEN y ELSE 0)
      /\ using[u][c] \in Int /\ freeze[u][c] \in Int
  BY DEF ModifyWallet, TypeOK
<1> QED BY <1>1 DEF Owned

\* Publishing and cancelling freeze and give back.
LEMMA FreezingExplained ==
  ASSUME TypeOK, TypeOK', NotOverfilled, NEW u \in Users, NEW c \in Currencies,
         Explained(u, c),
         \/ \E v \in Users, side \in Sides, p \in Prices, q \in Quantities :
              PublishTrade(v, side, p, q)
         \/ \E o \in OrderIds : DoCancel(o)
  PROVE  Explained(u, c)'
<1>1. records' = records
  BY DEF PublishTrade, DoCancel
<1>2. ASSUME NEW v \in Users, NEW side \in Sides, NEW p \in Prices, NEW q \in Quantities,
             PublishTrade(v, side, p, q)
      PROVE  Owned(u, c)' = Owned(u, c)
  <2>1. CASE v \in Robots
    BY <1>2, <2>1 DEF PublishTrade, Owned
  <2>2. CASE v \notin Robots
    <3> DEFINE x == SpendAmount(side, p, q)
    <3>1. x \in Nat /\ SpendCurrency(side) \in Currencies
      BY SpendAmountType, ConstantsAssumption
    <3>2. ModifyWallet(v, SpendCurrency(side), -x, x)
      BY <1>2, <2>2 DEF PublishTrade
    <3> HIDE DEF x
    <3>3. -x \in Int /\ -x + x = 0
      BY <3>1
    <3> QED BY <3>1, <3>2, <3>3, MoveKeepsOwned
  <2> QED BY <2>1, <2>2
<1>3. ASSUME NEW o \in OrderIds, DoCancel(o)
      PROVE  Owned(u, c)' = Owned(u, c)
  <2> DEFINE x == SpendAmount(orders[o].side, orders[o].price, Surplus(orders[o]))
  <2>1. /\ orders[o].owner \in Users /\ SpendCurrency(orders[o].side) \in Currencies
        /\ x \in Nat
    <3>1. Surplus(orders[o]) \in Nat
      BY OrderParts DEF NotOverfilled, Surplus
    <3> QED BY <3>1, OrderParts, SpendAmountType
  <2>2. \/ UNCHANGED <<using, freeze>>
        \/ ModifyWallet(orders[o].owner, SpendCurrency(orders[o].side), x, -x)
    BY <1>3 DEF DoCancel
  <2> HIDE DEF x
  <2>3. -x \in Int /\ x + (-x) = 0
    BY <2>1
  <2>4. UNCHANGED <<using, freeze>> => Owned(u, c)' = Owned(u, c)
    BY DEF Owned
  <2> QED BY <2>1, <2>2, <2>3, <2>4, MoveKeepsOwned
<1>4. Owned(u, c)' = Owned(u, c)
  BY <1>2, <1>3
<1>5. RecordNet(u, c)' = RecordNet(u, c)
  BY <1>1 DEF RecordNet
<1> QED BY <1>4, <1>5 DEF Explained

\* A step that moves no money and settles no side.
LEMMA UnmovedExplained ==
  ASSUME NEW u \in Users, NEW c \in Currencies, Explained(u, c),
         UNCHANGED <<using, freeze>>,
         \A i \in RecordIds : NetOf(records'[i], u, c) = NetOf(records[i], u, c)
  PROVE  Explained(u, c)'
<1>1. RecordNet(u, c)' = RecordNet(u, c)
  BY DEF RecordNet
<1> QED BY <1>1 DEF Explained, Owned

\* A match and a failure settle nothing.
LEMMA PendingExplained ==
  ASSUME TypeOK, RecordsMatchOrders, NEW u \in Users, NEW c \in Currencies, Explained(u, c),
         \/ \E b, s \in OrderIds : DoTrade(b, s)
         \/ \E r \in RecordIds : FailBuy(r) \/ FailSell(r)
  PROVE  Explained(u, c)'
<1>1. ASSUME NEW b \in OrderIds, NEW s \in OrderIds, DoTrade(b, s)
      PROVE  \A i \in RecordIds : NetOf(records'[i], u, c) = NetOf(records[i], u, c)
  <2>1. PICK r \in RecordIds :
           /\ records[r].buyStatus = "NONE" /\ records[r].sellStatus = "NONE"
           /\ records' = [records EXCEPT ![r] = NewRecord(b, s, TradeQuantity(b, s))]
    BY <1>1 DEF DoTrade, NextRecordId, RecordsMatchOrders
  <2>2. records'[r].buyStatus = "NOT" /\ records'[r].sellStatus = "NOT"
    BY <2>1 DEF NewRecord, TypeOK
  <2>3. NetOf(records'[r], u, c) = 0 /\ NetOf(records[r], u, c) = 0
    BY <2>1, <2>2 DEF NetOf
  <2>4. \A i \in RecordIds : i # r => records'[i] = records[i]
    BY <2>1 DEF TypeOK
  <2> QED BY <2>3, <2>4
<1>2. ASSUME NEW r \in RecordIds, FailBuy(r) \/ FailSell(r)
      PROVE  \A i \in RecordIds : NetOf(records'[i], u, c) = NetOf(records[i], u, c)
  <2>1. /\ records'[r].quantity = records[r].quantity
        /\ records'[r].buyPrice = records[r].buyPrice
        /\ records'[r].sellPrice = records[r].sellPrice
        /\ records'[r].buyCharge = records[r].buyCharge
        /\ records'[r].sellCharge = records[r].sellCharge
        /\ records'[r].buyUser = records[r].buyUser
        /\ records'[r].sellUser = records[r].sellUser
        /\ records'[r].buyStatus = "SUCCESS" <=> records[r].buyStatus = "SUCCESS"
        /\ records'[r].sellStatus = "SUCCESS" <=> records[r].sellStatus = "SUCCESS"
        /\ \A i \in RecordIds : i # r => records'[i] = records[i]
    BY <1>2 DEF FailBuy, FailSell, TypeOK, Record
  <2> QED BY <2>1 DEF NetOf
<1>3. UNCHANGED <<using, freeze>>
  BY DEF DoTrade, FailBuy, FailSell
<1> QED BY <1>1, <1>2, <1>3, UnmovedExplained

\* A settled side moves what the record then says it has moved.
LEMMA SettlingExplained ==
  ASSUME TypeOK, TypeOK', RecordsMatchOrders, DeletedAreRobots,
         NEW u \in Users, NEW c \in Currencies, Explained(u, c),
         NEW r \in RecordIds, SettleBuy(r) \/ SettleSell(r)
  PROVE  Explained(u, c)'
<1> DEFINE x == NetOf(records'[r], u, c) - NetOf(records[r], u, c)
<1>0. /\ Mul(records[r].quantity, records[r].buyPrice) \in Nat
      /\ Mul(records[r].quantity, records[r].sellPrice) \in Nat
      /\ records[r].quantity \in Nat
      /\ records[r].buyCharge \in Nat /\ records[r].sellCharge \in Nat
      /\ records[r].buyUser \in Users /\ records[r].sellUser \in Users
  <2>1. /\ records[r].quantity \in Nat
        /\ records[r].buyPrice \in Nat /\ records[r].sellPrice \in Nat
    BY RecordParts
  <2> QED BY <2>1, RecordParts, MulType
<1>1. /\ \A i \in RecordIds : i # r => records'[i] = records[i]
      /\ records'[r] \in Record /\ records[r] \in Record
  BY DEF SettleBuy, SettleSell, TypeOK
<1>2. /\ NetOf(records'[r], u, c) \in Int /\ NetOf(records[r], u, c) \in Int
      /\ using[u][c] \in Int /\ freeze[u][c] \in Int
  BY <1>1, NetType DEF TypeOK
<1>3. SumTo(RecordNet(u, c)', MaxRecords) = SumTo(RecordNet(u, c), MaxRecords) + x
  BY <1>1, NetUpdate
<1>4. Owned(u, c)' = Owned(u, c) + x
  <2>1. CASE SettleBuy(r)
    <3> DEFINE v    == records[r].buyUser
    <3> DEFINE gain == records[r].quantity - records[r].buyCharge
    <3> DEFINE cost == Mul(records[r].quantity, records[r].buyPrice)
    <3>1. v \in Users /\ gain \in Int /\ cost \in Int
      BY <1>0
    <3>2. /\ records'[r] = [records[r] EXCEPT !.buyStatus = "SUCCESS"]
          /\ records[r].buyStatus \in {"NOT", "FAIL"}
      BY <2>1 DEF SettleBuy, TypeOK
    <3>3. /\ records'[r].quantity = records[r].quantity
          /\ records'[r].buyPrice = records[r].buyPrice
          /\ records'[r].sellPrice = records[r].sellPrice
          /\ records'[r].buyCharge = records[r].buyCharge
          /\ records'[r].sellCharge = records[r].sellCharge
          /\ records'[r].buyUser = records[r].buyUser
          /\ records'[r].sellUser = records[r].sellUser
          /\ records'[r].sellStatus = records[r].sellStatus
          /\ records'[r].buyStatus = "SUCCESS"
      BY <1>1, <3>2 DEF Record
    <3>4. \/ v \in Robots /\ using' = using /\ freeze' = freeze
          \/ /\ v \notin Robots
             /\ using' = [using EXCEPT ![v]["tradeCurrency"] = @ + gain]
             /\ freeze' = [freeze EXCEPT ![v]["currency"] = @ - cost]
      BY <2>1, <3>2, PaysIfDue DEF SettleBuy
    <3>5. CASE u # v \/ v \in Robots
      <4>1. NetOf(records'[r], u, c) = NetOf(records[r], u, c)
        BY <3>3, <3>5 DEF NetOf
      <4>2. using'[u][c] = using[u][c] /\ freeze'[u][c] = freeze[u][c]
        <5> HIDE DEF v, gain, cost
        <5> QED BY <3>1, <3>4, <3>5 DEF TypeOK
      <4> QED BY <1>2, <4>1, <4>2 DEF Owned
    <3>6. CASE u = v /\ v \notin Robots
      <4> DEFINE sold == records[r].sellStatus = "SUCCESS" /\ records[r].sellUser = u
      <4> DEFINE paid == Mul(records[r].quantity, records[r].sellPrice) - records[r].sellCharge
      <4>0. paid \in Int /\ records[r].quantity \in Int
        BY <1>0
      <4>1. CASE c = "currency"
        <5>1. /\ NetOf(records[r], u, c) = (IF sold THEN paid ELSE 0) - 0
              /\ NetOf(records'[r], u, c) = (IF sold THEN paid ELSE 0) - cost
          BY <3>2, <3>3, <3>6, <4>1 DEF NetOf
        <5>2. using'[u][c] = using[u][c] /\ freeze'[u][c] = freeze[u][c] - cost
          <6> HIDE DEF v, gain, cost
          <6> QED BY <3>1, <3>4, <3>6, <4>1 DEF TypeOK, Currencies
        <5> HIDE DEF v, gain, cost, sold, paid
        <5> QED BY <1>2, <3>1, <4>0, <5>1, <5>2 DEF Owned
      <4>2. CASE c = "tradeCurrency"
        <5>1. /\ NetOf(records[r], u, c) = 0 - (IF sold THEN records[r].quantity ELSE 0)
              /\ NetOf(records'[r], u, c) = gain - (IF sold THEN records[r].quantity ELSE 0)
          BY <3>2, <3>3, <3>6, <4>2 DEF NetOf
        <5>2. using'[u][c] = using[u][c] + gain /\ freeze'[u][c] = freeze[u][c]
          <6> HIDE DEF v, gain, cost
          <6> QED BY <3>1, <3>4, <3>6, <4>2 DEF TypeOK, Currencies
        <5> HIDE DEF v, gain, cost, sold, paid
        <5> QED BY <1>2, <3>1, <4>0, <5>1, <5>2 DEF Owned
      <4> QED BY <4>1, <4>2 DEF Currencies
    <3> QED BY <3>5, <3>6
  <2>2. CASE SettleSell(r)
    <3> DEFINE v    == records[r].sellUser
    <3> DEFINE gain == Mul(records[r].quantity, records[r].sellPrice) - records[r].sellCharge
    <3> DEFINE cost == records[r].quantity
    <3>1. v \in Users /\ gain \in Int /\ cost \in Int
      BY <1>0
    <3>2. /\ records'[r] = [records[r] EXCEPT !.sellStatus = "SUCCESS"]
          /\ records[r].sellStatus \in {"NOT", "FAIL"} /\ records[r].buyStatus # "NONE"
      BY <2>2 DEF SettleSell, TypeOK, RecordsMatchOrders
    <3>3. /\ records'[r].quantity = records[r].quantity
          /\ records'[r].buyPrice = records[r].buyPrice
          /\ records'[r].sellPrice = records[r].sellPrice
          /\ records'[r].buyCharge = records[r].buyCharge
          /\ records'[r].sellCharge = records[r].sellCharge
          /\ records'[r].buyUser = records[r].buyUser
          /\ records'[r].sellUser = records[r].sellUser
          /\ records'[r].buyStatus = records[r].buyStatus
          /\ records'[r].sellStatus = "SUCCESS"
      BY <1>1, <3>2 DEF Record
    <3>4. \/ v \in Robots /\ using' = using /\ freeze' = freeze
          \/ /\ v \notin Robots
             /\ freeze' = [freeze EXCEPT ![v]["tradeCurrency"] = @ - cost]
             /\ using' = [using EXCEPT ![v]["currency"] = @ + gain]
      BY <2>2, <3>2, PaysIfDue DEF SettleSell
    <3>5. CASE u # v \/ v \in Robots
      <4>1. NetOf(records'[r], u, c) = NetOf(records[r], u, c)
        BY <3>3, <3>5 DEF NetOf
      <4>2. using'[u][c] = using[u][c] /\ freeze'[u][c] = freeze[u][c]
        <5> HIDE DEF v, gain, cost
        <5> QED BY <3>1, <3>4, <3>5 DEF TypeOK
      <4> QED BY <1>2, <4>1, <4>2 DEF Owned
    <3>6. CASE u = v /\ v \notin Robots
      <4> DEFINE bought == records[r].buyStatus = "SUCCESS" /\ records[r].buyUser = u
      <4> DEFINE spent  == Mul(records[r].quantity, records[r].buyPrice)
      <4> DEFINE got    == records[r].quantity - records[r].buyCharge
      <4>0. spent \in Int /\ got \in Int
        BY <1>0
      <4>1. CASE c = "currency"
        <5>1. /\ NetOf(records[r], u, c) = 0 - (IF bought THEN spent ELSE 0)
              /\ NetOf(records'[r], u, c) = gain - (IF bought THEN spent ELSE 0)
          BY <3>2, <3>3, <3>6, <4>1 DEF NetOf
        <5>2. using'[u][c] = using[u][c] + gain /\ freeze'[u][c] = freeze[u][c]
          <6> HIDE DEF v, gain, cost
          <6> QED BY <3>1, <3>4, <3>6, <4>1 DEF TypeOK, Currencies
        <5> HIDE DEF v, gain, cost, bought, spent, got
        <5> QED BY <1>2, <3>1, <4>0, <5>1, <5>2 DEF Owned
      <4>2. CASE c = "tradeCurrency"
        <5>1. /\ NetOf(records[r], u, c) = (IF bought THEN got ELSE 0) - 0
              /\ NetOf(records'[r], u, c) = (IF bought THEN got ELSE 0) - cost
          BY <3>2, <3>3, <3>6, <4>2 DEF NetOf
        <5>2. using'[u][c] = using[u][c] /\ freeze'[u][c] = freeze[u][c] - cost
          <6> HIDE DEF v, gain, cost
          <6> QED BY <3>1, <3>4, <3>6, <4>2 DEF TypeOK, Currencies
        <5> HIDE DEF v, gain, cost, bought, spent, got
        <5> QED BY <1>2, <3>1, <4>0, <5>1, <5>2 DEF Owned
      <4> QED BY <4>1, <4>2 DEF Currencies
    <3> QED BY <3>5, <3>6
  <2> QED BY <2>1, <2>2
<1>5. x \in Int
  BY <1>2
<1> HIDE DEF x
<1> QED BY <1>3, <1>4, <1>5, StaysExplained

-----------------------------------------------------------------------------
(* What an order has traded.                                               *)

FilledRight(o) ==
    /\ orders[o].tradeQuantity = SumTo(RecordFill(o), MaxRecords)
    /\ Open(orders[o]) => Surplus(orders[o]) > 0

\* No record trades an order that has not been published.
LEMMA UnissuedUnfilled ==
  ASSUME TypeOK, RecordsMatchOrders, NEW o \in OrderIds, orders[o].status = "NONE"
  PROVE  SumTo(RecordFill(o), MaxRecords) = 0
<1>1. \A r \in RecordIds : FillOf(records[r], o) = 0
  BY RecordParts DEF FillOf, RecordsMatchOrders
<1>2. /\ RecordFill(o) \in [1..MaxRecords -> Int]
      /\ \A r \in 1..MaxRecords : RecordFill(o)[r] = 0
  BY <1>1 DEF RecordFill, RecordIds
<1>3. MaxRecords \in Nat
  BY ConstantsAssumption
<1> QED BY <1>2, <1>3, SumZero

\* A match adds what it trades to both orders and to their records.
LEMMA TradeFilled ==
  ASSUME TypeOK, TypeOK', NEW b \in OrderIds, NEW s \in OrderIds, DoTrade(b, s),
         NEW o \in OrderIds, FilledRight(o)
  PROVE  FilledRight(o)'
<1> DEFINE q == TradeQuantity(b, s)
<1> DEFINE rec == NewRecord(b, s, q)
<1>1. /\ q \in Nat /\ b # s /\ orders[o] \in Order
      /\ orders[o].tradeQuantity \in Int /\ SumTo(RecordFill(o), MaxRecords) \in Int
  BY TradeQuantityType, OrderParts, RecordSumsType DEF DoTrade, CanTrade
<1>2. PICK r \in RecordIds : /\ records[r].buyStatus = "NONE"
                             /\ records' = [records EXCEPT ![r] = rec]
  BY DEF DoTrade, NextRecordId
<1>3. rec.quantity = q /\ rec.buyStatus = "NOT" /\ rec.buy = b /\ rec.sell = s
  BY DEF NewRecord
<1>4. /\ o \in {b, s} => orders'[o] = Filled(orders[o], q)
      /\ o \notin {b, s} => orders'[o] = orders[o]
  BY <1>1 DEF DoTrade, TypeOK
<1> HIDE DEF q, rec
<1>5. /\ \A i \in RecordIds : i # r => records'[i] = records[i]
      /\ records'[r] = rec
  BY <1>2 DEF TypeOK
<1>6. FillOf(records[r], o) = 0 /\ FillOf(rec, o) = IF o \in {b, s} THEN q ELSE 0
  BY <1>2, <1>3 DEF FillOf
<1>7. SumTo(RecordFill(o)', MaxRecords)
        = SumTo(RecordFill(o), MaxRecords) + (FillOf(rec, o) - FillOf(records[r], o))
  BY <1>5, FillUpdate
<1>8. CASE o \in {b, s}
  <2>1. /\ orders'[o].tradeQuantity = orders[o].tradeQuantity + q
        /\ orders'[o].quantity = orders[o].quantity
        /\ orders'[o].status = IF \/ orders[o].owner \in Robots
                                  \/ orders[o].quantity <= orders[o].tradeQuantity + q
                               THEN "SUCCESS" ELSE orders[o].status
    BY <1>1, <1>4, <1>8 DEF Filled, Order
  <2>2. orders'[o].tradeQuantity = SumTo(RecordFill(o)', MaxRecords)
    BY <1>1, <1>6, <1>7, <1>8, <2>1 DEF FilledRight
  <2>3. Open(orders'[o]) => Surplus(orders'[o]) > 0
    BY <1>1, <2>1, OrderParts DEF Open, Surplus
  <2> QED BY <2>2, <2>3 DEF FilledRight
<1>9. CASE o \notin {b, s}
  BY <1>1, <1>4, <1>6, <1>7, <1>9 DEF FilledRight
<1> QED BY <1>8, <1>9

\* Any other step leaves what has been traded as it is.
LEMMA OtherFilled ==
  ASSUME TypeOK, TypeOK', RecordsMatchOrders, NEW o \in OrderIds, FilledRight(o),
         \/ \E u \in Users, side \in Sides, p \in Prices, q \in Quantities :
              PublishTrade(u, side, p, q)
         \/ \E i \in OrderIds : DoCancel(i) \/ MarkError(i)
         \/ ErrorModify \/ DeleteRobotCancel \/ SettleNext \/ UNCHANGED vars
  PROVE  FilledRight(o)'
<1>1. \A r \in RecordIds : FillOf(records'[r], o) = FillOf(records[r], o)
  <2>1. ASSUME NEW r \in RecordIds, SettleBuy(r) \/ SettleSell(r) \/ FailBuy(r) \/ FailSell(r)
        PROVE  \A i \in RecordIds : FillOf(records'[i], o) = FillOf(records[i], o)
    <3>1. /\ records'[r].quantity = records[r].quantity
          /\ records'[r].buy = records[r].buy /\ records'[r].sell = records[r].sell
          /\ records'[r].buyStatus = "NONE" <=> records[r].buyStatus = "NONE"
          /\ \A i \in RecordIds : i # r => records'[i] = records[i]
      BY <2>1 DEF SettleBuy, SettleSell, FailBuy, FailSell, TypeOK, Record
    <3> QED BY <3>1 DEF FillOf
  <2>2. CASE records' = records
    BY <2>2
  <2>3. records' = records \/ SettleNext
    BY DEF PublishTrade, DoCancel, MarkError, ErrorModify, DeleteRobotCancel, vars
  <2> QED BY <2>1, <2>2, <2>3 DEF SettleNext
<1>2. RecordFill(o)' = RecordFill(o)
  BY <1>1 DEF RecordFill
<1>3. orders[o] \in Order
  BY DEF TypeOK
<1>4. ASSUME \/ ErrorModify \/ DeleteRobotCancel \/ SettleNext \/ UNCHANGED vars
             \/ \E i \in OrderIds : DoCancel(i) \/ MarkError(i)
      PROVE  FilledRight(o)'
  <2>1. \/ orders'[o] = orders[o]
        \/ \E st \in {"CANCEL", "DELETED"} : orders'[o] = [orders[o] EXCEPT !.status = st]
        \/ /\ Open(orders[o])
           /\ \E st \in {"WAIT", "ERROR"} : orders'[o] = [orders[o] EXCEPT !.status = st]
    BY <1>4 DEF ErrorModify, DeleteRobotCancel, DoCancel, MarkError, SettleNext, SettleBuy,
                SettleSell, FailBuy, FailSell, vars, TypeOK, Open
  <2>2. /\ orders'[o].tradeQuantity = orders[o].tradeQuantity
        /\ orders'[o].quantity = orders[o].quantity
        /\ Open(orders'[o]) => Open(orders[o])
    BY <1>3, <2>1 DEF Order, Open
  <2> QED BY <1>2, <2>2 DEF FilledRight, Surplus
<1>5. ASSUME NEW u \in Users, NEW side \in Sides, NEW p \in Prices, NEW q \in Quantities,
             PublishTrade(u, side, p, q)
      PROVE  FilledRight(o)'
  <2>1. CASE orders'[o] = orders[o]
    BY <1>2, <2>1 DEF FilledRight
  <2>2. CASE orders'[o] # orders[o]
    <3>1. /\ orders[o].status = "NONE"
          /\ orders'[o].tradeQuantity = 0 /\ orders'[o].quantity = q
      BY <1>5, <2>2 DEF PublishTrade, NextOrderId, TypeOK
    <3>2. SumTo(RecordFill(o)', MaxRecords) = 0
      BY <1>2, <3>1, UnissuedUnfilled
    <3>3. q \in Nat \ {0}
      BY ConstantsAssumption
    <3> QED BY <3>1, <3>2, <3>3 DEF FilledRight, Surplus
  <2> QED BY <2>1, <2>2
<1> QED BY <1>4, <1>5

-----------------------------------------------------------------------------
(* The invariant.                                                          *)

Bookkeeping ==
    /\ Accounting
    /\ \A u \in Users, c \in Currencies : Explained(u, c)
    /\ \A o \in OrderIds : FilledRight(o)

LEMMA InitBookkeeping == Init => Bookkeeping
<1> SUFFICES ASSUME Init PROVE Bookkeeping
  OBVIOUS
<1>1. Accounting /\ TypeOK /\ RecordsMatchOrders
  BY InitAccounting DEF Accounting
<1>2. ASSUME NEW u \in Users, NEW c \in Currencies PROVE Explained(u, c)
  <2>1. /\ RecordNet(u, c) \in [1..MaxRecords -> Int]
        /\ \A r \in 1..MaxRecords : RecordNet(u, c)[r] = 0
    <3>1. \A r \in RecordIds : NetOf(records[r], u, c) = 0
      BY DEF Init, NoRecord, NetOf
    <3> QED BY <3>1 DEF RecordNet, RecordIds
  <2>2. MaxRecords \in Nat /\ Deposit[u][c] \in Nat
    BY ConstantsAssumption
  <2>3. SumTo(RecordNet(u, c), MaxRecords) = 0
    BY <2>1, <2>2, SumZero
  <2>4. using[u][c] = Deposit[u][c] /\ freeze[u][c] = 0
    BY DEF Init
  <2> QED BY <2>2, <2>3, <2>4 DEF Explained, Owned
<1>3. ASSUME NEW o \in OrderIds PROVE FilledRight(o)
  <2>1. orders[o].status = "NONE" /\ orders[o].tradeQuantity = 0
    BY DEF Init, NoOrder
  <2> QED BY <1>1, <2>1, UnissuedUnfilled DEF FilledRight, Open
<1> QED BY <1>1, <1>2, <1>3 DEF Bookkeeping

LEMMA NextBookkeeping == Bookkeeping /\ [Next]_vars => Bookkeeping'
<1> SUFFICES ASSUME Bookkeeping, [Next]_vars PROVE Bookkeeping'
  OBVIOUS
<1>1. /\ Accounting' /\ TypeOK' /\ TypeOK
      /\ RecordsMatchOrders /\ DeletedAreRobots /\ NotOverfilled
  BY NextAccounting DEF Bookkeeping, Accounting
<1>2. ASSUME NEW u \in Users, NEW c \in Currencies PROVE Explained(u, c)'
  <2>0. Explained(u, c)
    BY DEF Bookkeeping
  <2>1. CASE \/ \E v \in Users, side \in Sides, p \in Prices, q \in Quantities :
                  PublishTrade(v, side, p, q)
             \/ \E o \in OrderIds : DoCancel(o)
    BY <1>1, <2>0, <2>1, FreezingExplained
  <2>2. CASE \/ \E b, s \in OrderIds : DoTrade(b, s)
             \/ \E r \in RecordIds : FailBuy(r) \/ FailSell(r)
    BY <1>1, <2>0, <2>2, PendingExplained
  <2>3. CASE \E r \in RecordIds : SettleBuy(r) \/ SettleSell(r)
    BY <1>1, <2>0, <2>3, SettlingExplained
  <2>4. CASE ErrorModify \/ DeleteRobotCancel \/ UNCHANGED vars \/ \E o \in OrderIds : MarkError(o)
    <3>1. UNCHANGED <<using, freeze>> /\ records' = records
      BY <2>4 DEF ErrorModify, DeleteRobotCancel, MarkError, vars
    <3> QED BY <2>0, <3>1, UnmovedExplained
  <2> QED BY <2>1, <2>2, <2>3, <2>4 DEF Next, OrderNext, SettleNext
<1>3. ASSUME NEW o \in OrderIds PROVE FilledRight(o)'
  <2>0. FilledRight(o)
    BY DEF Bookkeeping
  <2>1. CASE \E b, s \in OrderIds : DoTrade(b, s)
    BY <1>1, <2>0, <2>1, TradeFilled
  <2>2. CASE \/ \E u \in Users, side \in Sides, p \in Prices, q \in Quantities :
                  PublishTrade(u, side, p, q)
             \/ \E i \in OrderIds : DoCancel(i) \/ MarkError(i)
             \/ ErrorModify \/ DeleteRobotCancel \/ SettleNext \/ UNCHANGED vars
    BY <1>1, <2>0, <2>2, OtherFilled
  <2> QED BY <2>1, <2>2 DEF Next, OrderNext
<1>4. (\A u \in Users, c \in Currencies : Explained(u, c))'
  BY <1>2
<1>5. (\A o \in OrderIds : FilledRight(o))'
  BY <1>3
<1> QED BY <1>1, <1>4, <1>5 DEF Bookkeeping

\* What a user owns is what was deposited and what the settled sides of the
\* user's trades have moved (modifyWallet, tradeBuyWallet, tradeSellWallet).
THEOREM BalanceIsExplained == Spec => []BalanceExplained
<1>1. Bookkeeping => BalanceExplained
  BY DEF Bookkeeping, BalanceExplained, Explained, Owned
<1> QED BY <1>1, InitBookkeeping, NextBookkeeping, PTL DEF Spec

\* An order has traded what its records say, never more than it offered, and
\* one that may still be matched has something left (doTrade, setTradeStatus).
THEOREM OrdersFilledByRecords == Spec => []FilledByRecords
<1>1. Bookkeeping => FilledByRecords
  BY DEF Bookkeeping, Accounting, NotOverfilled, FilledByRecords, FilledRight
<1> QED BY <1>1, InitBookkeeping, NextBookkeeping, PTL DEF Spec
=============================================================================
