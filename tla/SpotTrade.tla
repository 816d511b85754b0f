----------------------------- MODULE SpotTrade -----------------------------
(***************************************************************************)
(* Spot trading of one currency pair at the level of the database          *)
(* transactions: publishing an order freezes what it may spend, a match    *)
(* fills two orders and leaves a trade record, each side of the record is  *)
(* settled against the wallets later, a cancellation gives back what the   *)
(* unfilled part still holds.  Each action is one transaction of           *)
(* TrusteeServiceImpl, TradeServiceImpl or Consumer; what happens between  *)
(* two of them (locks, stale reads, retries, messages) is in Matcher and   *)
(* Settlement, which implement this module.                                *)
(*                                                                         *)
(* Amounts are integers: one is the smallest amount a wallet holds.        *)
(***************************************************************************)
EXTENDS IdSums

CONSTANTS
    Users,       \* who publishes orders, the platform's robots included
    Robots,      \* the users whose orders move no wallet
    White,       \* the users who pay no fee
    Prices,      \* the prices an order may name
    Quantities,  \* the quantities an order may name
    Unit,        \* price * quantity is worth (price * quantity) \div Unit
    BuyRate, SellRate, RateScale,  \* fees are Rate/RateScale of the proceeds
    Deposit,     \* what each user holds of each currency at the start
    MaxOrders,   \* bound on the orders published
    MaxRecords   \* bound on the trades made

VARIABLES
    using,    \* using[u][c]: what u may spend of currency c
    freeze,   \* freeze[u][c]: what is held for u's orders
    orders,   \* t_trustee, by id
    records   \* t_trade_record, by id

vars == <<using, freeze, orders, records>>

\* The pair trades tradeCurrency and is quoted in currency.
Currencies == {"currency", "tradeCurrency"}
OrderIds   == 1..MaxOrders
RecordIds  == 1..MaxRecords
Sides      == {"BUY", "SELL"}

\* "NONE": the id has not been issued, "DELETED": the row is gone.
OrderStatus  == {"NONE", "WAIT", "SUCCESS", "CANCEL", "ERROR", "DELETED"}
WalletStatus == {"NONE", "NOT", "SUCCESS", "FAIL"}

Order == [status : OrderStatus, owner : Users, side : Sides,
          price : Nat, quantity : Nat, tradeQuantity : Nat]

Record == [buy : OrderIds, sell : OrderIds, buyUser : Users, sellUser : Users,
           quantity : Nat, buyPrice : Nat, sellPrice : Nat,
           buyCharge : Nat, sellCharge : Nat,
           buyStatus : WalletStatus, sellStatus : WalletStatus]

ASSUME ConstantsAssumption ==
    /\ Robots \subseteq Users /\ White \subseteq Users /\ Users # {}
    /\ Prices \subseteq Nat \ {0} /\ Quantities \subseteq Nat \ {0}
    /\ Unit \in Nat \ {0} /\ RateScale \in Nat \ {0}
    /\ BuyRate \in 0..RateScale /\ SellRate \in 0..RateScale
    /\ MaxOrders \in Nat \ {0} /\ MaxRecords \in Nat
    /\ Deposit \in [Users -> [Currencies -> Nat]]

TypeOK ==
    /\ using   \in [Users -> [Currencies -> Nat]]
    /\ freeze  \in [Users -> [Currencies -> Nat]]
    /\ orders  \in [OrderIds -> Order]
    /\ records \in [RecordIds -> Record]

-----------------------------------------------------------------------------
(* Amounts.  Every product is rounded down.                                *)

\* (Mutant.)  Every product is rounded up.
MulRoundedUp(a, b) == (a * b + Unit - 1) \div Unit

Mul(a, b) == (a * b) \div Unit

BuyFee(u, q)     == IF u \in White THEN 0 ELSE (q * BuyRate) \div RateScale
SellFee(u, q, p) == IF u \in White THEN 0
                    ELSE (q * p * SellRate) \div (Unit * RateScale)

\* What an order spends, and in which currency.
SpendCurrency(side)  == IF side = "BUY" THEN "currency" ELSE "tradeCurrency"
SpendAmount(side, p, q) == IF side = "BUY" THEN Mul(q, p) ELSE q

Surplus(order) == order.quantity - order.tradeQuantity

\* (Mutant.)  The update is not guarded.
ModifyUnguarded(u, c, changeUsing, changeFreeze) == TRUE

\* The guarded update of one wallet row: it matches no row, and the
\* transaction fails, unless both columns stay at zero or above.
CanModify(u, c, changeUsing, changeFreeze) ==
    /\ using[u][c] + changeUsing >= 0
    /\ freeze[u][c] + changeFreeze >= 0

ModifyWallet(u, c, changeUsing, changeFreeze) ==
    /\ CanModify(u, c, changeUsing, changeFreeze)
    /\ using'  = [using  EXCEPT ![u][c] = @ + changeUsing]
    /\ freeze' = [freeze EXCEPT ![u][c] = @ + changeFreeze]

-----------------------------------------------------------------------------
NoOrder == [status |-> "NONE", owner |-> CHOOSE u \in Users : TRUE,
            side |-> "BUY", price |-> 0, quantity |-> 0, tradeQuantity |-> 0]

NoRecord == [buy |-> 1, sell |-> 1, buyUser |-> CHOOSE u \in Users : TRUE,
             sellUser |-> CHOOSE u \in Users : TRUE, quantity |-> 0,
             buyPrice |-> 0, sellPrice |-> 0, buyCharge |-> 0, sellCharge |-> 0,
             buyStatus |-> "NONE", sellStatus |-> "NONE"]

Init ==
    /\ using   = Deposit
    /\ freeze  = [u \in Users |-> [c \in Currencies |-> 0]]
    /\ orders  = [o \in OrderIds |-> NoOrder]
    /\ records = [r \in RecordIds |-> NoRecord]

\* The id tables hand out ids in order.
NextOrderId(o)  == /\ orders[o].status = "NONE"
                   /\ \A i \in 1..(o - 1) : orders[i].status # "NONE"
NextRecordId(r) == /\ records[r].buyStatus = "NONE"
                   /\ \A i \in 1..(r - 1) : records[i].buyStatus # "NONE"

\* A user publishes an order; a robot's order freezes nothing.
PublishTrade(u, side, p, q) ==
    /\ \E o \in OrderIds :
         /\ NextOrderId(o)
         /\ orders' = [orders EXCEPT ![o] =
                [status |-> "WAIT", owner |-> u, side |-> side, price |-> p,
                 quantity |-> q, tradeQuantity |-> 0]]
    /\ IF u \in Robots
       THEN UNCHANGED <<using, freeze>>
       ELSE ModifyWallet(u, SpendCurrency(side), -SpendAmount(side, p, q),
                         SpendAmount(side, p, q))
    /\ UNCHANGED records

\* The trade record of a match of q between the orders b and s.
NewRecord(b, s, q) ==
    [buy |-> b, sell |-> s,
     buyUser |-> orders[b].owner, sellUser |-> orders[s].owner,
     quantity |-> q, buyPrice |-> orders[b].price, sellPrice |-> orders[s].price,
     buyCharge |-> BuyFee(orders[b].owner, q),
     sellCharge |-> SellFee(orders[s].owner, q, orders[s].price),
     buyStatus |-> "NOT", sellStatus |-> "NOT"]

\* (Mutant.)  An order that has been filled exactly stays open.
FilledTooLate(order, q) ==
    LET traded == order.tradeQuantity + q
    IN  [order EXCEPT !.tradeQuantity = traded,
                      !.status = IF order.owner \in Robots \/ order.quantity < traded
                                 THEN "SUCCESS" ELSE @]

\* The order after q more of it has been traded.  A robot's order is done
\* after one trade.
Filled(order, q) ==
    LET traded == order.tradeQuantity + q
    IN  [order EXCEPT !.tradeQuantity = traded,
                      !.status = IF order.owner \in Robots \/ order.quantity <= traded
                                 THEN "SUCCESS" ELSE @]

CanTrade(b, s) ==
    /\ orders[b].status = "WAIT" /\ orders[b].side = "BUY"
    /\ orders[s].status = "WAIT" /\ orders[s].side = "SELL"
    /\ orders[b].price >= orders[s].price

TradeQuantity(b, s) == IF Surplus(orders[b]) >= Surplus(orders[s])
                       THEN Surplus(orders[s]) ELSE Surplus(orders[b])

\* The match of a buy and a sell order: the smaller remainder is traded.
DoTrade(b, s) ==
    /\ CanTrade(b, s)
    /\ TradeQuantity(b, s) > 0
    /\ \E r \in RecordIds :
         /\ NextRecordId(r)
         /\ records' = [records EXCEPT ![r] = NewRecord(b, s, TradeQuantity(b, s))]
    /\ orders' = [orders EXCEPT ![b] = Filled(@, TradeQuantity(b, s)),
                                ![s] = Filled(@, TradeQuantity(b, s))]
    /\ UNCHANGED <<using, freeze>>

\* (Mutant.)  The cancellation gives back the whole order.
CancelWholeOrder(o) ==
    /\ orders[o].status \in {"WAIT", "ERROR"}
    /\ LET order  == orders[o]
           amount == SpendAmount(order.side, order.price, order.quantity)
       IN  IF order.owner \in Robots \/ amount <= 0
           THEN UNCHANGED <<using, freeze>>
           ELSE ModifyWallet(order.owner, SpendCurrency(order.side), amount, -amount)
    /\ orders' = [orders EXCEPT ![o].status = "CANCEL"]
    /\ UNCHANGED records

\* The cancellation of an order gives back what it has not spent.
DoCancel(o) ==
    /\ orders[o].status \in {"WAIT", "ERROR"}
    /\ LET order  == orders[o]
           amount == SpendAmount(order.side, order.price, Surplus(order))
       IN  IF order.owner \in Robots \/ amount <= 0
           THEN UNCHANGED <<using, freeze>>
           ELSE ModifyWallet(order.owner, SpendCurrency(order.side), amount, -amount)
    /\ orders' = [orders EXCEPT ![o].status = "CANCEL"]
    /\ UNCHANGED records

\* An order whose match keeps failing is set aside ...
MarkError(o) ==
    /\ orders[o].status = "WAIT"
    /\ orders' = [orders EXCEPT ![o].status = "ERROR"]
    /\ UNCHANGED <<using, freeze, records>>

\* ... until an administrator puts all such orders back.
ErrorModify ==
    /\ \E o \in OrderIds : orders[o].status = "ERROR"
    /\ orders' = [o \in OrderIds |->
                    IF orders[o].status = "ERROR"
                    THEN [orders[o] EXCEPT !.status = "WAIT"] ELSE orders[o]]
    /\ UNCHANGED <<using, freeze, records>>

\* The nightly clean-up drops the robots' cancelled orders that traded nothing.
Deletable(order) == /\ order.status = "CANCEL" /\ order.owner \in Robots
                    /\ order.tradeQuantity = 0

DeleteRobotCancel ==
    /\ \E o \in OrderIds : Deletable(orders[o])
    /\ orders' = [o \in OrderIds |->
                    IF Deletable(orders[o])
                    THEN [orders[o] EXCEPT !.status = "DELETED"] ELSE orders[o]]
    /\ UNCHANGED <<using, freeze, records>>

\* A side is settled against the wallet if its order exists and is no robot's.
MovesMoney(o) == orders[o].status # "DELETED" /\ orders[o].owner \notin Robots

\* (Mutant.)  The buyer pays the seller's price.
SettleAtSellPrice(r) ==
    /\ records[r].buyStatus \in {"NOT", "FAIL"}
    /\ LET rec  == records[r]
           gain == rec.quantity - rec.buyCharge
           cost == Mul(rec.quantity, rec.sellPrice)
       IN  IF MovesMoney(rec.buy)
           THEN /\ CanModify(rec.buyUser, "tradeCurrency", gain, 0)
                /\ CanModify(rec.buyUser, "currency", 0, -cost)
                /\ using'  = [using  EXCEPT ![rec.buyUser]["tradeCurrency"] = @ + gain]
                /\ freeze' = [freeze EXCEPT ![rec.buyUser]["currency"] = @ - cost]
           ELSE UNCHANGED <<using, freeze>>
    /\ records' = [records EXCEPT ![r].buyStatus = "SUCCESS"]
    /\ UNCHANGED orders

\* The buyer gets the quantity less the fee and pays the price of the own
\* order out of what was frozen.  Both rows, or none.
SettleBuy(r) ==
    /\ records[r].buyStatus \in {"NOT", "FAIL"}
    /\ LET rec  == records[r]
           gain == rec.quantity - rec.buyCharge
           cost == Mul(rec.quantity, rec.buyPrice)
       IN  IF MovesMoney(rec.buy)
           THEN /\ CanModify(rec.buyUser, "tradeCurrency", gain, 0)
                /\ CanModify(rec.buyUser, "currency", 0, -cost)
                /\ using'  = [using  EXCEPT ![rec.buyUser]["tradeCurrency"] = @ + gain]
                /\ freeze' = [freeze EXCEPT ![rec.buyUser]["currency"] = @ - cost]
           ELSE UNCHANGED <<using, freeze>>
    /\ records' = [records EXCEPT ![r].buyStatus = "SUCCESS"]
    /\ UNCHANGED orders

\* (Mutant.)  A side that is settled already is settled again.
SettleSellAgain(r) ==
    /\ records[r].sellStatus # "NONE"
    /\ LET rec  == records[r]
           gain == Mul(rec.quantity, rec.sellPrice) - rec.sellCharge
           cost == rec.quantity
       IN  IF MovesMoney(rec.sell)
           THEN /\ CanModify(rec.sellUser, "tradeCurrency", 0, -cost)
                /\ CanModify(rec.sellUser, "currency", gain, 0)
                /\ freeze' = [freeze EXCEPT ![rec.sellUser]["tradeCurrency"] = @ - cost]
                /\ using'  = [using  EXCEPT ![rec.sellUser]["currency"] = @ + gain]
           ELSE UNCHANGED <<using, freeze>>
    /\ records' = [records EXCEPT ![r].sellStatus = "SUCCESS"]
    /\ UNCHANGED orders

\* The seller pays the quantity out of what was frozen and gets the price of
\* the own order less the fee.
SettleSell(r) ==
    /\ records[r].sellStatus \in {"NOT", "FAIL"}
    /\ LET rec  == records[r]
           gain == Mul(rec.quantity, rec.sellPrice) - rec.sellCharge
           cost == rec.quantity
       IN  IF MovesMoney(rec.sell)
           THEN /\ CanModify(rec.sellUser, "tradeCurrency", 0, -cost)
                /\ CanModify(rec.sellUser, "currency", gain, 0)
                /\ freeze' = [freeze EXCEPT ![rec.sellUser]["tradeCurrency"] = @ - cost]
                /\ using'  = [using  EXCEPT ![rec.sellUser]["currency"] = @ + gain]
           ELSE UNCHANGED <<using, freeze>>
    /\ records' = [records EXCEPT ![r].sellStatus = "SUCCESS"]
    /\ UNCHANGED orders

\* The consumer gives a side up after repeated errors.
FailBuy(r) ==
    /\ records[r].buyStatus \in {"NOT", "FAIL"}
    /\ records' = [records EXCEPT ![r].buyStatus = "FAIL"]
    /\ UNCHANGED <<using, freeze, orders>>

FailSell(r) ==
    /\ records[r].sellStatus \in {"NOT", "FAIL"}
    /\ records' = [records EXCEPT ![r].sellStatus = "FAIL"]
    /\ UNCHANGED <<using, freeze, orders>>

\* What happens to orders, and what happens to the records of their trades.
OrderNext ==
    \/ \E u \in Users, side \in Sides, p \in Prices, q \in Quantities :
         PublishTrade(u, side, p, q)
    \/ \E b, s \in OrderIds : DoTrade(b, s)
    \/ \E o \in OrderIds : DoCancel(o) \/ MarkError(o)
    \/ ErrorModify
    \/ DeleteRobotCancel

SettleNext ==
    \E r \in RecordIds : SettleBuy(r) \/ SettleSell(r) \/ FailBuy(r) \/ FailSell(r)

Next == OrderNext \/ SettleNext

Spec == Init /\ [][Next]_vars
-----------------------------------------------------------------------------
(* What the wallets owe, per user and currency.                            *)

Open(order) == order.status \in {"WAIT", "ERROR"}
Unsettled(status) == status \in {"NOT", "FAIL"}

\* What an order holds frozen of u's currency c.
HoldOf(order, u, c) ==
    IF /\ Open(order) /\ order.owner = u /\ u \notin Robots
       /\ SpendCurrency(order.side) = c
    THEN SpendAmount(order.side, order.price, Surplus(order))
    ELSE 0

\* What a record has yet to take from the frozen amount of u in currency c.
DueOf(rec, u, c) ==
    IF u \in Robots THEN 0
    ELSE IF c = "currency"
    THEN IF Unsettled(rec.buyStatus) /\ rec.buyUser = u
         THEN Mul(rec.quantity, rec.buyPrice) ELSE 0
    ELSE IF Unsettled(rec.sellStatus) /\ rec.sellUser = u
         THEN rec.quantity ELSE 0

OrderHold(u, c)  == [o \in OrderIds  |-> HoldOf(orders[o], u, c)]
RecordHold(u, c) == [r \in RecordIds |-> DueOf(records[r], u, c)]

Held(u, c) == SumTo(OrderHold(u, c), MaxOrders) + SumTo(RecordHold(u, c), MaxRecords)

\* What a trade may strand: the order's cost was rounded down as a whole when it
\* was frozen, and the trade's and the remainder's are rounded down separately.
StrandOf(rec, u, c) ==
    IF /\ rec.buyStatus # "NONE" /\ rec.buyUser = u /\ u \notin Robots
       /\ c = "currency" /\ (rec.quantity * rec.buyPrice) % Unit # 0
    THEN 1 ELSE 0

RecordStrand(u, c) == [r \in RecordIds |-> StrandOf(records[r], u, c)]

Stranded(u, c) == SumTo(RecordStrand(u, c), MaxRecords)

\* What a record has added to what u owns of currency c so far.
NetOf(rec, u, c) ==
    LET bought == rec.buyStatus = "SUCCESS" /\ rec.buyUser = u
        sold   == rec.sellStatus = "SUCCESS" /\ rec.sellUser = u
    IN  IF u \in Robots THEN 0
        ELSE IF c = "currency"
        THEN (IF sold THEN Mul(rec.quantity, rec.sellPrice) - rec.sellCharge ELSE 0)
             - (IF bought THEN Mul(rec.quantity, rec.buyPrice) ELSE 0)
        ELSE (IF bought THEN rec.quantity - rec.buyCharge ELSE 0)
             - (IF sold THEN rec.quantity ELSE 0)

\* What a record has traded of order o.
FillOf(rec, o) ==
    IF rec.buyStatus # "NONE" /\ (rec.buy = o \/ rec.sell = o) THEN rec.quantity ELSE 0

RecordNet(u, c) == [r \in RecordIds |-> NetOf(records[r], u, c)]
RecordFill(o)   == [r \in RecordIds |-> FillOf(records[r], o)]

\* The frozen amount of every wallet covers the open orders and the sides of
\* trades not settled yet: what publishTrade froze is neither spent twice nor
\* given back by a cancellation before the records made from it are paid.
FreezeBacked == \A u \in Users, c \in Currencies : freeze[u][c] >= Held(u, c)

\* Nothing else stays frozen for ever than what rounding strands: at most one
\* smallest amount for each trade whose cost to the buyer was rounded.
FreezeTight == \A u \in Users, c \in Currencies : freeze[u][c] <= Held(u, c) + Stranded(u, c)

\* What a user owns is what was deposited and what the settled sides of the
\* user's trades have moved, each of them once.
BalanceExplained == \A u \in Users, c \in Currencies :
    using[u][c] + freeze[u][c]
        = Deposit[u][c] + SumTo(RecordNet(u, c), MaxRecords)

\* An order has traded what its records say, and never more than it offered;
\* an order that may still be matched or cancelled has something left.
FilledByRecords == \A o \in OrderIds :
    /\ orders[o].tradeQuantity = SumTo(RecordFill(o), MaxRecords)
    /\ orders[o].tradeQuantity <= orders[o].quantity
    /\ Open(orders[o]) => Surplus(orders[o]) > 0

\* Settling never fails for want of frozen funds: as long as a side of a trade
\* is not settled, what it takes is still there, whatever was cancelled since.
SettlementFunded == \A r \in RecordIds :
    /\ Unsettled(records[r].buyStatus) /\ records[r].buyUser \notin Robots
         => freeze[records[r].buyUser]["currency"]
              >= Mul(records[r].quantity, records[r].buyPrice)
    /\ Unsettled(records[r].sellStatus) /\ records[r].sellUser \notin Robots
         => freeze[records[r].sellUser]["tradeCurrency"] >= records[r].quantity

-----------------------------------------------------------------------------
(* What makes these inductive (SpotTradeProofs).                           *)

\* A record is issued whole, from orders that exist, at their prices.
RecordsMatchOrders == \A r \in RecordIds :
    /\ records[r].buyStatus = "NONE" <=> records[r].sellStatus = "NONE"
    /\ records[r].buyStatus # "NONE" =>
         LET b == orders[records[r].buy]
             s == orders[records[r].sell]
         IN  /\ b.status # "NONE" /\ b.side = "BUY"
             /\ s.status # "NONE" /\ s.side = "SELL"
             /\ b.owner = records[r].buyUser  /\ b.price = records[r].buyPrice
             /\ s.owner = records[r].sellUser /\ s.price = records[r].sellPrice

DeletedAreRobots == \A o \in OrderIds :
    orders[o].status = "DELETED" => orders[o].owner \in Robots

NotOverfilled == \A o \in OrderIds : orders[o].tradeQuantity <= orders[o].quantity

Accounting == TypeOK /\ RecordsMatchOrders /\ DeletedAreRobots /\ NotOverfilled
              /\ FreezeBacked /\ FreezeTight
=============================================================================
