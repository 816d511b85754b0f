-------------------------------- MODULE Otc --------------------------------
(***************************************************************************)
(* The over-the-counter desk, for one currency.  A merchant publishes an   *)
(* order, a SELL order with its coins frozen; another user trades a part   *)
(* of it, which makes a record; the merchant takes the record, the buyer   *)
(* pays outside the system and says so, the seller confirms and the coins  *)
(* are handed over.  On the way a record may be cancelled by a party or by *)
(* a timer, or be appealed and decided by an administrator.                *)
(*                                                                         *)
(* Every handler runs under the lock of the order it is about and in one   *)
(* transaction, and is one action here.  An appeal is checked before the   *)
(* lock is taken, and is two.                                              *)
(***************************************************************************)
EXTENDS IdSums

CONSTANTS
    Users,        \* merchants and their customers
    Merchants,    \* the users who may publish orders
    Quantities,   \* the quantities an order may name
    Parts,        \* the quantities a trade may name
    Deposit,      \* what each user's OTC wallet holds at the start
    CancelLimit,  \* cancelled records after which a user may not buy
    Timed,        \* the statuses whose configured time is positive
    LateAppeal,   \* FALSE: no party does anything about a record between the
                  \* check of an appeal and the appeal
    MaxOrders,    \* bound on the orders published
    MaxRecords    \* bound on the trades made

ASSUME OtcAssumption ==
    /\ Users # {} /\ Merchants \subseteq Users
    /\ Quantities \subseteq Nat \ {0} /\ Parts \subseteq Nat \ {0}
    /\ Deposit \in [Users -> Nat]
    /\ CancelLimit \in Nat /\ LateAppeal \in BOOLEAN
    /\ Timed \subseteq {"WAIT", "WAITPAY"}
    /\ MaxOrders \in Nat \ {0} /\ MaxRecords \in Nat \ {0}

VARIABLES
    using, freeze,  \* t_otc_wallet, by user
    orders,         \* t_otc_order, by id
    records,        \* t_otc_order_record, by id
    jobs,           \* the delayed jobs of Quartz: a record and the status it waits in
    cancels,        \* KEY_OTC_CANCEL, by user
    asking          \* the appeals that have passed their check

vars == <<using, freeze, orders, records, jobs, cancels, asking>>

OrderIds  == 1..MaxOrders
RecordIds == 1..MaxRecords

\* "NONE": the id has not been issued.
Order == [status : {"NONE", "WAIT", "END"}, owner : Users, type : {"BUY", "SELL"},
          quantity : Nat, tradeQuantity : Nat, cancel : {"NORMAL", "CANCEL"}]

\* The statuses of a record nothing has been decided about.
OpenStatus   == {"WAIT", "WAITPAY", "WAITGATHERING", "APPEAL"}
RecordStatus == OpenStatus \cup {"NONE", "COMPLETE", "CANCEL", "APPEALSUCCESS", "APPEALFAIL"}

Record == [order : OrderIds, buyUser : Users, sellUser : Users, quantity : Nat,
           status : RecordStatus, appealType : {"BUY", "SELL"},
           successStatus : {"NONE", "TRADEING", "SUCCESS", "CANCEL"}]

OtcTypeOK ==
    /\ using   \in [Users -> Nat]
    /\ freeze  \in [Users -> Nat]
    /\ orders  \in [OrderIds -> Order]
    /\ records \in [RecordIds -> Record]
    /\ jobs    \subseteq RecordIds \X {"WAIT", "WAITPAY"}
    /\ cancels \in [Users -> Nat]
    /\ asking  \subseteq Users \X RecordIds

NoOrder  == [status |-> "NONE", owner |-> CHOOSE u \in Users : TRUE, type |-> "BUY",
             quantity |-> 0, tradeQuantity |-> 0, cancel |-> "NORMAL"]
NoRecord == [order |-> 1, buyUser |-> CHOOSE u \in Users : TRUE,
             sellUser |-> CHOOSE u \in Users : TRUE, quantity |-> 0, status |-> "NONE",
             appealType |-> "BUY", successStatus |-> "NONE"]

OtcInit ==
    /\ using   = Deposit
    /\ freeze  = [u \in Users |-> 0]
    /\ orders  = [o \in OrderIds |-> NoOrder]
    /\ records = [r \in RecordIds |-> NoRecord]
    /\ jobs    = {}
    /\ cancels = [u \in Users |-> 0]
    /\ asking  = {}

-----------------------------------------------------------------------------
(* Wallets, orders, records.                                               *)

\* (Mutant.)  The update of the wallet is not guarded.
ModifyUnguarded(u, changeUsing, changeFreeze) ==
    /\ using'  = [using  EXCEPT ![u] = @ + changeUsing]
    /\ freeze' = [freeze EXCEPT ![u] = @ + changeFreeze]

\* The guarded update of one wallet row: otherwise the handler throws.
ModifyWallet(u, changeUsing, changeFreeze) ==
    /\ using[u] + changeUsing >= 0 /\ freeze[u] + changeFreeze >= 0
    /\ using'  = [using  EXCEPT ![u] = @ + changeUsing]
    /\ freeze' = [freeze EXCEPT ![u] = @ + changeFreeze]

Residue(order) == order.quantity - order.tradeQuantity

TypeOf(rec) == orders[rec.order].type

IsOpen(rec) == rec.status \in OpenStatus

\* What the records of an order that satisfy a success status are about.
QuantityOf(rec, o, st) ==
    IF rec.order = o /\ rec.successStatus \in st THEN rec.quantity ELSE 0
RecordQuantities(o, st) == [r \in RecordIds |-> QuantityOf(records[r], o, st)]
QuantityIn(o, st) == SumTo(RecordQuantities(o, st), MaxRecords)

\* (Mutant.)  Records under appeal are not waited for.
CanCancelAppealed(o) == \A r \in RecordIds :
    records[r].order = o => records[r].status \notin OpenStatus \ {"APPEAL"}

\* canCancel: no record of the order is open.
CanCancel(o) == \A r \in RecordIds : records[r].order = o => ~IsOpen(records[r])

\* getMyBuyNoPay: the records that wait to be paid, by their seller.
BuyNoPay(u) == {r \in RecordIds : records[r].status = "WAITPAY" /\ records[r].sellUser = u}

-----------------------------------------------------------------------------
(* Orders.                                                                 *)

NextOrderId(o)  == /\ orders[o].status = "NONE"
                   /\ \A i \in 1..(o - 1) : orders[i].status # "NONE"
NextRecordId(r) == /\ records[r].status = "NONE"
                   /\ \A i \in 1..(r - 1) : records[i].status # "NONE"

Publish(u, type, q) ==
    /\ u \in Merchants
    /\ \E o \in OrderIds :
         /\ NextOrderId(o)
         /\ orders' = [orders EXCEPT ![o] =
                [status |-> "WAIT", owner |-> u, type |-> type, quantity |-> q,
                 tradeQuantity |-> 0, cancel |-> "NORMAL"]]
    /\ IF type = "SELL" THEN ModifyWallet(u, -q, q) ELSE UNCHANGED <<using, freeze>>
    /\ UNCHANGED <<records, jobs, cancels, asking>>

\* The job that cancels a record in this status when its time is up; a time
\* that is not positive means no job.
JobFor(r, status) == IF status \in Timed THEN {<<r, status>>} ELSE {}

\* A user trades q of an order: with a BUY order the user sells and the coins
\* are frozen now, with a SELL order they have been frozen with the order.
Trade(u, o, q) ==
    /\ orders[o].status = "WAIT" /\ orders[o].cancel = "NORMAL"
    /\ orders[o].owner # u /\ Residue(orders[o]) >= q
    /\ BuyNoPay(u) = {}
    /\ IF orders[o].type = "BUY" THEN ModifyWallet(u, -q, q)
       ELSE cancels[u] < CancelLimit /\ UNCHANGED <<using, freeze>>
    /\ orders' = [orders EXCEPT ![o].tradeQuantity = @ + q,
                                ![o].status = IF Residue(orders[o]) = q THEN "END" ELSE @]
    /\ \E r \in RecordIds :
         /\ NextRecordId(r)
         /\ records' = [records EXCEPT ![r] =
                [order |-> o, quantity |-> q, status |-> "WAIT",
                 buyUser  |-> IF orders[o].type = "BUY" THEN orders[o].owner ELSE u,
                 sellUser |-> IF orders[o].type = "BUY" THEN u ELSE orders[o].owner,
                 appealType |-> "BUY", successStatus |-> "TRADEING"]]
         /\ jobs' = jobs \cup JobFor(r, "WAIT")
    /\ UNCHANGED <<cancels, asking>>

\* The order is taken off the shelf or put back, for trades to come.
SetShelf(o, cancel) ==
    /\ orders[o].status = "WAIT" /\ orders[o].cancel # cancel
    /\ orders' = [orders EXCEPT ![o].cancel = cancel]
    /\ UNCHANGED <<using, freeze, records, jobs, cancels, asking>>

\* The order row ends, and a seller gets back what no successful record took.
Withdraw(o, row) ==
    LET done == QuantityIn(o, {"SUCCESS"})
        left == row.quantity - done
    IN  IF row.type = "SELL"
        THEN /\ ModifyWallet(row.owner, left, -left)
             /\ orders' = [orders EXCEPT ![o] =
                             [row EXCEPT !.status = "END", !.tradeQuantity = done]]
        ELSE /\ UNCHANGED <<using, freeze>>
             /\ orders' = [orders EXCEPT ![o] = [row EXCEPT !.status = "END"]]

\* The owner cancels the order: it leaves the shelf, in a transaction of its
\* own, and ends unless one of its records is open.
CancelOrder(o) ==
    LET row == [orders[o] EXCEPT !.cancel = "CANCEL"]
    IN  /\ orders[o].status = "WAIT"
        /\ IF CanCancel(o) THEN Withdraw(o, row)
           ELSE orders' = [orders EXCEPT ![o] = row] /\ UNCHANGED <<using, freeze>>
        /\ UNCHANGED <<records, jobs, cancels, asking>>

\* An administrator cancels the order.
AdminCancelOrder(o) ==
    /\ orders[o].status = "WAIT" /\ CanCancel(o)
    /\ Withdraw(o, orders[o])
    /\ UNCHANGED <<records, jobs, cancels, asking>>

-----------------------------------------------------------------------------
(* Records.                                                                *)

SetRecord(r, status, success) ==
    records' = [records EXCEPT ![r].status = status, ![r].successStatus = success]

\* (Mutant.)  No job waits for the payment.
TakeWithoutJob(u, r) ==
    /\ records[r].status = "WAIT" /\ orders[records[r].order].owner = u
    /\ SetRecord(r, "WAITPAY", "TRADEING")
    /\ UNCHANGED <<using, freeze, orders, jobs, cancels, asking>>

\* The merchant takes the record; from now on the payment is waited for.
Take(u, r) ==
    /\ records[r].status = "WAIT" /\ orders[records[r].order].owner = u
    /\ SetRecord(r, "WAITPAY", "TRADEING")
    /\ jobs' = jobs \cup JobFor(r, "WAITPAY")
    /\ UNCHANGED <<using, freeze, orders, cancels, asking>>

\* The buyer has paid outside.
Pay(u, r) ==
    /\ records[r].status = "WAITPAY" /\ records[r].buyUser = u
    /\ SetRecord(r, "WAITGATHERING", "TRADEING")
    /\ UNCHANGED <<using, freeze, orders, jobs, cancels, asking>>

\* The coins go from what the seller has frozen to the buyer.
HandOver(rec) ==
    /\ freeze[rec.sellUser] >= rec.quantity
    /\ freeze' = [freeze EXCEPT ![rec.sellUser] = @ - rec.quantity]
    /\ using'  = [using  EXCEPT ![rec.buyUser] = @ + rec.quantity]
    /\ UNCHANGED <<orders, cancels>>

\* The seller confirms that the payment has come.
Gathering(u, r) ==
    /\ records[r].status = "WAITGATHERING" /\ records[r].sellUser = u
    /\ HandOver(records[r])
    /\ SetRecord(r, "COMPLETE", "SUCCESS")
    /\ UNCHANGED <<jobs, asking>>

\* (Mutant.)  The seller of a SELL order gets the coins back as well.
GiveBackAlways(rec, u) ==
    /\ orders' = [orders EXCEPT ![rec.order].tradeQuantity = @ - rec.quantity,
                                ![rec.order].status = "WAIT"]
    /\ ModifyWallet(rec.sellUser, rec.quantity, -rec.quantity)
    /\ cancels' = [cancels EXCEPT ![u] = @ + 1]

\* (Mutant.)  An order that has ended stays ended.
GiveBackToEnded(rec, u) ==
    /\ orders' = [orders EXCEPT ![rec.order].tradeQuantity = @ - rec.quantity]
    /\ IF TypeOf(rec) = "BUY" THEN ModifyWallet(rec.sellUser, rec.quantity, -rec.quantity)
       ELSE UNCHANGED <<using, freeze>>
    /\ cancels' = [cancels EXCEPT ![u] = @ + 1]

\* What a cancellation puts back: the quantity into the order, which is open
\* again if it had ended; the seller's coins, if they were frozen with the
\* record; and one more on the count of user u.
GiveBack(rec, u) ==
    /\ orders' = [orders EXCEPT ![rec.order].tradeQuantity = @ - rec.quantity,
                                ![rec.order].status = "WAIT"]
    /\ IF TypeOf(rec) = "BUY" THEN ModifyWallet(rec.sellUser, rec.quantity, -rec.quantity)
       ELSE UNCHANGED <<using, freeze>>
    /\ cancels' = [cancels EXCEPT ![u] = @ + 1]

\* Before the record is taken any user's call cancels it, later the seller's.
CancelRecord(u, r) ==
    /\ \/ records[r].status = "WAIT"
       \/ records[r].status \in {"WAITPAY", "WAITGATHERING"} /\ records[r].sellUser = u
    /\ GiveBack(records[r], u)
    /\ SetRecord(r, "CANCEL", "CANCEL")
    /\ UNCHANGED <<jobs, asking>>

\* (Mutant.)  The job cancels whatever has happened since it was set.
AutoCancelAnyway(r, status) ==
    /\ <<r, status>> \in jobs
    /\ jobs' = jobs \ {<<r, status>>}
    /\ GiveBack(records[r], IF TypeOf(records[r]) = "SELL" THEN records[r].buyUser
                            ELSE records[r].sellUser)
    /\ SetRecord(r, "CANCEL", "CANCEL")
    /\ UNCHANGED asking

\* The time is up: the record is cancelled if it is still in the status the
\* job was set for.
AutoCancel(r, status) ==
    /\ <<r, status>> \in jobs
    /\ jobs' = jobs \ {<<r, status>>}
    /\ IF records[r].status = status
       THEN /\ GiveBack(records[r], IF TypeOf(records[r]) = "SELL" THEN records[r].buyUser
                                    ELSE records[r].sellUser)
            /\ SetRecord(r, "CANCEL", "CANCEL")
       ELSE UNCHANGED <<using, freeze, orders, records, cancels>>
    /\ UNCHANGED asking

\* The controller checks an appeal ...
AskAppeal(u, r) ==
    /\ records[r].status = "WAITGATHERING"
    /\ u \in {records[r].buyUser, records[r].sellUser}
    /\ asking' = asking \cup {<<u, r>>}
    /\ UNCHANGED <<using, freeze, orders, records, jobs, cancels>>

\* ... waits for the lock, and the service writes it without looking again.
Appeal(u, r) ==
    /\ <<u, r>> \in asking
    /\ asking' = asking \ {<<u, r>>}
    /\ records' = [records EXCEPT ![r].status = "APPEAL",
            ![r].appealType = IF records[r].sellUser = u THEN "SELL" ELSE "BUY"]
    /\ UNCHANGED <<using, freeze, orders, jobs, cancels>>

\* An administrator decides for the one who appealed: a buyer gets the coins,
\* a seller has the record cancelled ...
AppealSuccess(r) ==
    /\ records[r].status = "APPEAL"
    /\ IF records[r].appealType = "BUY"
       THEN HandOver(records[r]) /\ SetRecord(r, "APPEALSUCCESS", "SUCCESS")
       ELSE GiveBack(records[r], records[r].buyUser) /\ SetRecord(r, "APPEALSUCCESS", "CANCEL")
    /\ UNCHANGED <<jobs, asking>>

\* ... or against.
AppealFail(r) ==
    /\ records[r].status = "APPEAL"
    /\ IF records[r].appealType = "BUY"
       THEN GiveBack(records[r], records[r].sellUser) /\ SetRecord(r, "APPEALFAIL", "CANCEL")
       ELSE HandOver(records[r]) /\ SetRecord(r, "APPEALFAIL", "SUCCESS")
    /\ UNCHANGED <<jobs, asking>>

-----------------------------------------------------------------------------
\* The record is not between the two steps of an appeal.
Unasked(r) == LateAppeal \/ \A u \in Users : <<u, r>> \notin asking

OtcNext ==
    \/ \E u \in Users :
         \/ \E type \in {"BUY", "SELL"}, q \in Quantities : Publish(u, type, q)
         \/ \E o \in OrderIds, q \in Parts : Trade(u, o, q)
    \/ \E o \in OrderIds :
         \/ CancelOrder(o) \/ AdminCancelOrder(o)
         \/ \E cancel \in {"NORMAL", "CANCEL"} : SetShelf(o, cancel)
    \/ \E u \in Users, r \in RecordIds :
         \/ Take(u, r) \/ Pay(u, r) \/ Appeal(u, r)
         \/ Unasked(r) /\ (Gathering(u, r) \/ CancelRecord(u, r) \/ AskAppeal(u, r))
    \/ \E r \in RecordIds :
         \/ AppealSuccess(r) \/ AppealFail(r)
         \/ \E status \in {"WAIT", "WAITPAY"} : AutoCancel(r, status)

OtcSpec == OtcInit /\ [][OtcNext]_vars

\* The jobs are in the database of the scheduler and are run when they are due.
OtcFairness == \A r \in RecordIds, status \in {"WAIT", "WAITPAY"} :
                  WF_vars(AutoCancel(r, status))
-----------------------------------------------------------------------------
(* What is frozen, and why.                                                *)

\* An order that was cancelled with something left.
Withdrawn(order) == order.status = "END" /\ Residue(order) > 0

\* What is held for a SELL order, with its open records, and for an open
\* record of a BUY order.
HeldFor(o) ==
    IF orders[o].status = "NONE" \/ orders[o].type = "BUY" \/ Withdrawn(orders[o]) THEN 0
    ELSE orders[o].quantity - QuantityIn(o, {"SUCCESS"})

HeldForRecord(r) == IF IsOpen(records[r]) /\ TypeOf(records[r]) = "BUY"
                    THEN records[r].quantity ELSE 0

OrderHold(u)  == [o \in OrderIds  |-> IF orders[o].owner = u THEN HeldFor(o) ELSE 0]
RecordHold(u) == [r \in RecordIds |-> IF records[r].sellUser = u THEN HeldForRecord(r) ELSE 0]

\* What is frozen in a wallet is what its orders have on offer and what its
\* records have not handed over or given back: nothing is handed over twice,
\* taken from another trade or frozen for ever.
FreezeExplained == \A u \in Users :
    freeze[u] = SumTo(OrderHold(u), MaxOrders) + SumTo(RecordHold(u), MaxRecords)

\* An order has traded what its records say that are open or successful; it
\* is open only with something left, and withdrawn only with nothing pending.
TradedByRecords == \A o \in OrderIds :
    /\ orders[o].tradeQuantity = QuantityIn(o, {"TRADEING", "SUCCESS"})
    /\ orders[o].tradeQuantity <= orders[o].quantity
    /\ orders[o].status = "WAIT" => Residue(orders[o]) > 0
    /\ Withdrawn(orders[o]) => CanCancel(o)

\* An order that was withdrawn, and paid back, is not put on offer again by a
\* record that is cancelled or decided later.
WithdrawnStays == [][\A o \in OrderIds :
    Withdrawn(orders[o]) => orders'[o] = orders[o]]_vars

\* A record that was completed or cancelled is never written again, whoever
\* comes too late for it: a party, a timer or an administrator.
DecidedStays == [][\A r \in RecordIds :
    records[r].successStatus \in {"SUCCESS", "CANCEL"} => records'[r] = records[r]]_vars

\* A party appeals about a record that waits for the seller to confirm the
\* payment, not about one that has been completed or cancelled meanwhile.
AppealsInTime == [][\A r \in RecordIds :
    records[r].status # "APPEAL" /\ records'[r].status = "APPEAL"
        => records[r].status = "WAITGATHERING"]_vars

\* The timers leave no record waiting for a merchant to take it or for a buyer
\* to pay, where the configuration sets a time for it, whatever was done before
\* the timer was set or after.
WaitingEnds == \A r \in RecordIds :
    records[r].status \in Timed ~> records[r].status \notin Timed

-----------------------------------------------------------------------------
(* What makes these inductive (OtcProofs).                                 *)

\* A record has the parties of its order, and its status says whether it has
\* succeeded.
RecordsFit == \A r \in RecordIds :
    LET rec == records[r]
        order == orders[rec.order]
    IN  /\ rec.status = "NONE" <=> rec.successStatus = "NONE"
        /\ IsOpen(rec) <=> rec.successStatus = "TRADEING"
        /\ rec.status # "NONE" =>
             /\ order.status # "NONE" /\ rec.quantity > 0
             /\ rec.buyUser # rec.sellUser
             /\ order.owner = IF order.type = "BUY" THEN rec.buyUser ELSE rec.sellUser

\* When no appeal is late, one that has passed its check is about a record
\* that waits to be confirmed, and is the only one about it.
AppealsFit == ~LateAppeal => \A u, v \in Users, r \in RecordIds :
    <<u, r>> \in asking =>
        records[r].status = "WAITGATHERING" /\ (<<v, r>> \in asking => v = u)

OtcInvariant == OtcTypeOK /\ RecordsFit /\ AppealsFit /\ TradedByRecords /\ FreezeExplained

-----------------------------------------------------------------------------
(* The desk as an escrow: a lot for each SELL order and for each record of a
   BUY order, a deal for each record.                                      *)

EscrowLots == 1..(MaxOrders + MaxRecords)

LotWith(u, q) == [owner |-> IF q = 0 THEN CHOOSE v \in Users : TRUE ELSE u, amount |-> q]

LotOf(l) == IF l <= MaxOrders THEN LotWith(orders[l].owner, HeldFor(l))
            ELSE LotWith(records[l - MaxOrders].sellUser, HeldForRecord(l - MaxOrders))

DealState(rec) == IF IsOpen(rec) THEN "open"
                  ELSE IF rec.successStatus = "SUCCESS" THEN "paid" ELSE "returned"

DealOf(r) ==
    IF records[r].status = "NONE"
    THEN [state |-> "none", lot |-> CHOOSE l \in EscrowLots : TRUE,
          to |-> CHOOSE u \in Users : TRUE, amount |-> 0]
    ELSE [state |-> DealState(records[r]), to |-> records[r].buyUser,
          lot |-> IF TypeOf(records[r]) = "SELL" THEN records[r].order ELSE MaxOrders + r,
          amount |-> records[r].quantity]

E == INSTANCE Escrow WITH
        Lots      <- EscrowLots,
        MaxDeals  <- MaxRecords,
        Amounts   <- Quantities \cup Parts,
        available <- using,
        lot       <- [l \in EscrowLots |-> LotOf(l)],
        deal      <- [r \in RecordIds |-> DealOf(r)]

\* Each record hands its coins over or gives them back, once and not both, out
\* of coins held for it alone, whoever decides it: the parties, a timer or an
\* administrator.
ImplementsEscrow == E!EscrowSpec
=============================================================================
