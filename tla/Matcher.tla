------------------------------ MODULE Matcher ------------------------------
(***************************************************************************)
(* The threads that trade and cancel the orders of one pair.  A matcher    *)
(* (TradeRequest.request) picks the best buy and the best sell order       *)
(* without a lock, locks the two by id, reads both rows again and commits  *)
(* the match from what it read; a canceller (AsyncTask.tradeCancel) locks  *)
(* the user and the order, reads the row and commits from what it read.    *)
(* Every write of an order row names the version it was read at.           *)
(*                                                                         *)
(* Publishing, the administrator's errorModify and the clean-up take no    *)
(* lock: they are the transactions of SpotTrade.  Settling touches neither *)
(* orders nor locks and is left out.  The module shows that the threads    *)
(* implement SpotTrade.                                                    *)
(***************************************************************************)
EXTENDS SpotTrade, FiniteSets

CONSTANTS
    Matchers,     \* matcher threads of the pair
    Cancellers,   \* threads of the asynchronous executor
    Locking,      \* FALSE: the distributed locks exclude nobody
    ErrorLimit,   \* an order is set aside when it fails more often than that
    MaxFailures,  \* bound on the transactions that fail
    MaxCancels,   \* bound on the cancellations asked for
    MaxCrashes    \* bound on the restarts of the process

Threads == Matchers \cup Cancellers
Free    == "free"

ASSUME ThreadsAssumption ==
    /\ Locking \in BOOLEAN /\ Matchers \cap Cancellers = {} /\ Free \notin Threads
    /\ {ErrorLimit, MaxFailures, MaxCancels, MaxCrashes} \subseteq Nat

VARIABLES
    version,     \* the version column of each order
    orderLock,   \* LOCK_TRUSTEE_ID: who holds it
    userLock,    \* LOCK_WALLET_USER: who holds it
    mayTrade,    \* what the cached order book says of the best prices
    matcher,     \* the matchers' local state
    canceller,   \* the cancellers' local state
    failures, cancels, crashes   \* how much of each bound is used

threadVars == <<version, orderLock, userLock, mayTrade, matcher, canceller,
                failures, cancels, crashes>>
allVars == <<vars, threadVars>>

\* A row as a thread has read it.
Snapshot(o) == [row |-> orders[o], version |-> version[o]]
NoSnapshot  == [row |-> NoOrder, version |-> 0]
NoErrors    == [o \in OrderIds |-> 0]

\* 0: no order.
IdleMatcher == [pc |-> "idle", buy |-> 0, sell |-> 0, buyRead |-> NoSnapshot,
                sellRead |-> NoSnapshot, failed |-> 0, errorTimes |-> NoErrors]
IdleCanceller == [pc |-> "idle", order |-> 0, read |-> NoSnapshot]

MatcherInit ==
    /\ Init
    /\ version   = [o \in OrderIds |-> 0]
    /\ orderLock = [o \in OrderIds |-> Free]
    /\ userLock  = [u \in Users |-> Free]
    /\ mayTrade  = FALSE
    /\ matcher   = [m \in Matchers |-> IdleMatcher]
    /\ canceller = [c \in Cancellers |-> IdleCanceller]
    /\ failures = 0 /\ cancels = 0 /\ crashes = 0

-----------------------------------------------------------------------------
(* Locks, versions and the cached order book.                              *)

\* (Mutant.)  The lock is taken from whoever holds it.
AcquireHeld(t, o) == orderLock' = [orderLock EXCEPT ![o] = t]

Acquire(t, o) == /\ Locking => orderLock[o] = Free
                 /\ orderLock' = [orderLock EXCEPT ![o] = t]
Release(t, os) == orderLock' = [o \in OrderIds |->
                    IF o \in os /\ orderLock[o] = t THEN Free ELSE orderLock[o]]

\* (Mutant.)  An update does not compare the version.
FreshAlways(o, read) == TRUE

\* An update finds its row only if nobody has written it since it was read.
Fresh(o, read) == version[o] = read.version
Bump(os) == version' = [o \in OrderIds |-> IF o \in os THEN version[o] + 1 ELSE version[o]]

Waiting(side) == {o \in OrderIds : orders[o].status = "WAIT" /\ orders[o].side = side}

\* findFirstBuy, findFirstSell.  Which of several orders at the best price
\* comes first depends on a priority that is not modelled.
BestBuys  == {o \in Waiting("BUY")  :
                \A i \in Waiting("BUY")  : orders[o].price >= orders[i].price}
BestSells == {o \in Waiting("SELL") :
                \A i \in Waiting("SELL") : orders[o].price <= orders[i].price}

Crossed == \E b, s \in OrderIds : CanTrade(b, s)

\* The increments of the cached book race with each other: after one of them
\* the cache may say anything ...
CacheUpdate == mayTrade' \in BOOLEAN
\* (Mutant.)  Rebuilding the cached book empties it.
SyncToEmpty == mayTrade' = FALSE

\* ... until it is rebuilt from the orders.
SyncInfo == mayTrade' = Crossed

-----------------------------------------------------------------------------
(* The matchers.                                                           *)

\* doOrder starts when the cached book has something to match.  The error
\* times it loads are keyed by Integer after the JSON round trip and are not
\* found again under the Long ids: they start from zero.
StartRound(m) ==
    /\ matcher[m].pc = "idle" /\ mayTrade
    /\ matcher' = [matcher EXCEPT ![m].pc = "pickBuy"]
    /\ UNCHANGED <<vars, version, orderLock, userLock, mayTrade, canceller,
                   failures, cancels, crashes>>

PickBuy(m) ==
    /\ matcher[m].pc = "pickBuy"
    /\ \E b \in IF BestBuys = {} THEN {0} ELSE BestBuys :
         matcher' = [matcher EXCEPT ![m].pc = "pickSell", ![m].buy = b]
    /\ UNCHANGED <<vars, version, orderLock, userLock, mayTrade, canceller,
                   failures, cancels, crashes>>

\* Nothing on one side: the cache was wrong and is rebuilt.
PickSell(m) ==
    /\ matcher[m].pc = "pickSell"
    /\ IF matcher[m].buy = 0 \/ BestSells = {}
       THEN /\ matcher' = [matcher EXCEPT ![m] = IdleMatcher]
            /\ SyncInfo
       ELSE /\ \E s \in BestSells :
                 matcher' = [matcher EXCEPT ![m].pc = "lockFirst", ![m].sell = s]
            /\ UNCHANGED mayTrade
    /\ UNCHANGED <<vars, version, orderLock, userLock, canceller,
                   failures, cancels, crashes>>

Lower(m)  == IF matcher[m].buy > matcher[m].sell THEN matcher[m].sell ELSE matcher[m].buy
Higher(m) == IF matcher[m].buy > matcher[m].sell THEN matcher[m].buy ELSE matcher[m].sell

LockFirst(m) ==
    /\ matcher[m].pc = "lockFirst"
    /\ Acquire(m, Lower(m))
    /\ matcher' = [matcher EXCEPT ![m].pc = "lockSecond"]
    /\ UNCHANGED <<vars, version, userLock, mayTrade, canceller,
                   failures, cancels, crashes>>

LockSecond(m) ==
    /\ matcher[m].pc = "lockSecond"
    /\ Acquire(m, Higher(m))
    /\ matcher' = [matcher EXCEPT ![m].pc =
                     IF orders[matcher[m].buy].price >= orders[matcher[m].sell].price
                     THEN "read" ELSE "unlock"]
    /\ UNCHANGED <<vars, version, userLock, mayTrade, canceller,
                   failures, cancels, crashes>>

\* doTrade begins: both rows are read again in the new transaction.
ReadRows(m) ==
    /\ matcher[m].pc = "read"
    /\ IF ~CanTrade(matcher[m].buy, matcher[m].sell)
       THEN matcher' = [matcher EXCEPT ![m].pc = "unlock"] /\ SyncInfo
       ELSE /\ matcher' = [matcher EXCEPT ![m].pc = "commit",
                                      ![m].buyRead = Snapshot(matcher[m].buy),
                                      ![m].sellRead = Snapshot(matcher[m].sell)]
            /\ UNCHANGED mayTrade
    /\ UNCHANGED <<vars, version, orderLock, userLock, canceller,
                   failures, cancels, crashes>>

\* The quantity to trade, from the rows that were read.
ReadQuantity(m) ==
    LET buyLeft  == Surplus(matcher[m].buyRead.row)
        sellLeft == Surplus(matcher[m].sellRead.row)
    IN  IF buyLeft >= sellLeft THEN sellLeft ELSE buyLeft

\* doTrade commits: the record, then the sell row, then the buy row.
Commit(m) ==
    LET b == matcher[m].buy
        s == matcher[m].sell
        q == ReadQuantity(m)
    IN  /\ matcher[m].pc = "commit"
        /\ IF q <= 0
           THEN UNCHANGED <<orders, records, version, mayTrade>>
           ELSE /\ Fresh(s, matcher[m].sellRead) /\ Fresh(b, matcher[m].buyRead)
                /\ \E r \in RecordIds :
                     /\ NextRecordId(r)
                     /\ records' = [records EXCEPT ![r] = NewRecord(b, s, q)]
                /\ orders' = [orders EXCEPT ![s] = Filled(matcher[m].sellRead.row, q),
                                            ![b] = Filled(matcher[m].buyRead.row, q)]
                /\ Bump({b, s})
                /\ CacheUpdate
        /\ matcher' = [matcher EXCEPT ![m].pc = "unlock"]
        /\ UNCHANGED <<using, freeze, orderLock, userLock, canceller,
                       failures, cancels, crashes>>

\* The transaction is rolled back: because a row was written in the meantime
\* (the sell row is tried first), or for a reason of the database's.  A failed
\* update names its order (TradeException); anything else ends the round.
Stale(m) == IF ~Fresh(matcher[m].sell, matcher[m].sellRead) THEN {matcher[m].sell}
            ELSE IF ~Fresh(matcher[m].buy, matcher[m].buyRead) THEN {matcher[m].buy}
            ELSE {}

CommitFails(m) ==
    /\ matcher[m].pc = "commit" /\ ReadQuantity(m) > 0
    /\ \/ \E o \in Stale(m) : matcher' = [matcher EXCEPT ![m].pc = "error", ![m].failed = o]
          /\ UNCHANGED failures
       \/ /\ failures < MaxFailures
          /\ failures' = failures + 1
          /\ \/ \E o \in {matcher[m].buy, matcher[m].sell} :
                  matcher' = [matcher EXCEPT ![m].pc = "error", ![m].failed = o]
             \/ matcher' = [matcher EXCEPT ![m].pc = "unlock"]
    /\ UNCHANGED <<vars, version, orderLock, userLock, mayTrade, canceller,
                   cancels, crashes>>

\* The order that failed is counted, and set aside when it has failed too
\* often: read and written here, whatever its status.  The round goes on
\* unless the order was set aside.
OnError(m) ==
    LET o     == matcher[m].failed
        times == matcher[m].errorTimes[o]
    IN  /\ matcher[m].pc = "error"
        /\ IF times > ErrorLimit
           THEN /\ orders' = [orders EXCEPT ![o].status = "ERROR"]
                /\ Bump({o})
                /\ CacheUpdate
                /\ matcher' = [matcher EXCEPT ![m].pc = "unlock"]
           ELSE /\ matcher' = [matcher EXCEPT ![m].pc = "retry",
                                          ![m].errorTimes[o] = @ + 1]
                /\ UNCHANGED <<orders, version, mayTrade>>
        /\ UNCHANGED <<using, freeze, records, orderLock, userLock, canceller,
                       failures, cancels, crashes>>

\* (Mutant.)  The finally block forgets the second lock.
UnlockFirst(m) ==
    /\ matcher[m].pc \in {"unlock", "retry"}
    /\ Release(m, {Lower(m)})
    /\ matcher' = [matcher EXCEPT ![m] =
         IF @.pc = "unlock" THEN IdleMatcher
         ELSE [IdleMatcher EXCEPT !.pc = "pickBuy", !.errorTimes = matcher[m].errorTimes]]
    /\ UNCHANGED <<vars, version, userLock, mayTrade, canceller,
                   failures, cancels, crashes>>

\* The finally block; then the end of the round, or the next try in it.
Unlock(m) ==
    /\ matcher[m].pc \in {"unlock", "retry"}
    /\ Release(m, {matcher[m].buy, matcher[m].sell})
    /\ matcher' = [matcher EXCEPT ![m] =
         IF @.pc = "unlock" THEN IdleMatcher
         ELSE [IdleMatcher EXCEPT !.pc = "pickBuy", !.errorTimes = matcher[m].errorTimes]]
    /\ UNCHANGED <<vars, version, userLock, mayTrade, canceller,
                   failures, cancels, crashes>>

-----------------------------------------------------------------------------
(* The cancellers.                                                         *)

\* Somebody cancels an order, in whatever state it is; not for the first time,
\* perhaps.
CancelRequest(c, o) ==
    /\ canceller[c].pc = "idle" /\ cancels < MaxCancels
    /\ orders[o].status \notin {"NONE", "DELETED"}
    /\ cancels' = cancels + 1
    /\ canceller' = [canceller EXCEPT ![c].pc = "lockUser", ![c].order = o]
    /\ UNCHANGED <<vars, version, orderLock, userLock, mayTrade, matcher,
                   failures, crashes>>

CancelLockUser(c) ==
    LET u == orders[canceller[c].order].owner
    IN  /\ canceller[c].pc = "lockUser"
        /\ Locking => userLock[u] = Free
        /\ userLock' = [userLock EXCEPT ![u] = c]
        /\ canceller' = [canceller EXCEPT ![c].pc = "lockOrder"]
        /\ UNCHANGED <<vars, version, orderLock, mayTrade, matcher,
                       failures, cancels, crashes>>

CancelLockOrder(c) ==
    /\ canceller[c].pc = "lockOrder"
    /\ Acquire(c, canceller[c].order)
    /\ canceller' = [canceller EXCEPT ![c].pc = "check"]
    /\ UNCHANGED <<vars, version, userLock, mayTrade, matcher,
                   failures, cancels, crashes>>

\* TradeRequest.cancel goes on with a waiting order only.
CancelCheck(c) ==
    /\ canceller[c].pc = "check"
    /\ IF orders[canceller[c].order].status = "WAIT"
       THEN canceller' = [canceller EXCEPT ![c].pc = "read"] /\ UNCHANGED mayTrade
       ELSE canceller' = [canceller EXCEPT ![c].pc = "unlock"] /\ CacheUpdate
    /\ UNCHANGED <<vars, version, orderLock, userLock, matcher,
                   failures, cancels, crashes>>

\* The transaction reads the row again.
CancelRead(c) ==
    /\ canceller[c].pc = "read"
    /\ IF orders[canceller[c].order].status \in {"WAIT", "ERROR"}
       THEN /\ canceller' = [canceller EXCEPT ![c].pc = "commit",
                                          ![c].read = Snapshot(canceller[c].order)]
            /\ UNCHANGED mayTrade
       ELSE canceller' = [canceller EXCEPT ![c].pc = "unlock"] /\ CacheUpdate
    /\ UNCHANGED <<vars, version, orderLock, userLock, matcher,
                   failures, cancels, crashes>>

\* It gives back what the row it read has left, and closes the order.
CancelCommit(c) ==
    LET o      == canceller[c].order
        row    == canceller[c].read.row
        amount == SpendAmount(row.side, row.price, Surplus(row))
    IN  /\ canceller[c].pc = "commit"
        /\ Fresh(o, canceller[c].read)
        /\ IF row.owner \in Robots \/ amount <= 0
           THEN UNCHANGED <<using, freeze>>
           ELSE ModifyWallet(row.owner, SpendCurrency(row.side), amount, -amount)
        /\ orders' = [orders EXCEPT ![o] = [row EXCEPT !.status = "CANCEL"]]
        /\ Bump({o})
        /\ CacheUpdate
        /\ canceller' = [canceller EXCEPT ![c].pc = "unlock"]
        /\ UNCHANGED <<records, orderLock, userLock, matcher, failures, cancels, crashes>>

\* It is rolled back, and the cancellation is forgotten.
CancelFails(c) ==
    /\ canceller[c].pc = "commit"
    /\ \/ ~Fresh(canceller[c].order, canceller[c].read) /\ UNCHANGED failures
       \/ failures < MaxFailures /\ failures' = failures + 1
    /\ canceller' = [canceller EXCEPT ![c].pc = "unlock"]
    /\ UNCHANGED <<vars, version, orderLock, userLock, mayTrade, matcher,
                   cancels, crashes>>

CancelUnlock(c) ==
    LET u == orders[canceller[c].order].owner
    IN  /\ canceller[c].pc = "unlock"
        /\ userLock' = [userLock EXCEPT ![u] = IF @ = c THEN Free ELSE @]
        /\ Release(c, {canceller[c].order})
        /\ canceller' = [canceller EXCEPT ![c] = IdleCanceller]
        /\ UNCHANGED <<vars, version, mayTrade, matcher, failures, cancels, crashes>>

-----------------------------------------------------------------------------
(* What happens beside the threads.                                        *)

Publish(u, side, p, q) ==
    /\ PublishTrade(u, side, p, q)
    /\ CacheUpdate
    /\ UNCHANGED <<version, orderLock, userLock, matcher, canceller,
                   failures, cancels, crashes>>

\* Both are single statements that take no lock and name no version.
AdminErrorModify ==
    /\ ErrorModify
    /\ UNCHANGED threadVars

CleanUp ==
    /\ DeleteRobotCancel
    /\ UNCHANGED threadVars

\* TradeInfoSyncJob rebuilds the cached book every few seconds.
SyncJob ==
    /\ mayTrade # Crossed
    /\ SyncInfo
    /\ UNCHANGED <<vars, version, orderLock, userLock, matcher, canceller,
                   failures, cancels, crashes>>

\* The process dies: transactions are rolled back, cancellations in the
\* executor's queue are lost, the locks expire, matchers are started again.
Crash ==
    /\ crashes < MaxCrashes
    /\ crashes' = crashes + 1
    /\ matcher'   = [m \in Matchers |-> IdleMatcher]
    /\ canceller' = [c \in Cancellers |-> IdleCanceller]
    /\ orderLock' = [o \in OrderIds |-> Free]
    /\ userLock'  = [u \in Users |-> Free]
    /\ UNCHANGED <<vars, version, mayTrade, failures, cancels>>

-----------------------------------------------------------------------------
MatcherStep(m) ==
    \/ StartRound(m) \/ PickBuy(m) \/ PickSell(m) \/ LockFirst(m) \/ LockSecond(m)
    \/ ReadRows(m) \/ Commit(m) \/ CommitFails(m) \/ OnError(m) \/ Unlock(m)

\* What a canceller does once it has been asked.
CancellerStep(c) ==
    \/ CancelLockUser(c) \/ CancelLockOrder(c) \/ CancelCheck(c) \/ CancelRead(c)
    \/ CancelCommit(c) \/ CancelFails(c) \/ CancelUnlock(c)

MatcherNext ==
    \/ \E m \in Matchers : MatcherStep(m)
    \/ \E c \in Cancellers : CancellerStep(c) \/ \E o \in OrderIds : CancelRequest(c, o)
    \/ \E u \in Users, side \in Sides, p \in Prices, q \in Quantities : Publish(u, side, p, q)
    \/ AdminErrorModify \/ CleanUp \/ SyncJob \/ Crash

MatcherSpec == MatcherInit /\ [][MatcherNext]_allVars

\* The scheduler runs every thread, and the job.
FairMatcherSpec ==
    /\ MatcherSpec
    /\ \A m \in Matchers : WF_allVars(MatcherStep(m))
    /\ \A c \in Cancellers : WF_allVars(CancellerStep(c))
    /\ WF_allVars(SyncJob)

-----------------------------------------------------------------------------
MatcherPcs   == {"idle", "pickBuy", "pickSell", "lockFirst", "lockSecond", "read", "commit",
                 "error", "retry", "unlock"}
CancellerPcs == {"idle", "lockUser", "lockOrder", "check", "read", "commit", "unlock"}

SnapshotType  == [row : Order, version : Nat]
MatcherType   == [pc : MatcherPcs, buy : OrderIds \cup {0}, sell : OrderIds \cup {0},
                  buyRead : SnapshotType, sellRead : SnapshotType,
                  failed : OrderIds \cup {0}, errorTimes : [OrderIds -> Nat]]
CancellerType == [pc : CancellerPcs, order : OrderIds \cup {0}, read : SnapshotType]

MatcherTypeOK ==
    /\ TypeOK
    /\ version \in [OrderIds -> Nat]
    /\ orderLock \in [OrderIds -> Threads \cup {Free}]
    /\ userLock \in [Users -> Cancellers \cup {Free}]
    /\ mayTrade \in BOOLEAN
    /\ matcher \in [Matchers -> MatcherType]
    /\ canceller \in [Cancellers -> CancellerType]
    /\ {failures, cancels, crashes} \subseteq Nat

\* Interleaved as they may be, the threads do to orders, records and wallets
\* what the transactions of SpotTrade do one at a time: no match or
\* cancellation is lost, done twice or done from a row that has changed.
ImplementsSpotTrade == Spec

\* A cancellation that was asked for comes to an end: no set of threads waits
\* for each other's locks.
CancelEnds == \A c \in Cancellers : canceller[c].pc # "idle" ~> canceller[c].pc = "idle"

\* Orders that cross do not stay so: one of them is filled, cancelled or set
\* aside, whatever the cached book said and however often the match failed.
CrossedIsResolved == \A b, s \in OrderIds : CanTrade(b, s) ~> ~CanTrade(b, s)

-----------------------------------------------------------------------------
(* What makes these inductive (MatcherProofs).                             *)

\* What a matcher relies on: the orders it locked are its own until it unlocks
\* them, and rows it has read are still as they were.
MatcherHolds(m) ==
    LET me == matcher[m]
    IN  /\ me.pc \notin {"idle", "pickBuy", "pickSell"} => {me.buy, me.sell} \subseteq OrderIds
        /\ me.pc = "lockSecond" => orderLock[Lower(m)] = m
        /\ me.pc \in {"read", "commit", "error", "retry", "unlock"} =>
             orderLock[me.buy] = m /\ orderLock[me.sell] = m
        /\ me.pc = "commit" =>
             /\ CanTrade(me.buy, me.sell)
             /\ me.buyRead.row = orders[me.buy] /\ me.sellRead.row = orders[me.sell]
        /\ me.pc = "error" =>
             me.failed \in {me.buy, me.sell} /\ orders[me.failed].status = "WAIT"

\* What a canceller relies on.  Only the administrator may put its order back,
\* which changes the status alone.
CancellerHolds(c) ==
    LET me == canceller[c]
    IN  /\ me.pc # "idle" => me.order \in OrderIds
        /\ me.pc \in {"check", "read", "commit", "unlock"} => orderLock[me.order] = c
        /\ me.pc = "commit" =>
             /\ Open(orders[me.order]) /\ Open(me.read.row)
             /\ orders[me.order] = [me.read.row EXCEPT !.status = orders[me.order].status]

\* Between taking its locks and committing, each thread has its orders to
\* itself, across failures, restarts and an administrator who puts orders back.
ThreadsHold == /\ \A m \in Matchers : MatcherHolds(m)
               /\ \A c \in Cancellers : CancellerHolds(c)

\* Without locks, what a matcher has read is as it was as long as the version
\* is, and a row that another thread has written since is one that was
\* cancelled: only an order that is closed for good fails, once in a round.
Closed(o) == orders[o].status \in {"CANCEL", "DELETED"}

RowRead(o, read) ==
    /\ read.version <= version[o]
    /\ IF Fresh(o, read) THEN read.row = orders[o] ELSE Closed(o)

MatcherReads(m) ==
    LET me == matcher[m]
    IN  /\ me.pc \notin {"idle", "pickBuy", "pickSell"} => {me.buy, me.sell} \subseteq OrderIds
        /\ me.pc = "pickSell" /\ me.buy # 0 => me.errorTimes[me.buy] = 0
        /\ me.pc \in {"lockFirst", "lockSecond", "read", "commit"} =>
             me.errorTimes[me.buy] = 0 /\ me.errorTimes[me.sell] = 0
        /\ me.pc = "commit" =>
             /\ RowRead(me.buy, me.buyRead) /\ RowRead(me.sell, me.sellRead)
             /\ me.buyRead.row.status = "WAIT" /\ me.buyRead.row.side = "BUY"
             /\ me.sellRead.row.status = "WAIT" /\ me.sellRead.row.side = "SELL"
             /\ me.buyRead.row.price >= me.sellRead.row.price
        /\ me.pc = "error" => /\ me.failed \in {me.buy, me.sell}
                             /\ me.errorTimes[me.failed] = 0 /\ Closed(me.failed)
        /\ \A o \in OrderIds : me.errorTimes[o] > 0 => Closed(o)

\* What a canceller has read is as it was as long as the version is, but for an
\* administrator who puts the order back.
CancellerReads(c) ==
    LET me == canceller[c]
    IN  /\ me.pc # "idle" => me.order \in OrderIds
        /\ me.pc = "commit" =>
             /\ me.read.version <= version[me.order] /\ Open(me.read.row)
             /\ Fresh(me.order, me.read) =>
                  /\ Open(orders[me.order])
                  /\ orders[me.order] = [me.read.row EXCEPT !.status = orders[me.order].status]

\* With one matching thread, as TradeRequest starts them, and transactions that
\* fail for no other reason than a version, that is enough without locks.
OneMatcher == (\A m, n \in Matchers : m = n) /\ MaxFailures = 0

ThreadsRead == /\ \A m \in Matchers : MatcherReads(m)
               /\ \A c \in Cancellers : CancellerReads(c)
=============================================================================
