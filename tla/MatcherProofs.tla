--------------------------- MODULE MatcherProofs ---------------------------
(***************************************************************************)
(* Matcher implements SpotTrade when the locks exclude, for every number   *)
(* of matchers, cancellers, users and orders.  ThreadsHold is inductive: a *)
(* thread writes no order that another one has locked, and what writes     *)
(* orders without a lock (publishing, the administrator's errorModify, the *)
(* clean-up) leaves alone what a thread has read and relies on.  And it    *)
(* implements SpotTrade without any lock when one thread matches:          *)
(* ThreadsRead is inductive, for a row is written under a new version.     *)
(***************************************************************************)
EXTENDS SpotTradeBalance, Matcher

-----------------------------------------------------------------------------
(* What a step of thread t does to the others.                             *)

\* The locks of the other threads stay.
KeepsLocks(t) == \A o \in OrderIds :
    orderLock[o] # t /\ orderLock[o] # Free => orderLock'[o] = orderLock[o]

\* An order of another thread's stays, unless the administrator puts it back.
KeepsOrders(t) == \A o \in OrderIds :
    \/ orders'[o] = orders[o]
    \/ orderLock[o] = t
    \/ orders[o].status \in {"NONE", "CANCEL"}
    \/ orders[o].status = "ERROR" /\ orders'[o] = [orders[o] EXCEPT !.status = "WAIT"]

\* A matcher that does nothing keeps what it holds.
LEMMA OtherMatcherHolds ==
  ASSUME MatcherTypeOK, NEW t, NEW m \in Matchers, m # t, matcher'[m] = matcher[m],
         KeepsLocks(t), KeepsOrders(t), MatcherHolds(m)
  PROVE  MatcherHolds(m)'
<1> DEFINE me == matcher[m]
<1>1. /\ me.pc \notin {"idle", "pickBuy", "pickSell"} => me.buy \in OrderIds /\ me.sell \in OrderIds
      /\ m # Free
  BY ThreadsAssumption DEF MatcherHolds, Threads
<1>2. \A o \in OrderIds : orderLock[o] = m => orderLock'[o] = m
  BY <1>1 DEF KeepsLocks
<1>3. \A o \in OrderIds : orderLock[o] = m /\ orders[o].status = "WAIT" => orders'[o] = orders[o]
  BY DEF KeepsOrders
<1>4. Lower(m)' = Lower(m)
  BY DEF Lower
<1>5. me.pc = "lockSecond" => Lower(m) \in OrderIds
  BY <1>1 DEF Lower
<1>6. CASE me.pc = "lockSecond"
  BY <1>1, <1>2, <1>4, <1>5, <1>6 DEF MatcherHolds
<1>7. CASE me.pc = "commit"
  <2>1. /\ orderLock[me.buy] = m /\ orderLock[me.sell] = m
        /\ CanTrade(me.buy, me.sell)
        /\ me.buyRead.row = orders[me.buy] /\ me.sellRead.row = orders[me.sell]
    BY <1>7 DEF MatcherHolds
  <2>2. orders'[me.buy] = orders[me.buy] /\ orders'[me.sell] = orders[me.sell]
    BY <1>1, <1>3, <1>7, <2>1 DEF CanTrade
  <2> QED BY <1>1, <1>2, <1>7, <2>1, <2>2 DEF MatcherHolds, CanTrade
<1>8. CASE me.pc = "error"
  <2>1. /\ orderLock[me.buy] = m /\ orderLock[me.sell] = m
        /\ me.failed \in {me.buy, me.sell} /\ orders[me.failed].status = "WAIT"
    BY <1>8 DEF MatcherHolds
  <2>2. orders'[me.failed] = orders[me.failed]
    BY <1>1, <1>3, <1>8, <2>1
  <2> QED BY <1>1, <1>2, <1>8, <2>1, <2>2 DEF MatcherHolds
<1>9. CASE me.pc \notin {"lockSecond", "commit", "error"}
  BY <1>1, <1>2, <1>9 DEF MatcherHolds
<1> QED BY <1>6, <1>7, <1>8, <1>9

\* So does a canceller.
LEMMA OtherCancellerHolds ==
  ASSUME MatcherTypeOK, NEW t, NEW c \in Cancellers, c # t, canceller'[c] = canceller[c],
         KeepsLocks(t), KeepsOrders(t), CancellerHolds(c)
  PROVE  CancellerHolds(c)'
<1> DEFINE me == canceller[c]
<1> DEFINE o  == me.order
<1>1. (me.pc # "idle" => o \in OrderIds) /\ c # Free
  BY ThreadsAssumption DEF CancellerHolds, Threads
<1>2. o \in OrderIds /\ orderLock[o] = c => orderLock'[o] = c
  BY <1>1 DEF KeepsLocks
<1>3. CASE me.pc = "commit"
  <2>1. /\ o \in OrderIds /\ orderLock[o] = c /\ Open(orders[o]) /\ Open(me.read.row)
        /\ orders[o] = [me.read.row EXCEPT !.status = orders[o].status]
    BY <1>1, <1>3 DEF CancellerHolds
  <2>2. \/ orders'[o] = orders[o]
        \/ orders[o].status = "ERROR" /\ orders'[o] = [orders[o] EXCEPT !.status = "WAIT"]
    BY <2>1 DEF KeepsOrders, Open
  <2>3. me.read.row \in Order /\ orders[o] \in Order
    BY <2>1 DEF MatcherTypeOK, CancellerType, SnapshotType, TypeOK
  <2> HIDE DEF o, me
  <2>4. Open(orders'[o]) /\ orders'[o] = [me.read.row EXCEPT !.status = orders'[o].status]
    BY <2>1, <2>2, <2>3 DEF Order, Open
  <2> QED BY <1>2, <1>3, <2>1, <2>4 DEF CancellerHolds, Open, o, me
<1>4. CASE me.pc # "commit"
  BY <1>1, <1>2, <1>4 DEF CancellerHolds
<1> QED BY <1>3, <1>4

-----------------------------------------------------------------------------
(* The matchers' steps.                                                    *)

\* Steps that touch neither locks nor orders.
LEMMA QuietStep ==
  ASSUME NEW t, orderLock' = orderLock, orders' = orders
  PROVE  KeepsLocks(t) /\ KeepsOrders(t)
BY DEF KeepsLocks, KeepsOrders

\* Taking a free lock and giving back one's own leaves the others' alone.
LEMMA AcquireKeeps ==
  ASSUME MatcherTypeOK, Locking, NEW t, NEW o \in OrderIds, Acquire(t, o)
  PROVE  KeepsLocks(t) /\ orderLock'[o] = t /\ \A i \in OrderIds : orderLock[i] = t => orderLock'[i] = t
BY DEF Acquire, KeepsLocks, MatcherTypeOK

LEMMA ReleaseKeeps ==
  ASSUME NEW t, NEW os, Release(t, os)
  PROVE  KeepsLocks(t)
BY DEF Release, KeepsLocks

\* Looking at the book and at the prices.
LEMMA PickingHolds ==
  ASSUME MatcherTypeOK, NEW m \in Matchers, MatcherHolds(m),
         StartRound(m) \/ PickBuy(m) \/ PickSell(m)
  PROVE  KeepsLocks(m) /\ KeepsOrders(m) /\ MatcherHolds(m)'
<1>1. orderLock' = orderLock /\ orders' = orders
  BY DEF StartRound, PickBuy, PickSell, vars
<1>2. matcher[m] \in MatcherType /\ BestSells \subseteq OrderIds
  BY DEF MatcherTypeOK, BestSells, Waiting
<1>3. CASE StartRound(m) \/ PickBuy(m)
  <2>1. matcher'[m].pc \in {"pickBuy", "pickSell"}
    BY <1>2, <1>3 DEF StartRound, PickBuy, MatcherTypeOK, MatcherType
  <2> QED BY <1>1, <2>1, QuietStep DEF MatcherHolds
<1>4. CASE PickSell(m)
  <2>1. \/ matcher'[m].pc = "idle"
        \/ /\ matcher'[m].pc = "lockFirst"
           /\ matcher'[m].buy \in OrderIds /\ matcher'[m].sell \in OrderIds
    BY <1>2, <1>4 DEF PickSell, MatcherTypeOK, MatcherType, IdleMatcher
  <2> QED BY <1>1, <2>1, QuietStep DEF MatcherHolds
<1> QED BY <1>3, <1>4

LEMMA LockingHolds ==
  ASSUME MatcherTypeOK, Locking, NEW m \in Matchers, MatcherHolds(m),
         LockFirst(m) \/ LockSecond(m)
  PROVE  KeepsLocks(m) /\ KeepsOrders(m) /\ MatcherHolds(m)'
<1>1. /\ matcher[m] \in MatcherType /\ orders' = orders
      /\ matcher[m].buy \in OrderIds /\ matcher[m].sell \in OrderIds
      /\ Lower(m) \in OrderIds /\ Higher(m) \in OrderIds
      /\ {Lower(m), Higher(m)} = {matcher[m].buy, matcher[m].sell}
  BY DEF MatcherTypeOK, MatcherHolds, LockFirst, LockSecond, vars, Lower, Higher
<1>2. KeepsOrders(m)
  BY <1>1 DEF KeepsOrders
<1>3. CASE LockFirst(m)
  <2>1. /\ matcher'[m].pc = "lockSecond"
        /\ matcher'[m].buy = matcher[m].buy /\ matcher'[m].sell = matcher[m].sell
    BY <1>1, <1>3 DEF LockFirst, MatcherTypeOK, MatcherType
  <2>2. KeepsLocks(m) /\ orderLock'[Lower(m)] = m
    BY <1>1, <1>3, AcquireKeeps DEF LockFirst
  <2>3. Lower(m)' = Lower(m)
    BY <2>1 DEF Lower
  <2> QED BY <1>1, <1>2, <2>1, <2>2, <2>3 DEF MatcherHolds
<1>4. CASE LockSecond(m)
  <2>1. /\ matcher'[m].pc \in {"read", "unlock"}
        /\ matcher'[m].buy = matcher[m].buy /\ matcher'[m].sell = matcher[m].sell
    BY <1>1, <1>4 DEF LockSecond, MatcherTypeOK, MatcherType
  <2>2. orderLock[Lower(m)] = m
    BY <1>4 DEF LockSecond, MatcherHolds
  <2>3. KeepsLocks(m) /\ orderLock'[Higher(m)] = m /\ orderLock'[Lower(m)] = m
    BY <1>1, <1>4, <2>2, AcquireKeeps DEF LockSecond
  <2> QED BY <1>1, <1>2, <2>1, <2>3 DEF MatcherHolds
<1> QED BY <1>3, <1>4

LEMMA ReadingHolds ==
  ASSUME MatcherTypeOK, NEW m \in Matchers, MatcherHolds(m), ReadRows(m)
  PROVE  KeepsLocks(m) /\ KeepsOrders(m) /\ MatcherHolds(m)'
<1>1. /\ matcher[m] \in MatcherType /\ orders' = orders /\ orderLock' = orderLock
      /\ matcher[m].buy \in OrderIds /\ matcher[m].sell \in OrderIds
      /\ orderLock[matcher[m].buy] = m /\ orderLock[matcher[m].sell] = m
  BY DEF MatcherTypeOK, MatcherHolds, ReadRows, vars
<1>2. /\ matcher'[m].buy = matcher[m].buy /\ matcher'[m].sell = matcher[m].sell
      /\ \/ matcher'[m].pc = "unlock"
         \/ /\ matcher'[m].pc = "commit" /\ CanTrade(matcher[m].buy, matcher[m].sell)
            /\ matcher'[m].buyRead = Snapshot(matcher[m].buy)
            /\ matcher'[m].sellRead = Snapshot(matcher[m].sell)
  BY <1>1 DEF ReadRows, MatcherTypeOK, MatcherType
<1> QED BY <1>1, <1>2, QuietStep DEF MatcherHolds, Snapshot, CanTrade

\* A commit, and the two outcomes of its failure.
LEMMA CommittingHolds ==
  ASSUME MatcherTypeOK, NEW m \in Matchers, MatcherHolds(m),
         Commit(m) \/ CommitFails(m) \/ OnError(m)
  PROVE  KeepsLocks(m) /\ KeepsOrders(m) /\ MatcherHolds(m)'
<1> DEFINE b == matcher[m].buy
<1> DEFINE s == matcher[m].sell
<1>1. /\ matcher[m] \in MatcherType /\ orderLock' = orderLock
      /\ b \in OrderIds /\ s \in OrderIds
      /\ orderLock[b] = m /\ orderLock[s] = m
  BY DEF MatcherTypeOK, MatcherHolds, Commit, CommitFails, OnError
<1>2. KeepsLocks(m)
  BY <1>1 DEF KeepsLocks
<1>3. CASE Commit(m)
  <2>1. /\ matcher'[m].pc = "unlock" /\ matcher'[m].buy = b /\ matcher'[m].sell = s
    BY <1>1, <1>3 DEF Commit, MatcherTypeOK, MatcherType
  <2>2. \A o \in OrderIds : o # b /\ o # s => orders'[o] = orders[o]
    BY <1>3 DEF Commit, MatcherTypeOK, TypeOK
  <2> QED BY <1>1, <1>2, <2>1, <2>2 DEF MatcherHolds, KeepsOrders
<1>4. CASE CommitFails(m)
  <2>1. /\ orders' = orders /\ orders[b].status = "WAIT" /\ orders[s].status = "WAIT"
    BY <1>4 DEF CommitFails, vars, MatcherHolds, CanTrade
  <2>2. Stale(m) \subseteq {b, s}
    BY DEF Stale
  <2>3. /\ matcher'[m].buy = b /\ matcher'[m].sell = s
        /\ \/ matcher'[m].pc = "unlock"
           \/ matcher'[m].pc = "error" /\ matcher'[m].failed \in {b, s}
    BY <1>1, <1>4, <2>2 DEF CommitFails, MatcherTypeOK, MatcherType
  <2> QED BY <1>1, <1>2, <2>1, <2>3 DEF MatcherHolds, KeepsOrders
<1>5. CASE OnError(m)
  <2>1. matcher[m].failed \in {b, s}
    BY <1>5 DEF OnError, MatcherHolds
  <2>2. \A o \in OrderIds : o # b /\ o # s => orders'[o] = orders[o]
    BY <1>5, <2>1 DEF OnError, MatcherTypeOK, TypeOK
  <2>3. /\ matcher'[m].buy = b /\ matcher'[m].sell = s
        /\ matcher'[m].pc \in {"unlock", "retry"}
    BY <1>1, <1>5 DEF OnError, MatcherTypeOK, MatcherType
  <2> QED BY <1>1, <1>2, <2>2, <2>3 DEF MatcherHolds, KeepsOrders
<1> QED BY <1>3, <1>4, <1>5

LEMMA UnlockingHolds ==
  ASSUME MatcherTypeOK, NEW m \in Matchers, MatcherHolds(m), Unlock(m)
  PROVE  KeepsLocks(m) /\ KeepsOrders(m) /\ MatcherHolds(m)'
<1>1. matcher'[m].pc \in {"idle", "pickBuy"}
  BY DEF Unlock, MatcherTypeOK, MatcherType, IdleMatcher
<1>2. KeepsLocks(m) /\ orders' = orders
  BY ReleaseKeeps DEF Unlock, vars
<1> QED BY <1>1, <1>2 DEF MatcherHolds, KeepsOrders

\* A matcher's step leaves the other threads where they are.
LEMMA MatcherStepHolds ==
  ASSUME MatcherTypeOK, Locking, NEW m \in Matchers, MatcherHolds(m), MatcherStep(m)
  PROVE  /\ KeepsLocks(m) /\ KeepsOrders(m) /\ MatcherHolds(m)'
         /\ \A n \in Matchers : n # m => matcher'[n] = matcher[n]
         /\ canceller' = canceller
<1>1. \A n \in Matchers : n # m => matcher'[n] = matcher[n]
  BY DEF MatcherTypeOK, MatcherStep, StartRound, PickBuy, PickSell, LockFirst, LockSecond,
         ReadRows, Commit, CommitFails, OnError, Unlock
<1>2. canceller' = canceller
  BY DEF MatcherStep, StartRound, PickBuy, PickSell, LockFirst, LockSecond,
         ReadRows, Commit, CommitFails, OnError, Unlock
<1> QED BY <1>1, <1>2, PickingHolds, LockingHolds, ReadingHolds, CommittingHolds, UnlockingHolds
        DEF MatcherStep

-----------------------------------------------------------------------------
(* The cancellers' steps.                                                  *)

LEMMA CancelAskingHolds ==
  ASSUME MatcherTypeOK, NEW c \in Cancellers, CancellerHolds(c),
         CancelLockUser(c) \/ \E o \in OrderIds : CancelRequest(c, o)
  PROVE  KeepsLocks(c) /\ KeepsOrders(c) /\ CancellerHolds(c)'
<1>1. canceller[c] \in CancellerType /\ orderLock' = orderLock /\ orders' = orders
  BY DEF MatcherTypeOK, CancelLockUser, CancelRequest, vars
<1>2. /\ canceller'[c].pc \in {"lockUser", "lockOrder"}
      /\ canceller'[c].order \in OrderIds
  <2>1. CASE CancelLockUser(c)
    <3>1. canceller[c].order \in OrderIds
      BY <2>1 DEF CancelLockUser, CancellerHolds
    <3> QED BY <1>1, <2>1, <3>1 DEF CancelLockUser, MatcherTypeOK, CancellerType
  <2>2. CASE \E o \in OrderIds : CancelRequest(c, o)
    <3>1. PICK o \in OrderIds : CancelRequest(c, o)
      BY <2>2
    <3>2. canceller'[c] = [canceller[c] EXCEPT !.pc = "lockUser", !.order = o]
      BY <3>1 DEF CancelRequest, MatcherTypeOK
    <3> QED BY <1>1, <3>1, <3>2 DEF CancellerType
  <2> QED BY <2>1, <2>2
<1> QED BY <1>1, <1>2, QuietStep DEF CancellerHolds

LEMMA CancelLockHolds ==
  ASSUME MatcherTypeOK, Locking, NEW c \in Cancellers, CancellerHolds(c), CancelLockOrder(c)
  PROVE  KeepsLocks(c) /\ KeepsOrders(c) /\ CancellerHolds(c)'
<1>1. /\ canceller[c] \in CancellerType /\ orders' = orders
      /\ canceller[c].order \in OrderIds
  BY DEF MatcherTypeOK, CancelLockOrder, vars, CancellerHolds
<1>2. canceller'[c].pc = "check" /\ canceller'[c].order = canceller[c].order
  BY <1>1 DEF CancelLockOrder, MatcherTypeOK, CancellerType
<1>3. KeepsLocks(c) /\ orderLock'[canceller[c].order] = c
  BY <1>1, AcquireKeeps DEF CancelLockOrder
<1> QED BY <1>1, <1>2, <1>3 DEF CancellerHolds, KeepsOrders

LEMMA CancelReadingHolds ==
  ASSUME MatcherTypeOK, NEW c \in Cancellers, CancellerHolds(c), CancelCheck(c) \/ CancelRead(c)
  PROVE  KeepsLocks(c) /\ KeepsOrders(c) /\ CancellerHolds(c)'
<1> DEFINE o == canceller[c].order
<1>1. /\ canceller[c] \in CancellerType /\ orders' = orders /\ orderLock' = orderLock
      /\ o \in OrderIds /\ orderLock[o] = c /\ orders[o] \in Order
  BY DEF MatcherTypeOK, TypeOK, CancelCheck, CancelRead, vars, CancellerHolds
<1>2. /\ canceller'[c].order = o
      /\ \/ canceller'[c].pc \in {"read", "unlock"}
         \/ /\ canceller'[c].pc = "commit" /\ Open(orders[o])
            /\ canceller'[c].read = Snapshot(o)
  BY <1>1 DEF CancelCheck, CancelRead, MatcherTypeOK, CancellerType, Open
<1>3. orders[o] = [orders[o] EXCEPT !.status = orders[o].status]
  BY <1>1 DEF Order
<1>4. canceller'[c].pc = "commit" => canceller'[c].read.row = orders'[o]
  BY <1>1, <1>2 DEF Snapshot
<1>5. CancellerHolds(c)'
  <2> HIDE DEF o
  <2> QED BY <1>1, <1>2, <1>3, <1>4 DEF CancellerHolds, Open
<1>6. KeepsLocks(c) /\ KeepsOrders(c)
  BY <1>1, QuietStep
<1> QED BY <1>5, <1>6

LEMMA CancelEndingHolds ==
  ASSUME MatcherTypeOK, NEW c \in Cancellers, CancellerHolds(c),
         CancelCommit(c) \/ CancelFails(c) \/ CancelUnlock(c)
  PROVE  KeepsLocks(c) /\ KeepsOrders(c) /\ CancellerHolds(c)'
<1> DEFINE o == canceller[c].order
<1>1. /\ canceller[c] \in CancellerType
      /\ o \in OrderIds /\ orderLock[o] = c
  BY DEF MatcherTypeOK, CancelCommit, CancelFails, CancelUnlock, CancellerHolds
<1>2. CASE CancelCommit(c) \/ CancelFails(c)
  <2>1. /\ orderLock' = orderLock /\ canceller'[c].order = o /\ canceller'[c].pc = "unlock"
    BY <1>1, <1>2 DEF CancelCommit, CancelFails, MatcherTypeOK, CancellerType
  <2>2. \A i \in OrderIds : i # o => orders'[i] = orders[i]
    BY <1>2 DEF CancelCommit, CancelFails, vars, MatcherTypeOK, TypeOK
  <2> QED BY <1>1, <2>1, <2>2 DEF CancellerHolds, KeepsOrders, KeepsLocks
<1>3. CASE CancelUnlock(c)
  <2>1. canceller'[c].pc = "idle" /\ orders' = orders
    BY <1>3 DEF CancelUnlock, MatcherTypeOK, IdleCanceller, vars
  <2>2. KeepsLocks(c)
    BY <1>3, ReleaseKeeps DEF CancelUnlock
  <2> QED BY <2>1, <2>2 DEF CancellerHolds, KeepsOrders
<1> QED BY <1>2, <1>3

LEMMA CancellerStepHolds ==
  ASSUME MatcherTypeOK, Locking, NEW c \in Cancellers, CancellerHolds(c),
         CancellerStep(c) \/ \E o \in OrderIds : CancelRequest(c, o)
  PROVE  /\ KeepsLocks(c) /\ KeepsOrders(c) /\ CancellerHolds(c)'
         /\ \A n \in Cancellers : n # c => canceller'[n] = canceller[n]
         /\ matcher' = matcher
<1>1. \A n \in Cancellers : n # c => canceller'[n] = canceller[n]
  BY DEF MatcherTypeOK, CancellerStep, CancelLockUser, CancelLockOrder, CancelCheck, CancelRead,
         CancelCommit, CancelFails, CancelUnlock, CancelRequest
<1>2. matcher' = matcher
  BY DEF CancellerStep, CancelLockUser, CancelLockOrder, CancelCheck, CancelRead,
         CancelCommit, CancelFails, CancelUnlock, CancelRequest
<1> QED BY <1>1, <1>2, CancelAskingHolds, CancelLockHolds, CancelReadingHolds, CancelEndingHolds
        DEF CancellerStep

-----------------------------------------------------------------------------
(* Every step keeps what the threads rely on.                              *)

Beside ==
    \/ \E u \in Users, side \in Sides, p \in Prices, q \in Quantities : Publish(u, side, p, q)
    \/ AdminErrorModify \/ CleanUp \/ SyncJob

\* What writes orders without a lock does not touch orders in somebody's hands.
LEMMA BesideKeeps ==
  ASSUME MatcherTypeOK, Beside
  PROVE  /\ KeepsLocks(Free) /\ KeepsOrders(Free)
         /\ matcher' = matcher /\ canceller' = canceller
<1>1. orderLock' = orderLock /\ matcher' = matcher /\ canceller' = canceller
  BY DEF Beside, Publish, AdminErrorModify, CleanUp, SyncJob, threadVars
<1>2. KeepsOrders(Free)
  BY DEF Beside, Publish, PublishTrade, NextOrderId, AdminErrorModify, ErrorModify, CleanUp,
         DeleteRobotCancel, Deletable, SyncJob, vars, KeepsOrders, MatcherTypeOK, TypeOK
<1> QED BY <1>1, <1>2 DEF KeepsLocks

LEMMA NextThreadsHold ==
  ASSUME MatcherTypeOK, Locking, ThreadsHold, [MatcherNext]_allVars
  PROVE  ThreadsHold'
<1>0. /\ Matchers \cap Cancellers = {} /\ Free \notin Matchers /\ Free \notin Cancellers
  BY ThreadsAssumption DEF Threads
<1>1. CASE \E m \in Matchers : MatcherStep(m)
  <2>1. PICK m \in Matchers : MatcherStep(m)
    BY <1>1
  <2>2. /\ KeepsLocks(m) /\ KeepsOrders(m) /\ MatcherHolds(m)'
        /\ \A n \in Matchers : n # m => matcher'[n] = matcher[n]
        /\ canceller' = canceller
    BY <2>1, MatcherStepHolds DEF ThreadsHold
  <2>3. \A n \in Matchers : MatcherHolds(n)'
    BY <2>2, OtherMatcherHolds DEF ThreadsHold
  <2>4. \A c \in Cancellers : CancellerHolds(c)'
    BY <1>0, <2>2, OtherCancellerHolds DEF ThreadsHold
  <2> QED BY <2>3, <2>4 DEF ThreadsHold
<1>2. CASE \E c \in Cancellers : CancellerStep(c) \/ \E o \in OrderIds : CancelRequest(c, o)
  <2>1. PICK c \in Cancellers : CancellerStep(c) \/ \E o \in OrderIds : CancelRequest(c, o)
    BY <1>2
  <2>2. /\ KeepsLocks(c) /\ KeepsOrders(c) /\ CancellerHolds(c)'
        /\ \A n \in Cancellers : n # c => canceller'[n] = canceller[n]
        /\ matcher' = matcher
    BY <2>1, CancellerStepHolds DEF ThreadsHold
  <2>3. \A n \in Matchers : MatcherHolds(n)'
    BY <1>0, <2>2, OtherMatcherHolds DEF ThreadsHold
  <2>4. \A n \in Cancellers : CancellerHolds(n)'
    BY <2>2, OtherCancellerHolds DEF ThreadsHold
  <2> QED BY <2>3, <2>4 DEF ThreadsHold
<1>3. CASE Beside
  <2>1. /\ KeepsLocks(Free) /\ KeepsOrders(Free)
        /\ matcher' = matcher /\ canceller' = canceller
    BY <1>3, BesideKeeps
  <2>2. \A n \in Matchers : MatcherHolds(n)'
    BY <1>0, <2>1, OtherMatcherHolds DEF ThreadsHold
  <2>3. \A n \in Cancellers : CancellerHolds(n)'
    BY <1>0, <2>1, OtherCancellerHolds DEF ThreadsHold
  <2> QED BY <2>2, <2>3 DEF ThreadsHold
<1>4. CASE Crash
  <2>1. /\ \A m \in Matchers : matcher'[m].pc = "idle"
        /\ \A c \in Cancellers : canceller'[c].pc = "idle"
    BY <1>4 DEF Crash, IdleMatcher, IdleCanceller
  <2> QED BY <2>1 DEF ThreadsHold, MatcherHolds, CancellerHolds
<1>5. CASE UNCHANGED allVars
  <2>1. /\ orders' = orders /\ orderLock' = orderLock
        /\ matcher' = matcher /\ canceller' = canceller
    BY <1>5 DEF allVars, vars, threadVars
  <2>2. KeepsLocks(Free) /\ KeepsOrders(Free)
    BY <2>1, QuietStep
  <2>3. \A n \in Matchers : MatcherHolds(n)'
    BY <1>0, <2>1, <2>2, OtherMatcherHolds DEF ThreadsHold
  <2>4. \A n \in Cancellers : CancellerHolds(n)'
    BY <1>0, <2>1, <2>2, OtherCancellerHolds DEF ThreadsHold
  <2> QED BY <2>3, <2>4 DEF ThreadsHold
<1> QED BY <1>1, <1>2, <1>3, <1>4, <1>5 DEF MatcherNext, Beside

-----------------------------------------------------------------------------
(* The implementation, whatever keeps the threads from each other.         *)

\* What a step of a matcher's needs to be one of SpotTrade's: rows that are as
\* they were read if their versions are, and an order to set aside that waits.
MatcherReady(m) ==
    LET me == matcher[m]
    IN  /\ me.pc \notin {"idle", "pickBuy", "pickSell"} => {me.buy, me.sell} \subseteq OrderIds
        /\ (me.pc = "commit" /\ Fresh(me.sell, me.sellRead) /\ Fresh(me.buy, me.buyRead)) =>
             /\ CanTrade(me.buy, me.sell)
             /\ me.buyRead.row = orders[me.buy] /\ me.sellRead.row = orders[me.sell]
        /\ me.pc = "error" => me.failed \in {me.buy, me.sell}
        /\ (me.pc = "error" /\ me.errorTimes[me.failed] > ErrorLimit) =>
             orders[me.failed].status = "WAIT"

\* And one of a canceller's.
CancellerReady(c) ==
    LET me == canceller[c]
    IN  /\ me.pc # "idle" => me.order \in OrderIds
        /\ (me.pc = "commit" /\ Fresh(me.order, me.read)) =>
             /\ Open(orders[me.order])
             /\ orders[me.order] = [me.read.row EXCEPT !.status = orders[me.order].status]

ThreadsReady == /\ \A m \in Matchers : MatcherReady(m)
                /\ \A c \in Cancellers : CancellerReady(c)

\* Locked orders are enough for that.
LEMMA HeldIsReady == ASSUME ThreadsHold PROVE ThreadsReady
BY DEF ThreadsHold, MatcherHolds, CancellerHolds, ThreadsReady, MatcherReady, CancellerReady

\* A commit from rows that are still as they were read is a match; setting
\* aside an order that waits is MarkError; nothing else is visible.
LEMMA MatcherStepImplements ==
  ASSUME MatcherTypeOK, NEW m \in Matchers, MatcherReady(m), MatcherStep(m)
  PROVE  [Next]_vars
<1> DEFINE b == matcher[m].buy
<1> DEFINE s == matcher[m].sell
<1>1. CASE Commit(m)
  <2>1. CASE ReadQuantity(m) <= 0
    BY <1>1, <2>1 DEF Commit, vars
  <2>2. CASE ~(ReadQuantity(m) <= 0)
    <3>1. /\ b \in OrderIds /\ s \in OrderIds /\ CanTrade(b, s)
          /\ matcher[m].buyRead.row = orders[b] /\ matcher[m].sellRead.row = orders[s]
      BY <1>1, <2>2 DEF Commit, MatcherReady
    <3>2. ReadQuantity(m) = TradeQuantity(b, s) /\ b # s
      BY <3>1 DEF ReadQuantity, TradeQuantity, CanTrade
    <3>3. TradeQuantity(b, s) \in Int /\ TradeQuantity(b, s) > 0
      BY <2>2, <3>1, <3>2, OrderParts DEF TradeQuantity, MatcherTypeOK
    <3>4. \E r \in RecordIds :
            /\ NextRecordId(r)
            /\ records' = [records EXCEPT ![r] = NewRecord(b, s, TradeQuantity(b, s))]
      BY <1>1, <2>2, <3>2 DEF Commit
    <3>5. orders' = [orders EXCEPT ![s] = Filled(orders[s], TradeQuantity(b, s)),
                                   ![b] = Filled(orders[b], TradeQuantity(b, s))]
      BY <1>1, <2>2, <3>1, <3>2 DEF Commit
    <3>6. orders' = [orders EXCEPT ![b] = Filled(@, TradeQuantity(b, s)),
                                   ![s] = Filled(@, TradeQuantity(b, s))]
      BY <3>1, <3>2, <3>5 DEF MatcherTypeOK, TypeOK
    <3>7. UNCHANGED <<using, freeze>>
      BY <1>1 DEF Commit
    <3> QED BY <3>1, <3>3, <3>4, <3>6, <3>7 DEF DoTrade, Next, OrderNext
  <2> QED BY <2>1, <2>2
<1>2. CASE OnError(m)
  <2>1. /\ matcher[m].failed \in OrderIds
        /\ matcher[m].errorTimes[matcher[m].failed] > ErrorLimit
             => orders[matcher[m].failed].status = "WAIT"
    BY <1>2 DEF OnError, MatcherReady
  <2>2. \/ MarkError(matcher[m].failed)
        \/ UNCHANGED vars
    BY <1>2, <2>1 DEF OnError, MarkError, vars
  <2> QED BY <2>1, <2>2 DEF Next, OrderNext
<1>3. CASE ~Commit(m) /\ ~OnError(m)
  BY <1>3 DEF MatcherStep, StartRound, PickBuy, PickSell, LockFirst, LockSecond, ReadRows,
              CommitFails, Unlock
<1> QED BY <1>1, <1>2, <1>3

\* A cancellation commits from the row as it is, but for its status.
LEMMA CancellerStepImplements ==
  ASSUME MatcherTypeOK, NEW c \in Cancellers, CancellerReady(c),
         CancellerStep(c) \/ \E o \in OrderIds : CancelRequest(c, o)
  PROVE  [Next]_vars
<1> DEFINE o   == canceller[c].order
<1> DEFINE row == canceller[c].read.row
<1>1. CASE CancelCommit(c)
  <2>1. /\ o \in OrderIds /\ Open(orders[o])
        /\ orders[o] = [row EXCEPT !.status = orders[o].status]
        /\ row \in Order /\ orders[o] \in Order
    BY <1>1 DEF CancelCommit, CancellerReady, MatcherTypeOK, CancellerType, SnapshotType, TypeOK
  <2>2. /\ orders' = [orders EXCEPT ![o] = [row EXCEPT !.status = "CANCEL"]]
        /\ records' = records
    BY <1>1 DEF CancelCommit
  <2>3. IF row.owner \in Robots \/ SpendAmount(row.side, row.price, Surplus(row)) <= 0
        THEN UNCHANGED <<using, freeze>>
        ELSE ModifyWallet(row.owner, SpendCurrency(row.side),
                          SpendAmount(row.side, row.price, Surplus(row)),
                          -SpendAmount(row.side, row.price, Surplus(row)))
    BY <1>1 DEF CancelCommit
  <2> HIDE DEF o, row
  <2>4. /\ orders[o].owner = row.owner /\ orders[o].side = row.side
        /\ orders[o].price = row.price /\ orders[o].quantity = row.quantity
        /\ orders[o].tradeQuantity = row.tradeQuantity
        /\ [row EXCEPT !.status = "CANCEL"] = [orders[o] EXCEPT !.status = "CANCEL"]
    BY <2>1 DEF Order
  <2>5. Surplus(orders[o]) = Surplus(row)
    BY <2>4 DEF Surplus
  <2>6. orders' = [orders EXCEPT ![o].status = "CANCEL"]
    BY <2>1, <2>2, <2>4 DEF MatcherTypeOK, TypeOK
  <2>7. DoCancel(o)
    BY <2>1, <2>2, <2>3, <2>4, <2>5, <2>6 DEF DoCancel, Open
  <2> QED BY <2>1, <2>7 DEF Next, OrderNext
<1>2. CASE ~CancelCommit(c)
  BY <1>2 DEF CancellerStep, CancelLockUser, CancelLockOrder, CancelCheck, CancelRead,
              CancelFails, CancelUnlock, CancelRequest
<1> QED BY <1>1, <1>2

LEMMA NextImplements ==
  ASSUME MatcherTypeOK, ThreadsReady, [MatcherNext]_allVars
  PROVE  [Next]_vars
<1>1. CASE \E m \in Matchers : MatcherStep(m)
  BY <1>1, MatcherStepImplements DEF ThreadsReady
<1>2. CASE \E c \in Cancellers : CancellerStep(c) \/ \E o \in OrderIds : CancelRequest(c, o)
  BY <1>2, CancellerStepImplements DEF ThreadsReady
<1>3. CASE Beside
  BY <1>3 DEF Beside, Publish, AdminErrorModify, CleanUp, SyncJob, Next, OrderNext
<1>4. CASE Crash \/ UNCHANGED allVars
  BY <1>4 DEF Crash, allVars
<1> QED BY <1>1, <1>2, <1>3, <1>4 DEF MatcherNext, Beside
-----------------------------------------------------------------------------
(* Types.                                                                  *)

LEMMA IdleTypes ==
  /\ NoSnapshot \in SnapshotType
  /\ IdleMatcher \in MatcherType /\ IdleCanceller \in CancellerType
<1>1. NoOrder \in Order
  BY ConstantsAssumption DEF NoOrder, Order, OrderStatus, Sides
<1>2. NoSnapshot \in SnapshotType
  BY <1>1 DEF NoSnapshot, SnapshotType
<1>3. NoErrors \in [OrderIds -> Nat]
  BY DEF NoErrors
<1> QED BY <1>2, <1>3 DEF IdleMatcher, MatcherType, MatcherPcs, IdleCanceller, CancellerType,
                          CancellerPcs

LEMMA SnapshotTypes ==
  ASSUME MatcherTypeOK, NEW o \in OrderIds
  PROVE  Snapshot(o) \in SnapshotType
BY DEF MatcherTypeOK, TypeOK, Snapshot, SnapshotType

\* What a matcher writes of its own state.
LEMMA MatcherStepType ==
  ASSUME MatcherTypeOK, NEW m \in Matchers, MatcherReady(m), MatcherStep(m)
  PROVE  matcher' \in [Matchers -> MatcherType]
<1>0. /\ matcher \in [Matchers -> MatcherType] /\ matcher[m] \in MatcherType
  BY DEF MatcherTypeOK
<1>1. SUFFICES \E x \in MatcherType : matcher' = [matcher EXCEPT ![m] = x]
  BY <1>0
<1>2. ASSUME NEW pc \in MatcherPcs
      PROVE  [matcher[m] EXCEPT !.pc = pc] \in MatcherType
  BY <1>0, <1>2 DEF MatcherType
<1>3. CASE StartRound(m) \/ LockFirst(m) \/ LockSecond(m) \/ Commit(m)
  <2>1. PICK pc \in {"pickBuy", "lockSecond", "read", "unlock"} :
               matcher' = [matcher EXCEPT ![m] = [matcher[m] EXCEPT !.pc = pc]]
    BY <1>0, <1>3 DEF StartRound, LockFirst, LockSecond, Commit
  <2> QED BY <1>2, <2>1 DEF MatcherPcs
<1>4. CASE PickBuy(m)
  <2>1. PICK b \in OrderIds \cup {0} :
               matcher' = [matcher EXCEPT ![m] = [matcher[m] EXCEPT !.pc = "pickSell", !.buy = b]]
    BY <1>0, <1>4 DEF PickBuy, BestBuys, Waiting
  <2>2. [matcher[m] EXCEPT !.pc = "pickSell", !.buy = b] \in MatcherType
    BY <1>0, <2>1 DEF MatcherType, MatcherPcs
  <2> QED BY <2>1, <2>2
<1>5. CASE PickSell(m)
  <2>1. CASE matcher' = [matcher EXCEPT ![m] = IdleMatcher]
    BY <2>1, IdleTypes
  <2>2. CASE \E s \in BestSells :
               matcher' = [matcher EXCEPT ![m] = [matcher[m] EXCEPT !.pc = "lockFirst", !.sell = s]]
    <3>1. PICK s \in OrderIds :
               matcher' = [matcher EXCEPT ![m] = [matcher[m] EXCEPT !.pc = "lockFirst", !.sell = s]]
      BY <2>2 DEF BestSells, Waiting
    <3>2. [matcher[m] EXCEPT !.pc = "lockFirst", !.sell = s] \in MatcherType
      BY <1>0, <3>1 DEF MatcherType, MatcherPcs
    <3> QED BY <3>1, <3>2
  <2> QED BY <1>0, <1>5, <2>1, <2>2 DEF PickSell
<1>6. CASE ReadRows(m)
  <2>1. matcher[m].buy \in OrderIds /\ matcher[m].sell \in OrderIds
    BY <1>6 DEF ReadRows, MatcherReady
  <2>2. CASE matcher' = [matcher EXCEPT ![m] = [matcher[m] EXCEPT !.pc = "unlock"]]
    BY <1>2, <2>2 DEF MatcherPcs
  <2>3. ASSUME NEW x, NEW y, x \in SnapshotType, y \in SnapshotType
        PROVE  [matcher[m] EXCEPT !.pc = "commit", !.buyRead = x, !.sellRead = y] \in MatcherType
    BY <1>0, <2>3 DEF MatcherType, MatcherPcs
  <2>4. CASE matcher' = [matcher EXCEPT ![m] = [matcher[m] EXCEPT
                !.pc = "commit", !.buyRead = Snapshot(matcher[m].buy),
                !.sellRead = Snapshot(matcher[m].sell)]]
    BY <2>1, <2>3, <2>4, SnapshotTypes
  <2> QED BY <1>0, <1>6, <2>2, <2>4 DEF ReadRows
<1>7. CASE CommitFails(m)
  <2>1. matcher[m].buy \in OrderIds /\ matcher[m].sell \in OrderIds
    BY <1>7 DEF CommitFails, MatcherReady
  <2>2. CASE matcher' = [matcher EXCEPT ![m] = [matcher[m] EXCEPT !.pc = "unlock"]]
    BY <1>2, <2>2 DEF MatcherPcs
  <2>3. CASE \E o \in OrderIds :
               matcher' = [matcher EXCEPT ![m] = [matcher[m] EXCEPT !.pc = "error", !.failed = o]]
    <3>1. PICK o \in OrderIds :
               matcher' = [matcher EXCEPT ![m] = [matcher[m] EXCEPT !.pc = "error", !.failed = o]]
      BY <2>3
    <3>2. [matcher[m] EXCEPT !.pc = "error", !.failed = o] \in MatcherType
      BY <1>0, <3>1 DEF MatcherType, MatcherPcs
    <3> QED BY <3>1, <3>2
  <2> QED BY <1>0, <1>7, <2>1, <2>2, <2>3 DEF CommitFails, Stale
<1>8. CASE OnError(m)
  <2>1. CASE matcher' = [matcher EXCEPT ![m] = [matcher[m] EXCEPT !.pc = "unlock"]]
    BY <1>2, <2>1 DEF MatcherPcs
  <2>2. CASE matcher' = [matcher EXCEPT ![m].pc = "retry",
                                        ![m].errorTimes[matcher[m].failed] = @ + 1]
    <3> DEFINE f == [matcher[m].errorTimes EXCEPT ![matcher[m].failed] = @ + 1]
    <3>1. matcher[m].failed \in OrderIds /\ matcher[m].errorTimes \in [OrderIds -> Nat]
      BY <1>0, <1>8 DEF OnError, MatcherReady, MatcherType
    <3>2. f \in [OrderIds -> Nat]
      BY <3>1
    <3>3. matcher' = [matcher EXCEPT ![m] = [matcher[m] EXCEPT !.pc = "retry", !.errorTimes = f]]
      BY <1>0, <2>2 DEF MatcherType
    <3> HIDE DEF f
    <3>4. [matcher[m] EXCEPT !.pc = "retry", !.errorTimes = f] \in MatcherType
      BY <1>0, <3>2 DEF MatcherType, MatcherPcs
    <3> QED BY <3>3, <3>4
  <2> QED BY <1>0, <1>8, <2>1, <2>2 DEF OnError
<1>9. CASE Unlock(m)
  <2>1. CASE matcher[m].pc = "unlock"
    BY <1>9, <2>1, IdleTypes DEF Unlock
  <2>2. CASE matcher[m].pc = "retry"
    <3>1. [IdleMatcher EXCEPT !.pc = "pickBuy", !.errorTimes = matcher[m].errorTimes] \in MatcherType
      BY <1>0, IdleTypes DEF MatcherType, MatcherPcs
    <3> QED BY <1>0, <1>9, <2>2, <3>1 DEF Unlock
  <2> QED BY <1>9, <2>1, <2>2 DEF Unlock
<1> QED BY <1>3, <1>4, <1>5, <1>6, <1>7, <1>8, <1>9 DEF MatcherStep

\* What a canceller writes of its own state.
LEMMA CancellerStepType ==
  ASSUME MatcherTypeOK, NEW c \in Cancellers, CancellerReady(c),
         CancellerStep(c) \/ \E o \in OrderIds : CancelRequest(c, o)
  PROVE  canceller' \in [Cancellers -> CancellerType]
<1>0. /\ canceller \in [Cancellers -> CancellerType] /\ canceller[c] \in CancellerType
  BY DEF MatcherTypeOK
<1>1. SUFFICES \E x \in CancellerType : canceller' = [canceller EXCEPT ![c] = x]
  BY <1>0
<1>2. ASSUME NEW pc \in CancellerPcs
      PROVE  [canceller[c] EXCEPT !.pc = pc] \in CancellerType
  BY <1>0, <1>2 DEF CancellerType
<1>3. CASE \E o \in OrderIds : CancelRequest(c, o)
  <2>1. PICK o \in OrderIds : CancelRequest(c, o)
    BY <1>3
  <2>2. [canceller[c] EXCEPT !.pc = "lockUser", !.order = o] \in CancellerType
    BY <1>0 DEF CancellerType, CancellerPcs
  <2> QED BY <1>0, <2>1, <2>2 DEF CancelRequest
<1>4. CASE CancelRead(c)
  <2>1. canceller[c].order \in OrderIds
    BY <1>4 DEF CancelRead, CancellerReady
  <2>2. CASE canceller' = [canceller EXCEPT ![c] = [canceller[c] EXCEPT !.pc = "unlock"]]
    BY <1>2, <2>2 DEF CancellerPcs
  <2>3. CASE canceller' = [canceller EXCEPT ![c] = [canceller[c] EXCEPT
                !.pc = "commit", !.read = Snapshot(canceller[c].order)]]
    <3>1. \A x \in SnapshotType : [canceller[c] EXCEPT !.pc = "commit", !.read = x] \in CancellerType
      BY <1>0 DEF CancellerType, CancellerPcs
    <3> QED BY <2>1, <2>3, <3>1, SnapshotTypes
  <2> QED BY <1>0, <1>4, <2>2, <2>3 DEF CancelRead
<1>5. CASE CancelUnlock(c)
  BY <1>5, IdleTypes DEF CancelUnlock
<1>6. CASE \/ CancelLockUser(c) \/ CancelLockOrder(c) \/ CancelCheck(c)
           \/ CancelCommit(c) \/ CancelFails(c)
  <2>1. PICK pc \in {"lockOrder", "check", "read", "unlock"} :
               canceller' = [canceller EXCEPT ![c] = [canceller[c] EXCEPT !.pc = pc]]
    BY <1>0, <1>6 DEF CancelLockUser, CancelLockOrder, CancelCheck, CancelCommit, CancelFails
  <2> QED BY <1>2, <2>1 DEF CancellerPcs
<1> QED BY <1>3, <1>4, <1>5, <1>6 DEF CancellerStep

\* The locks hold thread names, the versions and counters stay natural.
LEMMA LocksType ==
  ASSUME MatcherTypeOK, NEW t \in Threads, NEW os,
         \/ Release(t, os) \/ orderLock' = orderLock
         \/ \E o \in OrderIds : Acquire(t, o)
  PROVE  orderLock' \in [OrderIds -> Threads \cup {Free}]
BY DEF MatcherTypeOK, Release, Acquire

LEMMA VersionsType ==
  ASSUME MatcherTypeOK, NEW os, Bump(os) \/ version' = version
  PROVE  version' \in [OrderIds -> Nat]
BY DEF MatcherTypeOK, Bump

LEMMA NextMatcherTypeOK ==
  ASSUME MatcherTypeOK, ThreadsReady, [MatcherNext]_allVars
  PROVE  MatcherTypeOK'
<1>1. TypeOK'
  BY NextImplements, NextTypeOK DEF MatcherTypeOK
<1>2. CASE \E m \in Matchers : MatcherStep(m)
  <2>1. PICK m \in Matchers : MatcherStep(m) /\ MatcherReady(m)
    BY <1>2 DEF ThreadsReady
  <2>2. /\ matcher' \in [Matchers -> MatcherType] /\ canceller' = canceller
        /\ userLock' = userLock /\ m \in Threads
    BY <2>1, MatcherStepType DEF MatcherStep, StartRound, PickBuy, PickSell, LockFirst,
       LockSecond, ReadRows, Commit, CommitFails, OnError, Unlock, Threads
  <2>3. mayTrade' \in BOOLEAN
    <3>1. SyncInfo \/ CacheUpdate \/ mayTrade' = mayTrade
      BY <2>1 DEF MatcherStep, StartRound, PickBuy, PickSell, LockFirst, LockSecond, ReadRows,
         Commit, CommitFails, OnError, Unlock
    <3>2. (mayTrade' = Crossed) => mayTrade' \in BOOLEAN
      BY Zenon DEF Crossed
    <3> QED BY <3>1, <3>2 DEF SyncInfo, CacheUpdate, MatcherTypeOK
  <2>7. failures' \in Nat /\ cancels' \in Nat /\ crashes' \in Nat
    BY <2>1 DEF MatcherTypeOK, MatcherStep, StartRound, PickBuy, PickSell, LockFirst,
       LockSecond, ReadRows, Commit, CommitFails, OnError, Unlock
  <2>4. \E os : Bump(os) \/ version' = version
    BY <2>1 DEF MatcherStep, StartRound, PickBuy, PickSell, LockFirst, LockSecond, ReadRows,
       Commit, CommitFails, OnError, Unlock
  <2>5. \E os : \/ Release(m, os) \/ orderLock' = orderLock
                \/ \E o \in OrderIds : Acquire(m, o)
    <3>1. CASE LockFirst(m) \/ LockSecond(m)
      <4>1. Lower(m) \in OrderIds /\ Higher(m) \in OrderIds
        BY <2>1, <3>1 DEF LockFirst, LockSecond, MatcherReady, Lower, Higher
      <4> QED BY <3>1, <4>1 DEF LockFirst, LockSecond
    <3>2. CASE ~LockFirst(m) /\ ~LockSecond(m)
      BY <2>1, <3>2 DEF MatcherStep, StartRound, PickBuy, PickSell, ReadRows, Commit,
         CommitFails, OnError, Unlock
    <3> QED BY <3>1, <3>2
  <2>6. /\ version' \in [OrderIds -> Nat]
        /\ orderLock' \in [OrderIds -> Threads \cup {Free}]
    BY <2>2, <2>4, <2>5, LocksType, VersionsType
  <2> QED BY <1>1, <2>2, <2>3, <2>6, <2>7 DEF MatcherTypeOK
<1>3. CASE \E c \in Cancellers : CancellerStep(c) \/ \E o \in OrderIds : CancelRequest(c, o)
  <2>1. PICK c \in Cancellers : /\ CancellerStep(c) \/ \E o \in OrderIds : CancelRequest(c, o)
                                /\ CancellerReady(c)
    BY <1>3 DEF ThreadsReady
  <2>2. /\ canceller' \in [Cancellers -> CancellerType] /\ matcher' = matcher /\ c \in Threads
    BY <2>1, CancellerStepType DEF CancellerStep, CancelLockUser, CancelLockOrder, CancelCheck,
       CancelRead, CancelCommit, CancelFails, CancelUnlock, CancelRequest, Threads
  <2>3. /\ mayTrade' \in BOOLEAN
        /\ failures' \in Nat /\ cancels' \in Nat /\ crashes' \in Nat
        /\ userLock' \in [Users -> Cancellers \cup {Free}]
    BY <2>1 DEF MatcherTypeOK, CancellerStep, CancelLockUser, CancelLockOrder, CancelCheck,
       CancelRead, CancelCommit, CancelFails, CancelUnlock, CancelRequest, CacheUpdate
  <2>4. \E os : Bump(os) \/ version' = version
    BY <2>1 DEF CancellerStep, CancelLockUser, CancelLockOrder, CancelCheck,
       CancelRead, CancelCommit, CancelFails, CancelUnlock, CancelRequest
  <2>5. \E os : \/ Release(c, os) \/ orderLock' = orderLock
                \/ \E o \in OrderIds : Acquire(c, o)
    <3>1. CASE CancelLockOrder(c)
      BY <2>1, <3>1 DEF CancelLockOrder, CancellerReady
    <3>2. CASE ~CancelLockOrder(c)
      BY <2>1, <3>2 DEF CancellerStep, CancelLockUser, CancelCheck,
         CancelRead, CancelCommit, CancelFails, CancelUnlock, CancelRequest
    <3> QED BY <3>1, <3>2
  <2>6. /\ version' \in [OrderIds -> Nat]
        /\ orderLock' \in [OrderIds -> Threads \cup {Free}]
    BY <2>2, <2>4, <2>5, LocksType, VersionsType
  <2> QED BY <1>1, <2>2, <2>3, <2>6 DEF MatcherTypeOK
<1>4. CASE Beside
  BY <1>1, <1>4 DEF MatcherTypeOK, Beside, Publish, AdminErrorModify, CleanUp, SyncJob, SyncInfo,
     CacheUpdate, Crossed, threadVars
<1>5. CASE Crash
  BY <1>1, <1>5, IdleTypes DEF MatcherTypeOK, Crash
<1>6. CASE UNCHANGED allVars
  BY <1>1, <1>6 DEF MatcherTypeOK, allVars, threadVars
<1> QED BY <1>2, <1>3, <1>4, <1>5, <1>6 DEF MatcherNext, Beside

LEMMA InitMatcher == MatcherInit => MatcherTypeOK /\ ThreadsHold
<1> SUFFICES ASSUME MatcherInit PROVE MatcherTypeOK /\ ThreadsHold
  OBVIOUS
<1>1. TypeOK
  BY InitTypeOK DEF MatcherInit
<1>2. MatcherTypeOK
  <2>1. /\ version \in [OrderIds -> Nat] /\ {failures, cancels, crashes} \subseteq Nat
        /\ orderLock \in [OrderIds -> Threads \cup {Free}]
        /\ userLock \in [Users -> Cancellers \cup {Free}]
    BY DEF MatcherInit
  <2>2. mayTrade \in BOOLEAN
    BY DEF MatcherInit
  <2>3. /\ matcher \in [Matchers -> MatcherType]
        /\ canceller \in [Cancellers -> CancellerType]
    BY IdleTypes DEF MatcherInit
  <2> QED BY <1>1, <2>1, <2>2, <2>3 DEF MatcherTypeOK
<1>3. ThreadsHold
  BY DEF MatcherInit, ThreadsHold, MatcherHolds, CancellerHolds, IdleMatcher, IdleCanceller
<1> QED BY <1>2, <1>3

-----------------------------------------------------------------------------
(* Without locks: the versions of the rows, and one matching thread.       *)

\* A row is written under a new version, but for orders being published,
\* dropped or put back.
KeepsRows == \A o \in OrderIds :
    \/ version'[o] > version[o]
    \/ /\ version'[o] = version[o]
       /\ \/ orders'[o] = orders[o]
          \/ orders[o].status \in {"NONE", "CANCEL"}
          \/ orders[o].status = "ERROR" /\ orders'[o] = [orders[o] EXCEPT !.status = "WAIT"]

\* A closed order stays closed.
KeepsClosed == \A o \in OrderIds : Closed(o) => Closed(o)'

\* Whoever writes an order under a new version closes it.
OnlyCloses == \A o \in OrderIds : version'[o] # version[o] => Closed(o)'

\* What a matcher has read, when somebody else takes a step.
LEMMA OtherMatcherReads ==
  ASSUME MatcherTypeOK, version' \in [OrderIds -> Nat],
         NEW m \in Matchers, matcher'[m] = matcher[m],
         KeepsRows, KeepsClosed, OnlyCloses, MatcherReads(m)
  PROVE  MatcherReads(m)'
<1> DEFINE me == matcher[m]
<1>1. ASSUME NEW o \in OrderIds, NEW read \in SnapshotType, RowRead(o, read),
             read.row.status = "WAIT"
      PROVE  RowRead(o, read)'
  <2>1. /\ read.version \in Nat /\ version[o] \in Nat /\ version'[o] \in Nat
        /\ read.version <= version[o]
    BY <1>1 DEF SnapshotType, MatcherTypeOK, RowRead
  <2>2. CASE version'[o] > version[o]
    <3>1. read.version <= version'[o] /\ version'[o] # read.version /\ version'[o] # version[o]
      BY <2>1, <2>2
    <3>2. Closed(o)'
      BY <3>1 DEF OnlyCloses
    <3> QED BY <3>1, <3>2 DEF RowRead, Fresh
  <2>3. CASE version'[o] = version[o] /\ Fresh(o, read)
    <3>1. orders[o].status = "WAIT" /\ read.row = orders[o]
      BY <1>1, <2>3 DEF RowRead
    <3>2. ~(version'[o] > version[o])
      BY <2>1, <2>3
    <3>3. orders'[o] = orders[o]
      BY <3>1, <3>2 DEF KeepsRows
    <3> QED BY <2>1, <2>3, <3>1, <3>3 DEF RowRead, Fresh
  <2>4. CASE version'[o] = version[o] /\ ~Fresh(o, read)
    BY <1>1, <2>1, <2>4 DEF RowRead, Fresh, KeepsClosed
  <2> QED BY <2>2, <2>3, <2>4 DEF KeepsRows
<1>2. me \in MatcherType
  BY DEF MatcherTypeOK
<1>3. me.pc = "commit" => RowRead(me.buy, me.buyRead)' /\ RowRead(me.sell, me.sellRead)'
  <2> SUFFICES ASSUME me.pc = "commit"
               PROVE  RowRead(me.buy, me.buyRead)' /\ RowRead(me.sell, me.sellRead)'
    OBVIOUS
  <2>1. me.buy \in OrderIds /\ me.sell \in OrderIds
    BY DEF MatcherReads
  <2>2. me.buyRead \in SnapshotType /\ me.sellRead \in SnapshotType
    BY <1>2 DEF MatcherType
  <2>3. /\ RowRead(me.buy, me.buyRead) /\ me.buyRead.row.status = "WAIT"
        /\ RowRead(me.sell, me.sellRead) /\ me.sellRead.row.status = "WAIT"
    BY DEF MatcherReads
  <2>4. \A o \in OrderIds, read \in SnapshotType :
           RowRead(o, read) /\ read.row.status = "WAIT"
             => read.version <= version'[o]
                /\ IF version'[o] = read.version THEN read.row = orders'[o] ELSE Closed(o)'
    BY <1>1 DEF RowRead, Fresh
  <2> QED BY <2>1, <2>2, <2>3, <2>4 DEF RowRead, Fresh, Closed
<1>4. me.pc = "error" => Closed(me.failed)'
  BY DEF MatcherReads, KeepsClosed, Closed
<1> QED
  BY <1>3, <1>4 DEF MatcherReads, KeepsClosed, Closed, RowRead, Fresh

\* What a canceller has read, when somebody else takes a step.
LEMMA OtherCancellerReads ==
  ASSUME MatcherTypeOK, version' \in [OrderIds -> Nat],
         NEW c \in Cancellers, canceller'[c] = canceller[c],
         KeepsRows, CancellerReads(c)
  PROVE  CancellerReads(c)'
<1> DEFINE me == canceller[c]
<1> DEFINE o  == me.order
<1>1. CASE me.pc = "commit"
  <2>1. /\ o \in OrderIds /\ me.read.version <= version[o] /\ Open(me.read.row)
        /\ me.read.version \in Nat /\ version[o] \in Nat /\ version'[o] >= version[o]
        /\ me.read.row \in Order /\ orders[o] \in Order
    <3>1. o \in OrderIds /\ me.read.version <= version[o] /\ Open(me.read.row)
      BY <1>1 DEF CancellerReads
    <3>2. me \in CancellerType /\ orders[o] \in Order /\ version[o] \in Nat /\ version'[o] \in Nat
      BY <3>1 DEF MatcherTypeOK, TypeOK
    <3>3. version'[o] > version[o] \/ version'[o] = version[o]
      BY <3>1 DEF KeepsRows
    <3>4. me.read.version \in Nat /\ me.read.row \in Order
      BY <3>2 DEF CancellerType, SnapshotType
    <3> HIDE DEF o, me
    <3>5. version'[o] >= version[o]
      BY <3>2, <3>3
    <3> QED BY <3>1, <3>2, <3>4, <3>5
  <2>2. CASE version'[o] = me.read.version
    <3>1. /\ Open(orders[o]) /\ orders[o] = [me.read.row EXCEPT !.status = orders[o].status]
          /\ version'[o] = version[o]
      BY <1>1, <2>1, <2>2 DEF CancellerReads, Fresh
    <3>2. \/ orders'[o] = orders[o]
          \/ orders[o].status = "ERROR" /\ orders'[o] = [orders[o] EXCEPT !.status = "WAIT"]
      BY <2>1, <3>1 DEF KeepsRows, Open
    <3> HIDE DEF o, me
    <3>3. Open(orders'[o]) /\ orders'[o] = [me.read.row EXCEPT !.status = orders'[o].status]
      BY <2>1, <3>1, <3>2 DEF Order, Open
    <3> QED BY <1>1, <2>1, <3>1, <3>3 DEF CancellerReads, Open, Fresh, o, me
  <2>3. CASE version'[o] # me.read.version
    <3>1. me.read.version <= version'[o] /\ version'[o] \in Nat
      BY <2>1
    <3> QED BY <1>1, <2>1, <2>3, <3>1 DEF CancellerReads, Fresh, Open
  <2> QED BY <2>2, <2>3
<1>2. CASE me.pc # "commit"
  BY <1>2 DEF CancellerReads
<1> QED BY <1>1, <1>2

\* Steps that write no row.
LEMMA QuietRows ==
  ASSUME orders' = orders, version' = version
  PROVE  KeepsRows /\ KeepsClosed /\ OnlyCloses
BY DEF KeepsRows, KeepsClosed, OnlyCloses, Closed

LEMMA BumpRises ==
  ASSUME MatcherTypeOK, NEW os, Bump(os)
  PROVE  \A o \in OrderIds : version'[o] = IF o \in os THEN version[o] + 1 ELSE version[o]
BY DEF Bump

\* A matcher commits from rows that wait, and sets nothing aside.
LEMMA MatcherStepRows ==
  ASSUME MatcherTypeOK, NEW m \in Matchers, MatcherReads(m), MatcherStep(m)
  PROVE  KeepsRows /\ KeepsClosed
<1> DEFINE b == matcher[m].buy
<1> DEFINE s == matcher[m].sell
<1>1. CASE Commit(m)
  <2>1. CASE ReadQuantity(m) <= 0
    BY <1>1, <2>1, QuietRows DEF Commit
  <2>2. CASE ~(ReadQuantity(m) <= 0)
    <3>1. /\ b \in OrderIds /\ s \in OrderIds
          /\ Fresh(s, matcher[m].sellRead) /\ Fresh(b, matcher[m].buyRead)
          /\ Bump({b, s})
      BY <1>1, <2>2 DEF Commit, MatcherReads
    <3>2. \A o \in OrderIds : o # b /\ o # s => orders'[o] = orders[o]
      BY <1>1, <2>2 DEF Commit, MatcherTypeOK, TypeOK
    <3>3. ~Closed(b) /\ ~Closed(s)
      BY <1>1, <3>1 DEF Commit, MatcherReads, RowRead, Closed
    <3>4. \A o \in OrderIds : \/ o \in {b, s} /\ version'[o] = version[o] + 1
                              \/ o \notin {b, s} /\ version'[o] = version[o]
      BY <3>1, BumpRises
    <3>5. \A o \in OrderIds : version[o] + 1 > version[o]
      BY DEF MatcherTypeOK
    <3> HIDE DEF b, s
    <3> QED BY <3>2, <3>3, <3>4, <3>5 DEF KeepsRows, KeepsClosed, Closed
  <2> QED BY <2>1, <2>2
<1>2. CASE OnError(m)
  <2>1. ~(matcher[m].errorTimes[matcher[m].failed] > ErrorLimit)
    BY <1>2, ThreadsAssumption DEF OnError, MatcherReads
  <2> QED BY <1>2, <2>1, QuietRows DEF OnError
<1>3. CASE ~Commit(m) /\ ~OnError(m)
  <2>1. orders' = orders /\ version' = version
    BY <1>3 DEF MatcherStep, StartRound, PickBuy, PickSell, LockFirst, LockSecond, ReadRows,
                CommitFails, Unlock, vars
  <2> QED BY <2>1, QuietRows
<1> QED BY <1>1, <1>2, <1>3

\* A matcher picks orders that wait, and so none that has failed in its round.
LEMMA PickingReads ==
  ASSUME MatcherTypeOK, NEW m \in Matchers, MatcherReads(m), KeepsClosed,
         StartRound(m) \/ PickBuy(m) \/ PickSell(m)
  PROVE  MatcherReads(m)'
<1>1. /\ matcher[m] \in MatcherType
      /\ \A o \in OrderIds : matcher[m].errorTimes[o] > 0 => Closed(o)'
  BY DEF MatcherTypeOK, MatcherReads, KeepsClosed
<1>2. \A o \in OrderIds : orders[o].status = "WAIT" => matcher[m].errorTimes[o] = 0
  BY <1>1 DEF MatcherReads, Closed, MatcherType
<1>3. CASE StartRound(m)
  <2>1. matcher'[m] = [matcher[m] EXCEPT !.pc = "pickBuy"]
    BY <1>3 DEF StartRound, MatcherTypeOK
  <2> QED BY <1>1, <2>1 DEF MatcherReads, MatcherType, Closed
<1>4. CASE PickBuy(m)
  <2>1. PICK b \in IF BestBuys = {} THEN {0} ELSE BestBuys :
               matcher'[m] = [matcher[m] EXCEPT !.pc = "pickSell", !.buy = b]
    BY <1>4 DEF PickBuy, MatcherTypeOK
  <2>2. b # 0 => matcher[m].errorTimes[b] = 0
    BY <1>2, <2>1 DEF BestBuys, Waiting
  <2>3. /\ matcher'[m].pc = "pickSell" /\ matcher'[m].buy = b
        /\ matcher'[m].errorTimes = matcher[m].errorTimes
    BY <1>1, <2>1 DEF MatcherType
  <2> QED BY <1>1, <2>2, <2>3 DEF MatcherReads, Closed
<1>5. CASE PickSell(m)
  <2>1. CASE matcher'[m] = IdleMatcher
    BY <2>1 DEF MatcherReads, IdleMatcher, NoErrors
  <2>2. CASE /\ matcher[m].pc = "pickSell" /\ matcher[m].buy # 0
             /\ \E s \in BestSells : matcher'[m] = [matcher[m] EXCEPT !.pc = "lockFirst", !.sell = s]
    <3>1. PICK s \in OrderIds : /\ orders[s].status = "WAIT"
                                /\ matcher'[m] = [matcher[m] EXCEPT !.pc = "lockFirst", !.sell = s]
      BY <2>2 DEF BestSells, Waiting
    <3>2. /\ matcher'[m].pc = "lockFirst" /\ matcher'[m].buy = matcher[m].buy
          /\ matcher'[m].sell = s /\ matcher'[m].errorTimes = matcher[m].errorTimes
          /\ matcher[m].buy \in OrderIds
      BY <1>1, <2>2, <3>1 DEF MatcherType
    <3>3. matcher[m].errorTimes[matcher[m].buy] = 0 /\ matcher[m].errorTimes[s] = 0
      BY <1>2, <2>2, <3>1 DEF MatcherReads
    <3> QED BY <1>1, <3>2, <3>3 DEF MatcherReads, Closed
  <2>3. /\ matcher[m].pc = "pickSell"
        /\ \/ matcher' = [matcher EXCEPT ![m] = IdleMatcher]
           \/ /\ matcher[m].buy # 0
              /\ \E s \in BestSells : matcher' = [matcher EXCEPT ![m].pc = "lockFirst", ![m].sell = s]
    BY <1>5 DEF PickSell
  <2> QED BY <2>1, <2>2, <2>3 DEF MatcherTypeOK
<1> QED BY <1>3, <1>4, <1>5

\* Locking changes nothing of what it knows; reading makes it know the rows.
LEMMA LockingReads ==
  ASSUME MatcherTypeOK, NEW m \in Matchers, MatcherReads(m), KeepsClosed,
         LockFirst(m) \/ LockSecond(m) \/ ReadRows(m)
  PROVE  MatcherReads(m)'
<1> DEFINE b == matcher[m].buy
<1> DEFINE s == matcher[m].sell
<1>1. /\ matcher[m] \in MatcherType
      /\ \A o \in OrderIds : matcher[m].errorTimes[o] > 0 => Closed(o)'
      /\ b \in OrderIds /\ s \in OrderIds
      /\ matcher[m].errorTimes[b] = 0 /\ matcher[m].errorTimes[s] = 0
      /\ orders' = orders /\ version' = version
  BY DEF MatcherTypeOK, MatcherReads, KeepsClosed, LockFirst, LockSecond, ReadRows, vars
<1>2. ASSUME NEW pc \in {"lockSecond", "read", "unlock"},
             matcher'[m] = [matcher[m] EXCEPT !.pc = pc]
      PROVE  MatcherReads(m)'
  <2>1. /\ matcher'[m].pc = pc /\ matcher'[m].buy = b /\ matcher'[m].sell = s
        /\ matcher'[m].errorTimes = matcher[m].errorTimes
    BY <1>1, <1>2 DEF MatcherType
  <2> QED BY <1>1, <1>2, <2>1 DEF MatcherReads, Closed
<1>3. CASE LockFirst(m) \/ LockSecond(m)
  BY <1>2, <1>3 DEF LockFirst, LockSecond, MatcherTypeOK
<1>4. CASE ReadRows(m)
  <2>1. CASE matcher'[m] = [matcher[m] EXCEPT !.pc = "unlock"]
    BY <1>2, <2>1
  <2>2. CASE /\ CanTrade(b, s)
             /\ matcher'[m] = [matcher[m] EXCEPT !.pc = "commit", !.buyRead = Snapshot(b),
                                                 !.sellRead = Snapshot(s)]
    <3>1. /\ matcher'[m].pc = "commit" /\ matcher'[m].buy = b /\ matcher'[m].sell = s
          /\ matcher'[m].errorTimes = matcher[m].errorTimes
          /\ matcher'[m].buyRead.row = orders[b] /\ matcher'[m].buyRead.version = version[b]
          /\ matcher'[m].sellRead.row = orders[s] /\ matcher'[m].sellRead.version = version[s]
      BY <1>1, <2>2 DEF MatcherType, Snapshot
    <3>2. version[b] \in Nat /\ version[s] \in Nat
      BY <1>1 DEF MatcherTypeOK
    <3>3. version[b] <= version[b] /\ version[s] <= version[s]
      BY <3>2
    <3>4. RowRead(matcher[m].buy, matcher[m].buyRead)' /\ RowRead(matcher[m].sell, matcher[m].sellRead)'
      BY <1>1, <3>1, <3>3 DEF RowRead, Fresh
    <3> QED BY <1>1, <2>2, <3>1, <3>4 DEF MatcherReads, Closed, CanTrade
  <2>3. \/ matcher' = [matcher EXCEPT ![m].pc = "unlock"]
        \/ /\ CanTrade(b, s)
           /\ matcher' = [matcher EXCEPT ![m].pc = "commit", ![m].buyRead = Snapshot(b),
                                         ![m].sellRead = Snapshot(s)]
    BY <1>4 DEF ReadRows
  <2> QED BY <2>1, <2>2, <2>3 DEF MatcherTypeOK
<1> QED BY <1>3, <1>4

\* A commit fails for a row that was closed, and this is the first time it does.
LEMMA CommittingReads ==
  ASSUME MatcherTypeOK, MaxFailures = 0, NEW m \in Matchers, MatcherReads(m), KeepsClosed,
         Commit(m) \/ CommitFails(m) \/ OnError(m) \/ Unlock(m)
  PROVE  MatcherReads(m)'
<1> DEFINE b == matcher[m].buy
<1> DEFINE s == matcher[m].sell
<1>1. /\ matcher[m] \in MatcherType
      /\ \A o \in OrderIds : matcher[m].errorTimes[o] > 0 => Closed(o)'
      /\ b \in OrderIds /\ s \in OrderIds
  BY DEF MatcherTypeOK, MatcherReads, KeepsClosed, Commit, CommitFails, OnError, Unlock
<1>2. CASE Commit(m)
  <2>1. matcher'[m] = [matcher[m] EXCEPT !.pc = "unlock"]
    BY <1>2 DEF Commit, MatcherTypeOK
  <2>2. /\ matcher'[m].pc = "unlock" /\ matcher'[m].buy = b /\ matcher'[m].sell = s
        /\ matcher'[m].errorTimes = matcher[m].errorTimes
    BY <1>1, <2>1 DEF MatcherType
  <2> QED BY <1>1, <2>2 DEF MatcherReads, Closed
<1>3. CASE CommitFails(m)
  <2>1. PICK o \in Stale(m) : matcher' = [matcher EXCEPT ![m].pc = "error", ![m].failed = o]
    <3>1. ~(failures < MaxFailures)
      BY DEF MatcherTypeOK
    <3> QED BY <1>3, <3>1 DEF CommitFails
  <2>2. o \in {b, s} /\ Closed(o) /\ matcher[m].errorTimes[o] = 0
    BY <1>3, <2>1 DEF Stale, CommitFails, MatcherReads, RowRead
  <2>3. /\ matcher'[m].pc = "error" /\ matcher'[m].buy = b /\ matcher'[m].sell = s
        /\ matcher'[m].errorTimes = matcher[m].errorTimes /\ matcher'[m].failed = o
    BY <1>1, <2>1 DEF MatcherTypeOK, MatcherType
  <2>4. Closed(o)'
    BY <1>1, <2>2 DEF KeepsClosed
  <2> QED BY <1>1, <2>2, <2>3, <2>4 DEF MatcherReads, Closed
<1>4. CASE OnError(m)
  <2> DEFINE f == [matcher[m].errorTimes EXCEPT ![matcher[m].failed] = @ + 1]
  <2>1. /\ matcher[m].failed \in OrderIds /\ matcher[m].errorTimes[matcher[m].failed] = 0
        /\ Closed(matcher[m].failed)
    BY <1>1, <1>4 DEF OnError, MatcherReads
  <2>2. ~(matcher[m].errorTimes[matcher[m].failed] > ErrorLimit)
    BY <2>1, ThreadsAssumption
  <2>3. matcher' = [matcher EXCEPT ![m].pc = "retry", ![m].errorTimes[matcher[m].failed] = @ + 1]
    BY <1>4, <2>2 DEF OnError
  <2>4. matcher'[m] = [matcher[m] EXCEPT !.pc = "retry", !.errorTimes = f]
    BY <1>1, <2>3 DEF MatcherTypeOK, MatcherType
  <2>5. \A o \in OrderIds : f[o] > 0 => Closed(o)'
    BY <1>1, <2>1 DEF MatcherType, KeepsClosed
  <2> HIDE DEF f
  <2>6. /\ matcher'[m].pc = "retry" /\ matcher'[m].buy = b /\ matcher'[m].sell = s
        /\ matcher'[m].errorTimes = f
    BY <1>1, <2>4 DEF MatcherType
  <2> QED BY <1>1, <2>5, <2>6 DEF MatcherReads, Closed
<1>5. CASE Unlock(m)
  <2>1. CASE matcher'[m] = IdleMatcher
    BY <2>1 DEF MatcherReads, IdleMatcher, NoErrors
  <2>2. CASE matcher'[m] = [IdleMatcher EXCEPT !.pc = "pickBuy", !.errorTimes = matcher[m].errorTimes]
    <3>1. matcher'[m].pc = "pickBuy" /\ matcher'[m].errorTimes = matcher[m].errorTimes
      BY <2>2 DEF IdleMatcher
    <3> QED BY <1>1, <3>1 DEF MatcherReads, Closed
  <2> QED BY <1>5, <2>1, <2>2 DEF Unlock, MatcherTypeOK
<1> QED BY <1>2, <1>3, <1>4, <1>5

LEMMA MatcherStepReads ==
  ASSUME MatcherTypeOK, MaxFailures = 0, NEW m \in Matchers, MatcherReads(m), MatcherStep(m)
  PROVE  KeepsRows /\ KeepsClosed /\ MatcherReads(m)' /\ canceller' = canceller
<1>1. canceller' = canceller
  BY DEF MatcherStep, StartRound, PickBuy, PickSell, LockFirst, LockSecond,
         ReadRows, Commit, CommitFails, OnError, Unlock
<1> QED BY <1>1, MatcherStepRows, PickingReads, LockingReads, CommittingReads DEF MatcherStep

\* A cancellation writes one row, which it closes.
LEMMA CancellerStepRows ==
  ASSUME MatcherTypeOK, NEW c \in Cancellers, CancellerReads(c),
         CancellerStep(c) \/ \E o \in OrderIds : CancelRequest(c, o)
  PROVE  KeepsRows /\ KeepsClosed /\ OnlyCloses
<1>1. CASE CancelCommit(c)
  <2>1. PICK o \in OrderIds : o = canceller[c].order
    BY <1>1 DEF CancelCommit, CancellerReads
  <2>2. /\ orders' = [orders EXCEPT ![o] = [canceller[c].read.row EXCEPT !.status = "CANCEL"]]
        /\ Bump({o})
    BY <1>1, <2>1 DEF CancelCommit
  <2>3. canceller[c].read.row \in Order
    BY DEF MatcherTypeOK, CancellerType, SnapshotType
  <2>4. /\ orders'[o].status = "CANCEL"
        /\ \A i \in OrderIds : i # o => orders'[i] = orders[i]
    BY <2>2, <2>3 DEF Order, MatcherTypeOK, TypeOK
  <2>5. \A i \in OrderIds : \/ i = o /\ version'[i] = version[i] + 1
                            \/ i # o /\ version'[i] = version[i]
    BY <2>2, BumpRises
  <2>6. \A i \in OrderIds : version[i] + 1 > version[i]
    BY DEF MatcherTypeOK
  <2> QED BY <2>4, <2>5, <2>6 DEF KeepsRows, KeepsClosed, OnlyCloses, Closed
<1>2. CASE ~CancelCommit(c)
  <2>1. orders' = orders /\ version' = version
    BY <1>2 DEF CancellerStep, CancelLockUser, CancelLockOrder, CancelCheck, CancelRead,
                CancelFails, CancelUnlock, CancelRequest, vars
  <2> QED BY <2>1, QuietRows
<1> QED BY <1>1, <1>2

LEMMA CancellerStepReads ==
  ASSUME MatcherTypeOK, NEW c \in Cancellers, CancellerReads(c),
         CancellerStep(c) \/ \E o \in OrderIds : CancelRequest(c, o)
  PROVE  /\ CancellerReads(c)' /\ matcher' = matcher
         /\ \A n \in Cancellers : n # c => canceller'[n] = canceller[n]
<1>1. \A n \in Cancellers : n # c => canceller'[n] = canceller[n]
  BY DEF MatcherTypeOK, CancellerStep, CancelLockUser, CancelLockOrder, CancelCheck, CancelRead,
         CancelCommit, CancelFails, CancelUnlock, CancelRequest
<1>2. matcher' = matcher /\ canceller[c] \in CancellerType
  BY DEF MatcherTypeOK, CancellerStep, CancelLockUser, CancelLockOrder, CancelCheck, CancelRead,
         CancelCommit, CancelFails, CancelUnlock, CancelRequest
<1> SUFFICES CancellerReads(c)'
  BY <1>1, <1>2
<1>3. CASE CancelRead(c)
  <2>1. PICK o \in OrderIds : o = canceller[c].order
    BY <1>3 DEF CancelRead, CancellerReads
  <2>2. orders' = orders /\ version' = version /\ orders[o] \in Order /\ version[o] \in Nat
    BY <1>3 DEF CancelRead, vars, MatcherTypeOK, TypeOK
  <2>3. \/ canceller'[c] = [canceller[c] EXCEPT !.pc = "unlock"]
        \/ /\ Open(orders[o])
           /\ canceller'[c] = [canceller[c] EXCEPT !.pc = "commit", !.read = Snapshot(o)]
    BY <1>3, <2>1 DEF CancelRead, MatcherTypeOK, Open
  <2>4. /\ canceller'[c].order = o
        /\ \/ canceller'[c].pc = "unlock"
           \/ /\ canceller'[c].pc = "commit" /\ Open(orders[o])
              /\ canceller'[c].read.row = orders[o] /\ canceller'[c].read.version = version[o]
    <3>1. CASE canceller'[c] = [canceller[c] EXCEPT !.pc = "unlock"]
      BY <1>2, <2>1, <3>1 DEF CancellerType
    <3>2. CASE /\ Open(orders[o])
               /\ canceller'[c] = [canceller[c] EXCEPT !.pc = "commit", !.read = Snapshot(o)]
      <4>1. Snapshot(o).row = orders[o] /\ Snapshot(o).version = version[o]
        BY DEF Snapshot
      <4> QED BY <1>2, <2>1, <3>2, <4>1 DEF CancellerType
    <3> QED BY <2>3, <3>1, <3>2
  <2>5. orders[o] = [orders[o] EXCEPT !.status = orders[o].status] /\ version[o] <= version[o]
    BY <2>2 DEF Order
  <2> QED BY <2>2, <2>4, <2>5 DEF CancellerReads, Fresh, Open
<1>4. CASE \E o \in OrderIds : CancelRequest(c, o)
  <2>1. PICK o \in OrderIds : CancelRequest(c, o)
    BY <1>4
  <2>2. canceller'[c] = [canceller[c] EXCEPT !.pc = "lockUser", !.order = o]
    BY <2>1 DEF CancelRequest, MatcherTypeOK
  <2>3. canceller'[c].pc = "lockUser" /\ canceller'[c].order = o
    BY <1>2, <2>2 DEF CancellerType
  <2> QED BY <2>3 DEF CancellerReads
<1>5. CASE CancelUnlock(c)
  BY <1>5 DEF CancelUnlock, MatcherTypeOK, IdleCanceller, CancellerReads
<1>6. CASE \/ CancelLockUser(c) \/ CancelLockOrder(c) \/ CancelCheck(c)
           \/ CancelCommit(c) \/ CancelFails(c)
  <2>1. PICK pc \in {"lockOrder", "check", "read", "unlock"} :
               canceller' = [canceller EXCEPT ![c] = [canceller[c] EXCEPT !.pc = pc]]
    BY <1>6 DEF CancelLockUser, CancelLockOrder, CancelCheck, CancelCommit, CancelFails,
                MatcherTypeOK
  <2>2. canceller'[c].pc = pc /\ canceller'[c].order = canceller[c].order
    BY <1>2, <2>1 DEF MatcherTypeOK, CancellerType
  <2>3. canceller[c].order \in OrderIds
    BY <1>6 DEF CancellerReads, CancelLockUser, CancelLockOrder, CancelCheck, CancelCommit,
                CancelFails
  <2> QED BY <2>1, <2>2, <2>3 DEF CancellerReads
<1> QED BY <1>3, <1>4, <1>5, <1>6 DEF CancellerStep

\* Publishing, errorModify and the clean-up write no version, and reopen nothing.
LEMMA BesideRows ==
  ASSUME MatcherTypeOK, Beside
  PROVE  /\ KeepsRows /\ KeepsClosed /\ OnlyCloses
         /\ matcher' = matcher /\ canceller' = canceller
<1>1. version' = version /\ matcher' = matcher /\ canceller' = canceller
  BY DEF Beside, Publish, AdminErrorModify, CleanUp, SyncJob, threadVars
<1>2. CASE \E u \in Users, side \in Sides, p \in Prices, q \in Quantities : Publish(u, side, p, q)
  <2>1. PICK o \in OrderIds :
           /\ orders[o].status = "NONE"
           /\ \A i \in OrderIds : i # o => orders'[i] = orders[i]
    BY <1>2 DEF Publish, PublishTrade, NextOrderId, MatcherTypeOK, TypeOK
  <2> QED BY <1>1, <2>1 DEF KeepsRows, KeepsClosed, OnlyCloses, Closed
<1>3. CASE AdminErrorModify
  <2>1. \A o \in OrderIds :
           \/ orders'[o] = orders[o]
           \/ orders[o].status = "ERROR" /\ orders'[o] = [orders[o] EXCEPT !.status = "WAIT"]
    BY <1>3 DEF AdminErrorModify, ErrorModify
  <2> QED BY <1>1, <2>1 DEF KeepsRows, KeepsClosed, OnlyCloses, Closed
<1>4. CASE CleanUp
  <2>1. \A o \in OrderIds :
           \/ orders'[o] = orders[o]
           \/ orders[o].status = "CANCEL" /\ orders'[o].status = "DELETED"
    BY <1>4 DEF CleanUp, DeleteRobotCancel, Deletable, MatcherTypeOK, TypeOK, Order
  <2> QED BY <1>1, <2>1 DEF KeepsRows, KeepsClosed, OnlyCloses, Closed
<1>5. CASE SyncJob
  BY <1>1, <1>5, QuietRows DEF SyncJob, vars
<1> QED BY <1>1, <1>2, <1>3, <1>4, <1>5 DEF Beside

\* What the threads know of rows they have read holds for the next step too.
LEMMA NextThreadsRead ==
  ASSUME MatcherTypeOK, MatcherTypeOK', OneMatcher, ThreadsRead, [MatcherNext]_allVars
  PROVE  ThreadsRead'
<1>0. version' \in [OrderIds -> Nat] /\ MaxFailures = 0
  BY DEF MatcherTypeOK, OneMatcher
<1>1. CASE \E m \in Matchers : MatcherStep(m)
  <2>1. PICK m \in Matchers : MatcherStep(m)
    BY <1>1
  <2>2. KeepsRows /\ KeepsClosed /\ MatcherReads(m)' /\ canceller' = canceller
    BY <1>0, <2>1, MatcherStepReads DEF ThreadsRead
  <2>3. \A n \in Matchers : MatcherReads(n)'
    BY <2>2 DEF OneMatcher
  <2>4. \A c \in Cancellers : CancellerReads(c)'
    BY <1>0, <2>2, OtherCancellerReads DEF ThreadsRead
  <2> QED BY <2>3, <2>4 DEF ThreadsRead
<1>2. CASE \E c \in Cancellers : CancellerStep(c) \/ \E o \in OrderIds : CancelRequest(c, o)
  <2>1. PICK c \in Cancellers : CancellerStep(c) \/ \E o \in OrderIds : CancelRequest(c, o)
    BY <1>2
  <2>2. KeepsRows /\ KeepsClosed /\ OnlyCloses
    BY <2>1, CancellerStepRows DEF ThreadsRead
  <2>3. /\ CancellerReads(c)' /\ matcher' = matcher
        /\ \A n \in Cancellers : n # c => canceller'[n] = canceller[n]
    BY <2>1, CancellerStepReads DEF ThreadsRead
  <2>4. \A m \in Matchers : MatcherReads(m)'
    BY <1>0, <2>2, <2>3, OtherMatcherReads DEF ThreadsRead
  <2>5. \A n \in Cancellers : CancellerReads(n)'
    BY <1>0, <2>2, <2>3, OtherCancellerReads DEF ThreadsRead
  <2> QED BY <2>4, <2>5 DEF ThreadsRead
<1>3. CASE Beside \/ UNCHANGED allVars
  <2>1. /\ KeepsRows /\ KeepsClosed /\ OnlyCloses
        /\ matcher' = matcher /\ canceller' = canceller
    BY <1>3, BesideRows, QuietRows DEF allVars, vars, threadVars
  <2>2. \A m \in Matchers : MatcherReads(m)'
    BY <1>0, <2>1, OtherMatcherReads DEF ThreadsRead
  <2>3. \A c \in Cancellers : CancellerReads(c)'
    BY <1>0, <2>1, OtherCancellerReads DEF ThreadsRead
  <2> QED BY <2>2, <2>3 DEF ThreadsRead
<1>4. CASE Crash
  <2>1. /\ \A m \in Matchers : matcher'[m] = IdleMatcher
        /\ \A c \in Cancellers : canceller'[c] = IdleCanceller
    BY <1>4 DEF Crash
  <2> QED BY <2>1 DEF ThreadsRead, MatcherReads, CancellerReads, IdleMatcher, IdleCanceller,
                      NoErrors
<1> QED BY <1>1, <1>2, <1>3, <1>4 DEF MatcherNext, Beside

\* A commit that finds its rows at the versions it read is one of SpotTrade's.
LEMMA ReadIsReady == ASSUME MatcherTypeOK, ThreadsRead PROVE ThreadsReady
<1>1. ASSUME NEW m \in Matchers PROVE MatcherReady(m)
  <2>1. MatcherReads(m)
    BY DEF ThreadsRead
  <2>2. matcher[m].pc = "error" => ~(matcher[m].errorTimes[matcher[m].failed] > ErrorLimit)
    BY <2>1, ThreadsAssumption DEF MatcherReads
  <2> QED BY <2>1, <2>2 DEF MatcherReads, MatcherReady, RowRead, CanTrade
<1>2. ASSUME NEW c \in Cancellers PROVE CancellerReady(c)
  BY <1>2 DEF ThreadsRead, CancellerReads, CancellerReady
<1> QED BY <1>1, <1>2 DEF ThreadsReady

-----------------------------------------------------------------------------
(* The theorems.                                                           *)

LEMMA MatcherInductive == MatcherSpec /\ Locking => [](MatcherTypeOK /\ ThreadsHold)
<1>1. Locking /\ MatcherTypeOK /\ ThreadsHold /\ [MatcherNext]_allVars
        => (MatcherTypeOK /\ ThreadsHold)'
  BY NextMatcherTypeOK, NextThreadsHold, HeldIsReady
<1>2. Locking => Locking'
  OBVIOUS
<1> QED BY <1>1, <1>2, InitMatcher, PTL DEF MatcherSpec

\* Rows, locks, versions and the threads' local state are what they are declared
\* to be, and an order is never locked by nobody's name.
THEOREM MatcherTypeCorrect == MatcherSpec /\ Locking => []MatcherTypeOK
<1> QED BY MatcherInductive, PTL

\* Between taking its locks and committing, a matcher or a canceller has its
\* orders to itself: what it has read is what the rows still hold.
THEOREM LocksProtect == MatcherSpec /\ Locking => []ThreadsHold
<1> QED BY MatcherInductive, PTL

\* However many threads match and cancel, fail and are restarted, what they do
\* to orders, records and wallets is what the transactions of SpotTrade do one
\* at a time.  No comparison of versions is needed for it: the locks are enough.
THEOREM MatcherImplementsSpotTrade == MatcherSpec /\ Locking => ImplementsSpotTrade
<1>1. MatcherInit => Init
  BY DEF MatcherInit
<1>2. MatcherTypeOK /\ ThreadsHold /\ [MatcherNext]_allVars => [Next]_vars
  BY NextImplements, HeldIsReady
<1> QED BY <1>1, <1>2, MatcherInductive, PTL DEF MatcherSpec, ImplementsSpotTrade, Spec

\* With one matching thread and no lock at all: a row whose version is the one a
\* thread read is the row it read, and only a cancellation can have changed it.
LEMMA ReadInductive == MatcherSpec /\ OneMatcher => [](MatcherTypeOK /\ ThreadsRead)
<1>1. MatcherInit => MatcherTypeOK /\ ThreadsRead
  <2> SUFFICES ASSUME MatcherInit PROVE ThreadsRead
    BY InitMatcher
  <2> QED BY DEF MatcherInit, ThreadsRead, MatcherReads, CancellerReads, IdleMatcher,
                 IdleCanceller, NoErrors
<1>2. OneMatcher /\ MatcherTypeOK /\ ThreadsRead /\ [MatcherNext]_allVars
        => (MatcherTypeOK /\ ThreadsRead)'
  BY ReadIsReady, NextMatcherTypeOK, NextThreadsRead
<1>3. OneMatcher => OneMatcher'
  BY DEF OneMatcher
<1> QED BY <1>1, <1>2, <1>3, PTL DEF MatcherSpec

\* The versions alone are enough as long as one thread matches and transactions
\* fail for nothing else: without any lock, matches and cancellations that race
\* with each other do what they would do one at a time, and the order that a
\* cancellation took from under a match is not set aside as an error.
THEOREM VersionsImplementSpotTrade == MatcherSpec /\ OneMatcher => ImplementsSpotTrade
<1>1. MatcherInit => Init
  BY DEF MatcherInit
<1>2. MatcherTypeOK /\ ThreadsRead /\ [MatcherNext]_allVars => [Next]_vars
  BY NextImplements, ReadIsReady
<1> QED BY <1>1, <1>2, ReadInductive, PTL DEF MatcherSpec, ImplementsSpotTrade, Spec

\* So what is frozen covers what is owed under the threads too.
COROLLARY MatcherFreezeIsBacked == MatcherSpec /\ (Locking \/ OneMatcher) => []FreezeBacked
<1> QED BY MatcherImplementsSpotTrade, VersionsImplementSpotTrade, FreezeIsBacked, PTL
        DEF ImplementsSpotTrade

\* And no order is filled beyond what it offered, nor by a match that has left
\* no record, however its matches race with its cancellation.
COROLLARY MatcherFillsByRecords == MatcherSpec /\ (Locking \/ OneMatcher) => []FilledByRecords
<1> QED BY MatcherImplementsSpotTrade, VersionsImplementSpotTrade, OrdersFilledByRecords, PTL
        DEF ImplementsSpotTrade
=============================================================================
