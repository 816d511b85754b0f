-------------------------- MODULE SettlementProofs --------------------------
(***************************************************************************)
(* Settlement implements SpotTrade when the record lock excludes and the   *)
(* handling of a side that is paid does not fail, for every number of      *)
(* consumers, messages, failures and restarts.  ConsumersHold is           *)
(* inductive: nobody writes a record that a consumer has locked, and       *)
(* orders only make new ones.                                              *)
(***************************************************************************)
EXTENDS SpotTradeBalance, Settlement, FiniteSetTheorems

-----------------------------------------------------------------------------
(* What a step of t does to the others.                                    *)

\* The locks of the other consumers stay.
KeepsLocks(t) == \A r \in RecordIds :
    recordLock[r] # t /\ recordLock[r] # Free => recordLock'[r] = recordLock[r]

\* A record that exists goes on existing, and stays as it is if it is another
\* one's.
KeepsRecords(t) == \A r \in RecordIds :
    Issued(r) => Issued(r)' /\ (recordLock[r] # t => records'[r] = records[r])

\* The messages, waiting, due or in hand, are about records that exist.
AboutIssued == \A x \in Messages :
    /\ queued'[x] > queued[x] \/ (x \in due' /\ x \notin due) => Issued(x[2])
    /\ \A t \in Consumers :
         consumer'[t].pc # "idle" /\ consumer'[t].message = x
           => queued[x] > 0 \/ (consumer[t].pc # "idle" /\ consumer[t].message = x)

LEMMA MessageParts ==
  ASSUME NEW x \in Messages
  PROVE  x[1] \in Sides /\ x[2] \in RecordIds
BY DEF Messages

LEMMA MessagesStay ==
  ASSUME SettlementTypeOK, NEW t, MessagesHold, KeepsRecords(t), AboutIssued,
         \A x \in Messages : queued'[x] \in Nat
  PROVE  MessagesHold'
<1> SUFFICES ASSUME NEW x \in Messages,
                    \/ queued'[x] > 0 \/ x \in due'
                    \/ \E n \in Consumers : consumer'[n].pc # "idle" /\ consumer'[n].message = x
             PROVE  Issued(x[2])'
  BY DEF MessagesHold
<1>1. Issued(x[2])
  <2>1. queued[x] \in Nat /\ queued'[x] \in Nat
    BY DEF SettlementTypeOK
  <2> QED BY <2>1 DEF MessagesHold, AboutIssued
<1> QED BY <1>1, MessageParts DEF KeepsRecords

\* A consumer that does nothing keeps what it holds.
LEMMA OtherConsumerHolds ==
  ASSUME SettlementTypeOK, MessagesHold, NEW t, NEW n \in Consumers, n # t,
         consumer'[n] = consumer[n], KeepsLocks(t), KeepsRecords(t), ConsumerHolds(n)
  PROVE  ConsumerHolds(n)'
<1> DEFINE me == consumer[n]
<1> DEFINE r  == RecordId(n)
<1>1. /\ me.message \in Messages /\ r \in RecordIds /\ n # Free
      /\ RecordId(n)' = r /\ Side(n)' = Side(n)
  BY MessageParts, SettlementAssumption DEF SettlementTypeOK, ConsumerType, RecordId, Side
<1>2. me.pc # "idle" => Issued(r)
  BY <1>1 DEF MessagesHold, RecordId
<1>3. recordLock[r] = n => recordLock'[r] = n
  BY <1>1 DEF KeepsLocks
<1>4. recordLock[r] = n /\ Issued(r) => records'[r] = records[r]
  BY <1>1 DEF KeepsRecords
<1>5. CASE me.pc \in {"pay", "error"}
  <2>1. recordLock[r] = n /\ records'[r] = records[r]
    BY <1>2, <1>4, <1>5 DEF ConsumerHolds
  <2> QED BY <1>1, <1>3, <1>5, <2>1 DEF ConsumerHolds, StatusOf
<1>6. CASE me.pc \notin {"pay", "error"}
  BY <1>1, <1>3, <1>6 DEF ConsumerHolds
<1> QED BY <1>5, <1>6

-----------------------------------------------------------------------------
(* The statuses of a record that exists.                                   *)

LEMMA IssuedStatus ==
  ASSUME Accounting, NEW r \in RecordIds, NEW side \in Sides, Issued(r)
  PROVE  StatusOf(records[r], side) \in {"NOT", "FAIL", "SUCCESS"}
BY DEF Accounting, TypeOK, Record, WalletStatus, RecordsMatchOrders, Issued, StatusOf

LEMMA WithStatusIssued ==
  ASSUME NEW rec \in Record, NEW side \in Sides, NEW st \in {"SUCCESS", "FAIL"},
         rec.buyStatus # "NONE"
  PROVE  WithStatus(rec, side, st).buyStatus # "NONE"
BY DEF WithStatus, Record

-----------------------------------------------------------------------------
(* What implements what.                                                   *)

\* Paying from a record that is still as it was read is the settlement of that
\* side.
LEMMA PayImplements ==
  ASSUME SettlementTypeOK, NEW t \in Consumers, ConsumerHolds(t), Pay(t)
  PROVE  SettleBuy(RecordId(t)) \/ SettleSell(RecordId(t))
<1> DEFINE r == RecordId(t)
<1>1. /\ consumer[t].message \in Messages /\ r \in RecordIds /\ Side(t) \in Sides
      /\ consumer[t].read = records[r] /\ Unsettled(StatusOf(records[r], Side(t)))
      /\ records[r] \in Record
  BY MessageParts DEF SettlementTypeOK, ConsumerType, TypeOK, Pay, ConsumerHolds, RecordId, Side
<1>2. orders' = orders
  BY DEF Pay
<1>3. CASE Side(t) = "BUY"
  <2>1. records' = [records EXCEPT ![r].buyStatus = "SUCCESS"]
    BY <1>1, <1>3 DEF Pay, WithStatus
  <2>2. IF MovesMoney(records[r].buy) THEN PayBuy(records[r]) ELSE UNCHANGED <<using, freeze>>
    BY <1>1, <1>3 DEF Pay
  <2>3. records[r].buyStatus \in {"NOT", "FAIL"}
    BY <1>1, <1>3 DEF StatusOf, Unsettled
  <2> QED BY <1>2, <2>1, <2>2, <2>3 DEF SettleBuy, PayBuy
<1>4. CASE Side(t) = "SELL"
  <2>1. records' = [records EXCEPT ![r].sellStatus = "SUCCESS"]
    BY <1>1, <1>4 DEF Pay, WithStatus
  <2>2. IF MovesMoney(records[r].sell) THEN PaySell(records[r]) ELSE UNCHANGED <<using, freeze>>
    BY <1>1, <1>4 DEF Pay
  <2>3. records[r].sellStatus \in {"NOT", "FAIL"}
    BY <1>1, <1>4 DEF StatusOf, Unsettled
  <2> QED BY <1>2, <2>1, <2>2, <2>3 DEF SettleSell, PaySell
<1> QED BY <1>1, <1>3, <1>4 DEF Sides

LEMMA CountErrorImplements ==
  ASSUME SettlementTypeOK, NEW t \in Consumers, ConsumerHolds(t), CountError(t)
  PROVE  \/ FailBuy(RecordId(t)) \/ FailSell(RecordId(t)) \/ UNCHANGED vars
<1> DEFINE r == RecordId(t)
<1>1. /\ r \in RecordIds /\ Side(t) \in Sides /\ Unsettled(StatusOf(records[r], Side(t)))
  BY MessageParts DEF SettlementTypeOK, ConsumerType, CountError, ConsumerHolds, RecordId, Side
<1>2. UNCHANGED <<using, freeze, orders>>
  BY DEF CountError
<1>3. \/ records' = records
      \/ records' = [records EXCEPT ![r] = WithStatus(records[r], Side(t), "FAIL")]
  BY DEF CountError
<1>4. CASE Side(t) = "BUY"
  BY <1>1, <1>2, <1>3, <1>4 DEF WithStatus, StatusOf, Unsettled, FailBuy, vars
<1>5. CASE Side(t) = "SELL"
  BY <1>1, <1>2, <1>3, <1>5 DEF WithStatus, StatusOf, Unsettled, FailSell, vars
<1> QED BY <1>1, <1>4, <1>5 DEF Sides

LEMMA NextImplements ==
  ASSUME SettlementTypeOK, ConsumersHold, [SettlementNext]_allVars
  PROVE  [Next]_vars
<1>1. CASE \E t \in Consumers : ConsumerStep(t) \/ \E x \in Messages : Receive(t, x)
  <2>1. PICK t \in Consumers : ConsumerStep(t) \/ \E x \in Messages : Receive(t, x)
    BY <1>1
  <2>2. ConsumerHolds(t) /\ RecordId(t) \in RecordIds
    BY MessageParts DEF ConsumersHold, SettlementTypeOK, ConsumerType, RecordId
  <2>3. CASE Pay(t)
    BY <2>2, <2>3, PayImplements DEF Next, SettleNext
  <2>4. CASE CountError(t)
    BY <2>2, <2>4, CountErrorImplements DEF Next, SettleNext
  <2>5. CASE ~Pay(t) /\ ~CountError(t)
    BY <2>1, <2>5 DEF ConsumerStep, LockRecord, ReadRecord, HandlingFails, Finish, Receive
  <2> QED BY <2>3, <2>4, <2>5
<1>2. CASE OrderStep
  BY <1>2 DEF OrderStep, Next
<1>3. CASE \/ JobQuery \/ JobSend \/ NewDay \/ Crash \/ UNCHANGED allVars
           \/ \E r \in RecordIds : DoWallet(r)
           \/ \E x \in Messages : KeyExpires(x)
  BY <1>3 DEF JobQuery, JobSend, NewDay, Crash, allVars, DoWallet, KeyExpires
<1> QED BY <1>1, <1>2, <1>3 DEF SettlementNext

-----------------------------------------------------------------------------
(* The consumers' steps.                                                   *)

\* Steps that write no record and no lock.
LEMMA QuietStep ==
  ASSUME NEW t, recordLock' = recordLock, records' = records
  PROVE  KeepsLocks(t) /\ KeepsRecords(t)
BY DEF KeepsLocks, KeepsRecords, Issued

\* The parts of a consumer's message.
LEMMA ConsumerParts ==
  ASSUME SettlementTypeOK, NEW t \in Consumers
  PROVE  /\ consumer[t] \in ConsumerType /\ consumer[t].message \in Messages
         /\ RecordId(t) \in RecordIds /\ Side(t) \in Sides
BY MessageParts DEF SettlementTypeOK, ConsumerType, RecordId, Side

LEMMA ReceiveHolds ==
  ASSUME SettlementTypeOK, NEW t \in Consumers, NEW x \in Messages, Receive(t, x)
  PROVE  KeepsLocks(t) /\ KeepsRecords(t) /\ ConsumerHolds(t)' /\ AboutIssued
<1>1. recordLock' = recordLock /\ records' = records /\ due' = due
  BY DEF Receive, vars, jobVars
<1>2. /\ consumer'[t].pc = "lock" /\ consumer'[t].message = x
      /\ \A n \in Consumers : n # t => consumer'[n] = consumer[n]
  BY ConsumerParts DEF Receive, SettlementTypeOK, ConsumerType
<1>3. /\ \A y \in Messages : queued'[y] <= queued[y] /\ queued[y] \in Nat /\ queued'[y] \in Int
      /\ queued[x] > 0
  BY DEF Receive, SettlementTypeOK
<1>4. AboutIssued
  BY <1>1, <1>2, <1>3 DEF AboutIssued
<1> QED BY <1>1, <1>2, <1>4, QuietStep DEF ConsumerHolds

\* In its other steps no message moves.
LEMMA StepMessages ==
  ASSUME SettlementTypeOK, NEW t \in Consumers, ConsumerStep(t)
  PROVE  /\ AboutIssued
         /\ \A n \in Consumers : n # t => consumer'[n] = consumer[n]
         /\ consumer'[t].pc = "idle" \/ consumer'[t].message = consumer[t].message
<1>1. \A n \in Consumers : n # t => consumer'[n] = consumer[n]
  BY DEF SettlementTypeOK, ConsumerStep, LockRecord, ReadRecord, Pay, HandlingFails, CountError,
         Finish
<1>2. consumer'[t].pc = "idle" \/ consumer'[t].message = consumer[t].message
  BY ConsumerParts DEF SettlementTypeOK, ConsumerType, ConsumerStep, LockRecord, ReadRecord, Pay,
         HandlingFails, CountError, Finish, Idle
<1>3. queued' = queued /\ due' = due /\ consumer[t].pc # "idle"
  BY DEF ConsumerStep, LockRecord, ReadRecord, Pay, HandlingFails, CountError, Finish, jobVars
<1>4. \A n \in Consumers : \/ consumer'[n].pc = "idle"
                           \/ consumer'[n].message = consumer[n].message
                              /\ consumer[n].pc # "idle"
                           \/ consumer'[n] = consumer[n]
  BY <1>1, <1>2, <1>3
<1>5. AboutIssued
  BY <1>3, <1>4 DEF AboutIssued, SettlementTypeOK
<1> QED BY <1>1, <1>2, <1>5

\* Locking, and reading what has been locked.
LEMMA LockingHolds ==
  ASSUME SettlementTypeOK, Locking, NEW t \in Consumers, LockRecord(t)
  PROVE  KeepsLocks(t) /\ KeepsRecords(t) /\ ConsumerHolds(t)'
<1>1. consumer'[t].pc = "read" /\ consumer'[t].message = consumer[t].message
  BY ConsumerParts DEF LockRecord, SettlementTypeOK, ConsumerType
<1>2. RecordId(t)' = RecordId(t)
  BY <1>1 DEF RecordId
<1>3. KeepsLocks(t) /\ recordLock'[RecordId(t)] = t
  BY ConsumerParts DEF LockRecord, KeepsLocks, SettlementTypeOK
<1>4. KeepsRecords(t)
  BY DEF LockRecord, vars, KeepsRecords, Issued
<1> QED BY <1>1, <1>2, <1>3, <1>4 DEF ConsumerHolds

LEMMA ReadingHolds ==
  ASSUME SettlementTypeOK, Accounting, NEW t \in Consumers, ConsumerHolds(t),
         Issued(RecordId(t)), ReadRecord(t)
  PROVE  KeepsLocks(t) /\ KeepsRecords(t) /\ ConsumerHolds(t)'
<1> DEFINE r == RecordId(t)
<1>1. recordLock' = recordLock /\ records' = records /\ recordLock[r] = t
  BY DEF ReadRecord, vars, ConsumerHolds
<1>2. /\ consumer'[t].message = consumer[t].message
      /\ \/ consumer'[t].pc = "finish"
         \/ /\ consumer'[t].pc = "pay" /\ consumer'[t].read = records[r]
            /\ StatusOf(records[r], Side(t)) # "SUCCESS"
  BY ConsumerParts DEF ReadRecord, SettlementTypeOK, ConsumerType
<1>3. RecordId(t)' = r /\ Side(t)' = Side(t)
  BY <1>2 DEF RecordId, Side
<1>4. StatusOf(records[r], Side(t)) # "SUCCESS" => Unsettled(StatusOf(records[r], Side(t)))
  BY IssuedStatus, ConsumerParts DEF Unsettled
<1> QED BY <1>1, <1>2, <1>3, <1>4, QuietStep DEF ConsumerHolds, StatusOf

\* A failure of a side that is not settled.
LEMMA FailingHolds ==
  ASSUME SettlementTypeOK, Accounting, ~DoneMayFail, NEW t \in Consumers, ConsumerHolds(t),
         Issued(RecordId(t)), HandlingFails(t)
  PROVE  KeepsLocks(t) /\ KeepsRecords(t) /\ ConsumerHolds(t)'
<1> DEFINE r == RecordId(t)
<1>1. recordLock' = recordLock /\ records' = records /\ recordLock[r] = t
  BY DEF HandlingFails, vars, ConsumerHolds
<1>2. consumer'[t].message = consumer[t].message /\ consumer'[t].pc = "error"
  BY ConsumerParts DEF HandlingFails, SettlementTypeOK, ConsumerType
<1>3. RecordId(t)' = r /\ Side(t)' = Side(t)
  BY <1>2 DEF RecordId, Side
<1>4. Unsettled(StatusOf(records[r], Side(t)))
  BY IssuedStatus, ConsumerParts DEF Unsettled, HandlingFails, ConsumerHolds
<1> QED BY <1>1, <1>2, <1>3, <1>4, QuietStep DEF ConsumerHolds, StatusOf

\* The record is written by the consumer that has locked it.
LEMMA WritingHolds ==
  ASSUME SettlementTypeOK, NEW t \in Consumers, ConsumerHolds(t), Issued(RecordId(t)),
         Pay(t) \/ CountError(t)
  PROVE  KeepsLocks(t) /\ KeepsRecords(t) /\ ConsumerHolds(t)'
<1> DEFINE r == RecordId(t)
<1>1. /\ recordLock' = recordLock /\ recordLock[r] = t /\ r \in RecordIds /\ Side(t) \in Sides
      /\ records[r] \in Record
  BY ConsumerParts DEF Pay, CountError, ConsumerHolds, SettlementTypeOK, TypeOK
<1>2. consumer'[t].message = consumer[t].message /\ consumer'[t].pc = "finish"
  BY ConsumerParts DEF Pay, CountError, SettlementTypeOK, ConsumerType
<1>3. RecordId(t)' = r
  BY <1>2 DEF RecordId
<1>4. \/ records' = records
      \/ \E st \in {"SUCCESS", "FAIL"} :
           records' = [records EXCEPT ![r] = WithStatus(records[r], Side(t), st)]
  BY DEF Pay, CountError, ConsumerHolds
<1>5. KeepsRecords(t)
  BY <1>1, <1>4, WithStatusIssued DEF KeepsRecords, Issued, SettlementTypeOK, TypeOK
<1> QED BY <1>1, <1>2, <1>3, <1>5 DEF ConsumerHolds, KeepsLocks

LEMMA FinishHolds ==
  ASSUME SettlementTypeOK, NEW t \in Consumers, Finish(t)
  PROVE  KeepsLocks(t) /\ KeepsRecords(t) /\ ConsumerHolds(t)'
<1>1. consumer'[t].pc = "idle"
  BY DEF Finish, SettlementTypeOK, Idle
<1>2. KeepsLocks(t) /\ KeepsRecords(t)
  BY ConsumerParts DEF Finish, vars, KeepsLocks, KeepsRecords, Issued, SettlementTypeOK
<1> QED BY <1>1, <1>2 DEF ConsumerHolds

\* Making records, or marking orders, changes no record that exists.
LEMMA OrderStepKeeps ==
  ASSUME SettlementTypeOK, OrderNext
  PROVE  \A r \in RecordIds : Issued(r) => records'[r] = records[r]
<1>1. CASE \E b, s \in OrderIds : DoTrade(b, s)
  BY <1>1 DEF DoTrade, NextRecordId, Issued, SettlementTypeOK, TypeOK
<1>2. CASE ~\E b, s \in OrderIds : DoTrade(b, s)
  BY <1>2 DEF OrderNext, PublishTrade, DoCancel, MarkError, ErrorModify, DeleteRobotCancel
<1> QED BY <1>1, <1>2

-----------------------------------------------------------------------------
(* Every step keeps what the consumers rely on.                            *)

LEMMA ConsumerStepHolds ==
  ASSUME SettlementTypeOK, Accounting, Locking, ~DoneMayFail, MessagesHold,
         NEW t \in Consumers, ConsumerHolds(t), ConsumerStep(t)
  PROVE  KeepsLocks(t) /\ KeepsRecords(t) /\ ConsumerHolds(t)'
<1>1. Issued(RecordId(t))
  BY ConsumerParts DEF MessagesHold, RecordId, ConsumerStep, LockRecord, ReadRecord, Pay,
     HandlingFails, CountError, Finish
<1> QED BY <1>1, LockingHolds, ReadingHolds, FailingHolds, WritingHolds, FinishHolds
        DEF ConsumerStep

\* What the queues hold after a step.
LEMMA QueuedType ==
  ASSUME SettlementTypeOK, [SettlementNext]_allVars
  PROVE  queued' \in [Messages -> Nat]
<1>1. CASE JobSend \/ \E r \in RecordIds : DoWallet(r)
  BY <1>1 DEF JobSend, DoWallet, SendMessages, SettlementTypeOK
<1>2. CASE \E t \in Consumers, x \in Messages : Receive(t, x)
  BY <1>2 DEF Receive, SettlementTypeOK
<1>3. CASE Crash
  <2>1. \A x \in Messages : Cardinality(InHand(x)) \in Nat
    <3>1. \A x \in Messages : InHand(x) \subseteq Consumers
      BY DEF InHand
    <3> QED BY <3>1, SettlementAssumption, FS_Subset, FS_CardinalityType
  <2> QED BY <1>3, <2>1 DEF Crash, SettlementTypeOK
<1>4. queued' = queued => queued' \in [Messages -> Nat]
  BY DEF SettlementTypeOK
<1>5. CASE \/ OrderStep \/ JobQuery \/ NewDay \/ UNCHANGED allVars
           \/ \E x \in Messages : KeyExpires(x)
           \/ \E t \in Consumers : ConsumerStep(t)
  BY <1>4, <1>5 DEF OrderStep, JobQuery, NewDay, allVars, settleVars, KeyExpires, ConsumerStep,
     LockRecord, ReadRecord, Pay, HandlingFails, CountError, Finish
<1> QED BY <1>1, <1>2, <1>3, <1>5 DEF SettlementNext

\* The job and the administrator send for records that exist.
LEMMA SendingAboutIssued ==
  ASSUME SettlementTypeOK, Accounting, MessagesHold,
         JobQuery \/ JobSend \/ \E r \in RecordIds : DoWallet(r)
  PROVE  AboutIssued
<1>1. consumer' = consumer
  BY DEF JobQuery, JobSend, DoWallet
<1>2. \A x \in Messages : queued[x] \in Nat
  BY DEF SettlementTypeOK
<1>3. CASE JobQuery
  <2>1. \A x \in Messages : StatusOf(records[x[2]], x[1]) = "NOT" => Issued(x[2])
    BY MessageParts DEF StatusOf, Issued, Accounting, RecordsMatchOrders
  <2>2. \A x \in due' : x \in Messages /\ StatusOf(records[x[2]], x[1]) = "NOT"
    BY <1>3 DEF JobQuery, NotDone
  <2>3. queued' = queued
    BY <1>3 DEF JobQuery
  <2> QED BY <1>1, <1>2, <2>1, <2>2, <2>3 DEF AboutIssued
<1>4. CASE JobSend
  <2>1. PICK y \in due : SendMessages({y}) /\ due' = due \ {y}
    BY <1>4 DEF JobSend
  <2>2. \A x \in Messages : queued'[x] > queued[x] => x \in due
    BY <1>2, <2>1 DEF SendMessages
  <2> QED BY <1>1, <1>2, <2>1, <2>2 DEF AboutIssued, MessagesHold
<1>5. CASE \E r \in RecordIds : DoWallet(r)
  <2>1. PICK r \in RecordIds : DoWallet(r)
    BY <1>5
  <2>2. Issued(r)
    BY <2>1 DEF DoWallet, Sides, StatusOf, Issued, Accounting, RecordsMatchOrders
  <2>3. \A x \in Messages : queued'[x] > queued[x] => x[2] = r
    BY <1>2, <2>1 DEF DoWallet, SendMessages
  <2>4. due' = due
    BY <2>1 DEF DoWallet, jobVars
  <2> QED BY <1>1, <1>2, <2>2, <2>3, <2>4 DEF AboutIssued
<1> QED BY <1>3, <1>4, <1>5

\* After a restart the messages in hand wait again.
LEMMA CrashHolds ==
  ASSUME SettlementTypeOK, ConsumersHold, Crash
  PROVE  ConsumersHold'
<1>1. \A t \in Consumers : consumer'[t].pc = "idle"
  BY DEF Crash, Idle
<1>2. \A t \in Consumers : ConsumerHolds(t)'
  BY <1>1 DEF ConsumerHolds
<1>3. ASSUME NEW x \in Messages, queued'[x] > 0
      PROVE  Issued(x[2])'
  <2>1. queued[x] \in Nat /\ queued'[x] = queued[x] + Cardinality(InHand(x))
    BY DEF Crash, SettlementTypeOK
  <2>2. InHand(x) = {} => Cardinality(InHand(x)) = 0
    BY FS_EmptySet
  <2>3. queued[x] > 0 \/ InHand(x) # {}
    BY <1>3, <2>1, <2>2
  <2> QED BY <2>3 DEF ConsumersHold, MessagesHold, InHand, Issued, Crash, vars
<1>4. due' = {}
  BY DEF Crash
<1> QED BY <1>1, <1>2, <1>3, <1>4 DEF ConsumersHold, MessagesHold

LEMMA NextConsumersHold ==
  ASSUME SettlementTypeOK, Accounting, Locking, ~DoneMayFail, ConsumersHold,
         [SettlementNext]_allVars
  PROVE  ConsumersHold'
<1>1. \A x \in Messages : queued'[x] \in Nat
  BY QueuedType
<1>2. CASE \E t \in Consumers : ConsumerStep(t) \/ \E x \in Messages : Receive(t, x)
  <2>1. PICK t \in Consumers : ConsumerStep(t) \/ \E x \in Messages : Receive(t, x)
    BY <1>2
  <2>2. /\ KeepsLocks(t) /\ KeepsRecords(t) /\ ConsumerHolds(t)' /\ AboutIssued
        /\ \A n \in Consumers : n # t => consumer'[n] = consumer[n]
    <3>1. CASE ConsumerStep(t)
      BY <3>1, ConsumerStepHolds, StepMessages DEF ConsumersHold
    <3>2. CASE \E x \in Messages : Receive(t, x)
      BY <3>2, ReceiveHolds DEF Receive, SettlementTypeOK
    <3> QED BY <2>1, <3>1, <3>2
  <2>3. MessagesHold'
    BY <1>1, <2>2, MessagesStay DEF ConsumersHold
  <2>4. \A n \in Consumers : ConsumerHolds(n)'
    BY <2>2, OtherConsumerHolds DEF ConsumersHold
  <2> QED BY <2>3, <2>4 DEF ConsumersHold
<1>3. CASE \/ OrderStep \/ JobQuery \/ JobSend \/ NewDay \/ UNCHANGED allVars
           \/ \E r \in RecordIds : DoWallet(r)
           \/ \E x \in Messages : KeyExpires(x)
  <2>1. recordLock' = recordLock /\ consumer' = consumer
    BY <1>3 DEF OrderStep, JobQuery, JobSend, NewDay, DoWallet, KeyExpires, allVars, settleVars
  <2>2. \A r \in RecordIds : Issued(r) => records'[r] = records[r]
    BY <1>3, OrderStepKeeps DEF OrderStep, JobQuery, JobSend, NewDay, DoWallet, KeyExpires,
       allVars, vars
  <2>3. KeepsLocks(Free) /\ KeepsRecords(Free)
    BY <2>1, <2>2 DEF KeepsLocks, KeepsRecords, Issued
  <2>4. AboutIssued
    <3>1. CASE \/ OrderStep \/ NewDay \/ UNCHANGED allVars
               \/ \E x \in Messages : KeyExpires(x)
      BY <2>1, <3>1 DEF OrderStep, NewDay, KeyExpires, allVars, settleVars, jobVars, AboutIssued,
         SettlementTypeOK
    <3>2. CASE ~(\/ OrderStep \/ NewDay \/ UNCHANGED allVars
                 \/ \E x \in Messages : KeyExpires(x))
      BY <1>3, <3>2, SendingAboutIssued DEF ConsumersHold
    <3> QED BY <3>1, <3>2
  <2>5. MessagesHold'
    BY <1>1, <2>3, <2>4, MessagesStay DEF ConsumersHold
  <2>6. \A n \in Consumers : ConsumerHolds(n)'
    BY <2>1, <2>3, OtherConsumerHolds, SettlementAssumption DEF ConsumersHold
  <2> QED BY <2>5, <2>6 DEF ConsumersHold
<1>4. CASE Crash
  BY <1>4, CrashHolds
<1> QED BY <1>2, <1>3, <1>4 DEF SettlementNext

-----------------------------------------------------------------------------
(* Types.                                                                  *)

LEMMA IdleType == Idle \in ConsumerType
<1>1. <<"BUY", 1>> \in Messages
  BY ConstantsAssumption, SettlementAssumption DEF Messages, Sides, RecordIds
<1>2. NoRecord \in Record
  BY ConstantsAssumption DEF NoRecord, Record, WalletStatus, OrderIds
<1> QED BY <1>1, <1>2 DEF Idle, ConsumerType

\* What a consumer writes of its own state.
LEMMA ConsumerStepType ==
  ASSUME SettlementTypeOK, NEW t \in Consumers,
         ConsumerStep(t) \/ \E x \in Messages : Receive(t, x)
  PROVE  consumer' \in [Consumers -> ConsumerType]
<1>0. /\ consumer \in [Consumers -> ConsumerType] /\ consumer[t] \in ConsumerType
  BY DEF SettlementTypeOK
<1>1. SUFFICES \E y \in ConsumerType : consumer' = [consumer EXCEPT ![t] = y]
  BY <1>0
<1>2. CASE \E x \in Messages : Receive(t, x)
  <2>1. PICK x \in Messages : Receive(t, x)
    BY <1>2
  <2>2. [consumer[t] EXCEPT !.pc = "lock", !.message = x] \in ConsumerType
    BY <1>0 DEF ConsumerType
  <2> QED BY <1>0, <2>1, <2>2 DEF Receive
<1>3. CASE ReadRecord(t)
  <2>1. records[RecordId(t)] \in Record
    BY ConsumerParts DEF SettlementTypeOK, TypeOK
  <2>2. \A pc \in {"finish", "pay"} :
          [consumer[t] EXCEPT !.pc = pc, !.read = records[RecordId(t)]] \in ConsumerType
    BY <1>0, <2>1 DEF ConsumerType
  <2>3. \E pc \in {"finish", "pay"} : consumer' =
          [consumer EXCEPT ![t] = [consumer[t] EXCEPT !.pc = pc, !.read = records[RecordId(t)]]]
    BY <1>0, <1>3 DEF ReadRecord
  <2> QED BY <2>2, <2>3
<1>4. CASE Finish(t)
  BY <1>4, IdleType DEF Finish
<1>5. CASE LockRecord(t) \/ Pay(t) \/ HandlingFails(t) \/ CountError(t)
  <2>1. \A pc \in {"read", "finish", "error"} : [consumer[t] EXCEPT !.pc = pc] \in ConsumerType
    BY <1>0 DEF ConsumerType
  <2>2. \E pc \in {"read", "finish", "error"} :
          consumer' = [consumer EXCEPT ![t] = [consumer[t] EXCEPT !.pc = pc]]
    BY <1>0, <1>5 DEF LockRecord, Pay, HandlingFails, CountError
  <2> QED BY <2>1, <2>2
<1> QED BY <1>2, <1>3, <1>4, <1>5 DEF ConsumerStep

LEMMA ErrorTimesType ==
  ASSUME SettlementTypeOK, [SettlementNext]_allVars
  PROVE  errorTimes' \in [Messages -> 0..ErrorLimit]
<1>1. CASE \E t \in Consumers : CountError(t)
  <2>1. PICK t \in Consumers : CountError(t)
    BY <1>1
  <2>2. /\ consumer[t].message \in Messages /\ ErrorLimit \in Nat
        /\ errorTimes[consumer[t].message] \in 0..ErrorLimit
    BY ConsumerParts, SettlementAssumption DEF SettlementTypeOK
  <2>3. CASE errorTimes[consumer[t].message] >= ErrorLimit
    BY <2>1, <2>2, <2>3 DEF CountError, SettlementTypeOK
  <2>4. CASE errorTimes[consumer[t].message] < ErrorLimit
    BY <2>1, <2>2, <2>4 DEF CountError, SettlementTypeOK
  <2> QED BY <2>2, <2>3, <2>4
<1>2. CASE NewDay
  BY <1>2, SettlementAssumption DEF NewDay
<1>3. CASE ~NewDay /\ ~\E t \in Consumers : CountError(t)
  <2>1. errorTimes' = errorTimes
    BY <1>3 DEF SettlementNext, OrderStep, JobQuery, JobSend, DoWallet, KeyExpires, ConsumerStep,
       LockRecord, ReadRecord, Pay, HandlingFails, Finish, Receive, Crash, allVars, settleVars
  <2> QED BY <2>1 DEF SettlementTypeOK
<1> QED BY <1>1, <1>2, <1>3

LEMMA NextSettlementTypeOK ==
  ASSUME SettlementTypeOK, ConsumersHold, [SettlementNext]_allVars
  PROVE  SettlementTypeOK'
<1>1. TypeOK'
  BY NextImplements, NextTypeOK DEF SettlementTypeOK
<1>2. runKey' \subseteq Messages /\ phase' \in Sides /\ due' \subseteq Messages
  <2>1. CASE \E r \in RecordIds : DoWallet(r)
    BY <2>1 DEF DoWallet, SendMessages, SettlementTypeOK, jobVars
  <2>2. CASE JobQuery \/ JobSend \/ Crash
    BY <2>2 DEF JobQuery, JobSend, Crash, SendMessages, NotDone, SettlementTypeOK, Sides
  <2>3. CASE \E t \in Consumers : ConsumerStep(t) \/ \E x \in Messages : Receive(t, x)
    BY <2>3 DEF ConsumerStep, LockRecord, ReadRecord, Pay, HandlingFails, CountError, Finish,
       Receive, SettlementTypeOK, jobVars
  <2>4. CASE OrderStep \/ NewDay \/ UNCHANGED allVars \/ \E x \in Messages : KeyExpires(x)
    BY <2>4 DEF OrderStep, NewDay, KeyExpires, allVars, settleVars, jobVars, SettlementTypeOK
  <2> QED BY <2>1, <2>2, <2>3, <2>4 DEF SettlementNext
<1>3. recordLock' \in [RecordIds -> Consumers \cup {Free}]
  BY DEF SettlementTypeOK, SettlementNext, OrderStep, JobQuery, JobSend, DoWallet, KeyExpires,
     ConsumerStep, LockRecord, ReadRecord, Pay, HandlingFails, CountError, Finish, Receive,
     NewDay, Crash, allVars, settleVars
<1>4. consumer' \in [Consumers -> ConsumerType]
  <2>1. CASE \E t \in Consumers : ConsumerStep(t) \/ \E x \in Messages : Receive(t, x)
    BY <2>1, ConsumerStepType
  <2>2. CASE Crash
    BY <2>2, IdleType DEF Crash
  <2>3. CASE \/ OrderStep \/ JobQuery \/ JobSend \/ NewDay \/ UNCHANGED allVars
             \/ \E r \in RecordIds : DoWallet(r)
             \/ \E x \in Messages : KeyExpires(x)
    BY <2>3 DEF OrderStep, JobQuery, JobSend, NewDay, DoWallet, KeyExpires, allVars, settleVars,
       SettlementTypeOK
  <2> QED BY <2>1, <2>2, <2>3 DEF SettlementNext
<1>5. failures' \in Nat /\ crashes' \in Nat
  <2>1. failures' = failures \/ failures' = failures + 1
    BY DEF SettlementNext, OrderStep, JobQuery, JobSend, DoWallet, KeyExpires,
       ConsumerStep, LockRecord, ReadRecord, Pay, HandlingFails, CountError, Finish, Receive,
       NewDay, Crash, allVars, settleVars
  <2>2. crashes' = crashes \/ crashes' = crashes + 1
    BY DEF SettlementNext, OrderStep, JobQuery, JobSend, DoWallet, KeyExpires,
       ConsumerStep, LockRecord, ReadRecord, Pay, HandlingFails, CountError, Finish, Receive,
       NewDay, Crash, allVars, settleVars
  <2> QED BY <2>1, <2>2 DEF SettlementTypeOK
<1> QED BY <1>1, <1>2, <1>3, <1>4, <1>5, QueuedType, ErrorTimesType DEF SettlementTypeOK

-----------------------------------------------------------------------------
(* The theorems.                                                           *)

SettlementHolds == SettlementTypeOK /\ Accounting /\ ConsumersHold

LEMMA InitSettlement == SettlementInit => SettlementHolds
<1> SUFFICES ASSUME SettlementInit PROVE SettlementHolds
  OBVIOUS
<1>1. Accounting
  BY InitAccounting DEF SettlementInit
<1>2. SettlementTypeOK
  <2>1. /\ queued \in [Messages -> Nat] /\ {failures, crashes} \subseteq Nat
        /\ errorTimes \in [Messages -> 0..ErrorLimit]
    BY SettlementAssumption DEF SettlementInit
  <2>3. /\ recordLock \in [RecordIds -> Consumers \cup {Free}]
        /\ runKey \subseteq Messages /\ phase \in Sides /\ due \subseteq Messages
    BY DEF SettlementInit, Sides
  <2>2. consumer \in [Consumers -> ConsumerType]
    BY IdleType DEF SettlementInit
  <2> QED BY <1>1, <2>1, <2>2, <2>3 DEF SettlementTypeOK, Accounting
<1>3. \A t \in Consumers : consumer[t].pc = "idle"
  BY DEF SettlementInit, Idle
<1>4. \A x \in Messages : ~(queued[x] > 0) /\ x \notin due
  BY DEF SettlementInit
<1>5. ConsumersHold
  BY <1>3, <1>4 DEF ConsumersHold, MessagesHold, ConsumerHolds
<1> QED BY <1>1, <1>2, <1>5 DEF SettlementHolds

LEMMA SettlementInductive == SettlementSpec /\ Locking /\ ~DoneMayFail => []SettlementHolds
<1>1. Locking /\ ~DoneMayFail /\ SettlementHolds /\ [SettlementNext]_allVars => SettlementHolds'
  BY NextSettlementTypeOK, NextConsumersHold, NextImplements, NextAccounting DEF SettlementHolds
<1>2. Locking /\ ~DoneMayFail => (Locking /\ ~DoneMayFail)'
  OBVIOUS
<1> QED BY <1>1, <1>2, InitSettlement, PTL DEF SettlementSpec

\* Queues, locks, error counts and the consumers' local state are what they are
\* declared to be: a side never counts more failures than the limit.
THEOREM SettlementTypeCorrect == SettlementSpec /\ Locking /\ ~DoneMayFail => []SettlementTypeOK
<1>1. SettlementHolds => SettlementTypeOK
  BY DEF SettlementHolds
<1> QED BY <1>1, SettlementInductive, PTL

\* A side found unsettled stays so until the consumer that found it has paid,
\* and messages are only ever about records that exist.
THEOREM RecordLockProtects == SettlementSpec /\ Locking /\ ~DoneMayFail => []ConsumersHold
<1>1. SettlementHolds => ConsumersHold
  BY DEF SettlementHolds
<1> QED BY <1>1, SettlementInductive, PTL

\* Whatever is sent or delivered twice, fails or is interrupted, each side of
\* each record is paid at most once, with its status, as SpotTrade does it.
THEOREM SettlementImplementsSpotTrade ==
    SettlementSpec /\ Locking /\ ~DoneMayFail => ImplementsSpotTrade
<1>1. SettlementInit => Init
  BY DEF SettlementInit
<1>2. SettlementHolds /\ [SettlementNext]_allVars => [Next]_vars
  BY NextImplements DEF SettlementHolds
<1> QED BY <1>1, <1>2, SettlementInductive, PTL
        DEF SettlementSpec, ImplementsSpotTrade, Spec

\* So the funds a side of a trade takes are there whenever its message comes.
COROLLARY MessagesAreFunded == SettlementSpec /\ Locking /\ ~DoneMayFail => []SettlementFunded
<1> QED BY SettlementImplementsSpotTrade, SettlementIsFunded, PTL DEF ImplementsSpotTrade

\* And what a user owns is what the records paid so far have moved, each side of
\* them once, whatever was delivered twice or interrupted.
COROLLARY PaidSidesExplainBalance ==
    SettlementSpec /\ Locking /\ ~DoneMayFail => []BalanceExplained
<1> QED BY SettlementImplementsSpotTrade, BalanceIsExplained, PTL DEF ImplementsSpotTrade

\* No transaction of SpotTrade touches a side that is paid: a match writes a
\* record that was not issued, and settling or giving up needs a side that is
\* not paid.
LEMMA PaidStaysPaid ==
  ASSUME TypeOK, RecordsMatchOrders, [Next]_vars, NEW r \in RecordIds, NEW side \in Sides,
         StatusOf(records[r], side) = "SUCCESS"
  PROVE  StatusOf(records'[r], side) = "SUCCESS"
<1>0. records[r] \in Record
  BY DEF TypeOK
<1>1. ASSUME NEW b \in OrderIds, NEW s \in OrderIds, DoTrade(b, s)
      PROVE  records'[r] = records[r]
  <2>1. records[r].buyStatus # "NONE"
    BY DEF StatusOf, RecordsMatchOrders
  <2>2. PICK k \in RecordIds : /\ records[k].buyStatus = "NONE"
                               /\ records' = [records EXCEPT ![k] = NewRecord(b, s, TradeQuantity(b, s))]
    BY <1>1 DEF DoTrade, NextRecordId
  <2> QED BY <2>1, <2>2 DEF TypeOK
<1>2. ASSUME NEW k \in RecordIds, SettleBuy(k) \/ SettleSell(k) \/ FailBuy(k) \/ FailSell(k)
      PROVE  \/ records'[r] = records[r]
             \/ \E st \in {"SUCCESS", "FAIL"} :
                  \/ /\ records[r].buyStatus \in {"NOT", "FAIL"}
                     /\ records'[r] = [records[r] EXCEPT !.buyStatus = st]
                  \/ /\ records[r].sellStatus \in {"NOT", "FAIL"}
                     /\ records'[r] = [records[r] EXCEPT !.sellStatus = st]
  BY <1>2 DEF SettleBuy, SettleSell, FailBuy, FailSell, TypeOK
<1>3. ASSUME \/ \E u \in Users, s \in Sides, p \in Prices, q \in Quantities :
                   PublishTrade(u, s, p, q)
             \/ \E o \in OrderIds : DoCancel(o) \/ MarkError(o)
             \/ ErrorModify \/ DeleteRobotCancel \/ UNCHANGED vars
      PROVE  records' = records
  BY <1>3 DEF PublishTrade, DoCancel, MarkError, ErrorModify, DeleteRobotCancel, vars
<1>4. ASSUME NEW st \in {"SUCCESS", "FAIL"},
             \/ /\ records[r].buyStatus \in {"NOT", "FAIL"}
                /\ records'[r] = [records[r] EXCEPT !.buyStatus = st]
             \/ /\ records[r].sellStatus \in {"NOT", "FAIL"}
                /\ records'[r] = [records[r] EXCEPT !.sellStatus = st]
      PROVE  StatusOf(records'[r], side) = "SUCCESS"
  BY <1>0, <1>4 DEF Record, StatusOf
<1> QED BY <1>1, <1>2, <1>3, <1>4 DEF Next, OrderNext, SettleNext

\* A late failure of a side that is paid is the only thing that turns it to
\* FAIL: without it, what was handled stays handled, for any number of
\* consumers, messages, failures and restarts.
THEOREM HandledStaysHandled == SettlementSpec /\ Locking /\ ~DoneMayFail => DoneStaysDone
<1>1. ASSUME SettlementHolds, [SettlementNext]_allVars
      PROVE  [\A x \in Messages : StatusOf(records[x[2]], x[1]) = "SUCCESS"
                => StatusOf(records[x[2]], x[1])' = "SUCCESS"]_allVars
  <2>1. TypeOK /\ RecordsMatchOrders /\ [Next]_vars
    BY <1>1, NextImplements DEF SettlementHolds, Accounting
  <2>2. ASSUME NEW x \in Messages, StatusOf(records[x[2]], x[1]) = "SUCCESS"
        PROVE  StatusOf(records[x[2]], x[1])' = "SUCCESS"
    <3>1. StatusOf(records[x[2]], x[1])' = StatusOf(records'[x[2]], x[1])
      BY DEF StatusOf
    <3> QED BY <2>1, <2>2, <3>1, PaidStaysPaid, MessageParts
  <2> QED BY <2>2
<1> QED BY <1>1, SettlementInductive, PTL DEF SettlementSpec, DoneStaysDone
=============================================================================
