----------------------------- MODULE Settlement -----------------------------
(***************************************************************************)
(* How the two sides of a trade record get settled.  TradeWalletJob sends  *)
(* a message for every side not handled yet; a run key with a short life   *)
(* keeps it from sending one again at once.  A consumer locks the record,  *)
(* reads it, and in one transaction pays and writes the whole row back, or *)
(* counts the failure and, when there were too many, marks the side FAIL.  *)
(* A message is acknowledged when its handler returns, so that a crash     *)
(* delivers it again, and a run key that expires while its message waits   *)
(* lets another one be sent: messages come more than once.                 *)
(*                                                                         *)
(* Orders go on as in SpotTrade, which this module implements.             *)
(***************************************************************************)
EXTENDS SpotTrade, FiniteSets

CONSTANTS
    Consumers,      \* listener threads, of either queue
    Locking,        \* FALSE: the record lock excludes nobody
    ErrorLimit,     \* failures counted before a side is marked FAIL
    DoneMayFail,    \* TRUE: handling a side that is already paid may fail
    MaxQueued,      \* bound on the messages waiting for one side
    MaxFailures,    \* bound on the transactions that fail
    MaxCrashes      \* bound on the restarts of the process

Free == "free"

ASSUME SettlementAssumption ==
    /\ IsFiniteSet(Consumers) /\ Free \notin Consumers
    /\ MaxRecords # 0
    /\ Locking \in BOOLEAN /\ DoneMayFail \in BOOLEAN
    /\ {ErrorLimit, MaxQueued, MaxFailures, MaxCrashes} \subseteq Nat

VARIABLES
    queued,      \* messages waiting in the two queues, by side
    runKey,      \* the sides whose run key is set
    phase,       \* the side the job asks for next
    due,         \* sides the job has read as not handled and not sent yet
    errorTimes,  \* the failures counted today, by side
    recordLock,  \* LOCK_TRADERECODE_ID: who holds it
    consumer,    \* the consumers' local state
    failures, crashes   \* how much of each bound is used

jobVars    == <<phase, due>>
settleVars == <<queued, runKey, jobVars, errorTimes, recordLock, consumer,
                failures, crashes>>
allVars    == <<vars, settleVars>>

\* A message names a side of a record.
Messages == Sides \X RecordIds
Idle     == [pc |-> "idle", message |-> <<"BUY", 1>>, read |-> NoRecord]

StatusOf(rec, side) == IF side = "BUY" THEN rec.buyStatus ELSE rec.sellStatus
WithStatus(rec, side, st) == IF side = "BUY" THEN [rec EXCEPT !.buyStatus = st]
                             ELSE [rec EXCEPT !.sellStatus = st]

SettlementInit ==
    /\ Init
    /\ queued = [x \in Messages |-> 0]
    /\ runKey = {}
    /\ phase = "BUY" /\ due = {}
    /\ errorTimes = [x \in Messages |-> 0]
    /\ recordLock = [r \in RecordIds |-> Free]
    /\ consumer = [t \in Consumers |-> Idle]
    /\ failures = 0 /\ crashes = 0

-----------------------------------------------------------------------------
(* Sending.                                                                *)

\* One message for each of the sides xs, unless the run key of the side is
\* there.  (Two senders that both miss the key do what an expiry between them
\* does.)
SendMessages(xs) ==
    /\ \A x \in xs \ runKey : queued[x] < MaxQueued
    /\ queued' = [x \in Messages |-> IF x \in xs \ runKey THEN queued[x] + 1 ELSE queued[x]]
    /\ runKey' = runKey \cup xs

NotDone(side) == {x \in Messages : x[1] = side /\ StatusOf(records[x[2]], side) = "NOT"}

\* (Mutant.)  The job asks for the buy sides only.
JobQueryBuy ==
    /\ due = {}
    /\ \E side \in Sides : NotDone(side) # {}
    /\ due' = NotDone("BUY")
    /\ phase' = "BUY"
    /\ UNCHANGED <<vars, queued, runKey, errorTimes, recordLock, consumer,
                   failures, crashes>>

\* The job reads the buy sides not handled and sends for each of them in turn
\* from what it has read, then does the same for the sell sides.
JobQuery ==
    /\ due = {}
    /\ \E side \in Sides : NotDone(side) # {}
    /\ due' = NotDone(phase)
    /\ phase' = IF phase = "BUY" THEN "SELL" ELSE "BUY"
    /\ UNCHANGED <<vars, queued, runKey, errorTimes, recordLock, consumer,
                   failures, crashes>>

JobSend ==
    /\ \E x \in due : SendMessages({x}) /\ due' = due \ {x}
    /\ UNCHANGED <<vars, phase, errorTimes, recordLock, consumer, failures, crashes>>

\* An administrator sends for the sides of a record that are not done.
DoWallet(r) ==
    /\ \E side \in Sides : StatusOf(records[r], side) \in {"NOT", "FAIL"}
    /\ SendMessages({x \in Messages : x[2] = r /\ StatusOf(records[r], x[1]) # "SUCCESS"})
    /\ UNCHANGED <<vars, jobVars, errorTimes, recordLock, consumer, failures, crashes>>

KeyExpires(x) ==
    /\ x \in runKey
    /\ runKey' = runKey \ {x}
    /\ UNCHANGED <<vars, queued, jobVars, errorTimes, recordLock, consumer,
                   failures, crashes>>

-----------------------------------------------------------------------------
(* Consuming.                                                              *)

Side(t)     == consumer[t].message[1]
RecordId(t) == consumer[t].message[2]

Receive(t, x) ==
    /\ consumer[t].pc = "idle" /\ queued[x] > 0
    /\ queued' = [queued EXCEPT ![x] = @ - 1]
    /\ consumer' = [consumer EXCEPT ![t].pc = "lock", ![t].message = x]
    /\ UNCHANGED <<vars, runKey, jobVars, errorTimes, recordLock, failures, crashes>>

\* (Mutant.)  The record is handled without its lock.
LockNothing(t) ==
    /\ consumer[t].pc = "lock"
    /\ consumer' = [consumer EXCEPT ![t].pc = "read"]
    /\ UNCHANGED <<vars, queued, runKey, jobVars, errorTimes, recordLock,
                   failures, crashes>>

LockRecord(t) ==
    /\ consumer[t].pc = "lock"
    /\ Locking => recordLock[RecordId(t)] = Free
    /\ recordLock' = [recordLock EXCEPT ![RecordId(t)] = t]
    /\ consumer' = [consumer EXCEPT ![t].pc = "read"]
    /\ UNCHANGED <<vars, queued, runKey, jobVars, errorTimes, failures, crashes>>

\* A side that is done is left alone.
ReadRecord(t) ==
    /\ consumer[t].pc = "read"
    /\ consumer' = [consumer EXCEPT
            ![t].pc = IF StatusOf(records[RecordId(t)], Side(t)) = "SUCCESS"
                      THEN "finish" ELSE "pay",
            ![t].read = records[RecordId(t)]]
    /\ UNCHANGED <<vars, queued, runKey, jobVars, errorTimes, recordLock, failures, crashes>>

\* What tradeBuyWallet and tradeSellWallet do to the wallets.
PayBuy(rec) ==
    /\ CanModify(rec.buyUser, "tradeCurrency", rec.quantity - rec.buyCharge, 0)
    /\ CanModify(rec.buyUser, "currency", 0, -Mul(rec.quantity, rec.buyPrice))
    /\ using'  = [using  EXCEPT ![rec.buyUser]["tradeCurrency"]
                           = @ + (rec.quantity - rec.buyCharge)]
    /\ freeze' = [freeze EXCEPT ![rec.buyUser]["currency"]
                           = @ - Mul(rec.quantity, rec.buyPrice)]

PaySell(rec) ==
    /\ CanModify(rec.sellUser, "tradeCurrency", 0, -rec.quantity)
    /\ CanModify(rec.sellUser, "currency",
                 Mul(rec.quantity, rec.sellPrice) - rec.sellCharge, 0)
    /\ freeze' = [freeze EXCEPT ![rec.sellUser]["tradeCurrency"] = @ - rec.quantity]
    /\ using'  = [using  EXCEPT ![rec.sellUser]["currency"]
                           = @ + (Mul(rec.quantity, rec.sellPrice) - rec.sellCharge)]

\* The side is paid, unless it is a robot's, and the record is written back
\* as it was read but for the status: all its columns, whatever its version.
Pay(t) ==
    LET rec   == consumer[t].read
        order == IF Side(t) = "BUY" THEN rec.buy ELSE rec.sell
    IN  /\ consumer[t].pc = "pay"
        /\ IF ~MovesMoney(order) THEN UNCHANGED <<using, freeze>>
           ELSE IF Side(t) = "BUY" THEN PayBuy(rec) ELSE PaySell(rec)
        /\ records' = [records EXCEPT ![RecordId(t)] = WithStatus(rec, Side(t), "SUCCESS")]
        /\ consumer' = [consumer EXCEPT ![t].pc = "finish"]
        /\ UNCHANGED <<orders, queued, runKey, jobVars, errorTimes, recordLock,
                       failures, crashes>>

\* The transaction fails and is rolled back.
HandlingFails(t) ==
    /\ \/ consumer[t].pc = "pay"
       \/ /\ consumer[t].pc = "read"
          /\ StatusOf(records[RecordId(t)], Side(t)) = "SUCCESS" => DoneMayFail
    /\ failures < MaxFailures
    /\ failures' = failures + 1
    /\ consumer' = [consumer EXCEPT ![t].pc = "error"]
    /\ UNCHANGED <<vars, queued, runKey, jobVars, errorTimes, recordLock, crashes>>

\* (Mutant.)  The count is raised, not deleted, when the side is marked FAIL.
CountOn(t) ==
    LET x == consumer[t].message
        r == RecordId(t)
    IN  /\ consumer[t].pc = "error"
        /\ errorTimes' = [errorTimes EXCEPT ![x] = @ + 1]
        /\ IF errorTimes[x] >= ErrorLimit
           THEN records' = [records EXCEPT ![r] = WithStatus(records[r], Side(t), "FAIL")]
           ELSE UNCHANGED records
        /\ consumer' = [consumer EXCEPT ![t].pc = "finish"]
        /\ UNCHANGED <<using, freeze, orders, queued, runKey, jobVars, recordLock,
                       failures, crashes>>

\* Too many failures: the record is read again and marked FAIL, whatever its
\* status.  The count is not reset by a success.
CountError(t) ==
    LET x == consumer[t].message
        r == RecordId(t)
    IN  /\ consumer[t].pc = "error"
        /\ IF errorTimes[x] >= ErrorLimit
           THEN /\ records' = [records EXCEPT ![r] = WithStatus(records[r], Side(t), "FAIL")]
                /\ errorTimes' = [errorTimes EXCEPT ![x] = 0]
           ELSE /\ errorTimes' = [errorTimes EXCEPT ![x] = @ + 1]
                /\ UNCHANGED records
        /\ consumer' = [consumer EXCEPT ![t].pc = "finish"]
        /\ UNCHANGED <<using, freeze, orders, queued, runKey, jobVars, recordLock,
                       failures, crashes>>

\* The finally block, and the acknowledgement.
Finish(t) ==
    LET r == RecordId(t)
    IN  /\ consumer[t].pc = "finish"
        /\ recordLock' = [recordLock EXCEPT ![r] = IF @ = t THEN Free ELSE @]
        /\ runKey' = runKey \ {consumer[t].message}
        /\ consumer' = [consumer EXCEPT ![t] = Idle]
        /\ UNCHANGED <<vars, queued, jobVars, errorTimes, failures, crashes>>

-----------------------------------------------------------------------------
(* What happens beside.                                                    *)

OrderStep == OrderNext /\ UNCHANGED settleVars

\* The counts are kept under keys that name the day.
NewDay ==
    /\ \E x \in Messages : errorTimes[x] > 0
    /\ errorTimes' = [x \in Messages |-> 0]
    /\ UNCHANGED <<vars, queued, runKey, jobVars, recordLock, consumer, failures, crashes>>

InHand(x) == {t \in Consumers : consumer[t].pc # "idle" /\ consumer[t].message = x}

\* The process dies: messages in hand were not acknowledged, and are delivered
\* again; the lock expires, the run keys and the counts stay.
Crash ==
    /\ crashes < MaxCrashes
    /\ crashes' = crashes + 1
    /\ queued' = [x \in Messages |-> queued[x] + Cardinality(InHand(x))]
    /\ phase' = "BUY" /\ due' = {}
    /\ consumer' = [t \in Consumers |-> Idle]
    /\ recordLock' = [r \in RecordIds |-> Free]
    /\ UNCHANGED <<vars, runKey, errorTimes, failures>>

-----------------------------------------------------------------------------
ConsumerStep(t) ==
    \/ LockRecord(t) \/ ReadRecord(t) \/ Pay(t) \/ HandlingFails(t)
    \/ CountError(t) \/ Finish(t)

SettlementNext ==
    \/ OrderStep
    \/ JobQuery \/ JobSend
    \/ \E r \in RecordIds : DoWallet(r)
    \/ \E x \in Messages : KeyExpires(x)
    \/ \E t \in Consumers : ConsumerStep(t) \/ \E x \in Messages : Receive(t, x)
    \/ NewDay \/ Crash

SettlementSpec == SettlementInit /\ [][SettlementNext]_allVars

\* The job runs, keys expire, and the listeners take every message in the end.
FairSettlementSpec ==
    /\ SettlementSpec
    /\ WF_allVars(JobQuery) /\ WF_allVars(JobSend)
    /\ \A x \in Messages : WF_allVars(KeyExpires(x))
    /\ \A x \in Messages : WF_allVars(\E t \in Consumers : Receive(t, x))
    /\ \A t \in Consumers : WF_allVars(ConsumerStep(t))

-----------------------------------------------------------------------------
ConsumerType == [pc : {"idle", "lock", "read", "pay", "error", "finish"},
                 message : Messages, read : Record]

SettlementTypeOK ==
    /\ TypeOK
    /\ queued \in [Messages -> Nat]
    /\ runKey \subseteq Messages /\ phase \in Sides /\ due \subseteq Messages
    /\ errorTimes \in [Messages -> 0..ErrorLimit]
    /\ recordLock \in [RecordIds -> Consumers \cup {Free}]
    /\ consumer \in [Consumers -> ConsumerType]
    /\ {failures, crashes} \subseteq Nat

\* Whatever is sent twice, delivered twice, handled by two consumers at once,
\* fails or is interrupted: each side of each record is paid once, together
\* with its status, and neither side's payment undoes the other's status.
ImplementsSpotTrade == Spec

\* Every side of every trade is settled in the end, or marked FAIL for an
\* administrator to see to: no message or key that is lost leaves it hanging.
EverySideIsHandled == \A x \in Messages :
    StatusOf(records[x[2]], x[1]) = "NOT" ~> StatusOf(records[x[2]], x[1]) # "NOT"

\* "SUCCESS" is documented as handled and "FAIL" as handling failed
\* (WalletDoEnum): a side that was handled is not reported as failed later.
DoneStaysDone == [][\A x \in Messages :
    StatusOf(records[x[2]], x[1]) = "SUCCESS" => StatusOf(records[x[2]], x[1])' = "SUCCESS"]_allVars

-----------------------------------------------------------------------------
(* What makes these inductive (SettlementProofs).                          *)

Issued(r) == records[r].buyStatus # "NONE"

\* Messages are about records that exist.
MessagesHold == \A x \in Messages :
    queued[x] > 0 \/ x \in due \/ (\E t \in Consumers : consumer[t].pc # "idle"
                                                        /\ consumer[t].message = x)
      => Issued(x[2])

\* What a consumer relies on: the record it has locked is its own until it
\* finishes, and the side it has found not settled stays so until it is paid.
ConsumerHolds(t) ==
    LET r == RecordId(t)
        unsettled == Unsettled(StatusOf(records[r], Side(t)))
    IN  /\ consumer[t].pc \in {"read", "pay", "error", "finish"} => recordLock[r] = t
        /\ consumer[t].pc = "pay" => consumer[t].read = records[r] /\ unsettled
        /\ consumer[t].pc = "error" => unsettled

\* No message is about a record that does not exist, and no two consumers act
\* on a record at a time, however often its messages are sent and delivered.
ConsumersHold == MessagesHold /\ \A t \in Consumers : ConsumerHolds(t)
=============================================================================
