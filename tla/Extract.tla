------------------------------ MODULE Extract ------------------------------
(***************************************************************************)
(* Withdrawals of one user in one currency.  An application sets the       *)
(* quantity aside and charges a fee, from the same wallet or another.  An  *)
(* administrator confirms it (paid by hand, or to a user of the house),    *)
(* refuses it, or pushes it to the outside system that pays coins out.     *)
(* Queries ask that system later what has become of the orders it was      *)
(* sent; each starts tasks that apply the answers, several to an order.    *)
(*                                                                         *)
(* Applications exclude one another by the lock of the user.  What is done *)
(* about an order runs in one transaction and, but for the retry, under    *)
(* the lock of the order; but a task reads the order before it has the     *)
(* lock, and writes every column back.  Wallet rows change in two ways:    *)
(* the guarded movement (modifyWallet), and the update of a row that was   *)
(* read before, under a version that the movement does not raise.          *)
(*                                                                         *)
(* The columns moves* and lost* of a row, and past, doubtful and moved,    *)
(* are history: no guard looks at them.                                    *)
(***************************************************************************)
EXTENDS IdSums

CONSTANTS
    Currencies,     \* the user's wallets
    Coin,           \* the currency withdrawn
    Deposit,        \* what the wallets hold at the start, by currency
    Kinds,          \* the applications the user may make: quantity, receiver, fee
    Unit,           \* what is paid out is rounded down to multiples of Unit
    AutoLimit,      \* the house pays its own users up to here at once
    Admins,         \* requests of administrators under way at a time
    Pollers,        \* orders that tasks are at work on, at a time
    MaxOrders,      \* bound on the applications
    MaxListed,      \* bound on the orders listed by queries
    MaxEvents       \* bound on movements by others, failing tasks, lost
                    \* replies and restarts, taken together

ASSUME ExtractAssumption ==
    /\ Coin \in Currencies /\ Deposit \in [Currencies -> Nat]
    /\ Kinds \subseteq [quantity : Nat \ {0}, type : {"INNER", "OUTER"},
                        rate : Nat, rateIn : Currencies]
    /\ Unit \in Nat \ {0} /\ AutoLimit \in Nat
    /\ MaxOrders \in Nat \ {0} /\ MaxListed \in Nat /\ MaxEvents \in Nat

VARIABLES
    wallet,    \* t_user_wallet of the user, by currency
    received,  \* what users of the house were paid
    orders,    \* t_extract, by id
    outside,   \* what the outside system knows of each order
    applying,  \* the application under way
    admin,     \* the requests of administrators
    poller,    \* the tasks
    past,      \* what was done about each order
    doubtful,  \* the orders whose last push the house may not know of
    moved,     \* what other handlers have moved, by currency
    listed,    \* how much of the bound on listed orders is used
    events     \* how much of the bound on events is used

vars == <<wallet, received, orders, outside, applying, admin, poller, past, doubtful,
          moved, listed, events>>

OrderIds == 1..MaxOrders

Open   == {"ING", "DOING", "ERROR"}
Ended  == {"SUCCESS", "FAIL"}
Status == Open \cup Ended \cup {"NONE"}

\* moves*: all that modifyWallet has moved of the row; lost*: as much of it as
\* updates have written over.
Row   == [using : Nat, freeze : Nat, version : Nat,
          movesUsing : Int, movesFreeze : Int, lostUsing : Int, lostFreeze : Int]
\* What is applied for: the quantity, whether the receiver is a user of the
\* house, the fee and the wallet that pays it.
Kind  == [quantity : Nat, type : {"INNER", "OUTER"}, rate : Nat, rateIn : Currencies]
Order == [status : Status, kind : Kind]

Applications == [pc : {"idle", "read"}, kind : Kind, read : Row]
Requests == [pc : {"idle", "push", "retry", "refuse"}, order : OrderIds, read : Row]
Tasks    == [pc : {"idle", "listed", "answered", "read"}, order : OrderIds,
             answer : {"paid", "cancelled"}, read : Order]
\* How often an order was confirmed by the house (handed) and refused, and how
\* often it was written after it had succeeded (reopened) or been refused
\* (revived).
Pasts    == [handed : Nat, refused : Nat, reopened : Nat, revived : Nat]

ExtractTypeOK ==
    /\ wallet \in [Currencies -> Row] /\ received \in Nat
    /\ orders \in [OrderIds -> Order]
    /\ outside \in [OrderIds -> {"none", "asked", "paid", "cancelled"}]
    /\ applying \in Applications
    /\ admin \in [Admins -> Requests]
    /\ poller \in [Pollers -> Tasks]
    /\ past \in [OrderIds -> Pasts]
    /\ doubtful \subseteq OrderIds
    /\ moved \in [Currencies -> [using : Int, freeze : Int]]
    /\ listed \in Nat /\ events \in Nat

NoRow       == [using |-> 0, freeze |-> 0, version |-> 0,
                movesUsing |-> 0, movesFreeze |-> 0, lostUsing |-> 0, lostFreeze |-> 0]
NoKind      == [quantity |-> 0, type |-> "OUTER", rate |-> 0, rateIn |-> Coin]
NoOrder     == [status |-> "NONE", kind |-> NoKind]
NotApplying == [pc |-> "idle", kind |-> NoKind, read |-> NoRow]
IdleAdmin   == [pc |-> "idle", order |-> 1, read |-> NoRow]
IdlePoller  == [pc |-> "idle", order |-> 1, answer |-> "paid", read |-> NoOrder]
NoPast      == [handed |-> 0, refused |-> 0, reopened |-> 0, revived |-> 0]

ExtractInit ==
    /\ wallet = [c \in Currencies |-> [NoRow EXCEPT !.using = Deposit[c]]]
    /\ received = 0
    /\ orders = [o \in OrderIds |-> NoOrder]
    /\ outside = [o \in OrderIds |-> "none"]
    /\ applying = NotApplying
    /\ admin  = [a \in Admins |-> IdleAdmin]
    /\ poller = [p \in Pollers |-> IdlePoller]
    /\ past = [o \in OrderIds |-> NoPast]
    /\ doubtful = {}
    /\ moved = [c \in Currencies |-> [using |-> 0, freeze |-> 0]]
    /\ listed = 0 /\ events = 0

Event == events < MaxEvents /\ events' = events + 1

-----------------------------------------------------------------------------
(* Wallet rows.                                                            *)

\* (Mutant.)  The movement is not guarded.
CanMoveAlways(row, changeUsing, changeFreeze) == TRUE

\* modifyWallet, modifyWalletUsing and modifyWalletFreeze change what the row
\* holds, not what was read, and leave the version alone.
CanMove(row, changeUsing, changeFreeze) ==
    row.using + changeUsing >= 0 /\ row.freeze + changeFreeze >= 0
Moved(row, changeUsing, changeFreeze) ==
    [row EXCEPT !.using = @ + changeUsing, !.freeze = @ + changeFreeze,
                !.movesUsing = @ + changeUsing, !.movesFreeze = @ + changeFreeze]

\* (Mutant.)  The update does not look at the version.
AnyVersion(row, read) == TRUE

\* update() writes the row as it was read, frozen amount and all, but for the
\* balance, and throws unless the version is the one that was read.  What was
\* moved since the reading is lost.
SameVersion(row, read) == row.version = read.version
Updated(row, read, changeUsing) ==
    [row EXCEPT !.using = read.using + changeUsing, !.freeze = read.freeze,
                !.version = read.version + 1,
                !.lostUsing  = @ + (row.movesUsing - read.movesUsing),
                !.lostFreeze = @ + (row.movesFreeze - read.movesFreeze)]

RealQuantity(q) == q - (q % Unit)

-----------------------------------------------------------------------------
(* Applying.                                                               *)

NextOrderId(o) == /\ orders[o].status = "NONE"
                  /\ \A i \in 1..(o - 1) : orders[i].status # "NONE"

\* The fee wallet is read and found sufficient.
ApplyRead(kind) ==
    /\ applying.pc = "idle"
    /\ \E o \in OrderIds : NextOrderId(o)
    /\ wallet[kind.rateIn].using >= kind.rate
    /\ applying' = [pc |-> "read", kind |-> kind, read |-> wallet[kind.rateIn]]
    /\ UNCHANGED <<wallet, received, orders, outside, admin, poller, past, doubtful, moved, listed, events>>

\* The wallets once the fee is charged, and once the quantity is set aside.
Charged  == [wallet EXCEPT ![applying.kind.rateIn] =
                Updated(@, applying.read, -applying.kind.rate)]
SetAside == [Charged EXCEPT ![Coin] =
                Moved(@, -applying.kind.quantity, applying.kind.quantity)]

CanApply == /\ SameVersion(wallet[applying.kind.rateIn], applying.read)
            /\ CanMove(Charged[Coin], -applying.kind.quantity, applying.kind.quantity)

\* A small order to a user of the house is confirmed in the same transaction.
ConfirmedAtOnce == applying.kind.type = "INNER" /\ applying.kind.quantity <= AutoLimit

ApplyCommit ==
    /\ applying.pc = "read" /\ CanApply
    /\ \E o \in OrderIds :
        /\ NextOrderId(o)
        /\ orders' = [orders EXCEPT ![o] =
            [status |-> IF ConfirmedAtOnce THEN "SUCCESS" ELSE "ING", kind |-> applying.kind]]
        /\ past' = [past EXCEPT ![o].handed = IF ConfirmedAtOnce THEN 1 ELSE 0]
    /\ wallet' = IF ConfirmedAtOnce
                 THEN [SetAside EXCEPT ![Coin] = Moved(@, 0, -applying.kind.quantity)]
                 ELSE SetAside
    /\ received' = received +
                   (IF ConfirmedAtOnce THEN RealQuantity(applying.kind.quantity) ELSE 0)
    /\ applying' = NotApplying
    /\ UNCHANGED <<outside, admin, poller, doubtful, moved, listed, events>>

\* Otherwise an exception rolls everything back.
ApplyFails ==
    /\ applying.pc = "read" /\ ~CanApply
    /\ applying' = NotApplying
    /\ UNCHANGED <<wallet, received, orders, outside, admin, poller, past, doubtful, moved, listed, events>>

-----------------------------------------------------------------------------
(* The administrators.  A confirmation and a refusal check the status      *)
(* before the lock and again under it, which is as good as the second      *)
(* check alone; a push checks for less under the lock than before it, and  *)
(* a retry takes no lock.                                                  *)

\* A refusal holds the lock of its order while it is about to commit; the
\* other critical sections are single steps.
Locked(o) == \E a \in Admins : admin[a].pc = "refuse" /\ admin[a].order = o

\* Paid by hand or to a user of the house.
Confirm(o) ==
    LET q == orders[o].kind.quantity
    IN  /\ orders[o].status = "ING" /\ ~Locked(o) /\ CanMove(wallet[Coin], 0, -q)
        /\ orders' = [orders EXCEPT ![o].status = "SUCCESS"]
        /\ past' = [past EXCEPT ![o].handed = @ + 1]
        /\ wallet' = [wallet EXCEPT ![Coin] = Moved(@, 0, -q)]
        /\ received' = received + (IF orders[o].kind.type = "INNER" THEN RealQuantity(q) ELSE 0)
        /\ UNCHANGED <<outside, applying, admin, poller, doubtful, moved, listed, events>>

Begin(a, o, pc, read) ==
    /\ admin[a].pc = "idle"
    /\ admin' = [admin EXCEPT ![a] = [pc |-> pc, order |-> o, read |-> read]]
    /\ UNCHANGED <<wallet, received, orders, outside, applying, poller, past, doubtful, moved, listed, events>>
Done(a) == admin' = [admin EXCEPT ![a] = IdleAdmin]

\* The refusal holds the lock, and the fee wallet is read.
RefuseRead(a, o) ==
    /\ orders[o].status = "ING" /\ ~Locked(o)
    /\ Begin(a, o, "refuse", wallet[orders[o].kind.rateIn])

\* The quantity and then the fee are given back; when both are of one wallet,
\* the fee wallet is read after the first of them.
RefuseCommit(a) ==
    LET o      == admin[a].order
        c      == orders[o].kind.rateIn
        q      == orders[o].kind.quantity
        given  == [wallet EXCEPT ![Coin] = Moved(@, q, -q)]
        read   == IF c = Coin THEN given[Coin] ELSE admin[a].read
    IN  /\ admin[a].pc = "refuse" /\ Done(a)
        /\ IF CanMove(wallet[Coin], q, -q) /\ SameVersion(given[c], read)
           THEN /\ orders' = [orders EXCEPT ![o].status = "FAIL"]
                /\ past' = [past EXCEPT ![o].refused = @ + 1]
                /\ wallet' = [given EXCEPT ![c] = Updated(@, read, orders[o].kind.rate)]
           ELSE UNCHANGED <<orders, past, wallet>>
        /\ UNCHANGED <<received, outside, applying, poller, doubtful, moved, listed, events>>

\* A push and a retry are checked, and then wait, the push for the lock.
AskPush(a, o)  == orders[o].status = "ING" /\ Begin(a, o, "push", NoRow)
AskRetry(a, o) == orders[o].status = "ERROR" /\ Begin(a, o, "retry", NoRow)

CanPush(a) == admin[a].pc = "push" /\ ~Locked(admin[a].order)
Pushable(o) == orders[o].status \in {"ING", "DOING"}

\* The outside system takes the order, or says that it has it already.
Sent(o) == outside' = [outside EXCEPT ![o] = IF @ \in {"none", "cancelled"} THEN "asked" ELSE @]

\* A task still means to apply an answer that the push makes an old one.
Overtakes(o) == \E p \in Pollers :
    /\ poller[p].pc \in {"answered", "read"} /\ poller[p].order = o
    /\ poller[p].answer = "cancelled"

Push(a) ==
    LET o == admin[a].order
    IN  /\ CanPush(a) /\ Pushable(o) /\ Done(a)
        /\ Sent(o)
        /\ orders' = [orders EXCEPT ![o].status = "DOING"]
        /\ doubtful' = IF Overtakes(o) THEN doubtful \cup {o} ELSE doubtful
        /\ UNCHANGED <<wallet, received, applying, poller, past, moved, listed, events>>

\* It refuses the order, or there is nothing to push any more.
PushRefused(a) ==
    /\ CanPush(a) /\ Done(a)
    /\ UNCHANGED <<wallet, received, orders, outside, applying, poller, past, doubtful, moved, listed, events>>

\* It takes the order, but the reply is lost or the transaction fails.
PushLost(a) ==
    LET o == admin[a].order
    IN  /\ CanPush(a) /\ Pushable(o) /\ Done(a)
        /\ Event
        /\ Sent(o)
        /\ doubtful' = doubtful \cup {o}
        /\ UNCHANGED <<wallet, received, orders, applying, poller, past, moved, listed>>

\* The order is written once more, whatever became of it since it was read.
WrittenAgain(o) ==
    past' = [past EXCEPT ![o].reopened = @ + (IF orders[o].status = "SUCCESS" THEN 1 ELSE 0),
                         ![o].revived  = @ + (IF orders[o].status = "FAIL" THEN 1 ELSE 0)]

\* update2Doing writes the order without the lock.
Retry(a) ==
    LET o == admin[a].order
    IN  /\ admin[a].pc = "retry" /\ Done(a)
        /\ orders' = [orders EXCEPT ![o].status = "DOING"]
        /\ WrittenAgain(o)
        /\ UNCHANGED <<wallet, received, outside, applying, poller, doubtful, moved, listed, events>>

-----------------------------------------------------------------------------
(* The outside system and the query.                                       *)

\* Any other outcome is never answered: the order stays asked for.
OutsideEnds(o) ==
    /\ outside[o] = "asked"
    /\ \E end \in {"paid", "cancelled"} : outside' = [outside EXCEPT ![o] = end]
    /\ UNCHANGED <<wallet, received, orders, applying, admin, poller, past, doubtful, moved, listed, events>>

\* What a task is about to do about one order; nothing else changes.
TaskMoves(p, task) ==
    /\ poller' = [poller EXCEPT ![p] = task]
    /\ UNCHANGED <<wallet, received, orders, outside, applying, admin, past, doubtful, moved, events>>

\* queryInfo lists the orders that are DOING twice, for the main and for the
\* secondary name of the currency, and starts a task for each list; earlier
\* tasks may still be running.
Query(p, o) ==
    /\ poller[p].pc = "idle" /\ orders[o].status = "DOING"
    /\ listed < MaxListed /\ listed' = listed + 1
    /\ TaskMoves(p, [IdlePoller EXCEPT !.pc = "listed", !.order = o])

\* (Mutant.)  Whatever is not paid counts as cancelled.
NotPaidIsCancelled(o, answer) == answer = IF outside[o] = "paid" THEN "paid" ELSE "cancelled"

\* Nothing is done about other answers.
Answers(o, answer) == outside[o] = answer

\* The task asks the outside system, and ends if it has no answer.
TaskAsks(p) ==
    /\ poller[p].pc = "listed"
    /\ \E answer \in {"paid", "cancelled"} :
        /\ Answers(poller[p].order, answer)
        /\ TaskMoves(p, [poller[p] EXCEPT !.pc = "answered", !.answer = answer])
    /\ UNCHANGED listed

TaskIgnores(p) ==
    /\ poller[p].pc = "listed"
    /\ \A answer \in {"paid", "cancelled"} : ~Answers(poller[p].order, answer)
    /\ TaskMoves(p, IdlePoller)
    /\ UNCHANGED listed

\* It reads the order before it takes the lock.
TaskRead(p) ==
    /\ poller[p].pc = "answered"
    /\ TaskMoves(p, [poller[p] EXCEPT !.pc = "read", !.read = orders[poller[p].order]])
    /\ UNCHANGED listed

\* The task holds the lock and is done with the order.
TaskEnds(p) == /\ poller[p].pc = "read" /\ ~Locked(poller[p].order)
               /\ poller' = [poller EXCEPT ![p] = IdlePoller]
               /\ UNCHANGED <<received, outside, applying, admin, doubtful, moved, listed>>

\* The order is written as it was read, with a new status.
Write(p, status) ==
    /\ orders' = [orders EXCEPT ![poller[p].order] = [poller[p].read EXCEPT !.status = status]]
    /\ WrittenAgain(poller[p].order)

\* Both look at the status that was read.
DoSuccess(p) ==
    LET q == poller[p].read.kind.quantity
    IN  /\ TaskEnds(p) /\ poller[p].answer = "paid" /\ poller[p].read.status = "DOING"
        /\ CanMove(wallet[Coin], 0, -q)
        /\ Write(p, "SUCCESS")
        /\ wallet' = [wallet EXCEPT ![Coin] = Moved(@, 0, -q)]
        /\ UNCHANGED events

DoWait(p) ==
    /\ TaskEnds(p) /\ poller[p].answer = "cancelled" /\ poller[p].read.status = "DOING"
    /\ Write(p, "ING")
    /\ UNCHANGED <<wallet, events>>

\* There is nothing to do any more.
TaskSkips(p) ==
    /\ TaskEnds(p) /\ poller[p].read.status # "DOING"
    /\ UNCHANGED <<wallet, orders, past, events>>

\* The frozen amount is no longer there.
CannotCollect(p) == /\ poller[p].answer = "paid" /\ poller[p].read.status = "DOING"
                    /\ ~CanMove(wallet[Coin], 0, -poller[p].read.kind.quantity)

\* A paid order whose answer does not fit it is an exception, whatever its
\* status; so is any failure while there is something to do.
MayFail(p) == poller[p].answer = "paid" \/ poller[p].read.status = "DOING"

\* (Mutant.)  The frozen amount is taken though the task fails.
TaskFailsLate(p) ==
    /\ TaskEnds(p) /\ MayFail(p)
    /\ Write(p, "ERROR")
    /\ wallet' = [wallet EXCEPT ![Coin] = Moved(@, 0, -poller[p].read.kind.quantity)]
    /\ IF CannotCollect(p) THEN UNCHANGED events ELSE Event

\* An exception rolls back what the task has done, and the order is written
\* as it was read, as an ERROR, before the lock is released.
TaskFails(p) ==
    /\ TaskEnds(p) /\ MayFail(p)
    /\ Write(p, "ERROR")
    /\ IF CannotCollect(p) THEN UNCHANGED events ELSE Event
    /\ UNCHANGED wallet

-----------------------------------------------------------------------------
(* What happens beside.                                                    *)

\* A deposit or an order on the market moves the same row.
OtherMove(c, changeUsing, changeFreeze) ==
    /\ CanMove(wallet[c], changeUsing, changeFreeze)
    /\ wallet' = [wallet EXCEPT ![c] = Moved(@, changeUsing, changeFreeze)]
    /\ moved' = [moved EXCEPT ![c] = [using |-> @.using + changeUsing,
                                      freeze |-> @.freeze + changeFreeze]]
    /\ Event
    /\ UNCHANGED <<received, orders, outside, applying, admin, poller, past, doubtful, listed>>

\* Transactions under way are rolled back.
Crash ==
    /\ Event
    /\ applying' = NotApplying
    /\ admin'  = [a \in Admins |-> IdleAdmin]
    /\ poller' = [p \in Pollers |-> IdlePoller]
    /\ UNCHANGED <<wallet, received, orders, outside, past, doubtful, moved, listed>>

AdminStep(a) == \/ RefuseCommit(a) \/ Push(a) \/ PushRefused(a) \/ PushLost(a) \/ Retry(a)
                \/ \E o \in OrderIds : RefuseRead(a, o) \/ AskPush(a, o) \/ AskRetry(a, o)

TaskStep(p) == \/ TaskAsks(p) \/ TaskIgnores(p) \/ TaskRead(p)
               \/ DoSuccess(p) \/ DoWait(p) \/ TaskSkips(p) \/ TaskFails(p)
               \/ \E o \in OrderIds : Query(p, o)

ExtractNext ==
    \/ \E kind \in Kinds : ApplyRead(kind)
    \/ ApplyCommit \/ ApplyFails
    \/ \E o \in OrderIds : Confirm(o) \/ OutsideEnds(o)
    \/ \E a \in Admins : AdminStep(a)
    \/ \E p \in Pollers : TaskStep(p)
    \/ \E c \in Currencies : OtherMove(c, 1, 0) \/ OtherMove(c, -1, 1)
    \/ Crash

ExtractSpec == ExtractInit /\ [][ExtractNext]_vars

-----------------------------------------------------------------------------
(* Sums over the orders.                                                   *)

Is(o, st) == IF orders[o].status \in st THEN 1 ELSE 0

\* An order written after it had ended is open again, or taken again, and
\* nothing was set aside for it.
WritesAfterEnd(o) == past[o].reopened + past[o].revived
SetAsideFor(o)    == orders[o].kind.quantity * (Is(o, Open) - WritesAfterEnd(o))

\* The quantity and the fee of these have left the balance, but for an order
\* that was refused first: it had them back.
Kept == Open \cup {"SUCCESS"}
TimesTaken(o)  == Is(o, Kept) - past[o].revived
TakenFor(o, c) == IF c = Coin THEN orders[o].kind.quantity * TimesTaken(o) ELSE 0
FeeFor(o, c)   == IF c = orders[o].kind.rateIn THEN orders[o].kind.rate * TimesTaken(o) ELSE 0
PaidInside(o)  == IF orders[o].kind.type = "INNER"
                  THEN RealQuantity(orders[o].kind.quantity) * past[o].handed ELSE 0

SetAsideTotal == SumTo([o \in OrderIds |-> SetAsideFor(o)], MaxOrders)
TakenTotal(c) == SumTo([o \in OrderIds |-> TakenFor(o, c)], MaxOrders)
FeeTotal(c)   == SumTo([o \in OrderIds |-> FeeFor(o, c)], MaxOrders)
PaidTotal     == SumTo([o \in OrderIds |-> PaidInside(o)], MaxOrders)

\* The frozen amount is what open orders and the market have set aside, and it
\* is off by two things only: by the quantity of an order each time somebody
\* who had read it earlier wrote it after its end, and by what was frozen or
\* freed between the reading and the update of a row that pays a fee.  A task
\* that fails or is tried again, a second task and a restart add nothing.
FreezeExplained == \A c \in Currencies :
    wallet[c].freeze = moved[c].freeze + (IF c = Coin THEN SetAsideTotal ELSE 0)
                       - wallet[c].lostFreeze

\* Each balance is what was there and what others have moved, less quantities
\* and fees of the orders not refused.  It is off by what was moved between the
\* reading and the update of a row, which only modifyWallet does unseen: two
\* updates never undo one another.  What is rolled back leaves no trace, and
\* users of the house have each order as often as it was confirmed.
MoneyExplained ==
    /\ \A c \in Currencies :
        wallet[c].using = Deposit[c] + moved[c].using - TakenTotal(c) - FeeTotal(c)
                          - wallet[c].lostUsing
    /\ received = PaidTotal

\* The house pays or refunds an order once, and once more at most for each time
\* it was written after its end.  What it has paid or refunded the outside
\* system pays as well only if a push lost its reply, an answer was overtaken
\* by another push, or the order was written after its end.  What the house
\* calls successful without having paid it the outside system has paid.
OutsideHas(o) == outside[o] \in {"asked", "paid"}
PaidOnce == \A o \in OrderIds :
    /\ past[o].handed + past[o].refused <= 1 + WritesAfterEnd(o)
    /\ past[o].handed + past[o].refused > 0 /\ OutsideHas(o) =>
            o \in doubtful \/ WritesAfterEnd(o) > 0
    /\ orders[o].status = "SUCCESS" /\ past[o].handed = 0 => outside[o] = "paid"

\* An order that succeeded or was refused stays as it is (violated): "order
\* already handled" is the answer to whoever comes later, but a task and a
\* retry write what they found before.
EndedStays == [][\A o \in OrderIds :
    orders[o].status \in Ended => orders'[o] = orders[o]]_vars
-----------------------------------------------------------------------------
(* What makes these inductive (ExtractProofs).                             *)

\* The fee of the application under way was there when it was read.
FeeCovered == applying.pc = "read" => applying.read.using >= applying.kind.rate

\* Nothing has happened to an order that does not exist.
UnmadeFit == \A o \in OrderIds : orders[o].status = "NONE" =>
    past[o] = NoPast /\ outside[o] = "none"

\* An order that is being refused is open, and its lock has one holder.
RequestsFit == \A a \in Admins : admin[a].pc # "idle" =>
    /\ orders[admin[a].order].status # "NONE"
    /\ admin[a].pc = "refuse" =>
        /\ orders[admin[a].order].status \in {"ING", "DOING"}
        /\ \A b \in Admins : admin[b].pc = "refuse" /\ admin[b].order = admin[a].order => b = a

\* What a task writes back is the order but for its status.
TasksFit == \A p \in Pollers : poller[p].pc # "idle" =>
    /\ orders[poller[p].order].status # "NONE"
    /\ poller[p].pc = "read" => poller[p].read.kind = orders[poller[p].order].kind

WorkFits == UnmadeFit /\ RequestsFit /\ TasksFit

\* A row that was read differs from the row by the movements since, unless it
\* has another version by now.
ReadOf(row, read) ==
    /\ read.version <= row.version
    /\ read.version = row.version =>
        /\ row.using - read.using = row.movesUsing - read.movesUsing
        /\ row.freeze - read.freeze = row.movesFreeze - read.movesFreeze

ReadsFit ==
    /\ applying.pc = "read" => ReadOf(wallet[applying.kind.rateIn], applying.read)
    /\ \A a \in Admins : admin[a].pc = "refuse" =>
        ReadOf(wallet[orders[admin[a].order].kind.rateIn], admin[a].read)

\* A payment is final, and an answer that the order is cancelled is still true
\* unless the order is doubtful.
AnswersFit == \A p \in Pollers : poller[p].pc \in {"answered", "read"} =>
    IF poller[p].answer = "paid" THEN outside[poller[p].order] = "paid"
    ELSE poller[p].order \in doubtful \/ outside[poller[p].order] = "cancelled"

\* What may be confirmed or refused the outside system does not have.
NotSentOut == \A o \in OrderIds :
    orders[o].status = "ING" \/ Locked(o) =>
        ~OutsideHas(o) \/ o \in doubtful \/ WritesAfterEnd(o) > 0

\* An order that the house paid or refunded has ended, and not yet again.
Counted == \A o \in OrderIds :
    past[o].handed + past[o].refused <= Is(o, Ended) + WritesAfterEnd(o)

ExtractInvariant == ExtractTypeOK /\ FeeCovered /\ WorkFits /\ ReadsFit
=============================================================================
