# Radar-Start in TLA+

Specifications of Radar-Start, a digital-asset exchange (Spring Boot, MyBatis on
MySQL, Redis with Redisson locks, ActiveMQ): TLA+ modules that follow its code,
the TLC configurations that check them, and TLAPS proofs. Paths below are
relative to `src/src/main/java/com/liuqi/`.

## 1. The system

### Components

| Component | State it keeps | Operations | Meets the others through |
|---|---|---|---|
| Spot orders and trades (`TrusteeServiceImpl`, `TradeServiceImpl`) | rows `t_trustee`, `t_trade_record` | publish, match (`doTrade`), cancel, set aside, put back, clean up, settle a side | wallets, in the same transaction; messages and locks around it |
| User wallets (`UserWalletServiceImpl`) | `using`, `freeze` of each user and currency | `modifyWallet` (guarded `+=`), `update` (versioned) | every component that moves money |
| Matching threads (`business/trade/TradeRequest`) | local variables of a loop per pair, error counts in Redis | pick, lock two orders, match, count an error, set an order aside | order locks, version column, cached book |
| Cancelling threads (`business/async/AsyncTask`) | local variables | lock user and order, cancel, correct the cached book | the same locks |
| Settlement queue (`TradeWalletJob`, `TradeWalletProducer`, `Consumer`) | two queues, run keys and error counts in Redis, wallet status of each side | ask, send, receive, pay, count an error, mark FAIL | record lock, wallet rows |
| Start and pause (`TradeRunnerImpl`, `AdminRedisController`, `TradeRequest.request`) | switch and run key in Redis, the threads | boot, switch on, pause, loop | Redis |
| Order-book cache (`TradeInfoCacheServiceImpl`) | two price maps per pair in Redis | publish, trade, cancel, rebuild | read by the matchers |
| OTC (`OtcOrder…`, `OtcOrderRecord…`, `OtcWallet…`) | orders, records with a life of eight states, OTC wallets, delayed jobs | publish, trade, take, pay, receive, cancel, time out, appeal, decide | order lock, scheduled jobs |
| Withdrawals (`ExtractServiceImpl`, `AutoExtractServiceImpl`, `AsyncTask.extractTask`) | `t_extract`, the wallet rows of the coin and the fee, what the outside system knows | apply, confirm, refuse, push, ask (a task or more per call), apply the answer, send round again | user lock, order lock (not the last one), an HTTP interface, wallets |
| CTC (`CtcOrderServiceImpl`) | orders | match a store, confirm, cancel, time out; creating one is commented out | two different locks |
| Payouts (`ChargeAward…`, `LockRelease…`, `SuperNodeSend…`) | award and release records, counters in Redis | one per message or day | messages a match sends |
| Deposits and transfers from outside (`ApiTransfer…`, `Recharge…`) | requests with a status | book, agree, refuse | wallets |
| Transfers inside (`Transfer…`, `SubAccount…`, `Pledge…`, `Raise…`, `OtcApply…`) | wallet rows of several kinds | move | `update` beside `modifyWallet` |
| Ids (`TableIdServiceImpl`) | list of ids in Redis, table of next ids | take, refill | everybody who inserts |

Left aside: mining and financing batches, charts, robots (they publish through
`publishTrade`), users, permissions, administration, SMS, mail, file storage, and
the scripts under `static/`, which are third-party widgets of the back office:
`PROJECT.json` gives the reason for each, and the hazards of each component at
the line where they bite.

### What is hard

* **Interleaving.** Several matchers of a pair, cancellers and administrators
  write the same orders. Matchers pick *before* they lock. Protection is
  threefold: Redis locks, re-reading, and a version column; the administrator's
  `errorModify` and the clean-up use none of them.
* **Late payment.** A match only writes a record. The wallets follow much later,
  from messages that may come twice, or never, while orders go on and may be
  cancelled in between.
* **Failure.** Failing matches set an order aside; failing settlements mark a
  side; a restart drops the threads and keeps what is in Redis and in the queues.
* **Timers and third parties.** An OTC record may be ended by two users, two
  timers and an administrator; a withdrawal waits for a system that may refuse,
  answer days later, or take an order while the reply is lost.
* **Two ways to write a wallet.** `modifyWallet` adds to what the row holds,
  `update` writes back what was read: its version stops another `update`, not a
  `modifyWallet`.
* **Rounding.** Each product is rounded down on its own.

### What makes it correct

* Wallets: what is frozen covers open orders and unsettled trades; what a user
  owns is explained by the deposits and the settled sides.
* Orders: the traded amount is what the records say, never more than offered.
* Threads: their interleavings do what the transactions do one at a time, no
  thread waits for ever, crossing orders get matched.
* Settlement: each side is paid once, and every side is handled in the end.
* OTC: the desk is an escrow; each record hands its coins over or gives them back, once.
* Withdrawals: set aside once, paid once or refunded once, never both. The code does not
  keep that promise in all interleavings, so the properties say by how much the books are off, and why.
* Runs: a pause ends the matching; one thread at a time; it runs once started.

## 2. The modules

```
IdSums  <-  SpotTrade  <-  Matcher     (implements SpotTrade!Spec)
        |              <-  Settlement  (implements SpotTrade!Spec)
        <-  Otc                        (implements Escrow!EscrowSpec)
        <-  Extract
MatcherRun   which threads run the loop that Matcher describes
Escrow       what a desk that holds coins promises
MC*          small instances for TLC
the proofs:
IdSumTheorems  <-  SpotTradeProofs  <-  SpotTradeBalance  <-  MatcherProofs
               |                                          <-  SettlementProofs
               <-  OtcProofs  <-  OtcEscrow
               <-  ExtractProofs
```

**SpotTrade** is the specification the other two implement: one action per
transaction. `using`, `freeze` are the wallet rows, `orders` and `records` the
two tables by id (a row that was never inserted is `NONE`). An action is the
whole transaction: `PublishTrade` inserts and freezes, `DoTrade` writes the record and
both orders, `SettleBuy` pays both wallets and writes the status. Amounts are
integers (the smallest unit of a wallet is 1), and `Unit` says how much a
product of two of them is worth: with `Unit = 1` nothing is rounded, above it
`Mul` rounds down as `MathUtil.mul` does. Fees are `Rate/RateScale` of the
proceeds, rounded down, none for `White` users. Robots' orders move no money
and count as filled after one trade, as in the code. The price a side pays or gets is that of its own
order, as in `Consumer` and `TradeServiceImpl` (the record's common
`tradePrice` feeds only charts and is left out). `TradeQuantity > 0` in `DoTrade` is the code's
early return for an empty match.

**Matcher** is the steps between the transactions. Each action is a piece of a
thread between two accesses to shared state: choose the best buy; choose the best
sell; lock the lower id; lock the higher; read again; commit or fail; count the
error; unlock. `version` is raised by each versioned update. `Locking = FALSE`
takes the locks away, to see what the versions protect alone. `mayTrade` is what
the cached book answers to `canTrade`; after a racing increment it is any
Boolean, after a rebuild (`SyncInfo`) it is right.
Error counts last for one round: they are stored as JSON and come back keyed
by `Integer`, so that the `Long` order ids find nothing.

**Settlement** has the job (asks for one kind of side, sends from the list it got), the
administrator's `doWallet`, the run keys that expire, the listeners and
the acknowledgement. `Pay` writes the whole record row as it was
read, whatever its version, because that is what the `update` statement does. `OrderStep`
lets orders go on meanwhile.

`DoneMayFail` says whether handling a side that is already paid may fail (the
record cannot be read, say). It can, and then a paid side ends as FAIL and can be paid
again: that is the finding of `SettlementLateFailure`, which sets it. The
run `Settlement` leaves this one failure out, and every other failure in, to show
that nothing else pays a side twice or turns a paid one to FAIL.

**MatcherRun** has the switch, the run key, and the threads that boot and switch start.

**Escrow** is abstract: coins are put into *lots*, *deals* are opened on a lot
for no more than it holds, a deal is paid or returned, once, and the owner of a
lot gets it back when no deal on it is open.

**Otc** has the OTC wallets, orders, records, the delayed jobs of the
scheduler, and one action per handler, as every handler runs under the lock of its order
and in one transaction. `successStatus` is the second status column, which the
sums over records use. `Trade` ends an order that is sold out; `GiveBack` (the private
`cancel`) puts the quantity back and opens the order again; `Withdraw` computes
what to give back from the *successful* records, as the code does. An appeal is two
actions, since its check comes before its lock; `LateAppeal = FALSE` lets no
party act on the record between the two, `TRUE` does and is the finding of
`OtcLateAppeal`. A waiting record gets its delayed job only if the time configured for its status is
positive (`addTask`): `Timed` has the statuses for which it is, and `WaitingEnds` is about those. The mapping to `Escrow`: one lot per SELL order (what it offers and
what its open records hold) and one per record of a BUY order, whose coins are
frozen record by record; one deal per record. Three things the code does that a reader
may not expect are modelled as they are: `getMyBuyNoPay` counts by the *seller*
(`OtcOrderRecordMapper.xml:294-299`); before it is taken a record is cancelled by
any user who asks, later by the seller only
(`OtcOrderRecordServiceImpl.java:265-274`); and the count of cancellations is never reset,
though the message at `OtcOrderServiceImpl.java:152` speaks of one day.

**Extract** has one user who withdraws one currency and pays a fee, from the same wallet or another
(`Kinds`: the currency of the fee is a configuration of the coin). Each row of `wallet` has a version: `Moved` is
`modifyWallet` and leaves it alone, `Updated` is `update` and writes back what was read. An application is two steps
(reads the fee wallet; commits or is rolled back), so is a refusal, which holds the lock of its order between the two; a
confirmation is one. A push and a retry are checked in one step and done in another: the push waits for the lock and is
checked for less under it, the retry (`update2Doing`) takes no lock at all. `Admins` are the requests under way at a time;
nothing keeps two from being about one order.

A call of `queryInfo` starts a task for each of the two names a currency may have, both over the orders that are DOING
(`AutoExtractServiceImpl.java:60-68`), and a later call starts more, whatever became of the first. `Query` is one order
on the list of one task, and may be taken for the same order by several of `Pollers`. A task asks the outside system,
reads the order *before* its lock and writes every column of what it read after. It looks at the status it read, so
that a second task takes the frozen amount again, or, if that is gone, writes ERROR. `outside` is external: an order
that was asked for is paid, cancelled or fails (and is never answered), at any time; pushed once more it is
recognised, unless it was cancelled. `Unit` is the four decimals a payout is cut to.

Some columns are history, which no guard looks at: `movesUsing`, `movesFreeze` of a row are all that `modifyWallet` has moved,
`lostUsing`, `lostFreeze` as much of it as an `update` has written over; `past` counts how often an order was confirmed,
refused, and written after it had ended; `doubtful` are the orders whose last push the house may not know of, since its reply was lost or
a task still held the answer to the push before; `moved` is what other handlers moved. With them the properties are exact.

## 3. What is checked

All runs start from the real initial state (deposits made, no orders). Deadlock is
not checked: once the bounds are used up, or nobody does anything, the system may
rest; that no thread waits for ever is `CancelEnds`. Numbers are distinct states.

| Run | Question | Instance | States |
|---|---|---|---|
| `SpotTrade` | Do the transactions keep the books? `FreezeBacked`, `FreezeTight`, `BalanceExplained`, `FilledByRecords`, `SettlementFunded` | a paying user, one who pays no fee, a robot; prices 2, 3, quantities 1, 2, products halved and rounded (`Unit = 2`); 3 orders, 2 trades; fee one half | 738,138 |
| `MatcherThreads` | Do failing threads implement `SpotTrade` (`ThreadsHold`, `ImplementsSpotTrade`) and get on (`CancelEnds`, `CrossedIsResolved`)? | 2 matchers, 1 canceller, 2 orders, 2 failures, 1 cancellation, 1 restart | 117,000 |
| `MatcherCancels` | Are versions enough for a matcher and two cancellers? | no locks, 2 orders, quantities 1, 2, 2 cancellations, 1 restart | 1,086,046 |
| `Settlement` | Does the queue implement `SpotTrade`, does what was handled stay so, and is every side handled in the end? `ConsumersHold`, `ImplementsSpotTrade`, `DoneStaysDone`, `EverySideIsHandled` | 2 consumers, 2 failures, 1 restart | 289,427 |
| `MatcherPause` | `PauseTakesEffect` | 3 threads, 3 uses of the switch, 1 restart | 2,845 |
| `Otc` | Is the desk an escrow, with its books in order (`FreezeExplained`, `TradedByRecords`, `WithdrawnStays`, `DecidedStays`, `ImplementsEscrow`), and do the timers end what waits (`WaitingEnds`)? | a merchant and a customer, 2 orders of 2, 2 records of 1 | 272,429 |
| `Extract` | What explains each amount that is frozen, held, paid or refunded? `FreezeExplained`, `MoneyExplained`, `PaidOnce` | 2 requests and 2 tasks at a time, on any of 2 orders; quantities 1, 2, 3, to a user of the house or not, fee from the coin or another wallet; 3 listings; 1 movement beside, failing task, lost reply or restart | 1,507,764 |
| `SettlementLateFailure` | `DoneStaysDone` (violated) | 2 consumers | |
| `MatcherTwice` | `AtMostOneRuns` (violated) | as `MatcherPause` | |
| `MatcherStarted` | `StartedRuns` (violated) | as `MatcherPause` | |
| `OtcLateAppeal` | `AppealsInTime` (violated) | as `Otc`, with late appeals | |
| `ExtractReopened` | `EndedStays` (violated) | 1 order, 1 request, 2 tasks, no failure and no restart | |

**Why the bounds are enough for the question.** Three orders and two
trades let an order be filled in two parts against two others and be cancelled in
between; quantities 1 and 2 make exact, partial and remaining fills; prices 2 and 3 make a buyer
pay more than the seller asked. A fee of one half is not zero at these amounts.
With `Unit = 2` and an odd price half of all products have a remainder. Two
threads of a kind are what a race needs; one failure more than `ErrorLimit`
reaches the branch behind the limit. The code's limit is 3: `ErrorLimit` 0 or 1
stands for it, the branch being the same. `MaxQueued = 1` lets a message wait
while another one of its side is being handled, which is the duplicate that matters. Where a sender would
exceed it, it waits: a bound, not a behaviour of the queue. `Settlement` has one user on both sides of one record; the constraint
`BuyFirst` lets the purchase come first, as at one price the other way round differs in ids only (where it holds it stays so,
and no record exists before). Robots, fees and rounding, which the listeners do not look at, are in `SpotTrade`'s instance and, with
any number of users, in the proofs. An OTC order of 2 traded by ones
has two records in different states, the last of which ends it, so that
a cancellation opens it again; one withdrawal more than two (10.8 million states, a
separate check) adds nothing. `CancelLimit = 1` stands for 3. In `Extract` two requests and two tasks may meet on one order, also with an
application; three listings are two tasks at one order and a third after it was sent round again; one event is what one loss
needs, and losses of several kinds add up term by term in the proof, which bounds nothing. Symmetry is used
in safety runs only, over threads of a kind, which the modules treat alike.

**Fairness.** The threads of a JVM, the scheduled jobs and the listeners are
scheduled: weak fairness of each thread's steps, of the two jobs, and of the
expiry of a run key in `Settlement`. No fairness is assumed of users,
administrators, failures, restarts, nor of the expiry of `MatcherRun`'s key, which a
running thread may renew for ever. In `FairMatcherSpec` a thread waiting for a
lock takes it if it stays free. In `Otc` only the delayed jobs are fair: they are
in the database of the scheduler and are run when they are due, also after a restart;
nothing is assumed of the users. Failures are finite in number: a database
that fails for ever settles nothing, in the code either.

**Violated properties** say what the repository says, and the code does otherwise:

* `DoneStaysDone`: `mq/Consumer.java:96-97` writes FAIL from the catch block
  whatever the side's status, and a success does not reset the count: a side that is paid
  and handled once more becomes "failed", and `doWallet` offers it again.
* `AtMostOneRuns`: `TradeRequest.java:108` says only one is allowed to run; the key is read at 110
  and set at 127. `MatcherThreads` shows that two matchers do no harm to the books.
* `StartedRuns`: a process restarted within the 30 seconds the run key lives returns at
  `TradeRequest.java:111`, and the pair is not matched until an administrator switches it on again.
* `AppealsInTime`: `FrontOtcController.java:630-631` forbids an appeal about a record that does not
  wait for the seller, before the lock; `appeal()` writes APPEAL without looking again. A
  record that was completed in between is decided once more, about coins that are gone.
* `EndedStays`: `AdminExtractController.java:127` answers whoever is late that the order is already handled. One
  request and one call of the query undo that: two tasks get the same answer ("paid") and read the order as DOING, before
  the lock (`AsyncTask.java:75`); the first makes it a success and takes the frozen amount; the second cannot take it again, and its catch
  block writes the successful order as ERROR (line 90), whence `update2Doing` makes it DOING. Nothing has failed, and nobody was restarted.

**What the properties of `Extract` count.** They suppose nothing of the fee wallet, of the number of requests or tasks, or
of replies: they say which events make an amount differ, and by how much. Each term is needed. Left out, TLC finds in the
instance of `Extract`:

| Left out of | Term | Trace | Because |
|---|---|---|---|
| `FreezeExplained`, `MoneyExplained` | `lostFreeze`, `lostUsing` | 4 states | an application reads the fee wallet; a trade or a deposit moves the row by `modifyWallet`; the application writes the row as it read it, since the version is still the same (`UserWalletMapper.xml:75-88`). With the fee in the coin itself, what is lost may be the confirmation of another withdrawal |
| `PaidOnce`, first part | written after its end | 17 states | two tasks read that an order was cancelled, the first puts it back to ING, it is confirmed, the second puts it back once more, and it is confirmed again: the house pays twice |
| `PaidOnce`, second part | written after its end | 17 states | as before, with a push the second time: the house and the outside system pay |
| `PaidOnce`, second part | a lost reply | 6 states | the push is an HTTP call within the transaction (`ExtractServiceImpl.java:342`): without its reply the order stays ING while the outside system pays, and is confirmed or refused as well |
| `PaidOnce`, second part | an overtaken answer | 13 states | an order that is DOING may be pushed again (line 341), by a second request that was checked before the first: it is sent out anew after the outside system cancelled it, while a task that has the cancellation puts it back to ING, and it is confirmed |

What remains is the rest of the code: a task that fails and is sent round again, a refusal beside an application on one fee
wallet, a refusal and a confirmation of one order, what is rolled back, and a restart make no difference to any amount.

**Mutants.** Each property has a changed definition (marked "(Mutant.)" in the
modules) that breaks it: a cancellation that gives back the whole order, a
settlement at the other side's price or done twice, an update that does not
compare versions, a `finally` that forgets a lock, and so on. `PROJECT.json` lists them.

## 4. What is proved

For all values of the constants, under the assumption named in the module that
declares them and what the table says:

| Theorem | Says |
|---|---|
| `SpotTradeProofs!TypeCorrect` | `Spec => []TypeOK`: balances and frozen amounts never are negative |
| `SpotTradeProofs!FreezeIsBacked`, `FreezeIsTight`, `SettlementIsFunded` | `Spec => []FreezeBacked`, `[]FreezeTight`, `[]SettlementFunded` |
| `SpotTradeBalance!BalanceIsExplained`, `OrdersFilledByRecords` | `Spec => []BalanceExplained`, `[]FilledByRecords` |
| `MatcherProofs!MatcherTypeCorrect`, `LocksProtect` | `MatcherSpec /\ Locking => []MatcherTypeOK`, `[]ThreadsHold` |
| `MatcherProofs!MatcherImplementsSpotTrade` | `MatcherSpec /\ Locking => ImplementsSpotTrade` |
| `MatcherProofs!VersionsImplementSpotTrade` | `MatcherSpec /\ OneMatcher => ImplementsSpotTrade`, without locks |
| `MatcherProofs!MatcherFreezeIsBacked`, `MatcherFillsByRecords` | `[]FreezeBacked`, `[]FilledByRecords` of the threads, with either |
| `SettlementProofs!SettlementTypeCorrect`, `RecordLockProtects` | `[]SettlementTypeOK`, `[]ConsumersHold`, with `Locking` and `~DoneMayFail` |
| `SettlementProofs!SettlementImplementsSpotTrade` | `ImplementsSpotTrade`, likewise |
| `SettlementProofs!MessagesAreFunded`, `PaidSidesExplainBalance`, `HandledStaysHandled` | `[]SettlementFunded`, `[]BalanceExplained`, `DoneStaysDone`, likewise |
| `OtcProofs!OtcTypeCorrect`, `FreezeIsExplained`, `OrdersMatchRecords`, `WithdrawnOrdersStay` | `[]OtcTypeOK`, `[]FreezeExplained`, `[]TradedByRecords`, `WithdrawnStays`, with `~LateAppeal` |
| `OtcEscrow!OtcImplementsEscrow` | `OtcSpec /\ ~LateAppeal => ImplementsEscrow` |
| `OtcEscrow!RecordsAreCovered`, `DecidedRecordsStay` | `[]DealsCovered`, `DecidedStays`, likewise |
| `ExtractProofs!ExtractTypeCorrect` | `ExtractSpec => []ExtractTypeOK` |
| `ExtractProofs!WithdrawalFreeze`, `WithdrawalMoney` | `ExtractSpec => []FreezeExplained`, `[]MoneyExplained` |
| `ExtractProofs!WithdrawalsPaidOnce` | `ExtractSpec => []PaidOnce` |

The conditions are those of the findings: with `DoneMayFail` or `LateAppeal` the properties are false, and TLC
shows it. The theorems about withdrawals have none. `DoneStaysDone` is the property the run `SettlementLateFailure` violates; the theorem, and `Settlement`,
say that the late failure is its only way to go wrong. `Locking` says that the Redis locks
lock, `OneMatcher` that one matcher runs and no match fails.

**The books of spot trading.** `FreezeBacked` is not inductive as it stands: that a match moves the hold of an order
to the record needs the record's prices and owners to be the orders'
(`RecordsMatchOrders`), the order's remainder to be at least what is traded
(`NotOverfilled`), and the owner of a deleted order to be a robot, so that skipping its payment
strands nothing (`DeletedAreRobots`). `Accounting` is the conjunction of these with `TypeOK`,
`FreezeBacked` and `FreezeTight`; it holds initially, every action keeps it, one lemma
per action, and the theorems follow from it. The heart is rounding: when q of an order with s left is
traded at p, `Mul(q, p) + Mul(s - q, p)` is `Mul(s, p)` or one less: what a rounded trade leaves over stays frozen,
at most one smallest amount for each trade. `Bookkeeping` adds what a user owns, as the sum of
what the settled sides have moved.

**The threads.** A commit of a matcher is a `DoTrade` of `SpotTrade` only if the
orders it writes are still what it read. That is `ThreadsHold`: from the second lock to the commit
the thread owns both order locks, and the rows differ from what was read at most by what an
administrator may do. It needs that nobody else writes an order without its lock, but for the
administrator and the clean-up, and that a restart takes the locks from the threads that
held them. Likewise `ConsumersHold` for the record lock of a listener, with
`MessagesHold`: no message is about a record that does not exist. Both are inductive with the types, and each step
then maps to one of `SpotTrade` or to a stutter.
What is proved of `SpotTrade` so holds of the threads and of the queue as well: the corollaries.

**The versions alone.** Without the locks a thread's rows may change under it, and only the
comparison of versions at its commit protects it. `ThreadsRead` says what that needs: the version
read is not above the row's; if it is equal, the row is as the matcher read it, and as the canceller read
it but for an administrator who put the order back; and a row the matcher read as waiting that now has a
higher version was cancelled meanwhile, and stays closed. The last holds for one matcher only, as only another one would raise the
version of an order that stays open. `MaxFailures = 0` is needed because setting an order aside reads and
writes it in two steps of its own, and without locks could write ERROR over a cancellation in between;
for a lone matcher without other failures it never comes to that: a match that fails
for its versions was beaten by a cancellation, and what is closed is not set aside.

**The counter.** `OtcInvariant` joins the types, `RecordsFit` (a record has the parties of its order; its two
statuses agree), `AppealsFit` (an appeal that passed its check is about a record that still
waits), `TradedByRecords` and `FreezeExplained`. Every way to end a record is an instance of two lemmas,
hand over and give back. For the escrow, each handler maps to one action of it: `Trade` of a SELL
order opens a deal on its lot, of a BUY order fills a lot and opens a deal; giving back
returns a deal of a SELL order, and refunds one of a BUY order; `Withdraw` refunds a lot, for
which no deal is open by `CanCancel`. `DealsCovered` reads the same sums the other way: what the open
records may still take from a lot is in it. `DecidedStays` follows from the guards of the
handlers only because the two statuses of a record agree, and because no appeal is late.

**Withdrawals.** The theorems hold for any number of requests, tasks, orders, movements by others and
failures, and wherever the fee comes from. `ExtractInvariant` joins the types and `FeeCovered` (no fee above what was
read) with `WorkFits` and `ReadsFit`. `WorkFits` is what is left between readings and rows when nobody waits for
anybody: an order that does not exist has no past; an order being refused is open, under a lock with one holder;
what a task writes back is the order *but for its status*. `ReadsFit` says the same of wallet rows: unless the version is
another one by now, what was read differs from the row by the movements since. So an `update` either fails or loses
exactly these movements, which is what `lost*` counts. The proof has three layers: how one row changes (`Follows`), how a step leads from
wallets to wallets (`Leads`), and that each step changes one order's part of the sums by what it does to
the wallets (`Ledger`); `Balanced` then holds of every step but the movements by others, which `moved` has. `PaidOnce` needs `AnswersFit`
(a task's answer is still true, unless the order is doubtful), `NotSentOut` (what may still be confirmed or refused is not
out for payment, but for the same reasons) and `Counted` (what was paid or refunded has ended, and each end after the
first was preceded by a write after the end); `PaidInvariant` is inductive on top of `ExtractInvariant`.

`SumTo` (in `IdSums`) adds a function over `1..n`. The provers cannot use an
induction theorem whose hypothesis is an operator, so `IdSumTheorems` states induction for a
*set* of naturals (`SetInduction`), from the library's theorem that a non-empty set of naturals
has a minimal element (`WFMin`), and with it proves what the proofs need of `SumTo`: its type,
that it depends only on the values, that changing one value changes the sum by
the difference, and that no part exceeds the whole.

**Only model-checked:** liveness (`CancelEnds`, `CrossedIsResolved`, `EverySideIsHandled`,
`WaitingEnds`, `PauseTakesEffect`), as the prover handles neither `ENABLED` nor fairness; `MatcherRun`, whose one
passing property is of that kind; and that the findings are violations. `MatcherCancels` checks `ImplementsSpotTrade` on an
instance of `VersionsImplementSpotTrade`. The provers do not take
an operator for the induction hypothesis, nor modules that reach a RECURSIVE operator; there is none in
the proved modules. Each inductive invariant was model-checked before it was proved.

## 5. What is not modelled

* Failures of Redis itself. A lock that lapses while its thread lives: Redisson renews it, so a
  lock ends with its thread or process. The scheduler losing a job, or a job whose exception is swallowed
  (`OtcAutoCancelJob.java:40-47`).
* Spot trading: priorities among orders at one price; changes of fee rates
  and of the white list, so that a record's fee is that of its user; history tables; the messages for charges and
  releases, which `TradeRequest` sends after a match; the values in the cached book, which only the display reads.
* OTC: prices, limits and payment methods; the statistics of merchants; moving
  coins between the OTC wallet and the others, which `Deposit` stands for.
* Withdrawals: the lock wallet (for it `extractApply` leaves the frozen quantity unset, lines 140-146); the
  daily limit in Redis; several users, who share nothing; that an order may fail outside and keep its amount frozen for ever is
  in the model, but no property denies it.
* CTC: the endpoint that creates an order is commented out (`FrontCtcController.java:121-188`), so that none is
  ever reached. Payouts, mining and financing: arithmetic over the tree of users. Deposits, transfers inside:
  movements of one transaction each, by the two kinds of update that `Extract` has. Users, permissions, administration, charts, robots, outside services, and
  the third-party scripts under `static/`: no state of the exchange, or row-by-row edits of it.
