--------------------------- MODULE ExtractProofs ---------------------------
(***************************************************************************)
(* Extract for every number of orders, of requests and of tasks at work on *)
(* them at a time, all wallets, quantities and fees, and every bound.      *)
(*                                                                         *)
(* Leads says what a change of the wallets does to a row and what updates  *)
(* have written over in it, taken together; Ledger says what a step does   *)
(* to the sums over the orders; every step but the movements by others is  *)
(* Balanced between the two.                                               *)
(***************************************************************************)
EXTENDS Extract, IdSumTheorems

-----------------------------------------------------------------------------
(* Amounts and rows.                                                       *)

\* Rounding a quantity down leaves a natural number.
LEMMA RealQuantityType == ASSUME NEW q \in Nat
                          PROVE  RealQuantity(q) \in Nat
<1>1. q % Unit \in Nat /\ q % Unit <= q
  BY ExtractAssumption
<1> QED BY <1>1 DEF RealQuantity

\* What a row holds, with what updates have written over.
Owned(row) == row.using + row.lostUsing
Held(row)  == row.freeze + row.lostFreeze

\* A later state of a row: what was read of the row before fits it as well.
Follows(row, new) ==
    \/ row.version < new.version
    \/ /\ new.version = row.version
       /\ new.using - row.using = new.movesUsing - row.movesUsing
       /\ new.freeze - row.freeze = new.movesFreeze - row.movesFreeze

\* The guarded movement changes a row by what it says, and loses nothing.
LEMMA MovedRow ==
  ASSUME NEW row \in Row, NEW d \in Int, NEW e \in Int
  PROVE  /\ CanMove(row, d, e) => Moved(row, d, e) \in Row
         /\ Moved(row, d, e).freeze = row.freeze + e
         /\ Owned(Moved(row, d, e)) = Owned(row) + d
         /\ Held(Moved(row, d, e)) = Held(row) + e
         /\ Follows(row, Moved(row, d, e))
<1> DEFINE u == row.using + d
<1> DEFINE f == row.freeze + e
<1> DEFINE mu == row.movesUsing + d
<1> DEFINE mf == row.movesFreeze + e
<1> DEFINE new == Moved(row, d, e)
<1>1. /\ u \in Int /\ f \in Int /\ mu \in Int /\ mf \in Int
      /\ CanMove(row, d, e) => u \in Nat /\ f \in Nat
      /\ row.using \in Nat /\ row.freeze \in Nat /\ row.version \in Nat
      /\ row.movesUsing \in Int /\ row.movesFreeze \in Int
      /\ row.lostUsing \in Int /\ row.lostFreeze \in Int
  BY DEF Row, CanMove
<1>2. Moved(row, d, e) = [row EXCEPT !.using = u, !.freeze = f, !.movesUsing = mu, !.movesFreeze = mf]
  BY DEF Moved
<1> HIDE DEF u, f, mu, mf
<1>3. /\ CanMove(row, d, e) => new \in Row
      /\ new.using = u /\ new.freeze = f /\ new.version = row.version
      /\ new.movesUsing = mu /\ new.movesFreeze = mf
      /\ new.lostUsing = row.lostUsing /\ new.lostFreeze = row.lostFreeze
  BY <1>1, <1>2 DEF Row
<1> HIDE DEF new
<1>4. /\ Owned(new) = Owned(row) + d /\ Held(new) = Held(row) + e /\ Follows(row, new)
      /\ new.freeze = row.freeze + e
  BY <1>1, <1>3 DEF Owned, Held, Follows, u, f, mu, mf
<1> QED BY <1>3, <1>4 DEF new

\* The update adds to the balance; what it writes over is counted as lost.
LEMMA UpdatedRow ==
  ASSUME NEW row \in Row, NEW read \in Row, NEW d \in Int,
         SameVersion(row, read), ReadOf(row, read)
  PROVE  /\ read.using + d >= 0 => Updated(row, read, d) \in Row
         /\ Owned(Updated(row, read, d)) = Owned(row) + d
         /\ Held(Updated(row, read, d)) = Held(row)
         /\ Follows(row, Updated(row, read, d))
<1> DEFINE u == read.using + d
<1> DEFINE v == read.version + 1
<1> DEFINE lu == row.lostUsing + (row.movesUsing - read.movesUsing)
<1> DEFINE lf == row.lostFreeze + (row.movesFreeze - read.movesFreeze)
<1> DEFINE new == Updated(row, read, d)
<1>1. /\ u \in Int /\ v \in Nat /\ lu \in Int /\ lf \in Int
      /\ read.using + d >= 0 => u \in Nat
      /\ row.using \in Nat /\ row.freeze \in Nat /\ row.version \in Nat
      /\ row.movesUsing \in Int /\ row.movesFreeze \in Int
      /\ row.lostUsing \in Int /\ row.lostFreeze \in Int
      /\ read.using \in Nat /\ read.freeze \in Nat /\ read.version \in Nat
      /\ read.movesUsing \in Int /\ read.movesFreeze \in Int
  BY DEF Row
<1>2. Updated(row, read, d) = [row EXCEPT !.using = u, !.freeze = read.freeze, !.version = v,
                                          !.lostUsing = lu, !.lostFreeze = lf]
  BY DEF Updated
<1> HIDE DEF u, v, lu, lf
<1>3. /\ read.using + d >= 0 => new \in Row
      /\ new.using = u /\ new.freeze = read.freeze /\ new.version = v
      /\ new.lostUsing = lu /\ new.lostFreeze = lf
  BY <1>1, <1>2 DEF Row
<1> HIDE DEF new
<1>4. Owned(new) = Owned(row) + d /\ Held(new) = Held(row) /\ Follows(row, new)
  BY <1>1, <1>3 DEF Owned, Held, Follows, SameVersion, ReadOf, u, v, lu, lf
<1> QED BY <1>3, <1>4 DEF new

\* What was read of a row fits every later state of it.
LEMMA ReadFollows ==
  ASSUME NEW row \in Row, NEW new \in Row, NEW read \in Row, ReadOf(row, read), Follows(row, new)
  PROVE  ReadOf(new, read)
BY DEF Row, ReadOf, Follows

LEMMA FollowsTrans ==
  ASSUME NEW row \in Row, NEW mid \in Row, NEW new \in Row, Follows(row, mid), Follows(mid, new)
  PROVE  Follows(row, new)
BY DEF Row, Follows

LEMMA FollowsSame == ASSUME NEW row \in Row PROVE Follows(row, row) /\ ReadOf(row, row)
BY DEF Row, Follows, ReadOf

-----------------------------------------------------------------------------
(* Wallets.                                                                *)

Wallets == [Currencies -> Row]

\* v comes after w; taken has left the balance of the coin, fee that of the
\* wallet feeIn, and more of the coin is frozen by aside.
Leads(w, v, feeIn, taken, fee, aside) ==
    /\ v \in Wallets
    /\ \A c \in Currencies :
        /\ Follows(w[c], v[c])
        /\ Owned(v[c]) = Owned(w[c]) - (IF c = Coin THEN taken ELSE 0) - (IF c = feeIn THEN fee ELSE 0)
        /\ Held(v[c]) = Held(w[c]) + (IF c = Coin THEN aside ELSE 0)

LEMMA RowAmounts == ASSUME NEW row \in Row PROVE Owned(row) \in Int /\ Held(row) \in Int
BY DEF Row, Owned, Held

\* The opposite of an amount.
LEMMA Minus ==
  ASSUME NEW q \in Nat
  PROVE  -q \in Int /\ -q + q = 0 /\ -q = -q + 0 /\ -q = 0 + (-q)
OBVIOUS

\* v is w after a movement of the coin, and after an update that pays a fee.
MovesTo(w, v, d, e) == CanMove(w[Coin], d, e) /\ v = [w EXCEPT ![Coin] = Moved(@, d, e)]
UpdatesTo(w, v, feeIn, read, d) ==
    /\ SameVersion(w[feeIn], read) /\ ReadOf(w[feeIn], read) /\ read.using + d >= 0
    /\ v = [w EXCEPT ![feeIn] = Updated(@, read, d)]

LEMMA LeadsMove ==
  ASSUME NEW w \in Wallets, NEW feeIn \in Currencies, NEW d \in Int, NEW e \in Int,
         NEW v, MovesTo(w, v, d, e), NEW taken \in Int, taken + d = 0
  PROVE  Leads(w, v, feeIn, taken, 0, e) /\ v[Coin].freeze = w[Coin].freeze + e
<1> DEFINE new == Moved(w[Coin], d, e)
<1>1. Coin \in Currencies /\ w[Coin] \in Row
  BY ExtractAssumption DEF Wallets
<1>2. /\ new \in Row /\ new.freeze = w[Coin].freeze + e
      /\ Owned(new) = Owned(w[Coin]) + d /\ Held(new) = Held(w[Coin]) + e
      /\ Follows(w[Coin], new)
  BY <1>1, MovedRow DEF MovesTo
<1>0. v = [w EXCEPT ![Coin] = new]
  BY DEF MovesTo
<1> HIDE DEF new
<1>3. v \in Wallets /\ v[Coin] = new /\ \A c \in Currencies : c # Coin => v[c] = w[c]
  BY <1>0, <1>1, <1>2 DEF Wallets
<1>4. ASSUME NEW c \in Currencies
      PROVE  /\ Follows(w[c], v[c])
             /\ Owned(v[c]) = Owned(w[c]) - (IF c = Coin THEN taken ELSE 0) - (IF c = feeIn THEN 0 ELSE 0)
             /\ Held(v[c]) = Held(w[c]) + (IF c = Coin THEN e ELSE 0)
  <2>1. w[c] \in Row /\ Owned(w[c]) \in Int /\ Held(w[c]) \in Int /\ Follows(w[c], w[c])
    BY RowAmounts, FollowsSame DEF Wallets
  <2> QED BY <1>2, <1>3, <2>1
<1> QED BY <1>2, <1>3, <1>4 DEF Leads

LEMMA LeadsUpdate ==
  ASSUME NEW w \in Wallets, NEW feeIn \in Currencies, NEW read \in Row, NEW d \in Int,
         NEW v, UpdatesTo(w, v, feeIn, read, d), NEW fee \in Int, fee + d = 0
  PROVE  Leads(w, v, feeIn, 0, fee, 0)
<1> DEFINE new == Updated(w[feeIn], read, d)
<1>1. w[feeIn] \in Row
  BY DEF Wallets
<1>2. /\ new \in Row /\ Owned(new) = Owned(w[feeIn]) + d /\ Held(new) = Held(w[feeIn])
      /\ Follows(w[feeIn], new)
  BY <1>1, UpdatedRow DEF UpdatesTo
<1>0. v = [w EXCEPT ![feeIn] = new]
  BY DEF UpdatesTo
<1> HIDE DEF new
<1>3. v \in Wallets /\ v[feeIn] = new /\ \A c \in Currencies : c # feeIn => v[c] = w[c]
  BY <1>0, <1>1, <1>2 DEF Wallets
<1>4. ASSUME NEW c \in Currencies
      PROVE  /\ Follows(w[c], v[c])
             /\ Owned(v[c]) = Owned(w[c]) - (IF c = Coin THEN 0 ELSE 0) - (IF c = feeIn THEN fee ELSE 0)
             /\ Held(v[c]) = Held(w[c]) + (IF c = Coin THEN 0 ELSE 0)
  <2>1. w[c] \in Row /\ Owned(w[c]) \in Int /\ Held(w[c]) \in Int /\ Follows(w[c], w[c])
    BY RowAmounts, FollowsSame DEF Wallets
  <2> QED BY <1>2, <1>3, <2>1
<1> QED BY <1>3, <1>4 DEF Leads

LEMMA LeadsTrans ==
  ASSUME NEW w \in Wallets, NEW v \in Wallets, NEW x, NEW feeIn \in Currencies,
         NEW t \in Int, NEW f \in Int, NEW s \in Int, Leads(w, v, feeIn, t, f, s),
         NEW tt \in Int, NEW ff \in Int, NEW ss \in Int, Leads(v, x, feeIn, tt, ff, ss),
         NEW taken, taken = t + tt, NEW fee, fee = f + ff, NEW aside, aside = s + ss
  PROVE  Leads(w, x, feeIn, taken, fee, aside)
<1>1. x \in Wallets
  BY DEF Leads
<1>2. ASSUME NEW c \in Currencies
      PROVE  /\ Follows(w[c], x[c])
             /\ Owned(x[c]) = Owned(w[c]) - (IF c = Coin THEN taken ELSE 0)
                                          - (IF c = feeIn THEN fee ELSE 0)
             /\ Held(x[c]) = Held(w[c]) + (IF c = Coin THEN aside ELSE 0)
  <2>1. w[c] \in Row /\ v[c] \in Row /\ x[c] \in Row
    BY <1>1 DEF Wallets
  <2>2. /\ Follows(w[c], v[c]) /\ Follows(v[c], x[c])
        /\ Owned(v[c]) = Owned(w[c]) - (IF c = Coin THEN t ELSE 0) - (IF c = feeIn THEN f ELSE 0)
        /\ Held(v[c]) = Held(w[c]) + (IF c = Coin THEN s ELSE 0)
        /\ Owned(x[c]) = Owned(v[c]) - (IF c = Coin THEN tt ELSE 0) - (IF c = feeIn THEN ff ELSE 0)
        /\ Held(x[c]) = Held(v[c]) + (IF c = Coin THEN ss ELSE 0)
    BY DEF Leads
  <2>3. Owned(w[c]) \in Int /\ Held(w[c]) \in Int
    BY <2>1, RowAmounts
  <2> QED BY <2>1, <2>2, <2>3, FollowsTrans
<1> QED BY <1>1, <1>2 DEF Leads

LEMMA LeadsSame ==
  ASSUME NEW w \in Wallets, NEW feeIn \in Currencies
  PROVE  Leads(w, w, feeIn, 0, 0, 0)
<1>1. \A c \in Currencies : w[c] \in Row /\ Owned(w[c]) \in Int /\ Held(w[c]) \in Int /\ Follows(w[c], w[c])
  BY RowAmounts, FollowsSame DEF Wallets
<1> QED BY <1>1 DEF Leads

-----------------------------------------------------------------------------
(* Sums over the orders.                                                   *)

OrdersOK == orders \in [OrderIds -> Order] /\ past \in [OrderIds -> Pasts]

\* The factors of an order's entries in the sums.
Opens(o) == Is(o, Open) - WritesAfterEnd(o)

LEMMA PastTypes ==
  ASSUME OrdersOK, NEW o \in OrderIds
  PROVE  /\ orders[o] \in Order /\ past[o] \in Pasts
         /\ orders[o].kind \in Kind /\ orders[o].kind.quantity \in Nat /\ orders[o].kind.rate \in Nat
         /\ orders[o].kind.rateIn \in Currencies
         /\ WritesAfterEnd(o) \in Nat /\ past[o].revived \in Nat /\ past[o].reopened \in Nat
         /\ past[o].handed \in Nat /\ past[o].refused \in Nat
         /\ Opens(o) \in Int /\ TimesTaken(o) \in Int
         /\ RealQuantity(orders[o].kind.quantity) \in Nat
<1>1. orders[o] \in Order /\ past[o] \in Pasts
  BY DEF OrdersOK
<1>2. /\ orders[o].kind \in Kind /\ orders[o].kind.quantity \in Nat /\ orders[o].kind.rate \in Nat
      /\ orders[o].kind.rateIn \in Currencies
      /\ past[o].revived \in Nat /\ past[o].reopened \in Nat
      /\ past[o].handed \in Nat /\ past[o].refused \in Nat
  BY <1>1 DEF Order, Kind, Pasts
<1>3. WritesAfterEnd(o) \in Nat /\ Opens(o) \in Int /\ TimesTaken(o) \in Int
  BY <1>2 DEF WritesAfterEnd, Opens, TimesTaken, Is
<1> QED BY <1>1, <1>2, <1>3, RealQuantityType

\* The product of two integers is an integer.
LEMMA Product == ASSUME NEW q \in Int, NEW k \in Int, NEW m \in Int
                 PROVE  q * k \in Int /\ q * (k + m) = q * k + q * m
OBVIOUS

LEMMA EntryTypes ==
  ASSUME OrdersOK, NEW o \in OrderIds, NEW c \in Currencies
  PROVE  /\ SetAsideFor(o) \in Int /\ TakenFor(o, c) \in Int /\ FeeFor(o, c) \in Int
         /\ PaidInside(o) \in Int
<1>1. orders[o].kind.quantity * Opens(o) \in Int
  BY PastTypes, Product
<1>2. orders[o].kind.quantity * TimesTaken(o) \in Int /\ orders[o].kind.rate * TimesTaken(o) \in Int
  BY PastTypes, Product
<1>3. RealQuantity(orders[o].kind.quantity) * past[o].handed \in Int
  BY PastTypes, Product
<1> QED BY <1>1, <1>2, <1>3 DEF SetAsideFor, Opens, TakenFor, FeeFor, PaidInside

LEMMA EntriesTyped ==
  OrdersOK => \A o \in OrderIds, c \in Currencies :
    /\ SetAsideFor(o) \in Int /\ TakenFor(o, c) \in Int /\ FeeFor(o, c) \in Int
    /\ PaidInside(o) \in Int
BY EntryTypes

LEMMA FactorsTyped ==
  OrdersOK => \A o \in OrderIds :
    Opens(o) \in Int /\ TimesTaken(o) \in Int /\ past[o].handed \in Int
BY PastTypes

LEMMA FactorsTypedNext ==
  OrdersOK' => (\A o \in OrderIds :
    Opens(o) \in Int /\ TimesTaken(o) \in Int /\ past[o].handed \in Int)'
BY FactorsTyped, PTL

LEMMA EntriesTypedNext ==
  OrdersOK' => (\A o \in OrderIds, c \in Currencies :
    /\ SetAsideFor(o) \in Int /\ TakenFor(o, c) \in Int /\ FeeFor(o, c) \in Int
    /\ PaidInside(o) \in Int)'
BY EntriesTyped, PTL

LEMMA BookTypes ==
  ASSUME OrdersOK, NEW c \in Currencies
  PROVE  SetAsideTotal \in Int /\ TakenTotal(c) \in Int /\ FeeTotal(c) \in Int /\ PaidTotal \in Int
<1>1. MaxOrders \in Nat
  BY ExtractAssumption
<1>2. /\ [o \in OrderIds |-> SetAsideFor(o)] \in [1..MaxOrders -> Int]
      /\ [o \in OrderIds |-> TakenFor(o, c)] \in [1..MaxOrders -> Int]
      /\ [o \in OrderIds |-> FeeFor(o, c)] \in [1..MaxOrders -> Int]
      /\ [o \in OrderIds |-> PaidInside(o)] \in [1..MaxOrders -> Int]
  BY EntryTypes DEF OrderIds
<1> QED BY <1>1, <1>2, SumType DEF SetAsideTotal, TakenTotal, FeeTotal, PaidTotal

LEMMA TotalsTyped ==
  OrdersOK => \A c \in Currencies :
    SetAsideTotal \in Int /\ TakenTotal(c) \in Int /\ FeeTotal(c) \in Int /\ PaidTotal \in Int
BY BookTypes

LEMMA TotalsTypedNext ==
  OrdersOK' => (\A c \in Currencies :
    SetAsideTotal \in Int /\ TakenTotal(c) \in Int /\ FeeTotal(c) \in Int /\ PaidTotal \in Int)'
BY TotalsTyped, PTL

\* What a step does to the sums.
Ledger(feeIn, taken, fee, aside, paid) ==
    /\ SetAsideTotal' = SetAsideTotal + aside
    /\ PaidTotal' = PaidTotal + paid
    /\ \A c \in Currencies :
        /\ TakenTotal(c)' = TakenTotal(c) + (IF c = Coin THEN taken ELSE 0)
        /\ FeeTotal(c)' = FeeTotal(c) + (IF c = feeIn THEN fee ELSE 0)

OnlyOne(o) == \A i \in OrderIds : i # o => orders'[i] = orders[i] /\ past'[i] = past[i]

\* A sum changes by the entry of the order that changes.
LEMMA OneEntry ==
  ASSUME NEW o \in OrderIds, NEW f \in [OrderIds -> Int], NEW g \in [OrderIds -> Int],
         \A i \in OrderIds : i # o => g[i] = f[i]
  PROVE  SumTo(g, MaxOrders) = SumTo(f, MaxOrders) + (g[o] - f[o])
<1>1. /\ MaxOrders \in Nat /\ o \in 1..MaxOrders
      /\ f \in [1..MaxOrders -> Int] /\ g \in [1..MaxOrders -> Int]
      /\ \A i \in 1..MaxOrders : i # o => g[i] = f[i]
  BY ExtractAssumption DEF OrderIds
<1> QED BY <1>1, SumUpdate

LEMMA EntriesLedger ==
  ASSUME OrdersOK, OrdersOK', NEW o \in OrderIds, OnlyOne(o), NEW feeIn \in Currencies,
         NEW taken \in Int, NEW fee \in Int, NEW aside \in Int, NEW paid \in Int,
         SetAsideFor(o)' = SetAsideFor(o) + aside,
         PaidInside(o)' = PaidInside(o) + paid,
         \A c \in Currencies :
             /\ TakenFor(o, c)' = TakenFor(o, c) + (IF c = Coin THEN taken ELSE 0)
             /\ FeeFor(o, c)' = FeeFor(o, c) + (IF c = feeIn THEN fee ELSE 0)
  PROVE  Ledger(feeIn, taken, fee, aside, paid)
<1>0. \A c \in Currencies, i \in OrderIds :
        /\ SetAsideFor(i) \in Int /\ TakenFor(i, c) \in Int /\ FeeFor(i, c) \in Int /\ PaidInside(i) \in Int
        /\ SetAsideFor(i)' \in Int /\ TakenFor(i, c)' \in Int /\ FeeFor(i, c)' \in Int
        /\ PaidInside(i)' \in Int
        /\ i # o => /\ SetAsideFor(i)' = SetAsideFor(i) /\ PaidInside(i)' = PaidInside(i)
                    /\ TakenFor(i, c)' = TakenFor(i, c) /\ FeeFor(i, c)' = FeeFor(i, c)
  <2>1. \A i \in OrderIds, c \in Currencies :
            /\ SetAsideFor(i) \in Int /\ TakenFor(i, c) \in Int /\ FeeFor(i, c) \in Int
            /\ PaidInside(i) \in Int
    BY EntryTypes
  <2>2. \A i \in OrderIds, c \in Currencies :
            /\ SetAsideFor(i)' \in Int /\ TakenFor(i, c)' \in Int /\ FeeFor(i, c)' \in Int
            /\ PaidInside(i)' \in Int
    BY EntriesTypedNext
  <2>3. ASSUME NEW i \in OrderIds, NEW c \in Currencies, i # o
        PROVE  /\ SetAsideFor(i)' = SetAsideFor(i) /\ PaidInside(i)' = PaidInside(i)
               /\ TakenFor(i, c)' = TakenFor(i, c) /\ FeeFor(i, c)' = FeeFor(i, c)
    <3>1. orders'[i] = orders[i] /\ past'[i] = past[i]
      BY <2>3 DEF OnlyOne
    <3> QED BY <3>1 DEF SetAsideFor, PaidInside, TakenFor, FeeFor, WritesAfterEnd, TimesTaken, Is
  <2> QED BY <2>1, <2>2, <2>3
<1>1. SetAsideTotal' = SetAsideTotal + aside
  <2> DEFINE f == [i \in OrderIds |-> SetAsideFor(i)]
  <2> DEFINE g == [i \in OrderIds |-> SetAsideFor(i)']
  <2>1. f \in [OrderIds -> Int] /\ g \in [OrderIds -> Int] /\ f[o] \in Int
        /\ (\A i \in OrderIds : i # o => g[i] = f[i]) /\ g[o] = f[o] + aside
    BY <1>0
  <2>2. SetAsideTotal = SumTo(f, MaxOrders) /\ SetAsideTotal' = SumTo(g, MaxOrders)
    BY DEF SetAsideTotal
  <2>3. SetAsideTotal \in Int
    BY BookTypes
  <2> HIDE DEF f, g
  <2> QED BY <2>1, <2>2, <2>3, OneEntry
<1>2. PaidTotal' = PaidTotal + paid
  <2> DEFINE f == [i \in OrderIds |-> PaidInside(i)]
  <2> DEFINE g == [i \in OrderIds |-> PaidInside(i)']
  <2>1. f \in [OrderIds -> Int] /\ g \in [OrderIds -> Int] /\ f[o] \in Int
        /\ (\A i \in OrderIds : i # o => g[i] = f[i]) /\ g[o] = f[o] + paid
    BY <1>0
  <2>2. PaidTotal = SumTo(f, MaxOrders) /\ PaidTotal' = SumTo(g, MaxOrders)
    BY DEF PaidTotal
  <2>3. PaidTotal \in Int
    BY BookTypes
  <2> HIDE DEF f, g
  <2> QED BY <2>1, <2>2, <2>3, OneEntry
<1>3. ASSUME NEW c \in Currencies
      PROVE  TakenTotal(c)' = TakenTotal(c) + (IF c = Coin THEN taken ELSE 0)
  <2> DEFINE f == [i \in OrderIds |-> TakenFor(i, c)]
  <2> DEFINE g == [i \in OrderIds |-> TakenFor(i, c)']
  <2>1. f \in [OrderIds -> Int] /\ g \in [OrderIds -> Int] /\ f[o] \in Int
        /\ (\A i \in OrderIds : i # o => g[i] = f[i])
        /\ g[o] = f[o] + (IF c = Coin THEN taken ELSE 0)
    BY <1>0
  <2>2. TakenTotal(c) = SumTo(f, MaxOrders) /\ TakenTotal(c)' = SumTo(g, MaxOrders)
    BY DEF TakenTotal
  <2>3. TakenTotal(c) \in Int
    BY BookTypes
  <2> HIDE DEF f, g
  <2> QED BY <2>1, <2>2, <2>3, OneEntry
<1>4. ASSUME NEW c \in Currencies
      PROVE  FeeTotal(c)' = FeeTotal(c) + (IF c = feeIn THEN fee ELSE 0)
  <2> DEFINE f == [i \in OrderIds |-> FeeFor(i, c)]
  <2> DEFINE g == [i \in OrderIds |-> FeeFor(i, c)']
  <2>1. f \in [OrderIds -> Int] /\ g \in [OrderIds -> Int] /\ f[o] \in Int
        /\ (\A i \in OrderIds : i # o => g[i] = f[i])
        /\ g[o] = f[o] + (IF c = feeIn THEN fee ELSE 0)
    BY <1>0
  <2>2. FeeTotal(c) = SumTo(f, MaxOrders) /\ FeeTotal(c)' = SumTo(g, MaxOrders)
    BY DEF FeeTotal
  <2>3. FeeTotal(c) \in Int
    BY BookTypes
  <2> HIDE DEF f, g
  <2> QED BY <2>1, <2>2, <2>3, OneEntry
<1> QED BY <1>1, <1>2, <1>3, <1>4 DEF Ledger

\* One, none or minus one of an amount.
LEMMA Times ==
  ASSUME NEW q \in Int, NEW x \in Int
  PROVE  (x = 0 => q * x = 0) /\ (x = 1 => q * x = q) /\ (x = -1 => q * x = -q)
OBVIOUS

\* An order whose factors change changes the sums in proportion; its kind may
\* change as long as it has no part in them.
LEMMA OrderLedger ==
  ASSUME OrdersOK, OrdersOK', NEW o \in OrderIds, OnlyOne(o),
         NEW kind, kind = orders'[o].kind,
         \/ orders[o].kind = kind
         \/ Opens(o) = 0 /\ TimesTaken(o) = 0 /\ past[o].handed = 0,
         NEW taken, taken = kind.quantity * (TimesTaken(o)' - TimesTaken(o)),
         NEW fee, fee = kind.rate * (TimesTaken(o)' - TimesTaken(o)),
         NEW aside, aside = kind.quantity * (Opens(o)' - Opens(o)),
         NEW paid, paid = IF kind.type = "INNER"
                          THEN RealQuantity(kind.quantity) * (past'[o].handed - past[o].handed) ELSE 0
  PROVE  Ledger(kind.rateIn, taken, fee, aside, paid)
<1> DEFINE k == Opens(o)' - Opens(o)
<1> DEFINE m == TimesTaken(o)' - TimesTaken(o)
<1> DEFINE h == past'[o].handed - past[o].handed
<1> DEFINE q == kind.quantity
<1> DEFINE rate == kind.rate
<1> DEFINE real == RealQuantity(q)
<1>1. kind \in Kind
  BY DEF OrdersOK, Order
<1>2. q \in Nat /\ rate \in Nat /\ kind.rateIn \in Currencies
  BY <1>1 DEF Kind
<1>3. real \in Nat
  BY <1>2, RealQuantityType
<1>4. /\ Opens(o) \in Int /\ TimesTaken(o) \in Int /\ past[o].handed \in Int
      /\ k \in Int /\ m \in Int /\ h \in Int
      /\ Opens(o)' = Opens(o) + k /\ TimesTaken(o)' = TimesTaken(o) + m
      /\ past'[o].handed = past[o].handed + h
  <2>1. Opens(o) \in Int /\ TimesTaken(o) \in Int /\ past[o].handed \in Int
    BY PastTypes
  <2>2. Opens(o)' \in Int /\ TimesTaken(o)' \in Int /\ past'[o].handed \in Int
    BY FactorsTypedNext
  <2> QED BY <2>1, <2>2
<1>5. /\ SetAsideFor(o)' = q * Opens(o)'
      /\ PaidInside(o)' = IF kind.type = "INNER" THEN real * past'[o].handed ELSE 0
      /\ \A c \in Currencies :
           /\ TakenFor(o, c)' = IF c = Coin THEN q * TimesTaken(o)' ELSE 0
           /\ FeeFor(o, c)' = IF c = kind.rateIn THEN rate * TimesTaken(o)' ELSE 0
  BY DEF SetAsideFor, Opens, PaidInside, TakenFor, FeeFor
<1>6. /\ SetAsideFor(o) = q * Opens(o)
      /\ PaidInside(o) = IF kind.type = "INNER" THEN real * past[o].handed ELSE 0
      /\ \A c \in Currencies :
           /\ TakenFor(o, c) = IF c = Coin THEN q * TimesTaken(o) ELSE 0
           /\ FeeFor(o, c) = IF c = kind.rateIn THEN rate * TimesTaken(o) ELSE 0
  <2>1. CASE kind = orders[o].kind
    BY <2>1 DEF SetAsideFor, Opens, PaidInside, TakenFor, FeeFor
  <2>2. CASE Opens(o) = 0 /\ TimesTaken(o) = 0 /\ past[o].handed = 0
    <3>1. /\ orders[o].kind.quantity \in Nat /\ orders[o].kind.rate \in Nat
          /\ RealQuantity(orders[o].kind.quantity) \in Nat
      BY PastTypes
    <3>2. /\ SetAsideFor(o) = 0 /\ PaidInside(o) = 0
          /\ \A c \in Currencies : TakenFor(o, c) = 0 /\ FeeFor(o, c) = 0
      BY <2>2, <3>1 DEF SetAsideFor, Opens, PaidInside, TakenFor, FeeFor
    <3>3. q * 0 = 0 /\ rate * 0 = 0 /\ real * 0 = 0
      BY <1>2, <1>3
    <3> HIDE DEF real, q, rate
    <3> QED BY <2>2, <3>2, <3>3
  <2> QED BY <2>1, <2>2
<1> HIDE DEF k, m, h
<1>7. /\ q * m \in Int /\ rate * m \in Int /\ q * k \in Int /\ real * h \in Int
      /\ q * (Opens(o) + k) = q * Opens(o) + q * k
      /\ q * (TimesTaken(o) + m) = q * TimesTaken(o) + q * m
      /\ rate * (TimesTaken(o) + m) = rate * TimesTaken(o) + rate * m
      /\ real * (past[o].handed + h) = real * past[o].handed + real * h
      /\ q * TimesTaken(o) \in Int /\ rate * TimesTaken(o) \in Int
      /\ real * past[o].handed \in Int
  <2> HIDE DEF real, q, rate
  <2> QED BY <1>2, <1>3, <1>4, Product
<1>8. taken = q * m /\ fee = rate * m /\ aside = q * k
      /\ paid = IF kind.type = "INNER" THEN real * h ELSE 0
  BY DEF k, m, h
<1>9. /\ SetAsideFor(o)' = SetAsideFor(o) + aside
      /\ PaidInside(o)' = PaidInside(o) + paid
      /\ taken \in Int /\ fee \in Int /\ aside \in Int /\ paid \in Int
      /\ \A c \in Currencies :
           /\ TakenFor(o, c)' = TakenFor(o, c) + (IF c = Coin THEN taken ELSE 0)
           /\ FeeFor(o, c)' = FeeFor(o, c) + (IF c = kind.rateIn THEN fee ELSE 0)
  <2> HIDE DEF real, q, rate
  <2> QED BY <1>4, <1>5, <1>6, <1>7, <1>8
<1> QED BY <1>2, <1>9, EntriesLedger

\* Nothing changes in the orders, and nothing in the sums.
LEMMA SameLedger ==
  ASSUME OrdersOK, UNCHANGED <<orders, past>>, NEW feeIn \in Currencies
  PROVE  Ledger(feeIn, 0, 0, 0, 0)
<1>1. /\ SetAsideTotal' = SetAsideTotal /\ PaidTotal' = PaidTotal
      /\ \A c \in Currencies : TakenTotal(c)' = TakenTotal(c) /\ FeeTotal(c)' = FeeTotal(c)
  BY DEF SetAsideTotal, PaidTotal, TakenTotal, FeeTotal, SetAsideFor, PaidInside, TakenFor, FeeFor,
         WritesAfterEnd, TimesTaken, Is
<1>2. \A c \in Currencies :
        SetAsideTotal \in Int /\ TakenTotal(c) \in Int /\ FeeTotal(c) \in Int /\ PaidTotal \in Int
  BY BookTypes
<1>3. Coin \in Currencies
  BY ExtractAssumption
<1> QED BY <1>1, <1>2, <1>3 DEF Ledger

-----------------------------------------------------------------------------
(* The four ways an order changes.                                         *)

WithStatus(order, st) == [order EXCEPT !.status = st]
Again(was, st) == [was EXCEPT !.reopened = @ + (IF st = "SUCCESS" THEN 1 ELSE 0),
                              !.revived  = @ + (IF st = "FAIL" THEN 1 ELSE 0)]

Made(o, kind, st) ==
    /\ orders' = [orders EXCEPT ![o] = [status |-> st, kind |-> kind]]
    /\ past' = [past EXCEPT ![o].handed = IF st = "SUCCESS" THEN 1 ELSE 0]
Confirmed(o) ==
    /\ orders' = [orders EXCEPT ![o] = WithStatus(orders[o], "SUCCESS")]
    /\ past' = [past EXCEPT ![o].handed = @ + 1]
Refused(o) ==
    /\ orders' = [orders EXCEPT ![o] = WithStatus(orders[o], "FAIL")]
    /\ past' = [past EXCEPT ![o].refused = @ + 1]
Rewritten(o, st) ==
    /\ orders' = [orders EXCEPT ![o] = WithStatus(orders[o], st)]
    /\ past' = [past EXCEPT ![o] = Again(past[o], orders[o].status)]

LEMMA StatusFields ==
  ASSUME NEW order \in Order, NEW st \in Status
  PROVE  /\ WithStatus(order, st) \in Order
         /\ WithStatus(order, st).status = st /\ WithStatus(order, st).kind = order.kind
BY DEF WithStatus, Order

LEMMA PastFields ==
  ASSUME NEW was \in Pasts, NEW st
  PROVE  /\ Again(was, st) \in Pasts
         /\ Again(was, st).handed = was.handed /\ Again(was, st).refused = was.refused
         /\ Again(was, st).reopened = was.reopened + (IF st = "SUCCESS" THEN 1 ELSE 0)
         /\ Again(was, st).revived = was.revived + (IF st = "FAIL" THEN 1 ELSE 0)
<1> DEFINE a == was.reopened + (IF st = "SUCCESS" THEN 1 ELSE 0)
<1> DEFINE b == was.revived + (IF st = "FAIL" THEN 1 ELSE 0)
<1>1. a \in Nat /\ b \in Nat
  BY DEF Pasts
<1>2. Again(was, st) = [was EXCEPT !.reopened = a, !.revived = b]
  BY DEF Again
<1> HIDE DEF a, b
<1>3. /\ Again(was, st) \in Pasts
      /\ Again(was, st).handed = was.handed /\ Again(was, st).refused = was.refused
      /\ Again(was, st).reopened = a /\ Again(was, st).revived = b
  BY <1>1, <1>2 DEF Pasts
<1> QED BY <1>3 DEF a, b

LEMMA PastSame ==
  ASSUME NEW was \in Pasts, NEW st, st \notin Ended
  PROVE  Again(was, st) = was
<1>1. was.reopened + 0 = was.reopened /\ was.revived + 0 = was.revived
  BY DEF Pasts
<1>2. Again(was, st) = [was EXCEPT !.reopened = was.reopened, !.revived = was.revived]
  BY <1>1 DEF Again, Ended
<1> QED BY <1>2 DEF Pasts

\* An order that is written again, sent or collected has its part in the sums
\* as before, but that the amount set aside goes with a success.
LEMMA RewriteLedger ==
  ASSUME OrdersOK, NEW o \in OrderIds, NEW st \in Open \cup {"SUCCESS"},
         orders[o].status # "NONE", Rewritten(o, st)
  PROVE  /\ OrdersOK' /\ OnlyOne(o)
         /\ Ledger(orders[o].kind.rateIn, 0, 0,
                   IF st = "SUCCESS" THEN -orders[o].kind.quantity ELSE 0, 0)
<1> DEFINE q == orders[o].kind.quantity
<1>1. /\ orders[o] \in Order /\ past[o] \in Pasts /\ st \in Status
      /\ orders \in [OrderIds -> Order] /\ past \in [OrderIds -> Pasts]
  BY DEF OrdersOK, Status, Open, Ended
<1>2. /\ orders'[o] = WithStatus(orders[o], st) /\ past'[o] = Again(past[o], orders[o].status)
      /\ OrdersOK' /\ OnlyOne(o)
  BY <1>1, StatusFields, PastFields DEF Rewritten, OrdersOK, OnlyOne
<1>3. /\ orders'[o].status = st /\ orders'[o].kind = orders[o].kind
      /\ past'[o].handed = past[o].handed
      /\ past'[o].reopened = past[o].reopened + (IF orders[o].status = "SUCCESS" THEN 1 ELSE 0)
      /\ past'[o].revived = past[o].revived + (IF orders[o].status = "FAIL" THEN 1 ELSE 0)
  BY <1>1, <1>2, StatusFields, PastFields
<1>4. /\ past[o].handed \in Nat /\ past[o].reopened \in Nat /\ past[o].revived \in Nat
      /\ q \in Nat /\ orders[o].kind.rate \in Nat /\ orders[o].kind.rateIn \in Currencies
      /\ RealQuantity(q) \in Nat
      /\ orders[o].status \in Open \cup Ended
  BY <1>1, PastTypes DEF Order, Status
<1>5. Opens(o)' - Opens(o) = (IF st = "SUCCESS" THEN -1 ELSE 0)
  BY <1>3, <1>4 DEF Opens, Is, WritesAfterEnd, Open, Ended
<1>6. TimesTaken(o)' - TimesTaken(o) = 0
  BY <1>3, <1>4 DEF TimesTaken, Is, Kept, Open, Ended
<1>7. past'[o].handed - past[o].handed = 0
  BY <1>3, <1>4
<1> DEFINE aside == IF st = "SUCCESS" THEN -q ELSE 0
<1>8. /\ q * (TimesTaken(o)' - TimesTaken(o)) = 0
      /\ orders[o].kind.rate * (TimesTaken(o)' - TimesTaken(o)) = 0
      /\ q * (Opens(o)' - Opens(o)) = aside
      /\ RealQuantity(q) * (past'[o].handed - past[o].handed) = 0
  BY <1>4, <1>5, <1>6, <1>7, Times
<1> HIDE DEF aside
<1>9. Ledger(orders[o].kind.rateIn, 0, 0, aside, 0)
  BY <1>2, <1>3, <1>8, OrderLedger
<1> QED BY <1>2, <1>9 DEF aside

LEMMA ConfirmLedger ==
  ASSUME OrdersOK, NEW o \in OrderIds, orders[o].status = "ING", Confirmed(o)
  PROVE  /\ OrdersOK' /\ OnlyOne(o)
         /\ Ledger(orders[o].kind.rateIn, 0, 0, -orders[o].kind.quantity,
                   IF orders[o].kind.type = "INNER" THEN RealQuantity(orders[o].kind.quantity) ELSE 0)
<1> DEFINE q == orders[o].kind.quantity
<1>1. /\ orders[o] \in Order /\ past[o] \in Pasts /\ "SUCCESS" \in Status
      /\ orders \in [OrderIds -> Order] /\ past \in [OrderIds -> Pasts]
  BY DEF OrdersOK, Status, Ended
<1>2. /\ past[o].handed \in Nat /\ past[o].reopened \in Nat /\ past[o].revived \in Nat
      /\ past[o].handed + 1 \in Nat
      /\ q \in Nat /\ orders[o].kind.rate \in Nat /\ orders[o].kind.rateIn \in Currencies
      /\ RealQuantity(q) \in Nat
  BY PastTypes
<1>3. /\ orders'[o] = WithStatus(orders[o], "SUCCESS")
      /\ past'[o] = [past[o] EXCEPT !.handed = past[o].handed + 1] /\ OnlyOne(o)
  BY <1>1 DEF Confirmed, OnlyOne
<1>4. past'[o] \in Pasts /\ past'[o].handed = past[o].handed + 1
      /\ past'[o].reopened = past[o].reopened /\ past'[o].revived = past[o].revived
  BY <1>1, <1>2, <1>3 DEF Pasts
<1>5. OrdersOK'
  BY <1>1, <1>3, <1>4, StatusFields DEF Confirmed, OrdersOK
<1>6. orders'[o].status = "SUCCESS" /\ orders'[o].kind = orders[o].kind
  BY <1>1, <1>3, StatusFields
<1>7. /\ Opens(o)' - Opens(o) = -1 /\ TimesTaken(o)' - TimesTaken(o) = 0
      /\ past'[o].handed - past[o].handed = 1
  BY <1>2, <1>4, <1>6 DEF Opens, TimesTaken, Is, WritesAfterEnd, Open, Kept
<1> DEFINE real == RealQuantity(q)
<1>8. /\ q * (TimesTaken(o)' - TimesTaken(o)) = 0
      /\ orders[o].kind.rate * (TimesTaken(o)' - TimesTaken(o)) = 0
      /\ q * (Opens(o)' - Opens(o)) = -q
      /\ real * (past'[o].handed - past[o].handed) = real
  BY <1>2, <1>7, Times
<1> DEFINE paid == IF orders[o].kind.type = "INNER" THEN real ELSE 0
<1> DEFINE aside == -q
<1>9. /\ aside = q * (Opens(o)' - Opens(o))
      /\ paid = IF orders[o].kind.type = "INNER" THEN real * (past'[o].handed - past[o].handed) ELSE 0
  BY <1>8
<1> HIDE DEF paid, aside
<1>10. Ledger(orders[o].kind.rateIn, 0, 0, aside, paid)
  BY <1>3, <1>5, <1>6, <1>8, <1>9, OrderLedger
<1> QED BY <1>3, <1>5, <1>10 DEF paid, aside

LEMMA RefuseLedger ==
  ASSUME OrdersOK, NEW o \in OrderIds, orders[o].status \in {"ING", "DOING"}, Refused(o)
  PROVE  /\ OrdersOK' /\ OnlyOne(o)
         /\ Ledger(orders[o].kind.rateIn, -orders[o].kind.quantity, -orders[o].kind.rate,
                   -orders[o].kind.quantity, 0)
<1> DEFINE q == orders[o].kind.quantity
<1>1. /\ orders[o] \in Order /\ past[o] \in Pasts /\ "FAIL" \in Status
      /\ orders \in [OrderIds -> Order] /\ past \in [OrderIds -> Pasts]
  BY DEF OrdersOK, Status, Ended
<1>2. /\ past[o].handed \in Nat /\ past[o].reopened \in Nat /\ past[o].revived \in Nat
      /\ past[o].refused + 1 \in Nat
      /\ q \in Nat /\ orders[o].kind.rate \in Nat /\ orders[o].kind.rateIn \in Currencies
      /\ RealQuantity(q) \in Nat
  BY PastTypes
<1>3. /\ orders'[o] = WithStatus(orders[o], "FAIL")
      /\ past'[o] = [past[o] EXCEPT !.refused = past[o].refused + 1] /\ OnlyOne(o)
  BY <1>1 DEF Refused, OnlyOne
<1>4. past'[o] \in Pasts /\ past'[o].handed = past[o].handed
      /\ past'[o].reopened = past[o].reopened /\ past'[o].revived = past[o].revived
  BY <1>1, <1>2, <1>3 DEF Pasts
<1>5. OrdersOK'
  BY <1>1, <1>3, <1>4, StatusFields DEF Refused, OrdersOK
<1>6. orders'[o].status = "FAIL" /\ orders'[o].kind = orders[o].kind
  BY <1>1, <1>3, StatusFields
<1>7. /\ Opens(o)' - Opens(o) = -1 /\ TimesTaken(o)' - TimesTaken(o) = -1
      /\ past'[o].handed - past[o].handed = 0
  BY <1>2, <1>4, <1>6 DEF Opens, TimesTaken, Is, WritesAfterEnd, Open, Kept
<1> DEFINE less == -q
<1> DEFINE fee == -orders[o].kind.rate
<1>8. /\ q * (TimesTaken(o)' - TimesTaken(o)) = less
      /\ orders[o].kind.rate * (TimesTaken(o)' - TimesTaken(o)) = fee
      /\ q * (Opens(o)' - Opens(o)) = less
      /\ RealQuantity(q) * (past'[o].handed - past[o].handed) = 0
  BY <1>2, <1>7, Times
<1> HIDE DEF less, fee
<1>9. Ledger(orders[o].kind.rateIn, less, fee, less, 0)
  BY <1>3, <1>5, <1>6, <1>8, OrderLedger
<1> QED BY <1>3, <1>5, <1>9 DEF less, fee

LEMMA MadeLedger ==
  ASSUME OrdersOK, UnmadeFit, NEW o \in OrderIds, NEW kind \in Kind, NEW st \in {"ING", "SUCCESS"},
         st = "SUCCESS" => kind.type = "INNER",
         orders[o].status = "NONE", Made(o, kind, st)
  PROVE  /\ OrdersOK' /\ OnlyOne(o)
         /\ Ledger(kind.rateIn, kind.quantity, kind.rate,
                   IF st = "SUCCESS" THEN 0 ELSE kind.quantity,
                   IF st = "SUCCESS" THEN RealQuantity(kind.quantity) ELSE 0)
<1> DEFINE q == kind.quantity
<1> DEFINE new == [status |-> st, kind |-> kind]
<1> DEFINE h == IF st = "SUCCESS" THEN 1 ELSE 0
<1> DEFINE k == IF st = "SUCCESS" THEN 0 ELSE 1
<1>1. /\ past[o] = NoPast /\ new \in Order
      /\ orders \in [OrderIds -> Order] /\ past \in [OrderIds -> Pasts]
      /\ h \in Nat /\ k \in Int
  BY DEF OrdersOK, UnmadeFit, Order, Status, Open, Ended
<1>2. /\ q \in Nat /\ kind.rate \in Nat /\ RealQuantity(q) \in Nat
  BY RealQuantityType DEF Kind
<1>3. orders'[o] = new /\ past'[o] = [past[o] EXCEPT !.handed = h] /\ OnlyOne(o)
  BY <1>1 DEF Made, OnlyOne
<1> HIDE DEF h
<1>4. past'[o] \in Pasts /\ past'[o].handed = h /\ past'[o].reopened = 0 /\ past'[o].revived = 0
  BY <1>1, <1>3 DEF Pasts, NoPast
<1>5. OrdersOK'
  BY <1>1, <1>3, <1>4 DEF Made, OrdersOK, h
<1>6. orders'[o].status = st /\ orders'[o].kind = kind
  BY <1>3
<1>7. /\ Opens(o) = 0 /\ TimesTaken(o) = 0 /\ past[o].handed = 0
  BY <1>1 DEF Opens, TimesTaken, Is, WritesAfterEnd, NoPast, Open, Kept
<1>8. /\ Opens(o)' - Opens(o) = k /\ TimesTaken(o)' - TimesTaken(o) = 1
      /\ past'[o].handed - past[o].handed = h
  BY <1>1, <1>4, <1>6, <1>7 DEF Opens, TimesTaken, Is, WritesAfterEnd, Open, Kept
<1> DEFINE aside == IF st = "SUCCESS" THEN 0 ELSE q
<1> DEFINE real == RealQuantity(q)
<1> DEFINE paid == IF st = "SUCCESS" THEN real ELSE 0
<1>9. /\ q * (TimesTaken(o)' - TimesTaken(o)) = q
      /\ kind.rate * (TimesTaken(o)' - TimesTaken(o)) = kind.rate
      /\ q * (Opens(o)' - Opens(o)) = aside
      /\ paid = IF kind.type = "INNER" THEN real * (past'[o].handed - past[o].handed) ELSE 0
  BY <1>1, <1>2, <1>8, Times DEF h
<1> HIDE DEF paid, aside
<1>10. Ledger(kind.rateIn, q, kind.rate, aside, paid)
  BY <1>1, <1>3, <1>5, <1>6, <1>7, <1>9, OrderLedger
<1> QED BY <1>3, <1>5, <1>10 DEF paid, aside

-----------------------------------------------------------------------------
(* Steps that move money.                                                  *)

BooksOK == wallet \in Wallets /\ received \in Nat /\ OrdersOK

\* What the step does to the wallets is what it does to the sums.
Balanced == \E feeIn \in Currencies, taken, fee, aside, paid \in Int :
    /\ Leads(wallet, wallet', feeIn, taken, fee, aside)
    /\ Ledger(feeIn, taken, fee, aside, paid)
    /\ received' = received + paid
    /\ UNCHANGED moved

LEMMA InvariantTypes ==
  ASSUME ExtractInvariant
  PROVE  /\ ExtractTypeOK /\ BooksOK /\ OrdersOK /\ UnmadeFit /\ RequestsFit /\ TasksFit
         /\ FeeCovered /\ ReadsFit
         /\ Coin \in Currencies /\ wallet[Coin] \in Row
BY ExtractAssumption DEF ExtractInvariant, ExtractTypeOK, BooksOK, OrdersOK, Wallets, WorkFits

LEMMA ApplyBooks ==
  ASSUME ExtractInvariant, ApplyCommit
  PROVE  /\ BooksOK' /\ Balanced
         /\ \E o \in OrderIds, kind \in Kind, st \in {"ING", "SUCCESS"} :
              orders[o].status = "NONE" /\ Made(o, kind, st)
<1> DEFINE kind == applying.kind
<1> DEFINE q == kind.quantity
<1> DEFINE c == kind.rateIn
<1> DEFINE st == IF ConfirmedAtOnce THEN "SUCCESS" ELSE "ING"
<1>1. /\ kind \in Kind /\ q \in Nat /\ kind.rate \in Nat /\ c \in Currencies
      /\ applying.read \in Row /\ applying.read.using >= kind.rate
      /\ ReadOf(wallet[c], applying.read) /\ SameVersion(wallet[c], applying.read)
      /\ CanMove(Charged[Coin], -q, q)
      /\ wallet \in Wallets /\ Coin \in Currencies /\ received \in Nat /\ OrdersOK /\ UnmadeFit
      /\ RealQuantity(q) \in Nat
  <2>1. applying \in Applications /\ applying.pc = "read" /\ CanApply
    BY DEF ExtractInvariant, ExtractTypeOK, ApplyCommit
  <2>2. kind \in Kind /\ applying.read \in Row
    BY <2>1 DEF Applications
  <2>3. q \in Nat /\ kind.rate \in Nat /\ c \in Currencies
    BY <2>2 DEF Kind
  <2> QED BY <2>1, <2>2, <2>3, InvariantTypes, RealQuantityType
          DEF FeeCovered, ReadsFit, CanApply, BooksOK
<1>2. Leads(wallet, Charged, c, 0, kind.rate, 0)
  <2> DEFINE d == -kind.rate
  <2>1. d \in Int /\ kind.rate + d = 0 /\ applying.read.using + d >= 0
    BY <1>1 DEF Row
  <2>2. UpdatesTo(wallet, Charged, c, applying.read, d)
    BY <1>1, <2>1 DEF Charged, UpdatesTo
  <2> HIDE DEF d
  <2> QED BY <1>1, <2>1, <2>2, LeadsUpdate
<1>3. Charged \in Wallets
  BY <1>2 DEF Leads
<1>4. Leads(Charged, SetAside, c, q, 0, q) /\ SetAside[Coin].freeze = Charged[Coin].freeze + q
  <2> DEFINE d == -q
  <2>1. d \in Int /\ q + d = 0 /\ CanMove(Charged[Coin], d, q)
    BY <1>1
  <2>2. MovesTo(Charged, SetAside, d, q)
    BY <2>1 DEF SetAside, MovesTo
  <2> HIDE DEF d
  <2> QED BY <1>1, <1>3, <2>1, <2>2, LeadsMove
<1>5. SetAside \in Wallets
  BY <1>4 DEF Leads
<1>6. Leads(wallet, SetAside, c, q, kind.rate, q)
  <2> DEFINE rate == kind.rate
  <2>1. /\ wallet \in Wallets /\ Charged \in Wallets /\ c \in Currencies
        /\ 0 \in Int /\ q \in Int /\ rate \in Int /\ q = 0 + q /\ rate = rate + 0
        /\ Leads(wallet, Charged, c, 0, rate, 0) /\ Leads(Charged, SetAside, c, q, 0, q)
    BY <1>1, <1>2, <1>3, <1>4
  <2>2. Leads(wallet, SetAside, c, q, rate, q)
    <3> HIDE DEF rate, q, c
    <3> QED BY <2>1, LeadsTrans
  <2> QED BY <2>2
<1> DEFINE aside == IF st = "SUCCESS" THEN 0 ELSE q
<1> DEFINE paid == IF st = "SUCCESS" THEN RealQuantity(q) ELSE 0
<1>7. Leads(wallet, wallet', c, q, kind.rate, aside)
  <2>1. CASE ~ConfirmedAtOnce
    BY <1>6, <2>1 DEF ApplyCommit
  <2>2. CASE ConfirmedAtOnce
    <3> DEFINE e == -q
    <3>1. e \in Int /\ 0 = q + e /\ q = q + 0 /\ kind.rate = kind.rate + 0 /\ 0 + 0 = 0
      BY <1>1
    <3>2. SetAside[Coin] \in Row /\ Charged[Coin] \in Row
      BY <1>1, <1>3, <1>5 DEF Wallets
    <3>3. CanMove(SetAside[Coin], 0, e)
      BY <1>1, <1>4, <3>2 DEF CanMove, Row
    <3>4. MovesTo(SetAside, wallet', 0, e)
      BY <2>2, <3>3 DEF ApplyCommit, MovesTo
    <3> HIDE DEF e
    <3>5. Leads(SetAside, wallet', c, 0, 0, e)
      <4>1. /\ SetAside \in Wallets /\ c \in Currencies /\ e \in Int /\ 0 \in Int /\ 0 + 0 = 0
            /\ MovesTo(SetAside, wallet', 0, e)
        BY <1>1, <1>5, <3>1, <3>4
      <4> HIDE DEF c
      <4> QED BY <4>1, LeadsMove
    <3> DEFINE rate == kind.rate
    <3>6. /\ wallet \in Wallets /\ SetAside \in Wallets /\ c \in Currencies
          /\ q \in Int /\ rate \in Int /\ e \in Int /\ 0 = q + e /\ q = q + 0 /\ rate = rate + 0
          /\ Leads(wallet, SetAside, c, q, rate, q) /\ Leads(SetAside, wallet', c, 0, 0, e)
      BY <1>1, <1>5, <1>6, <3>1, <3>5
    <3>7. Leads(wallet, wallet', c, q, rate, 0)
      <4> HIDE DEF rate, q, c
      <4> QED BY <3>6, LeadsTrans
    <3> QED BY <2>2, <3>7
  <2> QED BY <2>1, <2>2
<1>8. PICK o \in OrderIds : orders[o].status = "NONE" /\ Made(o, kind, st)
  BY DEF ApplyCommit, NextOrderId, Made
<1>9. /\ st \in {"ING", "SUCCESS"} /\ (st = "SUCCESS" => kind.type = "INNER")
      /\ received' = received + paid /\ UNCHANGED moved
  BY DEF ApplyCommit, ConfirmedAtOnce
<1> HIDE DEF st
<1>10. OrdersOK' /\ Ledger(c, q, kind.rate, aside, paid)
  BY <1>1, <1>8, <1>9, MadeLedger
<1>11. aside \in Int /\ paid \in Nat
  BY <1>1
<1> HIDE DEF aside, paid
<1>12. Balanced
  BY <1>1, <1>7, <1>9, <1>10, <1>11 DEF Balanced
<1>13. wallet' \in Wallets /\ received' \in Nat
  BY <1>1, <1>7, <1>9, <1>11 DEF Leads
<1> QED BY <1>1, <1>8, <1>9, <1>10, <1>12, <1>13 DEF BooksOK

\* Nothing is moved.
LEMMA QuietBooks ==
  ASSUME ExtractInvariant, UNCHANGED <<wallet, received, orders, past, moved>>
  PROVE  BooksOK' /\ Balanced
<1>1. /\ BooksOK /\ OrdersOK /\ Coin \in Currencies /\ wallet \in Wallets /\ received \in Nat
  BY InvariantTypes DEF BooksOK
<1>2. Leads(wallet, wallet', Coin, 0, 0, 0) /\ Ledger(Coin, 0, 0, 0, 0) /\ received' = received + 0
  BY <1>1, LeadsSame, SameLedger
<1> QED BY <1>1, <1>2 DEF BooksOK, OrdersOK, Balanced

LEMMA ConfirmBooks ==
  ASSUME ExtractInvariant, NEW o \in OrderIds, Confirm(o)
  PROVE  BooksOK' /\ Balanced /\ Confirmed(o)
<1> DEFINE q == orders[o].kind.quantity
<1> DEFINE c == orders[o].kind.rateIn
<1> DEFINE e == -q
<1> DEFINE paid == IF orders[o].kind.type = "INNER" THEN RealQuantity(q) ELSE 0
<1>1. /\ BooksOK /\ OrdersOK /\ Coin \in Currencies /\ wallet \in Wallets /\ received \in Nat
      /\ q \in Nat /\ c \in Currencies /\ RealQuantity(q) \in Nat
      /\ orders \in [OrderIds -> Order]
  BY InvariantTypes, PastTypes DEF BooksOK, OrdersOK
<1>2. Confirmed(o) /\ orders[o].status = "ING"
  BY <1>1 DEF Confirm, Confirmed, WithStatus
<1>3. /\ MovesTo(wallet, wallet', 0, e)
      /\ received' = received + paid /\ UNCHANGED moved /\ e \in Int /\ paid \in Nat
  BY <1>1 DEF Confirm, MovesTo
<1> HIDE DEF e
<1>4. wallet \in Wallets /\ c \in Currencies /\ e \in Int /\ MovesTo(wallet, wallet', 0, e) /\ 0 + 0 = 0
  BY <1>1, <1>3
<1>5. OrdersOK' /\ Ledger(c, 0, 0, e, paid)
  BY <1>1, <1>2, ConfirmLedger DEF e
<1> HIDE DEF paid, c
<1>6. Leads(wallet, wallet', c, 0, 0, e)
  BY <1>4, LeadsMove
<1>7. Balanced
  BY <1>1, <1>3, <1>5, <1>6 DEF Balanced
<1>8. wallet' \in Wallets /\ received' \in Nat
  BY <1>1, <1>3, <1>6 DEF Leads
<1> QED BY <1>2, <1>5, <1>7, <1>8 DEF BooksOK

\* A refusal gives the quantity back, and then the fee.
LEMMA RefuseBooks ==
  ASSUME ExtractInvariant, NEW a \in Admins, RefuseCommit(a)
  PROVE  /\ BooksOK' /\ Balanced
         /\ UNCHANGED <<orders, past>> \/ Refused(admin[a].order)
<1> DEFINE o == admin[a].order
<1> DEFINE q == orders[o].kind.quantity
<1> DEFINE rate == orders[o].kind.rate
<1> DEFINE c == orders[o].kind.rateIn
<1> DEFINE given == [wallet EXCEPT ![Coin] = Moved(@, q, -q)]
<1> DEFINE read == IF c = Coin THEN given[Coin] ELSE admin[a].read
<1>1. o \in OrderIds /\ admin[a].read \in Row
  BY DEF ExtractInvariant, ExtractTypeOK, Requests
<1>2. /\ OrdersOK /\ Coin \in Currencies /\ wallet \in Wallets /\ received \in Nat
      /\ q \in Nat /\ rate \in Nat /\ c \in Currencies
      /\ orders \in [OrderIds -> Order]
  BY <1>1, InvariantTypes, PastTypes DEF BooksOK, OrdersOK
<1>3. /\ orders[o].status \in {"ING", "DOING"} /\ ReadOf(wallet[c], admin[a].read)
      /\ UNCHANGED <<received, moved>>
  BY InvariantTypes DEF RefuseCommit, RequestsFit, ReadsFit
<1>4. CASE UNCHANGED <<orders, past, wallet>>
  BY <1>3, <1>4, QuietBooks
<1>5. CASE ~UNCHANGED <<orders, past, wallet>>
  <2>1. /\ CanMove(wallet[Coin], q, -q) /\ SameVersion(given[c], read)
        /\ orders' = [orders EXCEPT ![o].status = "FAIL"]
        /\ past' = [past EXCEPT ![o].refused = @ + 1]
        /\ wallet' = [given EXCEPT ![c] = Updated(@, read, rate)]
    BY <1>5 DEF RefuseCommit
  <2>2. Refused(o)
    BY <1>1, <1>2, <2>1 DEF Refused, WithStatus
  <2> DEFINE d == -q
  <2> DEFINE back == -rate
  <2>3. /\ d \in Int /\ back \in Int /\ d + q = 0 /\ back + rate = 0
        /\ d = d + 0 /\ back = 0 + back
    BY <1>2, Minus
  <2>4. Leads(wallet, given, c, d, 0, d)
    <3>1. /\ wallet \in Wallets /\ c \in Currencies /\ q \in Int /\ d \in Int /\ d + q = 0
          /\ MovesTo(wallet, given, q, d)
      <4>1. MovesTo(wallet, given, q, d)
        BY <2>1 DEF MovesTo
      <4> HIDE DEF given, d, c, q
      <4> QED BY <1>2, <2>3, <4>1
    <3> HIDE DEF given, d, c, q
    <3> QED BY <3>1, LeadsMove
  <2>5. given \in Wallets /\ given[c] \in Row /\ given[Coin] \in Row /\ (c # Coin => given[c] = wallet[c])
    BY <1>2, <2>4 DEF Leads, Wallets
  <2> HIDE DEF given
  <2>6. read \in Row /\ ReadOf(given[c], read) /\ read.using + rate >= 0
    <3>1. read \in Row /\ ReadOf(given[c], read)
      BY <1>1, <1>3, <2>5, FollowsSame
    <3> QED BY <1>2, <3>1 DEF Row
  <2>7. Leads(given, wallet', c, 0, back, 0)
    <3>1. /\ given \in Wallets /\ c \in Currencies /\ read \in Row /\ rate \in Int
          /\ back \in Int /\ back + rate = 0 /\ UpdatesTo(given, wallet', c, read, rate)
      <4>1. UpdatesTo(given, wallet', c, read, rate)
        BY <2>1, <2>6 DEF UpdatesTo
      <4> HIDE DEF read, back, rate, c
      <4> QED BY <1>2, <2>3, <2>5, <2>6, <4>1
    <3> HIDE DEF read, back, rate, c
    <3> QED BY <3>1, LeadsUpdate
  <2>8. OrdersOK' /\ Ledger(c, d, back, d, 0)
    BY <1>1, <1>2, <1>3, <2>2, RefuseLedger
  <2> HIDE DEF d, back
  <2>9. Leads(wallet, wallet', c, d, back, d)
    <3> HIDE DEF c
    <3>1. wallet \in Wallets /\ given \in Wallets /\ c \in Currencies /\ d \in Int /\ back \in Int
      BY <1>2, <2>3, <2>5
    <3>2. d = d + 0 /\ back = 0 + back
      BY <3>1
    <3> QED BY <3>1, <3>2, <2>4, <2>7, LeadsTrans
  <2>10. c \in Currencies /\ d \in Int /\ back \in Int
    BY <1>2, <2>3
  <2>11. received' = received + 0 /\ UNCHANGED moved
    BY <1>2, <1>3
  <2>12. Balanced
    <3> HIDE DEF c
    <3> QED BY <2>8, <2>9, <2>10, <2>11 DEF Balanced
  <2>13. wallet' \in Wallets /\ received' \in Nat
    BY <1>2, <1>3, <2>9 DEF Leads
  <2> QED BY <2>2, <2>8, <2>12, <2>13 DEF BooksOK
<1> QED BY <1>4, <1>5

\* An order is written again; with a success its amount is collected.
LEMMA RewriteBooks ==
  ASSUME ExtractInvariant, NEW o \in OrderIds, NEW st \in Open \cup {"SUCCESS"},
         orders[o].status # "NONE", Rewritten(o, st), UNCHANGED <<received, moved>>,
         IF st = "SUCCESS" THEN MovesTo(wallet, wallet', 0, -orders[o].kind.quantity)
                           ELSE UNCHANGED wallet
  PROVE  BooksOK' /\ Balanced
<1> DEFINE q == orders[o].kind.quantity
<1> DEFINE c == orders[o].kind.rateIn
<1> DEFINE aside == IF st = "SUCCESS" THEN -q ELSE 0
<1>1. /\ OrdersOK /\ Coin \in Currencies /\ wallet \in Wallets /\ received \in Nat
      /\ q \in Nat /\ c \in Currencies
  BY InvariantTypes, PastTypes DEF BooksOK
<1>2. OrdersOK' /\ Ledger(c, 0, 0, aside, 0)
  BY <1>1, RewriteLedger
<1>3. Leads(wallet, wallet', c, 0, 0, aside) /\ aside \in Int
  <2>1. CASE st = "SUCCESS"
    <3> DEFINE e == -q
    <3>1. e \in Int /\ MovesTo(wallet, wallet', 0, e)
      BY <1>1, <2>1
    <3>2. 0 + 0 = 0
      OBVIOUS
    <3> HIDE DEF e
    <3>3. Leads(wallet, wallet', c, 0, 0, e)
      BY <1>1, <3>1, <3>2, LeadsMove
    <3> QED BY <2>1, <3>1, <3>3 DEF e
  <2>2. CASE st # "SUCCESS"
    BY <1>1, <2>2, LeadsSame
  <2> QED BY <2>1, <2>2
<1>4. received' = received + 0
  BY <1>1
<1> HIDE DEF aside
<1>5. Balanced
  BY <1>1, <1>2, <1>3, <1>4 DEF Balanced
<1>6. wallet' \in Wallets /\ received' \in Nat
  BY <1>1, <1>3 DEF Leads
<1> QED BY <1>2, <1>5, <1>6 DEF BooksOK

-----------------------------------------------------------------------------
(* Steps that change orders.                                               *)

\* A confirmation and what a task writes wait for the lock; a refusal has it.
OrdersStep ==
    \/ UNCHANGED <<orders, past>>
    \/ \E o \in OrderIds, kind \in Kind, st \in {"ING", "SUCCESS"} :
         orders[o].status = "NONE" /\ Made(o, kind, st)
    \/ \E o \in OrderIds : orders[o].status = "ING" /\ ~Locked(o) /\ Confirmed(o)
    \/ \E a \in Admins : admin[a].pc = "refuse" /\ Refused(admin[a].order) /\ Done(a)
    \/ \E o \in OrderIds, st \in Open \cup {"SUCCESS"} :
         /\ orders[o].status # "NONE" /\ Rewritten(o, st)
         /\ st = "DOING" \/ ~Locked(o)

\* What is written again is a new status and its mark in the history.
LEMMA WrittenPast ==
  ASSUME OrdersOK, NEW o \in OrderIds, WrittenAgain(o)
  PROVE  past' = [past EXCEPT ![o] = Again(past[o], orders[o].status)]
<1>1. past \in [OrderIds -> Pasts] /\ past[o] \in Pasts
  BY DEF OrdersOK
<1> DEFINE a == past[o].reopened + (IF orders[o].status = "SUCCESS" THEN 1 ELSE 0)
<1> DEFINE b == past[o].revived + (IF orders[o].status = "FAIL" THEN 1 ELSE 0)
<1> DEFINE mid == [past EXCEPT ![o] = [past[o] EXCEPT !.reopened = a]]
<1>2. mid[o].revived = past[o].revived
  BY <1>1 DEF Pasts
<1>3. past' = [mid EXCEPT ![o] = [mid[o] EXCEPT !.revived = b]]
  BY <1>1, <1>2 DEF WrittenAgain
<1>4. Again(past[o], orders[o].status) = [past[o] EXCEPT !.reopened = a, !.revived = b]
  BY DEF Again
<1> HIDE DEF a, b
<1>5. [mid[o] EXCEPT !.revived = b] = [past[o] EXCEPT !.reopened = a, !.revived = b]
  BY <1>1 DEF Pasts
<1>6. past' = [past EXCEPT ![o] = [past[o] EXCEPT !.reopened = a, !.revived = b]]
  BY <1>1, <1>3, <1>5
<1> QED BY <1>4, <1>6

\* A task writes the order it has read back with another status.
LEMMA TaskWrites ==
  ASSUME ExtractInvariant, NEW p \in Pollers, poller[p].pc = "read", NEW st \in Status, Write(p, st)
  PROVE  /\ poller[p].order \in OrderIds /\ orders[poller[p].order].status # "NONE"
         /\ poller[p].read.kind = orders[poller[p].order].kind
         /\ Rewritten(poller[p].order, st)
<1> DEFINE o == poller[p].order
<1>1. poller[p] \in Tasks
  BY DEF ExtractInvariant, ExtractTypeOK
<1>2. o \in OrderIds /\ poller[p].read \in Order
  BY <1>1 DEF Tasks
<1>3. OrdersOK /\ orders[o] \in Order /\ orders[o].status # "NONE" /\ poller[p].read.kind = orders[o].kind
  BY <1>2, InvariantTypes DEF OrdersOK, TasksFit
<1>4. [poller[p].read EXCEPT !.status = st] = [orders[o] EXCEPT !.status = st]
  BY <1>2, <1>3 DEF Order
<1>5. orders' = [orders EXCEPT ![o] = WithStatus(orders[o], st)] /\ WrittenAgain(o)
  BY <1>4 DEF Write, WithStatus
<1> QED BY <1>2, <1>3, <1>5, WrittenPast DEF Rewritten

\* Steps that neither move money nor write an order.
Quiet ==
    \/ \E kind \in Kinds : ApplyRead(kind)
    \/ ApplyFails \/ Crash
    \/ \E o \in OrderIds : OutsideEnds(o)
    \/ \E a \in Admins : PushRefused(a) \/ PushLost(a)
    \/ \E a \in Admins, o \in OrderIds : RefuseRead(a, o) \/ AskPush(a, o) \/ AskRetry(a, o)
    \/ \E p \in Pollers : TaskAsks(p) \/ TaskIgnores(p) \/ TaskRead(p) \/ TaskSkips(p)
    \/ \E p \in Pollers, o \in OrderIds : Query(p, o)
    \/ UNCHANGED vars

\* The others, movements by others apart.
Busy ==
    \/ ApplyCommit
    \/ \E o \in OrderIds : Confirm(o)
    \/ \E a \in Admins : RefuseCommit(a) \/ Push(a) \/ Retry(a)
    \/ \E p \in Pollers : DoSuccess(p) \/ DoWait(p) \/ TaskFails(p)

Others == \E c \in Currencies : OtherMove(c, 1, 0) \/ OtherMove(c, -1, 1)

LEMMA Steps == [ExtractNext]_vars <=> Quiet \/ Busy \/ Others
BY DEF ExtractNext, AdminStep, TaskStep, Quiet, Busy, Others

LEMMA QuietStep ==
  ASSUME ExtractInvariant, Quiet
  PROVE  BooksOK' /\ Balanced /\ OrdersStep
<1>1. UNCHANGED <<wallet, received, orders, past, moved>>
  BY DEF Quiet, vars, ApplyRead, ApplyFails, Crash, OutsideEnds, PushRefused, PushLost, RefuseRead,
         AskPush, AskRetry, Begin, TaskAsks, TaskIgnores, TaskRead, TaskSkips, TaskEnds, TaskMoves, Query
<1> QED BY <1>1, QuietBooks DEF OrdersStep

LEMMA BusyStep ==
  ASSUME ExtractInvariant, Busy
  PROVE  BooksOK' /\ Balanced /\ OrdersStep
<1>0. OrdersOK /\ \A a \in Admins : admin[a].order \in OrderIds
  BY InvariantTypes DEF ExtractTypeOK, Requests
<1>1. CASE ApplyCommit
  BY <1>1, ApplyBooks DEF OrdersStep
<1>2. ASSUME NEW o \in OrderIds, Confirm(o)
      PROVE  BooksOK' /\ Balanced /\ OrdersStep
  <2>1. BooksOK' /\ Balanced /\ Confirmed(o)
    BY <1>2, ConfirmBooks
  <2> QED BY <1>2, <2>1 DEF OrdersStep, Confirm
<1>3. ASSUME NEW a \in Admins, RefuseCommit(a)
      PROVE  BooksOK' /\ Balanced /\ OrdersStep
  <2>1. BooksOK' /\ Balanced /\ (UNCHANGED <<orders, past>> \/ Refused(admin[a].order))
    BY <1>3, RefuseBooks
  <2> QED BY <1>3, <2>1 DEF OrdersStep, RefuseCommit
<1>4. ASSUME NEW a \in Admins, Push(a)
      PROVE  BooksOK' /\ Balanced /\ OrdersStep
  <2> DEFINE o == admin[a].order
  <2>1. o \in OrderIds /\ past[o] \in Pasts /\ past \in [OrderIds -> Pasts]
    BY <1>0 DEF OrdersOK
  <2>2. /\ orders[o].status \in {"ING", "DOING"} /\ UNCHANGED <<wallet, received, past, moved>>
        /\ orders' = [orders EXCEPT ![o] = WithStatus(orders[o], "DOING")]
    BY <1>4, <2>1, <1>0 DEF Push, Pushable, WithStatus, OrdersOK
  <2>3. Again(past[o], orders[o].status) = past[o]
    BY <2>1, <2>2, PastSame DEF Ended
  <2>4. Rewritten(o, "DOING")
    BY <2>1, <2>2, <2>3 DEF Rewritten
  <2>5. "DOING" \in Open \cup {"SUCCESS"} /\ orders[o].status # "NONE"
    BY <2>2 DEF Open
  <2> QED BY <2>1, <2>2, <2>4, <2>5, RewriteBooks DEF OrdersStep
<1>5. ASSUME NEW a \in Admins, Retry(a)
      PROVE  BooksOK' /\ Balanced /\ OrdersStep
  <2> DEFINE o == admin[a].order
  <2>1. o \in OrderIds /\ orders[o].status # "NONE"
    BY <1>0, <1>5, InvariantTypes DEF Retry, RequestsFit
  <2>2. /\ UNCHANGED <<wallet, received, moved>> /\ WrittenAgain(o)
        /\ orders' = [orders EXCEPT ![o] = WithStatus(orders[o], "DOING")]
    BY <1>5, <2>1, <1>0 DEF Retry, WithStatus, OrdersOK
  <2>3. Rewritten(o, "DOING")
    BY <1>0, <2>1, <2>2, WrittenPast DEF Rewritten
  <2>4. "DOING" \in Open \cup {"SUCCESS"}
    BY DEF Open
  <2> QED BY <2>1, <2>2, <2>3, <2>4, RewriteBooks DEF OrdersStep
<1>6. ASSUME NEW p \in Pollers, DoSuccess(p)
      PROVE  BooksOK' /\ Balanced /\ OrdersStep
  <2> DEFINE o == poller[p].order
  <2>1. /\ poller[p].pc = "read" /\ ~Locked(o) /\ Write(p, "SUCCESS") /\ UNCHANGED <<received, moved>>
        /\ MovesTo(wallet, wallet', 0, -poller[p].read.kind.quantity)
    BY <1>6 DEF DoSuccess, TaskEnds, MovesTo
  <2>2. "SUCCESS" \in Status /\ "SUCCESS" \in Open \cup {"SUCCESS"}
    BY DEF Status, Ended
  <2>3. /\ o \in OrderIds /\ orders[o].status # "NONE" /\ Rewritten(o, "SUCCESS")
        /\ MovesTo(wallet, wallet', 0, -orders[o].kind.quantity)
    BY <2>1, <2>2, TaskWrites
  <2> QED BY <2>1, <2>2, <2>3, RewriteBooks DEF OrdersStep
<1>7. ASSUME NEW p \in Pollers, NEW st \in {"ING", "ERROR"}, TaskEnds(p), Write(p, st), UNCHANGED wallet
      PROVE  BooksOK' /\ Balanced /\ OrdersStep
  <2> DEFINE o == poller[p].order
  <2>1. poller[p].pc = "read" /\ ~Locked(o) /\ UNCHANGED <<received, moved>>
    BY <1>7 DEF TaskEnds
  <2>2. st \in Status /\ st \in Open \cup {"SUCCESS"} /\ st # "SUCCESS"
    BY DEF Status, Open
  <2>3. o \in OrderIds /\ orders[o].status # "NONE" /\ Rewritten(o, st)
    BY <1>7, <2>1, <2>2, TaskWrites
  <2> QED BY <1>7, <2>1, <2>2, <2>3, RewriteBooks DEF OrdersStep
<1> QED BY <1>1, <1>2, <1>3, <1>4, <1>5, <1>6, <1>7 DEF Busy, DoWait, TaskFails
\* A movement by others moves one row and its account.
OtherLeads(c, d, e) ==
    /\ \A w \in Currencies :
        /\ Follows(wallet[w], wallet'[w])
        /\ Owned(wallet'[w]) = Owned(wallet[w]) + (IF w = c THEN d ELSE 0)
        /\ Held(wallet'[w]) = Held(wallet[w]) + (IF w = c THEN e ELSE 0)
        /\ moved'[w].using = moved[w].using + (IF w = c THEN d ELSE 0)
        /\ moved'[w].freeze = moved[w].freeze + (IF w = c THEN e ELSE 0)
    /\ moved' \in [Currencies -> [using : Int, freeze : Int]]
    /\ UNCHANGED <<received, orders, past>>

LEMMA OtherStep ==
  ASSUME ExtractInvariant, NEW c \in Currencies, NEW d \in Int, NEW e \in Int, OtherMove(c, d, e)
  PROVE  BooksOK' /\ OrdersStep /\ OtherLeads(c, d, e)
<1> DEFINE new == Moved(wallet[c], d, e)
<1> DEFINE u == moved[c].using + d
<1> DEFINE f == moved[c].freeze + e
<1> DEFINE mew == [using |-> u, freeze |-> f]
<1>1. /\ wallet \in Wallets /\ wallet[c] \in Row /\ received \in Nat /\ OrdersOK
      /\ moved \in [Currencies -> [using : Int, freeze : Int]]
  BY InvariantTypes DEF BooksOK, ExtractTypeOK, Wallets
<1>2. /\ CanMove(wallet[c], d, e) /\ wallet' = [wallet EXCEPT ![c] = new]
      /\ moved' = [moved EXCEPT ![c] = mew] /\ UNCHANGED <<received, orders, past>>
  BY DEF OtherMove
<1>3. /\ new \in Row /\ Owned(new) = Owned(wallet[c]) + d /\ Held(new) = Held(wallet[c]) + e
      /\ Follows(wallet[c], new)
  BY <1>1, <1>2, MovedRow
<1>4. u \in Int /\ f \in Int
  BY <1>1
<1> HIDE DEF new, u, f
<1>5. mew \in [using : Int, freeze : Int] /\ mew.using = u /\ mew.freeze = f
  BY <1>4
<1> HIDE DEF mew
<1>6. /\ wallet' \in Wallets /\ moved' \in [Currencies -> [using : Int, freeze : Int]]
      /\ wallet'[c] = new /\ moved'[c] = mew
      /\ \A w \in Currencies : w # c => wallet'[w] = wallet[w] /\ moved'[w] = moved[w]
  BY <1>1, <1>2, <1>3, <1>5 DEF Wallets
<1>7. ASSUME NEW w \in Currencies
      PROVE  /\ Follows(wallet[w], wallet'[w])
             /\ Owned(wallet'[w]) = Owned(wallet[w]) + (IF w = c THEN d ELSE 0)
             /\ Held(wallet'[w]) = Held(wallet[w]) + (IF w = c THEN e ELSE 0)
  <2>1. wallet[w] \in Row /\ Owned(wallet[w]) \in Int /\ Held(wallet[w]) \in Int /\ Follows(wallet[w], wallet[w])
    BY <1>1, RowAmounts, FollowsSame DEF Wallets
  <2> QED BY <1>3, <1>6, <2>1
<1>8. ASSUME NEW w \in Currencies
      PROVE  /\ moved'[w].using = moved[w].using + (IF w = c THEN d ELSE 0)
             /\ moved'[w].freeze = moved[w].freeze + (IF w = c THEN e ELSE 0)
  <2>1. moved[w].using \in Int /\ moved[w].freeze \in Int
    BY <1>1
  <2> QED BY <1>5, <1>6, <2>1 DEF u, f
<1>9. OrdersOK'
  BY <1>1, <1>2 DEF OrdersOK
<1> QED BY <1>1, <1>2, <1>6, <1>7, <1>8, <1>9 DEF BooksOK, OrdersStep, OtherLeads

\* What every step does to the books.
LEMMA BooksStep ==
  ASSUME ExtractInvariant, [ExtractNext]_vars
  PROVE  /\ BooksOK' /\ OrdersStep
         /\ \/ Balanced
            \/ \E c \in Currencies, d, e \in Int : OtherLeads(c, d, e)
         /\ moved' \in [Currencies -> [using : Int, freeze : Int]]
<1>1. moved \in [Currencies -> [using : Int, freeze : Int]]
  BY InvariantTypes DEF ExtractTypeOK
<1>2. ASSUME BooksOK', Balanced, OrdersStep
      PROVE  /\ BooksOK' /\ OrdersStep
             /\ \/ Balanced
                \/ \E c \in Currencies, d, e \in Int : OtherLeads(c, d, e)
             /\ moved' \in [Currencies -> [using : Int, freeze : Int]]
  BY <1>1, <1>2 DEF Balanced
<1>3. CASE Quiet
  BY <1>2, <1>3, QuietStep
<1>4. CASE Busy
  BY <1>2, <1>4, BusyStep
<1>5. ASSUME NEW c \in Currencies, NEW d \in Int, NEW e \in Int, OtherMove(c, d, e)
      PROVE  /\ BooksOK' /\ OrdersStep
             /\ \/ Balanced
                \/ \E w \in Currencies, x, y \in Int : OtherLeads(w, x, y)
             /\ moved' \in [Currencies -> [using : Int, freeze : Int]]
  <2>1. BooksOK' /\ OrdersStep /\ OtherLeads(c, d, e)
    BY <1>5, OtherStep
  <2> QED BY <2>1 DEF OtherLeads
<1>6. CASE Others
  <2>1. 1 \in Int /\ 0 \in Int /\ -1 \in Int
    OBVIOUS
  <2> QED BY <1>5, <1>6, <2>1 DEF Others
<1> QED BY <1>3, <1>4, <1>6, Steps

\* A row that changes is a later state of what it was.
LEMMA RowsFollow ==
  ASSUME ExtractInvariant, [ExtractNext]_vars
  PROVE  \A c \in Currencies : wallet[c] \in Row /\ wallet'[c] \in Row /\ Follows(wallet[c], wallet'[c])
<1>1. wallet \in Wallets /\ wallet' \in Wallets
  BY InvariantTypes, BooksStep DEF BooksOK
<1>2. \A c \in Currencies : Follows(wallet[c], wallet'[c])
  BY BooksStep DEF Balanced, Leads, OtherLeads
<1> QED BY <1>1, <1>2 DEF Wallets

-----------------------------------------------------------------------------
(* Freezing and money.                                                     *)

LEMMA FreezeStep ==
  ASSUME ExtractInvariant, FreezeExplained, [ExtractNext]_vars
  PROVE  FreezeExplained'
<1> DEFINE aside == SetAsideTotal
<1>1. /\ \A c \in Currencies : wallet[c] \in Row /\ wallet'[c] \in Row
      /\ moved \in [Currencies -> [using : Int, freeze : Int]]
      /\ moved' \in [Currencies -> [using : Int, freeze : Int]]
      /\ OrdersOK /\ OrdersOK' /\ Coin \in Currencies
  BY InvariantTypes, RowsFollow, BooksStep DEF BooksOK, ExtractTypeOK
<1>2. aside \in Int
  BY <1>1, BookTypes
<1>3. ASSUME NEW c \in Currencies
      PROVE  wallet'[c].freeze = moved'[c].freeze + (IF c = Coin THEN aside' ELSE 0) - wallet'[c].lostFreeze
  <2>1. Held(wallet[c]) = moved[c].freeze + (IF c = Coin THEN aside ELSE 0)
    BY <1>1, <1>2 DEF FreezeExplained, Held, Row
  <2>2. Held(wallet'[c]) = moved'[c].freeze + (IF c = Coin THEN aside' ELSE 0)
    <3>1. CASE Balanced
      <4>1. PICK more \in Int : /\ Held(wallet'[c]) = Held(wallet[c]) + (IF c = Coin THEN more ELSE 0)
                                /\ aside' = aside + more /\ UNCHANGED moved
        BY <3>1 DEF Balanced, Leads, Ledger
      <4>2. moved[c].freeze \in Int
        BY <1>1
      <4> HIDE DEF aside
      <4> QED BY <1>2, <2>1, <4>1, <4>2
    <3>2. ASSUME NEW w \in Currencies, NEW d \in Int, NEW e \in Int, OtherLeads(w, d, e)
          PROVE  Held(wallet'[c]) = moved'[c].freeze + (IF c = Coin THEN aside' ELSE 0)
      <4>1. /\ Held(wallet'[c]) = Held(wallet[c]) + (IF c = w THEN e ELSE 0)
            /\ moved'[c].freeze = moved[c].freeze + (IF c = w THEN e ELSE 0)
            /\ UNCHANGED <<orders, past>>
        BY <3>2 DEF OtherLeads
      <4>2. aside' = aside
        BY <4>1 DEF SetAsideTotal, SetAsideFor, WritesAfterEnd, Is
      <4>3. moved[c].freeze \in Int
        BY <1>1
      <4> HIDE DEF aside
      <4> QED BY <1>2, <2>1, <4>1, <4>2, <4>3
    <3> QED BY <3>1, <3>2, BooksStep
  <2>3. /\ wallet'[c].freeze \in Int /\ wallet'[c].lostFreeze \in Int /\ moved'[c].freeze \in Int
        /\ aside' \in Int
    <3>1. OrdersOK' => SetAsideTotal' \in Int
      BY TotalsTypedNext, <1>1
    <3> QED BY <1>1, <3>1 DEF Row
  <2> HIDE DEF aside
  <2> QED BY <2>2, <2>3 DEF Held
<1> QED BY <1>3 DEF FreezeExplained
LEMMA MoneyStep ==
  ASSUME ExtractInvariant, MoneyExplained, [ExtractNext]_vars
  PROVE  MoneyExplained'
<1>1. /\ \A c \in Currencies : wallet[c] \in Row /\ wallet'[c] \in Row
      /\ moved \in [Currencies -> [using : Int, freeze : Int]]
      /\ moved' \in [Currencies -> [using : Int, freeze : Int]]
      /\ OrdersOK /\ OrdersOK' /\ Coin \in Currencies
      /\ Deposit \in [Currencies -> Nat] /\ received \in Nat
  BY ExtractAssumption, InvariantTypes, RowsFollow, BooksStep DEF BooksOK, ExtractTypeOK
<1>2. PaidTotal \in Int
  BY <1>1, BookTypes
<1>3. ASSUME NEW c \in Currencies
      PROVE  wallet'[c].using = Deposit[c] + moved'[c].using - TakenTotal(c)' - FeeTotal(c)'
                                - wallet'[c].lostUsing
  <2> DEFINE taken == TakenTotal(c)
  <2> DEFINE fees == FeeTotal(c)
  <2>1. /\ taken \in Int /\ fees \in Int /\ moved[c].using \in Int /\ Deposit[c] \in Int
        /\ moved'[c].using \in Int /\ wallet'[c].using \in Int /\ wallet'[c].lostUsing \in Int
    BY <1>1, BookTypes DEF Row
  <2>2. taken' \in Int /\ fees' \in Int
    BY <1>1, TotalsTypedNext
  <2>3. Owned(wallet[c]) = Deposit[c] + moved[c].using - taken - fees
    BY <1>1, <2>1 DEF MoneyExplained, Owned, Row
  <2>4. Owned(wallet'[c]) = Deposit[c] + moved'[c].using - taken' - fees'
    <3>1. CASE Balanced
      <4>1. PICK feeIn \in Currencies, t \in Int, f \in Int :
              /\ Owned(wallet'[c]) = Owned(wallet[c]) - (IF c = Coin THEN t ELSE 0)
                                                      - (IF c = feeIn THEN f ELSE 0)
              /\ taken' = taken + (IF c = Coin THEN t ELSE 0)
              /\ fees' = fees + (IF c = feeIn THEN f ELSE 0)
              /\ UNCHANGED moved
        BY <3>1 DEF Balanced, Leads, Ledger
      <4> HIDE DEF taken, fees
      <4> QED BY <2>1, <2>3, <4>1
    <3>2. ASSUME NEW w \in Currencies, NEW d \in Int, NEW e \in Int, OtherLeads(w, d, e)
          PROVE  Owned(wallet'[c]) = Deposit[c] + moved'[c].using - taken' - fees'
      <4>1. /\ Owned(wallet'[c]) = Owned(wallet[c]) + (IF c = w THEN d ELSE 0)
            /\ moved'[c].using = moved[c].using + (IF c = w THEN d ELSE 0)
            /\ UNCHANGED <<orders, past>>
        BY <3>2 DEF OtherLeads
      <4>2. taken' = taken /\ fees' = fees
        BY <4>1 DEF TakenTotal, FeeTotal, TakenFor, FeeFor, TimesTaken, Is
      <4> HIDE DEF taken, fees
      <4> QED BY <2>1, <2>3, <4>1, <4>2
    <3> QED BY <3>1, <3>2, BooksStep
  <2> HIDE DEF taken, fees
  <2>5. wallet'[c].using = Deposit[c] + moved'[c].using - taken' - fees' - wallet'[c].lostUsing
    <3> DEFINE u == wallet'[c].using
    <3> DEFINE l == wallet'[c].lostUsing
    <3> DEFINE m == moved'[c].using
    <3> DEFINE owned == Owned(wallet'[c])
    <3>1. owned = u + l
      BY DEF Owned
    <3>2. u \in Int /\ l \in Int /\ m \in Int /\ Deposit[c] \in Int
      BY <2>1
    <3>3. owned = Deposit[c] + m - taken' - fees'
      BY <2>4
    <3> HIDE DEF u, l, m, owned
    <3>4. u = Deposit[c] + m - taken' - fees' - l
      BY <2>2, <3>1, <3>2, <3>3
    <3> QED BY <3>4 DEF u, l, m
  <2> QED BY <2>5 DEF taken, fees
<1>4. received' = PaidTotal'
  <2>1. received = PaidTotal
    BY DEF MoneyExplained
  <2>2. CASE Balanced
    <3>1. PICK more \in Int : received' = received + more /\ PaidTotal' = PaidTotal + more
      BY <2>2 DEF Balanced, Ledger
    <3> QED BY <1>2, <2>1, <3>1
  <2>3. CASE UNCHANGED <<received, orders, past>>
    <3>1. PaidTotal' = PaidTotal
      BY <2>3 DEF PaidTotal, PaidInside
    <3> QED BY <2>1, <2>3, <3>1
  <2> QED BY <2>2, <2>3, BooksStep DEF OtherLeads
<1> QED BY <1>3, <1>4 DEF MoneyExplained

-----------------------------------------------------------------------------
(* What is under way.                                                      *)

\* Requests and tasks end, or one of them begins or goes on with an order that
\* exists; a refusal begins with an order to be confirmed that is not locked.
AdminsStep ==
    \/ admin' \in [Admins -> Requests] /\ \A a \in Admins : admin'[a] \in {admin[a], IdleAdmin}
    \/ \E a \in Admins, request \in Requests :
        /\ admin' = [admin EXCEPT ![a] = request] /\ UNCHANGED <<wallet, orders, past>>
        /\ orders[request.order].status # "NONE"
        /\ request.pc = "refuse" =>
            /\ orders[request.order].status = "ING" /\ ~Locked(request.order)
            /\ request.read = wallet[orders[request.order].kind.rateIn]
TasksStep ==
    \/ poller' \in [Pollers -> Tasks] /\ \A p \in Pollers : poller'[p] \in {poller[p], IdlePoller}
    \/ \E p \in Pollers, task \in Tasks :
        /\ poller' = [poller EXCEPT ![p] = task] /\ UNCHANGED orders
        /\ orders[task.order].status # "NONE"
        /\ task.pc = "read" => task.read = orders[task.order]
ApplyingStep ==
    \/ applying' \in {applying, NotApplying}
    \/ /\ UNCHANGED wallet /\ applying' \in Applications
       /\ applying'.read = wallet[applying'.kind.rateIn]
       /\ applying'.read.using >= applying'.kind.rate
OutsideStep ==
    /\ outside' \in [OrderIds -> {"none", "asked", "paid", "cancelled"}]
    /\ \A o \in OrderIds : orders[o].status = "NONE" => outside'[o] = outside[o]
RestOK == doubtful' \subseteq OrderIds /\ listed' \in Nat /\ events' \in Nat

WorkStep == AdminsStep /\ TasksStep /\ ApplyingStep /\ OutsideStep /\ RestOK

LEMMA IdleTypes ==
  /\ NotApplying \in Applications /\ IdleAdmin \in Requests /\ IdlePoller \in Tasks
  /\ NoRow \in Row /\ NoOrder \in Order /\ NoPast \in Pasts /\ 1 \in OrderIds
<1>1. 1 \in OrderIds /\ Coin \in Currencies
  BY ExtractAssumption DEF OrderIds
<1>2. NoRow \in Row /\ NoKind \in Kind
  BY <1>1 DEF NoRow, NoKind, Row, Kind
<1>3. NoOrder \in Order
  BY <1>2 DEF NoOrder, Order, Status
<1> QED BY <1>1, <1>2, <1>3 DEF NotApplying, Applications, IdleAdmin, Requests, IdlePoller, Tasks,
                                NoPast, Pasts

\* What is unchanged fits.
LEMMA SameWork ==
  ASSUME ExtractInvariant
  PROVE  /\ UNCHANGED admin => AdminsStep
         /\ UNCHANGED poller => TasksStep
         /\ UNCHANGED applying => ApplyingStep
         /\ UNCHANGED outside => OutsideStep
         /\ doubtful \subseteq OrderIds /\ listed \in Nat /\ events \in Nat
         /\ UNCHANGED <<doubtful, listed>> /\ (UNCHANGED events \/ Event) => RestOK
BY DEF Event, ExtractInvariant, ExtractTypeOK, AdminsStep, TasksStep, ApplyingStep, OutsideStep, RestOK

\* Requests end.
LEMMA DropAdmin ==
  ASSUME ExtractInvariant, NEW a \in Admins, Done(a)
  PROVE  AdminsStep
BY IdleTypes DEF ExtractInvariant, ExtractTypeOK, Done, AdminsStep

LEMMA DropTask ==
  ASSUME ExtractInvariant, NEW p \in Pollers, poller' = [poller EXCEPT ![p] = IdlePoller]
  PROVE  TasksStep
BY IdleTypes DEF ExtractInvariant, ExtractTypeOK, TasksStep
\* A request begins with an order that exists.
LEMMA BeginAdmin ==
  ASSUME ExtractInvariant, NEW a \in Admins, NEW o \in OrderIds,
         NEW pc \in {"push", "retry", "refuse"}, NEW read \in Row, Begin(a, o, pc, read),
         orders[o].status # "NONE",
         pc = "refuse" => /\ orders[o].status = "ING" /\ ~Locked(o)
                          /\ read = wallet[orders[o].kind.rateIn]
  PROVE  WorkStep
<1> DEFINE request == [pc |-> pc, order |-> o, read |-> read]
<1>1. request \in Requests /\ request.pc = pc /\ request.order = o /\ request.read = read
  BY DEF Requests
<1> HIDE DEF request
<1>2. /\ admin' = [admin EXCEPT ![a] = request]
      /\ UNCHANGED <<wallet, orders, past, outside, applying, poller, doubtful, listed, events>>
  BY DEF Begin, request
<1>3. AdminsStep
  BY <1>1, <1>2 DEF AdminsStep
<1> QED BY <1>2, <1>3, SameWork DEF WorkStep

\* A task begins or goes on.
LEMMA GoOnTask ==
  ASSUME ExtractInvariant, NEW p \in Pollers, NEW task \in Tasks, TaskMoves(p, task),
         listed' \in Nat, orders[task.order].status # "NONE",
         task.pc = "read" => task.read = orders[task.order]
  PROVE  WorkStep
<1>1. /\ poller' = [poller EXCEPT ![p] = task] /\ UNCHANGED orders
      /\ UNCHANGED <<outside, applying, admin, doubtful, events>>
  BY DEF TaskMoves
<1>2. TasksStep
  BY <1>1 DEF TasksStep
<1> QED BY <1>1, <1>2, SameWork DEF WorkStep, RestOK

LEMMA ApplicantSteps ==
  ASSUME ExtractInvariant, (\E kind \in Kinds : ApplyRead(kind)) \/ ApplyCommit \/ ApplyFails
  PROVE  WorkStep
<1>1. UNCHANGED <<outside, admin, poller, doubtful, listed, events>>
  BY DEF ApplyRead, ApplyCommit, ApplyFails
<1>2. ApplyingStep
  <2>1. CASE ApplyCommit \/ ApplyFails
    BY <2>1 DEF ApplyCommit, ApplyFails, ApplyingStep
  <2>2. ASSUME NEW kind \in Kinds, ApplyRead(kind)
        PROVE  ApplyingStep
    <3>1. kind \in Kind /\ kind.rateIn \in Currencies
      BY ExtractAssumption DEF Kind
    <3> DEFINE row == wallet[kind.rateIn]
    <3>2. row \in Row
      BY <3>1, InvariantTypes DEF BooksOK, Wallets
    <3>3. /\ applying' = [pc |-> "read", kind |-> kind, read |-> row] /\ UNCHANGED wallet
          /\ row.using >= kind.rate
      BY <2>2 DEF ApplyRead
    <3>4. applying' \in Applications /\ applying'.read = row /\ applying'.kind = kind
      BY <3>1, <3>2, <3>3 DEF Applications
    <3> QED BY <3>3, <3>4 DEF ApplyingStep
  <2> QED BY <2>1, <2>2
<1> QED BY <1>1, <1>2, SameWork DEF WorkStep

LEMMA SentOut ==
  ASSUME ExtractInvariant, NEW o \in OrderIds, orders[o].status # "NONE", Sent(o)
  PROVE  OutsideStep
BY DEF ExtractInvariant, ExtractTypeOK, Sent, OutsideStep

LEMMA AdminSteps ==
  ASSUME ExtractInvariant, NEW a \in Admins, AdminStep(a)
  PROVE  WorkStep
<1>0. /\ admin[a].order \in OrderIds
      /\ admin[a].pc # "idle" => orders[admin[a].order].status # "NONE"
      /\ \A o \in OrderIds : wallet[orders[o].kind.rateIn] \in Row
  <2>1. /\ admin[a] \in Requests /\ wallet \in Wallets /\ orders \in [OrderIds -> Order]
    BY InvariantTypes DEF ExtractTypeOK, BooksOK
  <2> QED BY <2>1, InvariantTypes DEF Requests, Order, Kind, Wallets, RequestsFit
<1>1. CASE RefuseCommit(a) \/ PushRefused(a) \/ Retry(a)
  <2>1. Done(a) /\ UNCHANGED <<outside, applying, poller, doubtful, listed, events>>
    BY <1>1 DEF RefuseCommit, PushRefused, Retry
  <2> QED BY <2>1, DropAdmin, SameWork DEF WorkStep
<1>2. CASE Push(a) \/ PushLost(a)
  <2>1. /\ Done(a) /\ Sent(admin[a].order) /\ admin[a].pc = "push"
        /\ UNCHANGED <<applying, poller, listed>> /\ (UNCHANGED events \/ Event)
        /\ doubtful' \in {doubtful, doubtful \cup {admin[a].order}}
    BY <1>2 DEF Push, PushLost, CanPush
  <2>2. AdminsStep /\ OutsideStep
    BY <1>0, <2>1, DropAdmin, SentOut
  <2> QED BY <1>0, <2>1, <2>2, SameWork DEF WorkStep, RestOK, Event
<1>3. ASSUME NEW o \in OrderIds, RefuseRead(a, o) \/ AskPush(a, o) \/ AskRetry(a, o)
      PROVE  WorkStep
  BY <1>0, <1>3, BeginAdmin, IdleTypes DEF RefuseRead, AskPush, AskRetry
<1> QED BY <1>1, <1>2, <1>3 DEF AdminStep

LEMMA TaskSteps ==
  ASSUME ExtractInvariant, NEW p \in Pollers, TaskStep(p)
  PROVE  WorkStep
<1> DEFINE o == poller[p].order
<1>0. /\ poller[p] \in Tasks /\ o \in OrderIds /\ listed \in Nat
      /\ \A i \in OrderIds : orders[i] \in Order
      /\ poller[p].pc # "idle" => orders[o].status # "NONE"
  BY InvariantTypes DEF ExtractTypeOK, Tasks, TasksFit
<1>1. CASE TaskIgnores(p)
  BY <1>1, DropTask, SameWork DEF TaskIgnores, TaskMoves, WorkStep
<1>2. CASE DoSuccess(p) \/ DoWait(p) \/ TaskSkips(p) \/ TaskFails(p)
  <2>1. /\ poller' = [poller EXCEPT ![p] = IdlePoller] /\ (UNCHANGED events \/ Event)
        /\ UNCHANGED <<outside, applying, admin, doubtful, listed>>
    BY <1>2 DEF DoSuccess, DoWait, TaskSkips, TaskFails, TaskEnds
  <2> QED BY <2>1, DropTask, SameWork DEF WorkStep
<1>3. CASE TaskAsks(p)
  <2>1. PICK answer \in {"paid", "cancelled"} :
          TaskMoves(p, [poller[p] EXCEPT !.pc = "answered", !.answer = answer])
    BY <1>3 DEF TaskAsks
  <2> DEFINE task == [poller[p] EXCEPT !.pc = "answered", !.answer = answer]
  <2>2. task \in Tasks /\ task.order = o /\ task.pc = "answered"
    BY <1>0 DEF Tasks
  <2>3. orders[o].status # "NONE" /\ listed' \in Nat
    BY <1>0, <1>3 DEF TaskAsks
  <2> HIDE DEF task
  <2> QED BY <2>1, <2>2, <2>3, GoOnTask DEF task
<1>4. CASE TaskRead(p)
  <2> DEFINE task == [poller[p] EXCEPT !.pc = "read", !.read = orders[o]]
  <2>1. task \in Tasks /\ task.order = o /\ task.pc = "read" /\ task.read = orders[o]
    BY <1>0 DEF Tasks
  <2>2. orders[o].status # "NONE" /\ listed' \in Nat /\ TaskMoves(p, task)
    BY <1>0, <1>4 DEF TaskRead
  <2> HIDE DEF task
  <2> QED BY <2>1, <2>2, GoOnTask
<1>5. ASSUME NEW i \in OrderIds, Query(p, i)
      PROVE  WorkStep
  <2> DEFINE task == [IdlePoller EXCEPT !.pc = "listed", !.order = i]
  <2>1. task \in Tasks /\ task.order = i /\ task.pc = "listed"
    BY IdleTypes DEF Tasks, IdlePoller
  <2>2. orders[i].status # "NONE" /\ listed' \in Nat /\ TaskMoves(p, task)
    BY <1>0, <1>5 DEF Query
  <2> HIDE DEF task
  <2> QED BY <2>1, <2>2, GoOnTask
<1> QED BY <1>1, <1>2, <1>3, <1>4, <1>5 DEF TaskStep

LEMMA WorkSteps ==
  ASSUME ExtractInvariant, [ExtractNext]_vars
  PROVE  WorkStep
<1>1. ASSUME NEW o \in OrderIds, Confirm(o)
      PROVE  WorkStep
  <2>1. UNCHANGED <<outside, applying, admin, poller, doubtful, listed, events>>
    BY <1>1 DEF Confirm
  <2> QED BY <2>1, SameWork DEF WorkStep
<1>2. ASSUME NEW o \in OrderIds, OutsideEnds(o)
      PROVE  WorkStep
  <2>1. /\ UNCHANGED <<orders, applying, admin, poller, doubtful, listed, events>>
        /\ OutsideStep
    BY <1>2, InvariantTypes DEF OutsideEnds, OutsideStep, UnmadeFit, ExtractTypeOK
  <2> QED BY <2>1, SameWork DEF WorkStep
<1>3. ASSUME NEW c \in Currencies, OtherMove(c, 1, 0) \/ OtherMove(c, -1, 1)
      PROVE  WorkStep
  <2>1. UNCHANGED <<outside, applying, admin, poller, doubtful, listed>> /\ Event
    BY <1>3 DEF OtherMove
  <2> QED BY <2>1, SameWork DEF WorkStep
<1>4. CASE Crash
  <2>1. /\ UNCHANGED <<outside, doubtful, listed>> /\ Event /\ applying' = NotApplying
        /\ admin' = [a \in Admins |-> IdleAdmin] /\ poller' = [p \in Pollers |-> IdlePoller]
    BY <1>4 DEF Crash
  <2> QED BY <2>1, SameWork, IdleTypes DEF WorkStep, AdminsStep, TasksStep, ApplyingStep
<1>5. CASE UNCHANGED vars
  BY <1>5, SameWork DEF WorkStep, vars
<1> QED BY <1>1, <1>2, <1>3, <1>4, <1>5, ApplicantSteps, AdminSteps, TaskSteps DEF ExtractNext
-----------------------------------------------------------------------------
(* The invariant.                                                          *)

\* An order that exists lasts, but for its status; a locked one is changed by
\* a retry, or by the refusal that ends with it.
OrderLasts ==
    \/ UNCHANGED <<orders, past>>
    \/ \E o \in OrderIds :
        /\ OnlyOne(o) /\ orders'[o].status # "NONE"
        /\ orders[o].status # "NONE" => orders'[o].kind = orders[o].kind
        /\ \/ orders'[o].status = "DOING" \/ ~Locked(o)
           \/ \E a \in Admins : admin[a].pc = "refuse" /\ admin[a].order = o /\ Done(a)

LEMMA OrdersLast ==
  ASSUME ExtractInvariant, OrdersStep
  PROVE  OrderLasts
<1>0. /\ orders \in [OrderIds -> Order] /\ past \in [OrderIds -> Pasts] /\ RequestsFit
      /\ \A a \in Admins : admin[a].order \in OrderIds
  BY InvariantTypes DEF OrdersOK, ExtractTypeOK, Requests
<1>1. ASSUME NEW o \in OrderIds, NEW st \in Status, st # "NONE",
             orders' = [orders EXCEPT ![o] = WithStatus(orders[o], st)], OnlyOne(o),
             \/ st = "DOING" \/ ~Locked(o)
             \/ \E a \in Admins : admin[a].pc = "refuse" /\ admin[a].order = o /\ Done(a)
      PROVE  OrderLasts
  <2>1. orders'[o] = WithStatus(orders[o], st) /\ orders[o] \in Order
    BY <1>0, <1>1
  <2>2. orders'[o].status = st /\ orders'[o].kind = orders[o].kind
    BY <2>1, StatusFields
  <2> QED BY <1>1, <2>2 DEF OrderLasts
<1>2. ASSUME NEW o \in OrderIds, NEW kind \in Kind, NEW st \in {"ING", "SUCCESS"},
             orders[o].status = "NONE", Made(o, kind, st)
      PROVE  OrderLasts
  <2>1. OnlyOne(o) /\ orders'[o].status = st
    BY <1>0, <1>2 DEF Made, OnlyOne
  <2>2. ~Locked(o)
    BY <1>0, <1>2 DEF Locked, RequestsFit
  <2> QED BY <1>2, <2>1, <2>2 DEF OrderLasts
<1>3. ASSUME NEW o \in OrderIds, ~Locked(o), Confirmed(o)
      PROVE  OrderLasts
  <2>1. "SUCCESS" \in Status /\ OnlyOne(o)
    BY <1>0, <1>3 DEF Status, Ended, Confirmed, OnlyOne
  <2> QED BY <1>1, <1>3, <2>1 DEF Confirmed
<1>4. ASSUME NEW a \in Admins, admin[a].pc = "refuse", Refused(admin[a].order), Done(a)
      PROVE  OrderLasts
  <2>1. "FAIL" \in Status /\ OnlyOne(admin[a].order)
    BY <1>0, <1>4 DEF Status, Ended, Refused, OnlyOne
  <2> QED BY <1>0, <1>1, <1>4, <2>1 DEF Refused
<1>5. ASSUME NEW o \in OrderIds, NEW st \in Open \cup {"SUCCESS"}, Rewritten(o, st),
             st = "DOING" \/ ~Locked(o)
      PROVE  OrderLasts
  <2>1. st \in Status /\ st # "NONE" /\ OnlyOne(o)
    BY <1>0, <1>5 DEF Status, Open, Ended, Rewritten, OnlyOne
  <2> QED BY <1>1, <1>5, <2>1 DEF Rewritten
<1> QED BY <1>2, <1>3, <1>4, <1>5 DEF OrdersStep, OrderLasts

LEMMA TypesStep ==
  ASSUME ExtractInvariant, [ExtractNext]_vars
  PROVE  ExtractTypeOK'
<1>1. BooksOK' /\ moved' \in [Currencies -> [using : Int, freeze : Int]] /\ WorkStep
  BY BooksStep, WorkSteps
<1>2. admin \in [Admins -> Requests] /\ poller \in [Pollers -> Tasks] /\ applying \in Applications
  BY DEF ExtractInvariant, ExtractTypeOK
<1>3. admin' \in [Admins -> Requests]
  BY <1>1, <1>2 DEF WorkStep, AdminsStep
<1>4. poller' \in [Pollers -> Tasks]
  BY <1>1, <1>2 DEF WorkStep, TasksStep
<1>5. applying' \in Applications
  BY <1>1, <1>2, IdleTypes DEF WorkStep, ApplyingStep
<1> QED BY <1>1, <1>3, <1>4, <1>5 DEF BooksOK, OrdersOK, Wallets, ExtractTypeOK, WorkStep, OutsideStep, RestOK

LEMMA WorkFitsStep ==
  ASSUME ExtractInvariant, [ExtractNext]_vars
  PROVE  WorkFits'
<1>1. /\ ExtractTypeOK' /\ OrderLasts /\ WorkStep
      /\ ExtractTypeOK /\ UnmadeFit /\ RequestsFit /\ TasksFit
  BY TypesStep, BooksStep, WorkSteps, OrdersLast, InvariantTypes
<1>2. \A o \in OrderIds :
        /\ orders[o].status # "NONE" => orders'[o].status # "NONE" /\ orders'[o].kind = orders[o].kind
        /\ orders'[o].status = "NONE" => orders[o].status = "NONE" /\ past'[o] = past[o]
  BY <1>1 DEF OrderLasts, OnlyOne
<1>3. UnmadeFit'
  BY <1>1, <1>2 DEF UnmadeFit, WorkStep, OutsideStep
<1>4. RequestsFit'
  <2>0. \A a \in Admins : admin[a].order \in OrderIds /\ admin'[a].order \in OrderIds
    BY <1>1 DEF ExtractTypeOK, Requests
  <2>1. CASE \A a \in Admins : admin'[a] \in {admin[a], IdleAdmin}
    <3>1. ASSUME NEW a \in Admins, admin'[a].pc # "idle"
          PROVE  admin'[a] = admin[a]
      BY <2>1, <3>1 DEF IdleAdmin
    <3>2. ASSUME NEW a \in Admins, admin'[a].pc = "refuse"
          PROVE  orders'[admin'[a].order].status \in {"ING", "DOING"}
      <4> DEFINE o == admin[a].order
      <4>1. /\ admin'[a] = admin[a] /\ Locked(o) /\ orders[o].status \in {"ING", "DOING"} /\ o \in OrderIds
            /\ \A b \in Admins : admin[b].pc = "refuse" /\ admin[b].order = o => b = a
        BY <1>1, <2>0, <3>1, <3>2 DEF RequestsFit, Locked
      <4>2. ~Done(a)
        BY <1>1, <3>2 DEF Done, IdleAdmin, ExtractTypeOK
      <4> QED BY <1>1, <4>1, <4>2 DEF OrderLasts, OnlyOne
    <3> QED BY <1>1, <1>2, <2>0, <3>1, <3>2 DEF RequestsFit
  <2>2. ASSUME NEW a \in Admins, NEW request \in Requests,
               admin' = [admin EXCEPT ![a] = request], UNCHANGED <<wallet, orders, past>>,
               orders[request.order].status # "NONE",
               request.pc = "refuse" =>
                   orders[request.order].status = "ING" /\ ~Locked(request.order)
        PROVE  RequestsFit'
    <3>1. admin'[a] = request /\ \A b \in Admins : b # a => admin'[b] = admin[b]
      BY <1>1, <2>2 DEF ExtractTypeOK
    <3> QED BY <1>1, <2>2, <3>1 DEF RequestsFit, Locked
  <2> QED BY <1>1, <2>1, <2>2 DEF WorkStep, AdminsStep
<1>5. TasksFit'
  <2>0. \A p \in Pollers : poller[p].order \in OrderIds /\ poller'[p].order \in OrderIds
    BY <1>1 DEF ExtractTypeOK, Tasks
  <2>1. CASE \A p \in Pollers : poller'[p] \in {poller[p], IdlePoller}
    <3>1. ASSUME NEW p \in Pollers, poller'[p].pc # "idle"
          PROVE  poller'[p] = poller[p]
      BY <2>1, <3>1 DEF IdlePoller
    <3> QED BY <1>1, <1>2, <2>0, <3>1 DEF TasksFit
  <2>2. ASSUME NEW p \in Pollers, NEW task \in Tasks,
               poller' = [poller EXCEPT ![p] = task], UNCHANGED orders,
               orders[task.order].status # "NONE", task.pc = "read" => task.read = orders[task.order]
        PROVE  TasksFit'
    <3>1. poller'[p] = task /\ \A i \in Pollers : i # p => poller'[i] = poller[i]
      BY <1>1, <2>2 DEF ExtractTypeOK
    <3> QED BY <1>1, <2>2, <3>1 DEF TasksFit
  <2> QED BY <1>1, <2>1, <2>2 DEF WorkStep, TasksStep
<1> QED BY <1>3, <1>4, <1>5 DEF WorkFits

LEMMA ReadsStep ==
  ASSUME ExtractInvariant, [ExtractNext]_vars
  PROVE  FeeCovered' /\ ReadsFit'
<1>1. /\ OrderLasts /\ WorkStep /\ ExtractTypeOK /\ RequestsFit /\ FeeCovered /\ ReadsFit
      /\ \A c \in Currencies : wallet[c] \in Row /\ wallet'[c] \in Row /\ Follows(wallet[c], wallet'[c])
      /\ \A o \in OrderIds : orders[o].kind.rateIn \in Currencies
  BY BooksStep, WorkSteps, OrdersLast, InvariantTypes, RowsFollow, PastTypes
<1>2. FeeCovered'
  BY <1>1 DEF FeeCovered, WorkStep, ApplyingStep, NotApplying
<1>3. applying'.pc = "read" => ReadOf(wallet'[applying'.kind.rateIn], applying'.read)
  <2>1. CASE applying' = applying /\ applying.pc = "read"
    <3>1. applying.read \in Row /\ applying.kind.rateIn \in Currencies
      BY <1>1 DEF ExtractTypeOK, Applications, Kind
    <3> QED BY <1>1, <2>1, <3>1, ReadFollows DEF ReadsFit
  <2>2. CASE UNCHANGED wallet /\ applying' \in Applications /\ applying'.read = wallet[applying'.kind.rateIn]
    <3>1. applying'.kind.rateIn \in Currencies
      BY <2>2 DEF Applications, Kind
    <3> QED BY <1>1, <2>2, <3>1, FollowsSame
  <2> QED BY <1>1, <2>1, <2>2 DEF WorkStep, ApplyingStep, NotApplying
<1>4. ASSUME NEW a \in Admins, admin'[a].pc = "refuse"
      PROVE  ReadOf(wallet'[orders'[admin'[a].order].kind.rateIn], admin'[a].read)
  <2>0. /\ admin[a].order \in OrderIds /\ admin[a].read \in Row
        /\ \A o \in OrderIds : orders[o].status # "NONE" => orders'[o].kind = orders[o].kind
    BY <1>1 DEF ExtractTypeOK, Requests, OrderLasts, OnlyOne
  <2>1. CASE admin'[a] = admin[a]
    <3> DEFINE o == admin[a].order
    <3>1. /\ orders[o].status # "NONE" /\ orders'[o].kind = orders[o].kind
          /\ ReadOf(wallet[orders[o].kind.rateIn], admin[a].read)
      BY <1>1, <1>4, <2>0, <2>1 DEF RequestsFit, ReadsFit
    <3> QED BY <1>1, <2>0, <2>1, <3>1, ReadFollows
  <2>2. CASE /\ UNCHANGED <<wallet, orders>> /\ admin'[a] \in Requests
             /\ admin'[a].read = wallet[orders[admin'[a].order].kind.rateIn]
    <3>1. admin'[a].order \in OrderIds
      BY <2>2 DEF Requests
    <3> QED BY <1>1, <2>2, <3>1, FollowsSame
  <2>3. CASE \A b \in Admins : admin'[b] \in {admin[b], IdleAdmin}
    BY <1>4, <2>1, <2>3 DEF IdleAdmin
  <2>4. ASSUME NEW b \in Admins, NEW request \in Requests,
               admin' = [admin EXCEPT ![b] = request], UNCHANGED <<wallet, orders, past>>,
               request.pc = "refuse" => request.read = wallet[orders[request.order].kind.rateIn]
        PROVE  ReadOf(wallet'[orders'[admin'[a].order].kind.rateIn], admin'[a].read)
    <3>1. admin'[a] = IF a = b THEN request ELSE admin[a]
      BY <1>1, <2>4 DEF ExtractTypeOK
    <3> QED BY <1>4, <2>1, <2>2, <2>4, <3>1
  <2> QED BY <1>1, <2>3, <2>4 DEF WorkStep, AdminsStep
<1> QED BY <1>2, <1>3, <1>4 DEF ReadsFit

LEMMA InvariantStep ==
  ASSUME ExtractInvariant, [ExtractNext]_vars
  PROVE  ExtractInvariant'
<1>1. ExtractTypeOK' /\ WorkFits' /\ FeeCovered' /\ ReadsFit'
  BY TypesStep, WorkFitsStep, ReadsStep
<1> QED BY <1>1 DEF ExtractInvariant
-----------------------------------------------------------------------------
(* Orders are paid once.                                                   *)

PaidInvariant == AnswersFit /\ NotSentOut /\ Counted /\ PaidOnce

\* What these say of one order.
Paid(o) ==
    /\ past[o].handed + past[o].refused <= Is(o, Ended) + WritesAfterEnd(o)
    /\ past[o].handed + past[o].refused > 0 /\ OutsideHas(o) =>
            o \in doubtful \/ WritesAfterEnd(o) > 0
    /\ orders[o].status = "SUCCESS" /\ past[o].handed = 0 => outside[o] = "paid"
    /\ orders[o].status = "ING" \/ Locked(o) =>
            ~OutsideHas(o) \/ o \in doubtful \/ WritesAfterEnd(o) > 0

LEMMA PaidOrders ==
  ASSUME OrdersOK
  PROVE  PaidInvariant <=> AnswersFit /\ \A o \in OrderIds : Paid(o)
<1>1. \A o \in OrderIds : /\ past[o].handed \in Nat /\ past[o].refused \in Nat /\ WritesAfterEnd(o) \in Nat
                          /\ Is(o, Ended) \in {0, 1}
  BY PastTypes DEF Is
<1> QED BY <1>1 DEF PaidInvariant, NotSentOut, Counted, PaidOnce, Paid

LEMMA PaidOrdersNext ==
  OrdersOK' => (AnswersFit' /\ (\A o \in OrderIds : Paid(o))' => PaidInvariant')
<1>1. OrdersOK => (AnswersFit /\ (\A o \in OrderIds : Paid(o)) => PaidInvariant)
  BY PaidOrders
<1> QED BY <1>1, PTL

\* The outside system goes on by itself: what it has paid stays paid.
Later(o) == \/ outside'[o] = outside[o]
            \/ outside[o] = "asked" /\ outside'[o] \in {"paid", "cancelled"}

LEMMA LocksStep ==
  ASSUME ExtractInvariant, [ExtractNext]_vars
  PROVE  \A o \in OrderIds : Locked(o)' => Locked(o) \/ orders[o].status = "ING"
<1>1. admin \in [Admins -> Requests] /\ AdminsStep
  BY WorkSteps DEF ExtractInvariant, ExtractTypeOK, WorkStep
<1> QED BY <1>1 DEF AdminsStep, Locked, IdleAdmin

LEMMA OutsideLater ==
  ASSUME [ExtractNext]_vars
  PROVE  /\ doubtful \subseteq doubtful'
         /\ \/ \E a \in Admins : Push(a) \/ PushLost(a)
            \/ UNCHANGED outside
            \/ \E o \in OrderIds : OutsideEnds(o)
BY Steps DEF Quiet, Busy, Others, vars, ApplyRead, ApplyFails, Crash, OutsideEnds, PushRefused, PushLost, RefuseRead,
         AskPush, AskRetry, Begin, TaskAsks, TaskIgnores, TaskRead, TaskSkips, TaskEnds, TaskMoves, Query,
         ApplyCommit, Confirm, RefuseCommit, Push, Retry, DoSuccess, DoWait, TaskFails, OtherMove

\* An order that stays as it is.
LEMMA PaidSame ==
  ASSUME NEW o \in OrderIds, Paid(o), orders'[o] = orders[o], past'[o] = past[o], Later(o),
         doubtful \subseteq doubtful', Locked(o)' => Locked(o) \/ orders[o].status = "ING"
  PROVE  Paid(o)'
<1>1. OutsideHas(o)' => OutsideHas(o)
  BY DEF OutsideHas, Later
<1>2. WritesAfterEnd(o)' = WritesAfterEnd(o) /\ Is(o, Ended)' = Is(o, Ended)
  BY DEF WritesAfterEnd, Is
<1> QED BY <1>1, <1>2 DEF Paid, Later

\* An order that is confirmed or refused.
LEMMA PaidEnds ==
  ASSUME NEW o \in OrderIds, Paid(o), past[o] \in Pasts, past'[o] \in Pasts,
         orders[o].status \notin Ended, orders[o].status = "ING" \/ Locked(o),
         \/ /\ orders'[o].status = "SUCCESS"
            /\ past'[o].handed = past[o].handed + 1 /\ past'[o].refused = past[o].refused
         \/ /\ orders'[o].status = "FAIL"
            /\ past'[o].handed = past[o].handed /\ past'[o].refused = past[o].refused + 1,
         past'[o].reopened = past[o].reopened, past'[o].revived = past[o].revived,
         UNCHANGED <<outside, doubtful>>
  PROVE  Paid(o)'
<1>1. /\ past[o].handed \in Nat /\ past[o].refused \in Nat /\ past'[o].handed \in Nat
      /\ past[o].reopened \in Nat /\ past[o].revived \in Nat
  BY DEF Pasts
<1>2. /\ WritesAfterEnd(o)' = WritesAfterEnd(o) /\ WritesAfterEnd(o) \in Nat
      /\ Is(o, Ended) = 0 /\ Is(o, Ended)' = 1 /\ OutsideHas(o)' = OutsideHas(o)
  BY <1>1 DEF WritesAfterEnd, Is, OutsideHas, Ended
<1> QED BY <1>1, <1>2 DEF Paid

\* An order that is written again.
LEMMA PaidWritten ==
  ASSUME NEW o \in OrderIds, Paid(o), OrdersOK, NEW st \in Open \cup {"SUCCESS"}, Rewritten(o, st),
         UNCHANGED <<outside, doubtful>>, Locked(o)' => Locked(o) \/ orders[o].status = "ING",
         st = "SUCCESS" => outside[o] = "paid",
         st = "ING" => ~OutsideHas(o) \/ o \in doubtful
  PROVE  Paid(o)'
<1>1. /\ orders \in [OrderIds -> Order] /\ past \in [OrderIds -> Pasts]
      /\ orders[o] \in Order /\ past[o] \in Pasts /\ st \in Status
  BY DEF OrdersOK, Status, Ended, Open
<1>2. orders'[o] = WithStatus(orders[o], st) /\ past'[o] = Again(past[o], orders[o].status)
  BY <1>1 DEF Rewritten
<1>3. /\ orders'[o].status = st
      /\ past'[o].handed = past[o].handed /\ past'[o].refused = past[o].refused
      /\ past'[o].reopened = past[o].reopened + (IF orders[o].status = "SUCCESS" THEN 1 ELSE 0)
      /\ past'[o].revived = past[o].revived + (IF orders[o].status = "FAIL" THEN 1 ELSE 0)
      /\ past[o].handed \in Nat /\ past[o].refused \in Nat
      /\ past[o].reopened \in Nat /\ past[o].revived \in Nat
  BY <1>1, <1>2, StatusFields, PastFields DEF Pasts
<1>4. /\ WritesAfterEnd(o)' = WritesAfterEnd(o) + Is(o, Ended) /\ WritesAfterEnd(o) \in Nat
      /\ Is(o, Ended) \in {0, 1} /\ Is(o, Ended)' \in {0, 1} /\ OutsideHas(o)' = OutsideHas(o)
  BY <1>3 DEF WritesAfterEnd, Is, OutsideHas, Ended
<1> QED BY <1>3, <1>4 DEF Paid
\* Every order, when at most one is written and the outside system does what
\* it does by itself.
AllPaid == \A i \in OrderIds : Paid(i)
ByItself == UNCHANGED outside \/ \E i \in OrderIds : OutsideEnds(i)

LEMMA PaidOthers ==
  ASSUME ExtractInvariant, AllPaid, [ExtractNext]_vars, ByItself,
         NEW o \in OrderIds, OnlyOne(o), Paid(o)'
  PROVE  AllPaid'
<1>1. doubtful \subseteq doubtful' /\ \A i \in OrderIds : Later(i)
  BY OutsideLater DEF Later, OutsideEnds, ExtractInvariant, ExtractTypeOK, ByItself
<1>2. ASSUME NEW i \in OrderIds, i # o
      PROVE  Paid(i)'
  BY <1>1, <1>2, LocksStep, PaidSame DEF OnlyOne, AllPaid
<1> QED BY <1>2 DEF AllPaid

LEMMA PaidStill ==
  ASSUME ExtractInvariant, AllPaid, [ExtractNext]_vars, ByItself, UNCHANGED <<orders, past>>
  PROVE  AllPaid'
<1>1. doubtful \subseteq doubtful' /\ \A i \in OrderIds : Later(i)
  BY OutsideLater DEF Later, OutsideEnds, ExtractInvariant, ExtractTypeOK, ByItself
<1>2. ASSUME NEW i \in OrderIds
      PROVE  Paid(i)'
  BY <1>1, LocksStep, PaidSame DEF AllPaid
<1> QED BY <1>2 DEF AllPaid

LEMMA PaidSteps ==
  ASSUME ExtractInvariant, AnswersFit, AllPaid, [ExtractNext]_vars
  PROVE  AllPaid'
<1>0. /\ OrdersOK /\ OrdersOK' /\ UnmadeFit /\ 1 \in OrderIds
      /\ orders \in [OrderIds -> Order] /\ past \in [OrderIds -> Pasts] /\ past' \in [OrderIds -> Pasts]
      /\ \A a \in Admins : admin[a].order \in OrderIds
      /\ \A p \in Pollers : poller[p].order \in OrderIds
      /\ outside \in [OrderIds -> {"none", "asked", "paid", "cancelled"}] /\ doubtful \subseteq OrderIds
  BY InvariantTypes, BooksStep, IdleTypes DEF OrdersOK, BooksOK, ExtractTypeOK, Requests, Tasks
<1>1. CASE ApplyCommit
  <2>1. PICK o \in OrderIds, kind \in Kind, st \in {"ING", "SUCCESS"} :
          orders[o].status = "NONE" /\ Made(o, kind, st)
    BY <1>1, ApplyBooks
  <2>2. UNCHANGED <<outside, doubtful, admin>>
    BY <1>1 DEF ApplyCommit
  <2>3. OnlyOne(o) /\ past[o] = NoPast /\ outside[o] = "none"
    BY <1>0, <2>1 DEF Made, OnlyOne, UnmadeFit
  <2>4. orders'[o].status = st /\ past'[o] = [NoPast EXCEPT !.handed = IF st = "SUCCESS" THEN 1 ELSE 0]
    BY <1>0, <2>1, <2>3 DEF Made
  <2>5. /\ WritesAfterEnd(o)' = 0 /\ past'[o].refused = 0 /\ ~OutsideHas(o)'
        /\ past'[o].handed = Is(o, Ended)' /\ (st = "SUCCESS" => past'[o].handed = 1)
        /\ Is(o, Ended)' \in {0, 1}
    BY <2>2, <2>3, <2>4 DEF NoPast, WritesAfterEnd, OutsideHas, Is, Ended
  <2>6. Paid(o)'
    BY <2>4, <2>5 DEF Paid
  <2> QED BY <2>2, <2>3, <2>6, PaidOthers DEF ByItself
<1>2. ASSUME NEW o \in OrderIds, Confirm(o)
      PROVE  AllPaid'
  <2>1. Confirmed(o) /\ orders[o].status = "ING" /\ UNCHANGED <<outside, doubtful>>
    BY <1>2, ConfirmBooks DEF Confirm
  <2>2. /\ OnlyOne(o) /\ orders'[o] = WithStatus(orders[o], "SUCCESS")
        /\ past'[o] = [past[o] EXCEPT !.handed = @ + 1] /\ past[o] \in Pasts /\ past'[o] \in Pasts
    BY <1>0, <2>1 DEF Confirmed, OnlyOne
  <2>3. orders'[o].status = "SUCCESS"
    BY <1>0, <2>2, StatusFields DEF Status, Ended
  <2>4. /\ past'[o].handed = past[o].handed + 1 /\ past'[o].refused = past[o].refused
        /\ past'[o].reopened = past[o].reopened /\ past'[o].revived = past[o].revived
    BY <2>2 DEF Pasts
  <2>5. Paid(o)'
    BY <2>1, <2>2, <2>3, <2>4, PaidEnds DEF Ended, AllPaid
  <2> QED BY <2>1, <2>2, <2>5, PaidOthers DEF ByItself
<1>3. ASSUME NEW a \in Admins, RefuseCommit(a)
      PROVE  AllPaid'
  <2>0. PICK o \in OrderIds : o = admin[a].order
    BY <1>0
  <2>1. /\ UNCHANGED <<orders, past>> \/ Refused(o)
        /\ UNCHANGED <<outside, doubtful>> /\ o \in OrderIds /\ Locked(o)
        /\ orders[o].status \in {"ING", "DOING"}
    BY <2>0, <1>3, RefuseBooks, InvariantTypes DEF RefuseCommit, Locked, RequestsFit
  <2>2. CASE UNCHANGED <<orders, past>>
    BY <2>1, <2>2, PaidStill DEF ByItself
  <2>3. CASE Refused(o)
    <3>1. /\ OnlyOne(o) /\ orders'[o] = WithStatus(orders[o], "FAIL")
          /\ past'[o] = [past[o] EXCEPT !.refused = @ + 1] /\ past[o] \in Pasts /\ past'[o] \in Pasts
      BY <1>0, <2>1, <2>3 DEF Refused, OnlyOne
    <3>2. orders'[o].status = "FAIL"
      BY <1>0, <2>1, <3>1, StatusFields DEF Status, Ended
    <3>3. /\ past'[o].handed = past[o].handed /\ past'[o].refused = past[o].refused + 1
          /\ past'[o].reopened = past[o].reopened /\ past'[o].revived = past[o].revived
      BY <3>1 DEF Pasts
    <3>4. Paid(o)'
      BY <2>1, <3>1, <3>2, <3>3, PaidEnds DEF Ended, AllPaid
    <3> QED BY <2>1, <3>1, <3>4, PaidOthers DEF ByItself
  <2> QED BY <2>1, <2>2, <2>3
<1>4. ASSUME NEW a \in Admins, Push(a)
      PROVE  AllPaid'
  <2>0. PICK o \in OrderIds : o = admin[a].order
    BY <1>0
  <2>1. /\ o \in OrderIds /\ orders[o].status \in {"ING", "DOING"} /\ ~Locked(o) /\ Done(a)
        /\ Sent(o) /\ doubtful \subseteq doubtful' /\ UNCHANGED past
        /\ orders' = [orders EXCEPT ![o] = [orders[o] EXCEPT !.status = "DOING"]]
    BY <2>0, <1>4 DEF Push, CanPush, Pushable
  <2>2. /\ orders[o] \in Order /\ past[o].handed \in Nat /\ past[o].refused \in Nat
        /\ WritesAfterEnd(o) \in Nat
    BY <1>0, <2>1, PastTypes
  <2>3. /\ orders'[o].status = "DOING" /\ WritesAfterEnd(o)' = WritesAfterEnd(o) /\ past'[o] = past[o]
        /\ Is(o, Ended) = 0 /\ Is(o, Ended)' = 0
    BY <1>0, <2>0, <2>1, <2>2 DEF Order, WritesAfterEnd, Is, Ended
  <2>4. ~Locked(o)'
    <3>1. admin \in [Admins -> Requests]
      BY DEF ExtractInvariant, ExtractTypeOK
    <3> QED BY <2>0, <2>1, <3>1 DEF Done, Locked, IdleAdmin
  <2>5. Paid(o)'
    BY <2>1, <2>2, <2>3, <2>4 DEF Paid, AllPaid
  <2>6. ASSUME NEW i \in OrderIds, i # o
        PROVE  Paid(i)'
    <3>1. orders'[i] = orders[i] /\ past'[i] = past[i] /\ Later(i)
      BY <1>0, <2>1, <2>6 DEF Sent, Later
    <3> QED BY <2>1, <3>1, LocksStep, PaidSame DEF AllPaid
  <2> QED BY <2>5, <2>6 DEF AllPaid
<1>5. ASSUME NEW a \in Admins, PushLost(a)
      PROVE  AllPaid'
  <2>0. PICK o \in OrderIds : o = admin[a].order
    BY <1>0
  <2>1. /\ o \in OrderIds /\ Sent(o) /\ doubtful' = doubtful \cup {o} /\ UNCHANGED <<orders, past>>
    BY <2>0, <1>5 DEF PushLost
  <2>2. Paid(o)'
    <3>1. WritesAfterEnd(o)' = WritesAfterEnd(o) /\ Is(o, Ended)' = Is(o, Ended)
      BY <2>1 DEF WritesAfterEnd, Is
    <3>2. outside[o] = "paid" => outside'[o] = "paid"
      BY <1>0, <2>1 DEF Sent
    <3> QED BY <2>1, <3>1, <3>2 DEF Paid, AllPaid
  <2>3. ASSUME NEW i \in OrderIds, i # o
        PROVE  Paid(i)'
    <3>1. Later(i)
      BY <1>0, <2>1, <2>3 DEF Sent, Later
    <3> QED BY <2>1, <3>1, LocksStep, PaidSame DEF AllPaid
  <2> QED BY <2>2, <2>3 DEF AllPaid
<1>6. ASSUME NEW o \in OrderIds, NEW st \in Open \cup {"SUCCESS"}, Rewritten(o, st),
             UNCHANGED <<outside, doubtful>>, st = "SUCCESS" => outside[o] = "paid",
             st = "ING" => ~OutsideHas(o) \/ o \in doubtful
      PROVE  AllPaid'
  <2>1. OnlyOne(o)
    BY <1>0, <1>6 DEF Rewritten, OnlyOne
  <2>2. Paid(o)'
    BY <1>0, <1>6, LocksStep, PaidWritten DEF AllPaid
  <2> QED BY <1>6, <2>1, <2>2, PaidOthers DEF ByItself
<1>7. ASSUME NEW a \in Admins, Retry(a)
      PROVE  AllPaid'
  <2>0. PICK o \in OrderIds : o = admin[a].order
    BY <1>0
  <2>1. o \in OrderIds /\ WrittenAgain(o) /\ UNCHANGED <<outside, doubtful>>
        /\ orders' = [orders EXCEPT ![o] = WithStatus(orders[o], "DOING")]
    BY <2>0, <1>7 DEF Retry, WithStatus
  <2>2. Rewritten(o, "DOING") /\ "DOING" \in Open \cup {"SUCCESS"}
    BY <1>0, <2>1, WrittenPast DEF Rewritten, Open
  <2> QED BY <1>6, <2>1, <2>2
<1>8. ASSUME NEW p \in Pollers, NEW st \in Open \cup {"SUCCESS"}, TaskEnds(p), Write(p, st),
             st = "SUCCESS" => poller[p].answer = "paid", st = "ING" => poller[p].answer = "cancelled"
      PROVE  AllPaid'
  <2>0. PICK o \in OrderIds : o = poller[p].order
    BY <1>0
  <2>1. o \in OrderIds /\ poller[p].pc = "read" /\ st \in Status /\ UNCHANGED <<outside, doubtful>>
    BY <1>8 DEF TaskEnds, Status, Open, Ended
  <2>2. Rewritten(o, st)
    BY <1>8, <2>0, <2>1, TaskWrites
  <2>3. /\ st = "SUCCESS" => outside[o] = "paid"
        /\ st = "ING" => ~OutsideHas(o) \/ o \in doubtful
    BY <1>8, <2>0, <2>1 DEF AnswersFit, OutsideHas
  <2> QED BY <1>6, <2>1, <2>2, <2>3
<1>9. ASSUME NEW p \in Pollers, DoSuccess(p) \/ DoWait(p) \/ TaskFails(p)
      PROVE  AllPaid'
  BY <1>8, <1>9 DEF DoSuccess, DoWait, TaskFails, Open
<1>10. CASE UNCHANGED <<orders, past>> /\ ~\E a \in Admins : Push(a) \/ PushLost(a)
  BY <1>10, OutsideLater, PaidStill DEF ByItself
<1>11. Quiet \/ Others => UNCHANGED <<orders, past>>
  BY DEF Quiet, Others, vars, ApplyRead, ApplyFails, Crash, OutsideEnds, PushRefused, PushLost, RefuseRead,
         AskPush, AskRetry, Begin, TaskAsks, TaskIgnores, TaskRead, TaskSkips, TaskEnds, TaskMoves, Query,
         OtherMove
<1> QED BY <1>1, <1>2, <1>3, <1>4, <1>5, <1>7, <1>9, <1>10, <1>11, Steps DEF Busy

\* Answers that wait to be applied stay true, or their order is doubtful.
LEMMA AnswersStep ==
  ASSUME ExtractInvariant, AnswersFit, [ExtractNext]_vars
  PROVE  AnswersFit'
<1>0. /\ poller \in [Pollers -> Tasks] /\ admin \in [Admins -> Requests]
      /\ outside \in [OrderIds -> {"none", "asked", "paid", "cancelled"}]
      /\ \A p \in Pollers : poller[p].order \in OrderIds /\ poller[p].answer \in {"paid", "cancelled"}
      /\ \A a \in Admins : admin[a].order \in OrderIds
      /\ doubtful \subseteq doubtful'
  BY OutsideLater DEF ExtractInvariant, ExtractTypeOK, Tasks, Requests
<1>1. ASSUME NEW p \in Pollers, poller[p].pc \in {"answered", "read"}
      PROVE  IF poller[p].answer = "paid" THEN outside'[poller[p].order] = "paid"
             ELSE poller[p].order \in doubtful' \/ outside'[poller[p].order] = "cancelled"
  <2> DEFINE o == poller[p].order
  <2>1. IF poller[p].answer = "paid" THEN outside[o] = "paid"
        ELSE o \in doubtful \/ outside[o] = "cancelled"
    BY <1>1 DEF AnswersFit
  <2>2. CASE UNCHANGED outside \/ \E i \in OrderIds : OutsideEnds(i)
    BY <1>0, <2>1, <2>2 DEF OutsideEnds
  <2>3. ASSUME NEW a \in Admins, Push(a) \/ PushLost(a)
        PROVE  IF poller[p].answer = "paid" THEN outside'[o] = "paid"
               ELSE o \in doubtful' \/ outside'[o] = "cancelled"
    <3>1. CASE admin[a].order = o
      <4>1. Sent(o)
        BY <2>3, <3>1 DEF Push, PushLost
      <4>2. outside[o] = "paid" => outside'[o] = "paid"
        BY <1>0, <4>1 DEF Sent
      <4>3. poller[p].answer = "cancelled" => o \in doubtful'
        BY <1>0, <1>1, <2>3, <3>1 DEF Push, PushLost, Overtakes
      <4> QED BY <1>0, <2>1, <4>2, <4>3
    <3>2. CASE admin[a].order # o
      BY <1>0, <2>1, <2>3, <3>2 DEF Push, PushLost, Sent
    <3> QED BY <3>1, <3>2
  <2> QED BY <2>2, <2>3, OutsideLater
<1>2. CASE poller' \in [Pollers -> Tasks] /\ \A p \in Pollers : poller'[p] \in {poller[p], IdlePoller}
  BY <1>1, <1>2 DEF AnswersFit, IdlePoller
<1>3. ASSUME NEW p \in Pollers, TaskAsks(p) \/ TaskRead(p) \/ \E o \in OrderIds : Query(p, o)
      PROVE  AnswersFit'
  <2>1. UNCHANGED <<outside, doubtful>> /\ \A i \in Pollers : i # p => poller'[i] = poller[i]
    BY <1>0, <1>3 DEF TaskAsks, TaskRead, Query, TaskMoves
  <2>2. \/ poller'[p].pc = "listed"
        \/ /\ poller'[p].order = poller[p].order
           /\ \/ poller'[p].answer = poller[p].answer /\ poller[p].pc = "answered"
              \/ poller'[p].answer = outside[poller[p].order]
    BY <1>0, <1>3 DEF TaskAsks, TaskRead, Query, TaskMoves, IdlePoller, Answers, Tasks
  <2>3. poller'[p].answer \in {"paid", "cancelled"}
    BY TypesStep DEF ExtractTypeOK, Tasks
  <2>4. \A i \in Pollers : i # p /\ poller'[i].pc \in {"answered", "read"} =>
          IF poller'[i].answer = "paid" THEN outside'[poller'[i].order] = "paid"
          ELSE poller'[i].order \in doubtful' \/ outside'[poller'[i].order] = "cancelled"
    BY <1>1, <2>1
  <2>5. poller'[p].pc \in {"answered", "read"} =>
          IF poller'[p].answer = "paid" THEN outside'[poller'[p].order] = "paid"
          ELSE poller'[p].order \in doubtful' \/ outside'[poller'[p].order] = "cancelled"
    BY <1>1, <2>1, <2>2, <2>3
  <2> QED BY <2>4, <2>5 DEF AnswersFit
<1>4. \/ poller' \in [Pollers -> Tasks] /\ \A p \in Pollers : poller'[p] \in {poller[p], IdlePoller}
      \/ \E p \in Pollers : TaskAsks(p) \/ TaskRead(p) \/ \E o \in OrderIds : Query(p, o)
  BY <1>0, IdleTypes, Steps DEF Quiet, Busy, Others, vars, ApplyRead, ApplyFails, Crash, OutsideEnds,
       PushRefused, PushLost, RefuseRead, AskPush, AskRetry, Begin, TaskIgnores, TaskSkips, TaskEnds,
       TaskMoves, ApplyCommit, Confirm, RefuseCommit, Push, Retry, DoSuccess, DoWait, TaskFails, OtherMove
<1> QED BY <1>2, <1>3, <1>4
-----------------------------------------------------------------------------
(* The start.                                                              *)

LEMMA InitInvariant ==
  ASSUME ExtractInit
  PROVE  ExtractInvariant /\ OrdersOK
<1>1. Deposit \in [Currencies -> Nat]
  BY ExtractAssumption
<1>2. \A c \in Currencies : [NoRow EXCEPT !.using = Deposit[c]] \in Row
  BY <1>1 DEF NoRow, Row
<1>3. wallet \in [Currencies -> Row]
  BY <1>2 DEF ExtractInit
<1>4. ExtractTypeOK
  BY <1>3, IdleTypes DEF ExtractInit, ExtractTypeOK
<1>5. FeeCovered /\ UnmadeFit /\ RequestsFit /\ TasksFit /\ ReadsFit
  BY DEF ExtractInit, FeeCovered, UnmadeFit, RequestsFit, TasksFit, ReadsFit, NotApplying, IdleAdmin, IdlePoller
<1> QED BY <1>4, <1>5 DEF ExtractInvariant, WorkFits, OrdersOK, ExtractTypeOK

LEMMA InitTotals ==
  ASSUME ExtractInit
  PROVE  /\ SetAsideTotal = 0 /\ PaidTotal = 0
         /\ \A c \in Currencies : TakenTotal(c) = 0 /\ FeeTotal(c) = 0
<1>1. \A o \in OrderIds : orders[o] = NoOrder /\ past[o] = NoPast
  BY DEF ExtractInit
<1>2. \A o \in OrderIds : Opens(o) = 0 /\ TimesTaken(o) = 0 /\ past[o].handed = 0
  BY <1>1 DEF Opens, TimesTaken, Is, WritesAfterEnd, NoOrder, NoPast, Open, Kept
<1>3. ASSUME NEW o \in OrderIds, NEW c \in Currencies
      PROVE  SetAsideFor(o) = 0 /\ PaidInside(o) = 0 /\ TakenFor(o, c) = 0 /\ FeeFor(o, c) = 0
  <2> DEFINE q == orders[o].kind.quantity
  <2> DEFINE rate == orders[o].kind.rate
  <2> DEFINE real == RealQuantity(q)
  <2>1. q \in Nat /\ rate \in Nat /\ real \in Nat
    BY InitInvariant, PastTypes
  <2>2. q * 0 = 0 /\ rate * 0 = 0 /\ real * 0 = 0
    <3> HIDE DEF q, rate, real
    <3> QED BY <2>1
  <2> QED BY <1>2, <2>2 DEF SetAsideFor, Opens, PaidInside, TakenFor, FeeFor
<1>4. MaxOrders \in Nat /\ Coin \in Currencies
  BY ExtractAssumption
<1>5. ASSUME NEW c \in Currencies
      PROVE  SetAsideTotal = 0 /\ PaidTotal = 0 /\ TakenTotal(c) = 0 /\ FeeTotal(c) = 0
  <2> DEFINE f1 == [o \in OrderIds |-> SetAsideFor(o)]
  <2> DEFINE f2 == [o \in OrderIds |-> PaidInside(o)]
  <2> DEFINE f3 == [o \in OrderIds |-> TakenFor(o, c)]
  <2> DEFINE f4 == [o \in OrderIds |-> FeeFor(o, c)]
  <2>1. /\ f1 \in [1..MaxOrders -> Int] /\ f2 \in [1..MaxOrders -> Int]
        /\ f3 \in [1..MaxOrders -> Int] /\ f4 \in [1..MaxOrders -> Int]
        /\ \A i \in 1..MaxOrders : f1[i] = 0 /\ f2[i] = 0 /\ f3[i] = 0 /\ f4[i] = 0
    BY <1>3 DEF OrderIds
  <2> HIDE DEF f1, f2, f3, f4
  <2>2. /\ SumTo(f1, MaxOrders) = 0 /\ SumTo(f2, MaxOrders) = 0
        /\ SumTo(f3, MaxOrders) = 0 /\ SumTo(f4, MaxOrders) = 0
    BY <1>4, <2>1, SumZero
  <2> QED BY <2>2 DEF SetAsideTotal, PaidTotal, TakenTotal, FeeTotal, f1, f2, f3, f4
<1> QED BY <1>4, <1>5

LEMMA InitMoney ==
  ASSUME ExtractInit
  PROVE  FreezeExplained /\ MoneyExplained
<1>1. Deposit \in [Currencies -> Nat] /\ Coin \in Currencies
  BY ExtractAssumption
<1>2. ASSUME NEW c \in Currencies
      PROVE  /\ wallet[c].freeze = 0 /\ wallet[c].using = Deposit[c]
             /\ wallet[c].lostUsing = 0 /\ wallet[c].lostFreeze = 0
             /\ moved[c].using = 0 /\ moved[c].freeze = 0
  BY DEF ExtractInit, NoRow
<1> QED BY <1>1, <1>2, InitTotals DEF FreezeExplained, MoneyExplained, ExtractInit

LEMMA InitPaid ==
  ASSUME ExtractInit
  PROVE  PaidInvariant
<1>1. AnswersFit
  BY DEF ExtractInit, AnswersFit, IdlePoller
<1>2. ASSUME NEW o \in OrderIds
      PROVE  Paid(o)
  <2>1. orders[o].status = "NONE" /\ past[o] = NoPast /\ ~OutsideHas(o) /\ ~Locked(o)
    BY DEF ExtractInit, NoOrder, OutsideHas, Locked, IdleAdmin
  <2>2. /\ past[o].handed = 0 /\ past[o].refused = 0 /\ WritesAfterEnd(o) = 0 /\ Is(o, Ended) = 0
    BY <2>1 DEF NoPast, WritesAfterEnd, Is, Ended
  <2> QED BY <2>1, <2>2 DEF Paid
<1> QED BY <1>1, <1>2, InitInvariant, PaidOrders

-----------------------------------------------------------------------------
(* Theorems.                                                               *)

LEMMA InvariantNext == ExtractInvariant /\ [ExtractNext]_vars => ExtractInvariant'
BY InvariantStep

LEMMA InvariantAlways == ExtractSpec => []ExtractInvariant
<1>1. ExtractInit => ExtractInvariant
  BY InitInvariant
<1> QED BY <1>1, InvariantNext, PTL DEF ExtractSpec

\* Whatever the applications, the administrators and any number of tasks do at
\* the same time, no balance, frozen amount or received amount is ever negative
\* (modifyWallet and update are guarded).
THEOREM ExtractTypeCorrect == ExtractSpec => []ExtractTypeOK
<1>1. ExtractInvariant => ExtractTypeOK
  BY DEF ExtractInvariant
<1> QED BY <1>1, InvariantAlways, PTL

\* The frozen amount of a wallet is what open withdrawals and the market have
\* set aside, off by exactly what was written after an order had ended (doSuccess,
\* doWait, update2Doing, the catch of extractTask) and what an update of the fee
\* wallet wrote over.
THEOREM WithdrawalFreeze == ExtractSpec => []FreezeExplained
<1>1. ExtractInit => FreezeExplained
  BY InitMoney
<1>2. ExtractInvariant /\ FreezeExplained /\ [ExtractNext]_vars => FreezeExplained'
  BY FreezeStep
<1> QED BY <1>1, <1>2, InvariantAlways, PTL DEF ExtractSpec

\* A balance is the deposit and the movements by others less the quantities and
\* fees of the withdrawals not refused (apply, refuse), off by exactly what an
\* update of the fee wallet wrote over; users of the house have received what
\* was confirmed.
THEOREM WithdrawalMoney == ExtractSpec => []MoneyExplained
<1>1. ExtractInit => MoneyExplained
  BY InitMoney
<1>2. ExtractInvariant /\ MoneyExplained /\ [ExtractNext]_vars => MoneyExplained'
  BY MoneyStep
<1> QED BY <1>1, <1>2, InvariantAlways, PTL DEF ExtractSpec

\* A withdrawal that nobody writes after its end is confirmed or refused once at
\* most, and then not paid outside as well unless a push lost its reply or
\* overtook an answer; what succeeded without the house has been paid outside.
THEOREM WithdrawalsPaidOnce == ExtractSpec => []PaidOnce
<1>1. ExtractInit => PaidInvariant
  BY InitPaid
<1>2. ExtractInvariant /\ PaidInvariant /\ [ExtractNext]_vars => PaidInvariant'
  <2>1. ASSUME ExtractInvariant, PaidInvariant, [ExtractNext]_vars
        PROVE  PaidInvariant'
    <3>1. OrdersOK /\ OrdersOK'
      BY <2>1, InvariantTypes, BooksStep DEF BooksOK
    <3>2. AnswersFit /\ AllPaid
      BY <2>1, <3>1, PaidOrders DEF AllPaid
    <3>3. AnswersFit' /\ AllPaid'
      BY <2>1, <3>2, AnswersStep, PaidSteps
    <3> QED BY <3>1, <3>3, PaidOrdersNext DEF AllPaid
  <2> QED BY <2>1
<1>3. PaidInvariant => PaidOnce
  BY DEF PaidInvariant
<1> QED BY <1>1, <1>2, <1>3, InvariantAlways, PTL DEF ExtractSpec
=============================================================================
