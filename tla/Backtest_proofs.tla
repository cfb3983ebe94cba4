-------------------------- MODULE Backtest_proofs --------------------------
(***************************************************************************)
(* The backtest for every CSV, every number of pings and bars, every order *)
(* type and every cost: sizes keep their budgets, there is one entry at a  *)
(* time, the replay runs ahead of the strategy by the pings at most, the   *)
(* ledger is a sequence of round trips, and a position is watched by the   *)
(* stop it was entered with.                                               *)
(***************************************************************************)
EXTENDS Backtest, TrailingStop_proofs, FiniteSetTheorems

-----------------------------------------------------------------------------
(* calculate_target_size() keeps its budgets whatever the account, the     *)
(* price and the stop are.                                                 *)

\* A floored quotient, multiplied back, does not exceed what was divided.
LEMMA FloorDivision ==
  ASSUME NEW a \in Nat, NEW b \in Nat \ {0}
  PROVE  /\ a \div b \in Nat
         /\ (a \div b) * b <= a
OBVIOUS

LEMMA PositiveProduct ==
  ASSUME NEW a \in Nat \ {0}, NEW b \in Nat \ {0}
  PROVE  a * b \in Nat \ {0}
OBVIOUS

(***************************************************************************)
(* An order is sized so that the hard stop costs at most one risk budget   *)
(* and the position at most Leverage times the balance (risk_manager.cpp:  *)
(* 99, "floor so we never overshoot risk"), and one whose stop is missing  *)
(* or on the winning side is refused.                                      *)
(***************************************************************************)
THEOREM SizeWithinBudgets ==
  ASSUME NEW rm \in Account, rm.balance \in Nat,
         NEW action \in {"BUY", "SELL"}, NEW price \in Nat, NEW stop \in Nat
  PROVE  LET size == TargetSize(rm, action, price, stop)
         IN  /\ size \in Nat
             /\ size * (Cents * RiskShare * Distance(price, stop)) <= rm.balance
             /\ size * (Cents * price) <= rm.balance * Leverage
             /\ size > 0 => /\ stop > 0
                            /\ action = "BUY" => stop < price
                            /\ action = "SELL" => stop > price
<1> DEFINE size == TargetSize(rm, action, price, stop)
           d == Distance(price, stop)
           cost == Cents * RiskShare * d
           value == Cents * price
<1>1. d \in Nat
  BY DEF Distance
<1>2. cost \in Nat /\ value \in Nat /\ rm.balance * Leverage \in Nat
  BY <1>1, RiskAssumption
<1>3. CASE size = 0
  <2>1. 0 * cost = 0 /\ 0 * value = 0
    BY <1>2
  <2> HIDE DEF size, cost, value
  <2>2. size * cost <= rm.balance /\ size * value <= rm.balance * Leverage
    BY <1>2, <1>3, <2>1
  <2>3. QED BY <1>3, <2>2 DEF size, cost, value, d
<1>4. CASE size # 0
  <2>1. price # 0 /\ stop # 0 /\ price # stop /\ StopOnLosingSide(action, price, stop)
    BY <1>4 DEF TargetSize
  <2>2. d \in Nat \ {0}
    BY <2>1 DEF Distance
  <2>3. cost \in Nat \ {0} /\ value \in Nat \ {0}
    <3>1. Cents * RiskShare \in Nat \ {0}
      BY RiskAssumption, PositiveProduct
    <3>2. QED BY <2>1, <2>2, <3>1, RiskAssumption, PositiveProduct
  <2>4. /\ BySize(rm, price, stop) \in Nat
        /\ BySize(rm, price, stop) * cost <= rm.balance
    <3>1. BySize(rm, price, stop) = rm.balance \div cost
      BY DEF BySize
    <3> HIDE DEF cost
    <3>2. QED BY <2>3, <3>1, FloorDivision
  <2>5. /\ ByLeverage(rm, price) \in Nat
        /\ ByLeverage(rm, price) * value <= rm.balance * Leverage
    <3>1. ByLeverage(rm, price) = (rm.balance * Leverage) \div value
      BY DEF ByLeverage
    <3> DEFINE most == rm.balance * Leverage
    <3> HIDE DEF value, most
    <3>2. QED BY <1>2, <2>3, <3>1, FloorDivision DEF most
  <2>6. /\ size \in {BySize(rm, price, stop), ByLeverage(rm, price)}
        /\ size <= BySize(rm, price, stop) /\ size <= ByLeverage(rm, price)
    BY <2>1, <2>4, <2>5 DEF TargetSize
  <2>7. ASSUME NEW x \in Nat, NEW y \in Nat, NEW z \in Nat, x <= y
        PROVE  x * z <= y * z
    BY <2>7
  <2> HIDE DEF size, cost, value
  <2>8. size \in Nat
    BY <2>4, <2>5, <2>6
  <2>9. size * cost <= rm.balance
    <3>1. size * cost <= BySize(rm, price, stop) * cost
      BY <2>3, <2>4, <2>6, <2>7, <2>8
    <3>2. QED BY <2>3, <2>4, <2>8, <3>1
  <2>10. size * value <= rm.balance * Leverage
    <3>1. size * value <= ByLeverage(rm, price) * value
      BY <2>3, <2>5, <2>6, <2>7, <2>8
    <3>2. QED BY <1>2, <2>3, <2>5, <2>8, <3>1
  <2>11. /\ stop > 0
         /\ action = "BUY" => stop < price
         /\ action = "SELL" => stop > price
    BY <2>1 DEF StopOnLosingSide
  <2>12. QED BY <2>8, <2>9, <2>10, <2>11 DEF size, cost, value, d
<1>5. QED BY <1>3, <1>4

-----------------------------------------------------------------------------
(* The inductive invariant.                                                *)

Resting == [side : {"BUY", "SELL"}, qty : Nat \ {0}, price : Nat \ {0},
            reduceOnly : {FALSE}, type : {WireType}]

Booked == [side : {"BUY", "SELL"}, qty : Nat \ {0}, price : Nat \ {0}, fee : Nat,
           pnl : Int, opens : BOOLEAN, balanceAfter : Int, positionAfter : Int]

Quote == [low : Nat, high : Nat, close : Nat]

Executor == [risk : Account, ts : Stop, pending : Seq(Resting), bar : Quote,
             trades : Seq(Booked)]

Order == [type : {WireType}, action : {"BUY", "SELL"}, stop : Stops, price : Nat,
          n : 0..MaxBars]

\* Every variable keeps its type, and a line that was read is what the stop is tested on.
Typed ==
  /\ ex \in Executor
  /\ phase = "stop" => ex.bar \in BarSet
  /\ phase \in Phases /\ n \in 0..MaxBars /\ pings \in 0..MaxPings
  /\ phase = "waiting" => n = 0
  /\ phase \in {"stop", "publish"} => n >= 1
  /\ brain \in Brain /\ py \in {"off", "listening", "acking", "dead"}
  /\ toBrain \in Seq(Kline)
  /\ toEngine \in Seq(Order \cup {Ack})

(***************************************************************************)
(* One entry at a time, over the brain b, the klines q, the messages m,    *)
(* the resting orders and the position: what the brain has seen, what is   *)
(* on its way to it and what the engine holds run through none, some,      *)
(* none.                                                                   *)
(***************************************************************************)
OrdersIn(m) == {i \in DOMAIN m : m[i].type # "ack"}

\* A finished bar that reports a position.
Held(q, j) == q[j].closed /\ q[j].position # 0

\* What the brain will have seen when it comes to kline j.
SeenBefore(b, q, j) == b.saw \/ \E i \in DOMAIN q : i < j /\ Held(q, i)

OneEntry(m, pending, position) ==
  /\ \A i, j \in OrdersIn(m) : i = j
  /\ OrdersIn(m) # {} => pending = <<>> /\ position = 0
  /\ pending # <<>> => Len(pending) = 1 /\ position = 0

Rearmed(b, q, m, pending, position) ==
  b.state = "IDLE" =>
    /\ ~b.saw /\ position = 0 /\ OrdersIn(m) = {} /\ pending = <<>>
    /\ \A j \in DOMAIN q : ~Held(q, j)

Reported(b, q, m, pending) ==
  b.saw \/ (\E j \in DOMAIN q : Held(q, j)) => OrdersIn(m) = {} /\ pending = <<>>

Ended(b, q, position) ==
  \A j \in DOMAIN q :
    SeenBefore(b, q, j) /\ q[j].closed /\ ~Held(q, j) =>
      position = 0 /\ \A k \in DOMAIN q : j <= k => ~Held(q, k)

Exposure(b, q, m, pending, position) ==
  /\ OneEntry(m, pending, position)
  /\ Rearmed(b, q, m, pending, position)
  /\ Reported(b, q, m, pending)
  /\ Ended(b, q, position)

Exposed == Exposure(brain, toBrain, toEngine, ex.pending, ex.risk.position)

(***************************************************************************)
(* Every read was paid for by an acknowledgement, and an acknowledgement   *)
(* by a kline: those still to come are at most the klines published, and   *)
(* those before a bar's own at most the klines published before it.        *)
(***************************************************************************)
AcksIn(m) == Len(m) - (IF OrdersIn(m) = {} THEN 0 ELSE 1)

PaidFor(q, m, reads, acking, budget) ==
  reads + AcksIn(m) + acking + Len(q) <= budget

BarInTime(k, before, spare, number, close) ==
  /\ k.n \in 1..number
  /\ before <= spare + k.n - 1
  /\ k.n = number => k.close = close

BarsInTime(q, m, reads, acking, spare, number, close) ==
  \A j \in DOMAIN q :
    q[j].closed => BarInTime(q[j], reads + AcksIn(m) + acking + (j - 1), spare, number, close)

OrderInTime(o, before, spare, number, close) ==
  /\ o.n \in 1..number
  /\ before <= spare + o.n - 1
  /\ o.n = number => o.price = close

OrdersInTime(m, reads, spare, number, close) ==
  \A i \in OrdersIn(m) : OrderInTime(m[i], reads + (i - 1), spare, number, close)

Timely(q, m, reads, acking, budget, spare, number, close) ==
  /\ PaidFor(q, m, reads, acking, budget)
  /\ BarsInTime(q, m, reads, acking, spare, number, close)
  /\ OrdersInTime(m, reads, spare, number, close)

Reads == n + (IF phase = "market" THEN 1 ELSE 0)

Acking == IF py = "acking" THEN 1 ELSE 0

Published == IF phase \in {"stop", "publish"} THEN n - 1 ELSE n

InTime ==
  Timely(toBrain, toEngine, Reads, Acking, pings + Published, pings, n, ex.bar.close)

(***************************************************************************)
(* The books: after an odd number of records the last one opened the       *)
(* position that is held, after an even number nothing is held.            *)
(***************************************************************************)
BalanceAt(e, i) == IF i = 1 THEN InitialBalance ELSE e.trades[i - 1].balanceAfter

RecordAgrees(e, i) ==
  /\ e.trades[i].balanceAfter = BalanceAt(e, i) + e.trades[i].pnl - e.trades[i].fee
  /\ e.trades[i].opens <=> (i % 2 = 1)
  /\ ~e.trades[i].opens =>
       /\ e.trades[i].qty = e.trades[i - 1].qty
       /\ e.trades[i].side # e.trades[i - 1].side
       /\ e.trades[i].positionAfter = 0
       /\ e.trades[i].pnl = Cents * e.trades[i].qty *
            (IF e.trades[i].side = "SELL" THEN e.trades[i].price - e.trades[i - 1].price
                                          ELSE e.trades[i - 1].price - e.trades[i].price)

OpenedBy(e, t) ==
  /\ t.qty = Abs(e.risk.position) /\ t.price = e.risk.entry
  /\ t.side = (IF e.risk.position > 0 THEN "BUY" ELSE "SELL")

Books(e) ==
  /\ e.risk.balance = BalanceAt(e, Len(e.trades) + 1)
  /\ \A i \in DOMAIN e.trades : RecordAgrees(e, i)
  /\ Len(e.trades) % 2 = (IF e.risk.position = 0 THEN 0 ELSE 1)
  /\ e.risk.position # 0 => OpenedBy(e, e.trades[Len(e.trades)])

(***************************************************************************)
(* With one ping an order meets the bar it was decided on, so it is filled *)
(* at once and what follows the fill is about it.                          *)
(***************************************************************************)
Guarded(e) ==
  e.risk.position # 0 =>
    /\ e.ts.side = SideOf(e.risk.position)
    /\ e.ts.hard = e.risk.stop
    /\ e.risk.stop \in Stops \ {0}
    /\ IF e.risk.position > 0 THEN e.risk.stop < e.risk.entry
                              ELSE e.risk.stop > e.risk.entry
    /\ e.ts.indicator = (IF e.risk.position > 0 THEN "donchian_low" ELSE "donchian_high")

SignalOf(e) ==
  IF e.risk.position > 0 THEN e.risk.entry - Slip ELSE e.risk.entry + Slip

BalanceBeforeFill(e) == e.risk.balance + Fee(e.risk.entry, Abs(e.risk.position))

Afforded(e) ==
  e.risk.position # 0 =>
    /\ Abs(e.risk.position) * Cents * RiskShare * Distance(SignalOf(e), e.risk.stop)
         <= BalanceBeforeFill(e)
    /\ Abs(e.risk.position) * Cents * SignalOf(e) <= Leverage * BalanceBeforeFill(e)

Prompt == pings <= 1 => ex.pending = <<>> /\ Guarded(ex) /\ Afforded(ex)

BacktestInv ==
  Typed /\ Exposed /\ InTime /\ Books(ex) /\ Prompt

-----------------------------------------------------------------------------
(* The executor's fills.                                                   *)

LEMMA FeeNat ==
  ASSUME NEW price \in Nat, NEW qty \in Nat
  PROVE  Fee(price, qty) \in Nat
<1>1. price * qty \in Nat
  OBVIOUS
<1>2. price * qty * FeeRate \in Nat
  BY <1>1, CostAssumption
<1>3. QED BY <1>2 DEF Fee

LEMMA ExecutorFields ==
  ASSUME NEW e \in Executor
  PROVE  /\ e.risk \in Account /\ e.ts \in Stop /\ e.pending \in Seq(Resting)
         /\ e.bar \in Quote /\ e.trades \in Seq(Booked)
         /\ e.risk.balance \in Int /\ e.risk.position \in Int
         /\ e.risk.stop \in Nat /\ e.risk.entry \in Nat
         /\ Len(e.trades) \in Nat
BY DEF Executor, Account

Signed(side, qty) == IF side = "BUY" THEN qty ELSE -qty

\* The account after a fill that opens, and the record of that fill.
Opening(risk, side, qty, price) ==
  [balance |-> risk.balance - Fee(price, qty), position |-> Signed(side, qty),
   stop |-> risk.stop, entry |-> price]

OpeningRecord(risk, side, qty, price) ==
  Record(side, qty, price, 0, TRUE, Opening(risk, side, qty, price))

Opened(e, f, side, qty, price) ==
  /\ f \in Executor
  /\ f.ts = e.ts /\ f.pending = e.pending /\ f.bar = e.bar
  /\ f.risk = Opening(e.risk, side, qty, price)
  /\ f.trades = Append(e.trades, OpeningRecord(e.risk, side, qty, price))

LEMMA OpeningTyped ==
  ASSUME NEW risk \in Account, NEW side \in {"BUY", "SELL"},
         NEW qty \in Nat \ {0}, NEW price \in Nat \ {0}
  PROVE  /\ Signed(side, qty) \in Int \ {0}
         /\ Opening(risk, side, qty, price) \in Account
         /\ OpeningRecord(risk, side, qty, price) \in Booked
<1>1. Signed(side, qty) \in Int \ {0}
  BY DEF Signed
<1>2. Fee(price, qty) \in Nat /\ risk.balance - Fee(price, qty) \in Int
  <2>1. Fee(price, qty) \in Nat
    BY FeeNat
  <2>2. risk.balance \in Int
    BY DEF Account
  <2>3. QED BY <2>1, <2>2
<1> DEFINE r == Opening(risk, side, qty, price)
<1>3. r \in Account
  BY <1>1, <1>2 DEF Opening, Account
<1> HIDE DEF r
<1>4. r.balance \in Int /\ r.position \in Int
  BY <1>3 DEF Account
<1>5. Record(side, qty, price, 0, TRUE, r) \in Booked
  BY <1>2, <1>4 DEF Record, Booked
<1>6. QED BY <1>1, <1>3, <1>5 DEF r, OpeningRecord

\* execute_fill() of a flat account opens a position at the fill price and pays the fee.
LEMMA OpensFlat ==
  ASSUME NEW e \in Executor, e.risk.position = 0, NEW side \in {"BUY", "SELL"},
         NEW qty \in Nat \ {0}, NEW price \in Nat \ {0}
  PROVE  Opened(e, OpenFill(e, side, qty, price), side, qty, price)
<1> DEFINE risk == Opening(e.risk, side, qty, price)
           t == OpeningRecord(e.risk, side, qty, price)
           pos == Signed(side, qty)
           paid == e.risk.balance - Fee(price, qty)
<1>1. /\ e.risk \in Account /\ risk \in Account /\ t \in Booked /\ pos \in Int \ {0}
      /\ e.trades \in Seq(Booked)
  BY ExecutorFields, OpeningTyped
<1>2. 0 + pos = pos /\ pos # 0
  BY <1>1
<1>3. e.risk = [balance |-> e.risk.balance, position |-> e.risk.position,
                stop |-> e.risk.stop, entry |-> e.risk.entry]
  BY <1>1 DEF Account
<1> HIDE DEF pos, paid
<1>4. [UpdatePosition([e.risk EXCEPT !.balance = paid], pos) EXCEPT !.entry = price]
        = [balance |-> paid, position |-> pos, stop |-> e.risk.stop, entry |-> price]
  <2> DEFINE r == [e.risk EXCEPT !.balance = paid]
  <2>1. r = [balance |-> paid, position |-> e.risk.position,
             stop |-> e.risk.stop, entry |-> e.risk.entry]
    BY <1>3
  <2>2. UpdatePosition(r, pos) = [r EXCEPT !.position = pos]
    BY <1>2 DEF UpdatePosition
  <2> HIDE DEF r
  <2>3. [UpdatePosition(r, pos) EXCEPT !.entry = price]
          = [balance |-> paid, position |-> pos, stop |-> e.risk.stop, entry |-> price]
    BY <2>1, <2>2
  <2>4. QED BY <2>3 DEF r
<1> DEFINE final == [UpdatePosition([e.risk EXCEPT !.balance = paid], pos)
                       EXCEPT !.entry = price]
<1>5. final = risk
  BY <1>4 DEF pos, paid, Opening
<1>6. OpenFill(e, side, qty, price)
        = [e EXCEPT !.risk = final,
                    !.trades = Append(@, Record(side, qty, price, 0, TRUE, final))]
  BY <1>2 DEF OpenFill, pos, paid, Signed
<1> HIDE DEF final
<1>7. Record(side, qty, price, 0, TRUE, final) = t
  BY <1>5 DEF OpeningRecord
<1> HIDE DEF risk, t
<1>8. OpenFill(e, side, qty, price) = [e EXCEPT !.risk = risk, !.trades = Append(@, t)]
  BY <1>5, <1>6, <1>7
<1>9. Append(e.trades, t) \in Seq(Booked)
  BY <1>1
<1>10. PICK f : f = [e EXCEPT !.risk = risk, !.trades = Append(@, t)]
  OBVIOUS
<1>11. f \in Executor /\ f.risk = risk /\ f.trades = Append(e.trades, t)
       /\ f.ts = e.ts /\ f.pending = e.pending /\ f.bar = e.bar
  BY <1>1, <1>9, <1>10 DEF Executor
<1>12. Opened(e, f, side, qty, price)
  BY <1>11 DEF Opened, risk, t
<1>13. QED BY <1>8, <1>10, <1>12

\* One more record keeps those before it.
LEMMA RecordsKept ==
  ASSUME NEW e \in Executor, NEW f \in Executor, NEW t \in Booked,
         f.trades = Append(e.trades, t), NEW i \in DOMAIN e.trades, RecordAgrees(e, i)
  PROVE  RecordAgrees(f, i)
<1>1. /\ i \in 1..Len(e.trades) /\ f.trades[i] = e.trades[i]
      /\ i > 1 => f.trades[i - 1] = e.trades[i - 1]
  BY ExecutorFields
<1>2. BalanceAt(f, i) = BalanceAt(e, i)
  BY <1>1 DEF BalanceAt
<1>3. CASE i = 1
  <2>1. e.trades[i].opens = TRUE
    BY <1>3 DEF RecordAgrees
  <2>2. QED BY <1>1, <1>2, <2>1 DEF RecordAgrees
<1>4. CASE i # 1
  BY <1>1, <1>2, <1>4 DEF RecordAgrees
<1>5. QED BY <1>3, <1>4

LEMMA OpeningFields ==
  ASSUME NEW risk \in Account, NEW side, NEW qty, NEW price
  PROVE  /\ Opening(risk, side, qty, price).balance = risk.balance - Fee(price, qty)
         /\ Opening(risk, side, qty, price).position = Signed(side, qty)
         /\ Opening(risk, side, qty, price).entry = price
         /\ Opening(risk, side, qty, price).stop = risk.stop
         /\ OpeningRecord(risk, side, qty, price).side = side
         /\ OpeningRecord(risk, side, qty, price).qty = qty
         /\ OpeningRecord(risk, side, qty, price).price = price
         /\ OpeningRecord(risk, side, qty, price).pnl = 0
         /\ OpeningRecord(risk, side, qty, price).opens
         /\ OpeningRecord(risk, side, qty, price).fee = Fee(price, qty)
         /\ OpeningRecord(risk, side, qty, price).balanceAfter
              = risk.balance - Fee(price, qty)
BY DEF Opening, OpeningRecord, Record

\* The books before and after one more record.
LEMMA BooksGrow ==
  ASSUME NEW e \in Executor, NEW f \in Executor, NEW t \in Booked, Books(e),
         f.trades = Append(e.trades, t)
  PROVE  /\ Len(e.trades) \in Nat /\ Len(f.trades) = Len(e.trades) + 1
         /\ DOMAIN f.trades = 1..(Len(e.trades) + 1)
         /\ f.trades[Len(f.trades)] = t /\ f.trades[Len(e.trades) + 1] = t
         /\ e.trades # <<>> => f.trades[Len(e.trades)] = e.trades[Len(e.trades)]
         /\ BalanceAt(f, Len(e.trades) + 1) = e.risk.balance
         /\ BalanceAt(f, Len(f.trades) + 1) = t.balanceAfter
         /\ \A i \in 1..Len(e.trades) : RecordAgrees(f, i)
<1> DEFINE m == Len(e.trades)
<1>1. e.trades \in Seq(Booked) /\ m \in Nat /\ DOMAIN e.trades = 1..m
  BY ExecutorFields
<1>2. /\ Len(f.trades) = m + 1 /\ DOMAIN f.trades = 1..(m + 1)
      /\ f.trades[m + 1] = t
      /\ m # 0 => f.trades[m] = e.trades[m]
  BY <1>1
<1>3. e.risk.balance = BalanceAt(e, m + 1)
  BY DEF Books
<1>4. BalanceAt(f, m + 1) = BalanceAt(e, m + 1)
  BY <1>1, <1>2 DEF BalanceAt
<1>5. BalanceAt(f, (m + 1) + 1) = t.balanceAfter
  BY <1>1, <1>2 DEF BalanceAt
<1>6. \A i \in 1..m : RecordAgrees(f, i)
  <2>1. ASSUME NEW i \in 1..m PROVE RecordAgrees(f, i)
    <3>1. i \in DOMAIN e.trades /\ RecordAgrees(e, i)
      BY <1>1, <2>1 DEF Books
    <3>2. QED BY <3>1, RecordsKept
  <2>2. QED BY <2>1
<1>7. e.trades # <<>> => m # 0
  BY <1>1
<1>8. QED BY <1>1, <1>2, <1>3, <1>4, <1>5, <1>6, <1>7

LEMMA ParityOf ==
  ASSUME NEW m \in Nat
  PROVE  /\ m % 2 \in {0, 1}
         /\ m % 2 = 0 => (m + 1) % 2 = 1
         /\ m % 2 = 1 => m # 0 /\ (m + 1) % 2 = 0 /\ ~((m + 1) % 2 = 1)
OBVIOUS

\* A fill that opens is an odd record, and the position is its.
LEMMA BooksOpened ==
  ASSUME NEW e \in Executor, NEW f, Books(e), e.risk.position = 0,
         NEW side \in {"BUY", "SELL"}, NEW qty \in Nat \ {0}, NEW price \in Nat \ {0},
         Opened(e, f, side, qty, price)
  PROVE  Books(f) /\ f.risk.position # 0
<1> DEFINE t == OpeningRecord(e.risk, side, qty, price)
           m == Len(e.trades)
<1>1. /\ f \in Executor /\ e.risk \in Account /\ t \in Booked
      /\ f.trades = Append(e.trades, t) /\ f.risk = Opening(e.risk, side, qty, price)
      /\ e.risk.balance \in Int /\ Fee(price, qty) \in Nat
  BY ExecutorFields, OpeningTyped, FeeNat DEF Opened
<1>2. /\ f.risk.balance = e.risk.balance - Fee(price, qty) /\ f.risk.entry = price
      /\ f.risk.position = Signed(side, qty)
      /\ t.side = side /\ t.qty = qty /\ t.price = price /\ t.pnl = 0
      /\ t.opens /\ t.fee = Fee(price, qty) /\ t.balanceAfter = f.risk.balance
  <2> DEFINE r == Opening(e.risk, side, qty, price)
  <2>1. /\ r.balance = e.risk.balance - Fee(price, qty) /\ r.entry = price
        /\ r.position = Signed(side, qty)
        /\ t.side = side /\ t.qty = qty /\ t.price = price /\ t.pnl = 0
        /\ t.opens /\ t.fee = Fee(price, qty)
        /\ t.balanceAfter = e.risk.balance - Fee(price, qty)
    BY <1>1, OpeningFields
  <2> HIDE DEF r, t
  <2>2. f.risk = r
    BY <1>1 DEF r
  <2>3. QED BY <2>1, <2>2
<1> HIDE DEF t
<1>3. /\ m \in Nat /\ Len(f.trades) = m + 1 /\ DOMAIN f.trades = 1..(m + 1)
      /\ f.trades[Len(f.trades)] = t /\ f.trades[m + 1] = t
      /\ BalanceAt(f, m + 1) = e.risk.balance
      /\ BalanceAt(f, Len(f.trades) + 1) = t.balanceAfter
      /\ \A i \in 1..m : RecordAgrees(f, i)
  BY <1>1, BooksGrow
<1>4. (m + 1) % 2 = 1
  <2>1. m % 2 = 0
    BY DEF Books
  <2>2. QED BY <1>3, <2>1, ParityOf
<1>5. RecordAgrees(f, m + 1)
  <2>1. f.trades[m + 1].balanceAfter
          = BalanceAt(f, m + 1) + f.trades[m + 1].pnl - f.trades[m + 1].fee
    BY <1>1, <1>2, <1>3
  <2>2. f.trades[m + 1].opens /\ ((m + 1) % 2 = 1)
    BY <1>2, <1>3, <1>4
  <2>3. QED BY <2>1, <2>2, Zenon DEF RecordAgrees
<1>6. \A i \in DOMAIN f.trades : RecordAgrees(f, i)
  BY <1>3, <1>5
<1>7. f.risk.position # 0 /\ OpenedBy(f, t)
  BY <1>2 DEF OpenedBy, Abs, Signed
<1>8. QED BY <1>2, <1>3, <1>4, <1>6, <1>7 DEF Books

GainOf(e, price) ==
  Cents * Abs(e.risk.position)
    * (IF e.risk.position > 0 THEN price - e.risk.entry ELSE e.risk.entry - price)

\* The account after a fill of all that is held, and the record of that fill.
Emptied(e, price) ==
  [balance |-> e.risk.balance + GainOf(e, price) - Fee(price, Abs(e.risk.position)),
   position |-> 0, stop |-> 0, entry |-> 0]

ClosingRecord(e, side, price) ==
  Record(side, Abs(e.risk.position), price, GainOf(e, price), FALSE, Emptied(e, price))

Closed(e, f, side, price) ==
  /\ f \in Executor
  /\ f.ts = e.ts /\ f.pending = e.pending /\ f.bar = e.bar
  /\ f.risk = Emptied(e, price)
  /\ f.trades = Append(e.trades, ClosingRecord(e, side, price))

LEMMA ClosingTyped ==
  ASSUME NEW e \in Executor, e.risk.position # 0, NEW side \in {"BUY", "SELL"},
         NEW price \in Nat \ {0}
  PROVE  /\ Abs(e.risk.position) \in Nat \ {0} /\ GainOf(e, price) \in Int
         /\ Fee(price, Abs(e.risk.position)) \in Nat
         /\ Emptied(e, price) \in Account
         /\ ClosingRecord(e, side, price) \in Booked
<1> DEFINE qty == Abs(e.risk.position)
           gain == GainOf(e, price)
<1>1. e.risk.position \in Int /\ e.risk.entry \in Nat /\ e.risk.balance \in Int
  BY ExecutorFields
<1>2. qty \in Nat \ {0}
  BY <1>1 DEF Abs
<1>3. Fee(price, qty) \in Nat
  BY <1>2, FeeNat
<1>4. gain \in Int
  <2> DEFINE move == IF e.risk.position > 0 THEN price - e.risk.entry ELSE e.risk.entry - price
  <2>1. move \in Int
    BY <1>1
  <2>2. Cents * qty \in Int
    BY <1>2, RiskAssumption
  <2> HIDE DEF move
  <2>3. Cents * qty * move \in Int
    BY <2>1, <2>2
  <2>4. QED BY <2>3 DEF GainOf, move
<1> HIDE DEF qty, gain
<1> DEFINE risk == Emptied(e, price)
<1>5. risk = [balance |-> e.risk.balance + gain - Fee(price, qty),
              position |-> 0, stop |-> 0, entry |-> 0]
  BY DEF Emptied, qty, gain
<1> HIDE DEF risk
<1>6. risk \in Account /\ risk.balance \in Int /\ risk.position = 0
  BY <1>1, <1>3, <1>4, <1>5 DEF Account
<1>7. Record(side, qty, price, gain, FALSE, risk) \in Booked
  BY <1>2, <1>3, <1>4, <1>6 DEF Record, Booked
<1>8. QED BY <1>2, <1>3, <1>4, <1>6, <1>7 DEF ClosingRecord, risk, qty, gain

LEMMA ClosingFields ==
  ASSUME NEW e, NEW side, NEW price
  PROVE  /\ Emptied(e, price).balance
              = e.risk.balance + GainOf(e, price) - Fee(price, Abs(e.risk.position))
         /\ Emptied(e, price).position = 0
         /\ ClosingRecord(e, side, price).side = side
         /\ ClosingRecord(e, side, price).qty = Abs(e.risk.position)
         /\ ClosingRecord(e, side, price).price = price
         /\ ClosingRecord(e, side, price).pnl = GainOf(e, price)
         /\ ~ClosingRecord(e, side, price).opens
         /\ ClosingRecord(e, side, price).fee = Fee(price, Abs(e.risk.position))
         /\ ClosingRecord(e, side, price).positionAfter = 0
         /\ ClosingRecord(e, side, price).balanceAfter
              = e.risk.balance + GainOf(e, price) - Fee(price, Abs(e.risk.position))
BY DEF Emptied, ClosingRecord, Record

\* execute_fill() of all that is held closes the position.
LEMMA ClosesAll ==
  ASSUME NEW e \in Executor, e.risk.position # 0, NEW side \in {"BUY", "SELL"},
         NEW price \in Nat \ {0}
  PROVE  Closed(e, CloseFill(e, side, Abs(e.risk.position), price), side, price)
<1> DEFINE pos == e.risk.position
           qty == Abs(pos)
           gain == GainOf(e, price)
           risk == Emptied(e, price)
           t == ClosingRecord(e, side, price)
           left == IF pos > 0 THEN pos - qty ELSE pos + qty
           final == UpdatePosition([e.risk EXCEPT !.balance = @ + gain - Fee(price, qty)], left)
<1>1. /\ pos \in Int /\ qty \in Nat \ {0} /\ risk \in Account /\ t \in Booked
      /\ e.trades \in Seq(Booked) /\ e.risk \in Account
  BY ExecutorFields, ClosingTyped
<1>2. Smaller(qty, qty) = qty /\ left = 0
  BY <1>1 DEF Smaller, Abs
<1>3. CloseFill(e, side, qty, price)
        = [e EXCEPT !.risk = final,
                    !.trades = Append(@, Record(side, qty, price, gain, FALSE, final))]
  BY <1>2 DEF CloseFill, GainOf
<1>4. final = risk
  <2> DEFINE paid == e.risk.balance + gain - Fee(price, qty)
  <2>1. risk = [balance |-> paid, position |-> 0, stop |-> 0, entry |-> 0]
    BY DEF Emptied
  <2> HIDE DEF left, paid, risk
  <2>2. e.risk = [balance |-> e.risk.balance, position |-> e.risk.position,
                  stop |-> e.risk.stop, entry |-> e.risk.entry]
    BY <1>1 DEF Account
  <2>3. UpdatePosition([e.risk EXCEPT !.balance = paid], left)
          = [balance |-> paid, position |-> 0, stop |-> 0, entry |-> 0]
    BY <1>2, <2>2 DEF UpdatePosition
  <2>4. QED BY <2>1, <2>3 DEF paid
<1> HIDE DEF final
<1>5. Record(side, qty, price, gain, FALSE, final) = t
  BY <1>4 DEF ClosingRecord
<1> HIDE DEF risk, t, gain
<1>6. PICK f : f = [e EXCEPT !.risk = risk, !.trades = Append(@, t)]
  OBVIOUS
<1>7. CloseFill(e, side, qty, price) = f
  BY <1>3, <1>4, <1>5, <1>6
<1>8. Append(e.trades, t) \in Seq(Booked)
  BY <1>1
<1>9. f \in Executor /\ f.risk = risk /\ f.trades = Append(e.trades, t)
      /\ f.ts = e.ts /\ f.pending = e.pending /\ f.bar = e.bar
  BY <1>1, <1>6, <1>8 DEF Executor
<1>10. Closed(e, f, side, price)
  BY <1>9 DEF Closed, risk, t
<1>11. QED BY <1>7, <1>10

\* A fill that closes is an even record, and closes what the one before it opened.
LEMMA BooksClosed ==
  ASSUME NEW e \in Executor, NEW f, Books(e), e.risk.position # 0,
         NEW side, side = (IF e.risk.position > 0 THEN "SELL" ELSE "BUY"),
         NEW price \in Nat \ {0}, Closed(e, f, side, price)
  PROVE  Books(f) /\ f.risk.position = 0
<1> DEFINE t == ClosingRecord(e, side, price)
           m == Len(e.trades)
           o == e.trades[m]
<1>1. /\ f \in Executor /\ side \in {"BUY", "SELL"} /\ t \in Booked
      /\ f.trades = Append(e.trades, t) /\ f.risk = Emptied(e, price)
      /\ e.risk.balance \in Int /\ Fee(price, Abs(e.risk.position)) \in Nat
      /\ GainOf(e, price) \in Int /\ e.risk.position \in Int
  BY ExecutorFields, ClosingTyped DEF Closed
<1>2. /\ t.side = side /\ t.qty = Abs(e.risk.position) /\ t.price = price
      /\ t.pnl = GainOf(e, price) /\ ~t.opens /\ t.positionAfter = 0
      /\ t.fee = Fee(price, Abs(e.risk.position))
      /\ t.balanceAfter = e.risk.balance + t.pnl - t.fee
      /\ f.risk.balance = t.balanceAfter /\ f.risk.position = 0
  <2> DEFINE r == Emptied(e, price)
  <2>1. /\ r.balance = e.risk.balance + GainOf(e, price) - Fee(price, Abs(e.risk.position))
        /\ r.position = 0
        /\ t.side = side /\ t.qty = Abs(e.risk.position) /\ t.price = price
        /\ t.pnl = GainOf(e, price) /\ ~t.opens /\ t.positionAfter = 0
        /\ t.fee = Fee(price, Abs(e.risk.position))
        /\ t.balanceAfter
             = e.risk.balance + GainOf(e, price) - Fee(price, Abs(e.risk.position))
    BY ClosingFields
  <2> HIDE DEF r, t
  <2>2. f.risk = r
    BY <1>1 DEF r
  <2>3. QED BY <2>1, <2>2
<1> HIDE DEF t
<1>3. /\ m \in Nat /\ Len(f.trades) = m + 1 /\ DOMAIN f.trades = 1..(m + 1)
      /\ f.trades[m + 1] = t
      /\ e.trades # <<>> => f.trades[m] = o
      /\ BalanceAt(f, m + 1) = e.risk.balance
      /\ BalanceAt(f, Len(f.trades) + 1) = t.balanceAfter
      /\ \A i \in 1..m : RecordAgrees(f, i)
  BY <1>1, BooksGrow
<1>4. m % 2 = 1 /\ OpenedBy(e, o)
  BY DEF Books
<1>5. (m + 1) % 2 = 0 /\ ~((m + 1) % 2 = 1) /\ m # 0
  BY <1>3, <1>4, ParityOf
<1>6. f.trades[m] = o
  <2>1. e.trades # <<>>
    BY <1>5
  <2>2. QED BY <1>3, <2>1
<1>7. RecordAgrees(f, m + 1)
  <2>1. f.trades[m + 1].balanceAfter
          = BalanceAt(f, m + 1) + f.trades[m + 1].pnl - f.trades[m + 1].fee
    BY <1>2, <1>3
  <2>2. ~f.trades[m + 1].opens /\ ~((m + 1) % 2 = 1)
    BY <1>2, <1>3, <1>5
  <2>3. (m + 1) - 1 = m
    BY <1>3
  <2>4. o.qty = Abs(e.risk.position) /\ o.price = e.risk.entry /\ o.side # side
    BY <1>1, <1>4 DEF OpenedBy
  <2>5. t.pnl = Cents * t.qty * (IF t.side = "SELL" THEN t.price - o.price
                                                    ELSE o.price - t.price)
    <3>1. (e.risk.position > 0) <=> (t.side = "SELL")
      BY <1>2
    <3>2. QED BY <1>2, <2>4, <3>1 DEF GainOf
  <2>6. /\ f.trades[m + 1].qty = f.trades[(m + 1) - 1].qty
        /\ f.trades[m + 1].side # f.trades[(m + 1) - 1].side
        /\ f.trades[m + 1].positionAfter = 0
        /\ f.trades[m + 1].pnl = Cents * f.trades[m + 1].qty *
             (IF f.trades[m + 1].side = "SELL"
              THEN f.trades[m + 1].price - f.trades[(m + 1) - 1].price
              ELSE f.trades[(m + 1) - 1].price - f.trades[m + 1].price)
    BY <1>2, <1>3, <1>6, <2>3, <2>4, <2>5
  <2>7. QED BY <2>1, <2>2, <2>6, Zenon DEF RecordAgrees
<1>8. \A i \in DOMAIN f.trades : RecordAgrees(f, i)
  BY <1>3, <1>7
<1>9. QED BY <1>2, <1>3, <1>5, <1>8 DEF Books

-----------------------------------------------------------------------------
(* The executor's operations.                                              *)

\* execute_fill() of a flat account: a price fills, no price is refused.
LEMMA FillFlat ==
  ASSUME NEW e \in Executor, e.risk.position = 0, NEW side \in {"BUY", "SELL"},
         NEW qty \in Nat \ {0}, NEW price \in Int
  PROVE  /\ price > 0 => /\ Fill(e, side, qty, price, FALSE).ok
                         /\ Opened(e, Fill(e, side, qty, price, FALSE).ex, side, qty, price)
         /\ price <= 0 => ~Fill(e, side, qty, price, FALSE).ok
<1>1. CASE price > 0
  <2>1. ~(qty <= 0 \/ price <= 0) /\ ~Closes(e, side, FALSE)
    BY <1>1 DEF Closes
  <2>2. /\ Fill(e, side, qty, price, FALSE).ok
        /\ Fill(e, side, qty, price, FALSE).ex = OpenFill(e, side, qty, price)
    BY <1>1, <2>1 DEF Fill
  <2>3. price \in Nat \ {0}
    BY <1>1
  <2>4. Opened(e, OpenFill(e, side, qty, price), side, qty, price) /\ ~(price <= 0)
    BY <2>3, OpensFlat
  <2>5. QED BY <2>2, <2>4
<1>2. CASE price <= 0
  <2>1. ~(price > 0)
    BY <1>2
  <2>2. ~Fill(e, side, qty, price, FALSE).ok
    BY <1>2, <2>1 DEF Fill
  <2>3. QED BY <2>1, <2>2
<1>3. QED BY <1>1, <1>2

\* A reduce-only fill of all that is held closes it, or is refused for want of a price.
LEMMA FillAll ==
  ASSUME NEW e \in Executor, e.risk.position # 0, NEW side \in {"BUY", "SELL"},
         NEW price \in Int
  PROVE  LET f == Fill(e, side, Abs(e.risk.position), price, TRUE).ex
         IN  /\ price > 0 => Closed(e, f, side, price)
             /\ price <= 0 => f = e
<1> DEFINE qty == Abs(e.risk.position)
<1>1. qty \in Nat \ {0}
  BY ExecutorFields DEF Abs
<1> HIDE DEF qty
<1>2. CASE price > 0
  <2>1. ~(qty <= 0 \/ price <= 0) /\ qty > 0 /\ Closes(e, side, TRUE)
    BY <1>1, <1>2 DEF Closes
  <2>2. Fill(e, side, qty, price, TRUE).ex = CloseFill(e, side, qty, price)
    BY <1>2, <2>1 DEF Fill
  <2>3. price \in Nat \ {0}
    BY <1>2
  <2>4. Closed(e, CloseFill(e, side, qty, price), side, price) /\ ~(price <= 0)
    BY <2>3, ClosesAll DEF qty
  <2>5. QED BY <2>2, <2>4 DEF qty
<1>3. CASE price <= 0
  <2>1. ~(price > 0)
    BY <1>3
  <2>2. Fill(e, side, qty, price, TRUE).ex = e
    BY <1>3, <2>1 DEF Fill
  <2>3. QED BY <2>1, <2>2 DEF qty
<1>4. QED BY <1>2, <1>3

\* The books, the guard and the budget are about the account, the ledger and the stop.
LEMMA BooksSame ==
  ASSUME NEW e, NEW f, f.trades = e.trades, f.risk.balance = e.risk.balance,
         f.risk.position = e.risk.position, f.risk.entry = e.risk.entry
  PROVE  /\ Books(e) => Books(f)
         /\ f.risk.stop = e.risk.stop /\ Afforded(e) => Afforded(f)
<1>1. Books(e) => Books(f)
  <2>1. \A i : BalanceAt(f, i) = BalanceAt(e, i)
    BY DEF BalanceAt
  <2>2. ASSUME NEW i, RecordAgrees(e, i) PROVE RecordAgrees(f, i)
    BY <2>1, <2>2 DEF RecordAgrees
  <2>3. \A t : OpenedBy(e, t) => OpenedBy(f, t)
    BY DEF OpenedBy
  <2>4. QED BY <2>1, <2>2, <2>3 DEF Books
<1>2. f.risk.stop = e.risk.stop /\ Afforded(e) => Afforded(f)
  BY DEF Afforded, SignalOf, BalanceBeforeFill
<1>3. QED BY <1>1, <1>2

LEMMA BarSetBar ==
  ASSUME NEW bar \in BarSet
  PROVE  /\ bar \in Bar /\ bar \in Quote /\ bar.close \in Nat \ {0} /\ Slip < bar.close
         /\ bar.low \in Nat \ {0} /\ bar.high \in Nat \ {0}
BY BarSetAssumption, SlippageAssumption DEF Bar, Quote

\* A stop that closes a guarded position does so at a price, slippage taken.
LEMMA ExitHasPrice ==
  ASSUME NEW e \in Executor, NEW bar \in BarSet, e.risk.position # 0
  PROVE  LET side == IF e.risk.position > 0 THEN "SELL" ELSE "BUY"
         IN  /\ Slipped(side, ExitPrice(e.ts, bar)) \in Int
             /\ Guarded(e) => Slipped(side, ExitPrice(e.ts, bar)) > 0
<1> DEFINE out == ExitPrice(e.ts, bar)
           stop == InForce(e.ts)
<1>1. /\ bar.close \in Nat \ {0} /\ Slip < bar.close /\ Slip \in Nat
      /\ e.risk.position \in Int /\ e.ts \in Stop
  BY BarSetBar, ExecutorFields, CostAssumption
<1>2. /\ e.ts.hard \in Nat /\ e.ts.extreme \in Nat /\ e.ts.side \in Sides
  BY <1>1 DEF Stop
<1>3. stop \in Nat /\ out \in Nat
  BY <1>1, <1>2 DEF InForce, ExitPrice, Larger, Smaller
<1>4. CASE e.risk.position > 0
  <2>1. ASSUME Guarded(e) PROVE out > Slip
    <3>1. e.ts.side = 1 /\ e.ts.hard = e.risk.stop /\ e.risk.stop \in Stops \ {0}
      BY <1>1, <1>4, <2>1 DEF Guarded, SideOf
    <3>2. e.ts.hard > Slip
      BY <3>1, SlippageAssumption
    <3>3. stop > Slip
      BY <1>1, <1>2, <3>1, <3>2 DEF InForce, Larger
    <3> HIDE DEF stop
    <3>4. out = Smaller(bar.close, stop)
      BY <3>1 DEF ExitPrice, stop
    <3>5. QED BY <1>1, <1>3, <3>3, <3>4 DEF Smaller
  <2>2. Slipped("SELL", out) = out - Slip
    BY DEF Slipped
  <2> HIDE DEF out
  <2>3. QED BY <1>1, <1>3, <1>4, <2>1, <2>2 DEF out
<1>5. CASE ~(e.risk.position > 0)
  <2>1. Slipped("BUY", out) = out + Slip
    BY DEF Slipped
  <2>2. ASSUME Guarded(e) PROVE out > 0
    <3>1. e.ts.side = -1
      BY <1>1, <1>5, <2>2 DEF Guarded, SideOf
    <3> HIDE DEF stop
    <3>2. out = Larger(bar.close, stop)
      BY <3>1 DEF ExitPrice, stop
    <3>3. QED BY <1>1, <1>3, <3>2 DEF Larger
  <2> HIDE DEF out
  <2>3. QED BY <1>1, <1>3, <1>5, <2>1, <2>2 DEF out
<1>6. QED BY <1>4, <1>5

\* Only the stop object changes.
LEMMA StopReplaced ==
  ASSUME NEW e \in Executor, NEW ts \in Stop
  PROVE  LET f == [e EXCEPT !.ts = ts]
         IN  /\ f \in Executor /\ f.ts = ts /\ f.risk = e.risk
             /\ f.pending = e.pending /\ f.bar = e.bar /\ f.trades = e.trades
BY DEF Executor

LEMMA AfterBarKeeps ==
  ASSUME NEW ts \in Stop, NEW bar, ~Hit(ts, bar)
  PROVE  /\ AfterBar(ts, bar).side = ts.side /\ AfterBar(ts, bar).hard = ts.hard
         /\ AfterBar(ts, bar).indicator = ts.indicator
<1>1. AfterBar(ts, bar) = Trailed(ts)
  BY DEF AfterBar
<1>2. ts.side \in Sides
  BY DEF Stop
<1>3. Trailed(ts).side = ts.side /\ Trailed(ts).hard = ts.hard
      /\ Trailed(ts).indicator = ts.indicator
  BY <1>2 DEF Trailed, Stop, Sides
<1>4. QED BY <1>1, <1>3

\* check_and_execute_stop() closes all of the position or none of it.
LEMMA CheckStopEffect ==
  ASSUME NEW e \in Executor, e.bar \in BarSet, Books(e)
  PROVE  LET f == CheckStop(e)
         IN  /\ f \in Executor /\ f.bar = e.bar /\ f.pending = e.pending /\ Books(f)
             /\ f.risk = e.risk \/ f.risk.position = 0
             /\ Guarded(e) => Guarded(f)
             /\ Afforded(e) => Afforded(f)
<1>1. CASE e.risk.position = 0
  <2>1. CheckStop(e) = e
    BY <1>1 DEF CheckStop
  <2>2. QED BY <2>1
<1>2. CASE e.risk.position # 0
  <2> DEFINE side == IF e.risk.position > 0 THEN "SELL" ELSE "BUY"
             g == [e EXCEPT !.ts = AfterBar(e.ts, e.bar)]
             price == Slipped(side, ExitPrice(e.ts, e.bar))
  <2>1. e.ts \in Stop /\ e.bar \in Bar /\ AfterBar(e.ts, e.bar) \in Stop
    BY ExecutorFields, BarSetBar, AfterBarStop
  <2>2. /\ g \in Executor /\ g.ts = AfterBar(e.ts, e.bar) /\ g.risk = e.risk
        /\ g.pending = e.pending /\ g.bar = e.bar /\ g.trades = e.trades
    BY <2>1, StopReplaced
  <2>3. Books(g) /\ (Afforded(e) => Afforded(g))
    <3> HIDE DEF g
    <3>1. QED BY <2>2, BooksSame
  <2>4. CASE ~Hit(e.ts, e.bar)
    <3>1. CheckStop(e) = g
      BY <1>2, <2>4 DEF CheckStop
    <3> HIDE DEF g
    <3>2. Guarded(e) => Guarded(g)
      <4>1. g.ts.side = e.ts.side /\ g.ts.hard = e.ts.hard /\ g.ts.indicator = e.ts.indicator
        BY <2>1, <2>2, <2>4, AfterBarKeeps
      <4>2. QED BY <2>2, <4>1 DEF Guarded
    <3>3. QED BY <2>2, <2>3, <3>1, <3>2
  <2>5. CASE Hit(e.ts, e.bar)
    <3>1. CheckStop(e) = Fill(g, side, Abs(e.risk.position), price, TRUE).ex
      BY <1>2, <2>5 DEF CheckStop
    <3>2. side \in {"BUY", "SELL"} /\ price \in Int
      BY <1>2, ExitHasPrice
    <3>3. Guarded(e) => price > 0
      BY <1>2, ExitHasPrice
    <3> HIDE DEF g, price
    <3>4. CheckStop(e) = Fill(g, side, Abs(g.risk.position), price, TRUE).ex
      BY <2>2, <3>1
    <3>5. CASE price > 0
      <4> DEFINE f == CheckStop(e)
      <4>1. Closed(g, f, side, price)
        BY <1>2, <2>2, <3>2, <3>4, <3>5, FillAll
      <4>2. side = (IF g.risk.position > 0 THEN "SELL" ELSE "BUY") /\ price \in Nat \ {0}
        BY <2>2, <3>2, <3>5
      <4> HIDE DEF f, side
      <4>3. Books(f) /\ f.risk.position = 0
        BY <1>2, <2>2, <2>3, <4>1, <4>2, BooksClosed
      <4>4. f \in Executor /\ f.bar = e.bar /\ f.pending = e.pending
        BY <2>2, <4>1 DEF Closed
      <4>5. Guarded(f) /\ Afforded(f)
        BY <4>3 DEF Guarded, Afforded
      <4>6. QED BY <4>3, <4>4, <4>5 DEF f
    <3>6. CASE ~(price > 0)
      <4>1. CheckStop(e) = g /\ ~Guarded(e)
        <5>1. price <= 0 /\ g.risk.position # 0 /\ ~Guarded(e)
          BY <1>2, <2>2, <3>2, <3>3, <3>6
        <5> HIDE DEF side
        <5>2. Fill(g, side, Abs(g.risk.position), price, TRUE).ex = g
          BY <2>2, <3>2, <5>1, FillAll
        <5>3. QED BY <3>4, <5>1, <5>2
      <4>2. QED BY <2>2, <2>3, <4>1
    <3>7. QED BY <3>5, <3>6
  <2>6. QED BY <2>4, <2>5
<1>3. QED BY <1>1, <1>2

\* The caller sets the stop, then arms: the stop object takes over position and stop.
LEMMA ProtectEffect ==
  ASSUME NEW e \in Executor, NEW msg \in Order
  PROVE  LET f == Protect(e, msg)
         IN  /\ f \in Executor /\ f.bar = e.bar /\ f.pending = e.pending
             /\ f.trades = e.trades
             /\ f.risk.balance = e.risk.balance /\ f.risk.position = e.risk.position
             /\ f.risk.entry = e.risk.entry /\ f.risk.stop = msg.stop
             /\ f.ts.side = SideOf(e.risk.position) /\ f.ts.hard = msg.stop
             /\ f.ts.indicator = SideSpecific(msg.action)
<1> DEFINE g == [e EXCEPT !.risk.stop = msg.stop]
           ts == OnEntry(Configure(e.ts, SideSpecific(msg.action), Period),
                         SideOf(e.risk.position), msg.stop)
<1>1. msg.stop \in Nat
  BY StopsAssumption DEF Order
<1>2. /\ e.risk \in Account /\ e.ts \in Stop
      /\ SideOf(e.risk.position) \in Sides
      /\ SideSpecific(msg.action) \in Indicators \ {"none"}
  BY ExecutorFields DEF SideOf, Sides, SideSpecific, Indicators
<1>3. /\ g \in Executor /\ g.ts = e.ts /\ g.bar = e.bar /\ g.pending = e.pending
      /\ g.trades = e.trades
      /\ g.risk.balance = e.risk.balance /\ g.risk.position = e.risk.position
      /\ g.risk.entry = e.risk.entry /\ g.risk.stop = msg.stop
  BY <1>1, <1>2 DEF Executor, Account
<1>4. /\ ts \in Stop /\ ts.side = SideOf(e.risk.position) /\ ts.hard = msg.stop
      /\ ts.indicator = SideSpecific(msg.action)
  BY <1>1, <1>2, PeriodAssumption DEF OnEntry, Configure, Stop
<1> HIDE DEF g
<1>5. Protect(e, msg) = [g EXCEPT !.ts = ts]
  <2>1. ~(SideSpecific(msg.action) = "none" \/ Period <= 0)
    BY <1>2, PeriodAssumption
  <2>2. Protect(e, msg) = ArmTrailing(g, SideSpecific(msg.action), Period)
    BY DEF Protect, g
  <2>3. ArmTrailing(g, SideSpecific(msg.action), Period) = [g EXCEPT !.ts = ts]
    BY <1>3, <2>1 DEF ArmTrailing
  <2>4. QED BY <2>2, <2>3
<1> HIDE DEF ts
<1>6. QED BY <1>3, <1>4, <1>5, StopReplaced

\* An account in debt sizes nothing.
LEMMA DebtSizesNothing ==
  ASSUME NEW rm \in Account, NEW action \in {"BUY", "SELL"},
         NEW price \in Nat, NEW stop \in Nat, TargetSize(rm, action, price, stop) > 0
  PROVE  rm.balance \in Nat
<1>1. rm.balance \in Int
  BY DEF Account
<1>2. SUFFICES ASSUME rm.balance < 0 PROVE FALSE
  BY <1>1
<1>3. price \in Nat \ {0} /\ stop # 0 /\ price # stop /\ StopOnLosingSide(action, price, stop)
  BY DEF TargetSize
<1> DEFINE cost == Cents * RiskShare * Distance(price, stop)
           value == Cents * price
<1>4. cost \in Nat \ {0} /\ value \in Nat \ {0}
  <2>1. Distance(price, stop) \in Nat \ {0}
    BY <1>3 DEF Distance
  <2>2. Cents * RiskShare \in Nat \ {0}
    BY RiskAssumption, PositiveProduct
  <2>3. QED BY <1>3, <2>1, <2>2, RiskAssumption, PositiveProduct
<1>5. ASSUME NEW a \in Int, a < 0, NEW b \in Nat \ {0} PROVE a \div b \in Int /\ a \div b < 0
  BY <1>5
<1>6. BySize(rm, price, stop) = rm.balance \div cost
  BY DEF BySize
<1>7. ByLeverage(rm, price) = (rm.balance * Leverage) \div value
  BY DEF ByLeverage
<1> HIDE DEF cost, value
<1>8. BySize(rm, price, stop) \in Int /\ BySize(rm, price, stop) < 0
  BY <1>1, <1>2, <1>4, <1>5, <1>6
<1>9. ByLeverage(rm, price) \in Int /\ ByLeverage(rm, price) < 0
  <2>1. rm.balance * Leverage \in Int /\ rm.balance * Leverage < 0
    BY <1>1, <1>2, RiskAssumption
  <2> DEFINE most == rm.balance * Leverage
  <2> HIDE DEF most
  <2>2. most \div value \in Int /\ most \div value < 0
    BY <1>4, <1>5, <2>1 DEF most
  <2>3. QED BY <1>7, <2>2 DEF most
<1>10. TargetSize(rm, action, price, stop) \in {BySize(rm, price, stop), ByLeverage(rm, price)}
  BY <1>3 DEF TargetSize
<1>11. QED BY <1>8, <1>9, <1>10

\* What calculate_target_size() promises of an order it does not refuse.
LEMMA SizedOrder ==
  ASSUME NEW rm \in Account, NEW msg \in Order,
         TargetSize(rm, msg.action, msg.price, msg.stop) > 0
  PROVE  LET size == TargetSize(rm, msg.action, msg.price, msg.stop)
         IN  /\ size \in Nat \ {0}
             /\ msg.price \in Nat \ {0}
             /\ msg.stop \in Stops \ {0}
             /\ msg.action = "BUY" => msg.stop < msg.price
             /\ msg.action = "SELL" => msg.stop > msg.price
             /\ size * Cents * RiskShare * Distance(msg.price, msg.stop) <= rm.balance
             /\ size * Cents * msg.price <= Leverage * rm.balance
<1> DEFINE size == TargetSize(rm, msg.action, msg.price, msg.stop)
           d == Distance(msg.price, msg.stop)
<1>1. msg.action \in {"BUY", "SELL"} /\ msg.price \in Nat /\ msg.stop \in Nat /\ msg.stop \in Stops
  BY StopsAssumption DEF Order
<1>2. rm.balance \in Nat
  BY <1>1, DebtSizesNothing
<1>3. /\ size \in Nat
      /\ size * (Cents * RiskShare * d) <= rm.balance
      /\ size * (Cents * msg.price) <= rm.balance * Leverage
      /\ size > 0 => /\ msg.stop > 0
                     /\ msg.action = "BUY" => msg.stop < msg.price
                     /\ msg.action = "SELL" => msg.stop > msg.price
  BY <1>1, <1>2, SizeWithinBudgets
<1>4. size > 0 /\ d \in Nat
  BY <1>1 DEF Distance
<1>5. msg.price # 0
  BY <1>4 DEF TargetSize
<1> HIDE DEF size, d
<1>6. size * (Cents * RiskShare * d) = size * Cents * RiskShare * d
      /\ size * (Cents * msg.price) = size * Cents * msg.price
      /\ rm.balance * Leverage = Leverage * rm.balance
  BY <1>1, <1>2, <1>3, <1>4, RiskAssumption
<1>7. QED BY <1>1, <1>3, <1>4, <1>5, <1>6 DEF size, d

\* An order filled at its signal price is guarded by its stop and within its budgets.
LEMMA EntryGuarded ==
  ASSUME NEW rm \in Account, NEW msg \in Order, NEW size, NEW f,
         size = TargetSize(rm, msg.action, msg.price, msg.stop), size > 0,
         f.risk.position = Signed(msg.action, size),
         f.risk.entry = Slipped(msg.action, msg.price),
         f.risk.balance = rm.balance - Fee(f.risk.entry, size),
         f.risk.entry \in Nat \ {0},
         f.risk.stop = msg.stop,
         f.ts.side = SideOf(f.risk.position), f.ts.hard = msg.stop,
         f.ts.indicator = SideSpecific(msg.action)
  PROVE  Guarded(f) /\ Afforded(f)
<1>1. /\ size \in Nat \ {0} /\ msg.price \in Nat \ {0} /\ msg.stop \in Stops \ {0}
      /\ msg.action = "BUY" => msg.stop < msg.price
      /\ msg.action = "SELL" => msg.stop > msg.price
      /\ size * Cents * RiskShare * Distance(msg.price, msg.stop) <= rm.balance
      /\ size * Cents * msg.price <= Leverage * rm.balance
  BY SizedOrder
<1>2. msg.action \in {"BUY", "SELL"} /\ msg.stop \in Nat /\ Slip \in Nat
  BY <1>1, StopsAssumption, CostAssumption DEF Order
<1>3. /\ Abs(f.risk.position) = size
      /\ (f.risk.position > 0) <=> (msg.action = "BUY")
  BY <1>1, <1>2 DEF Signed, Abs
<1>4. /\ msg.action = "BUY" => f.risk.entry = msg.price + Slip
      /\ msg.action = "SELL" => f.risk.entry = msg.price - Slip
  BY DEF Slipped
<1>5. Guarded(f)
  BY <1>1, <1>2, <1>3, <1>4 DEF Guarded, SideSpecific
<1>6. Afforded(f)
  <2>1. Fee(f.risk.entry, size) \in Nat /\ rm.balance \in Int
    BY <1>1, FeeNat DEF Account
  <2>2. BalanceBeforeFill(f) = rm.balance
    BY <1>3, <2>1 DEF BalanceBeforeFill
  <2>3. SignalOf(f) = msg.price
    BY <1>1, <1>2, <1>3, <1>4 DEF SignalOf
  <2>4. QED BY <1>1, <1>3, <2>2, <2>3 DEF Afforded
<1>7. QED BY <1>5, <1>6

\* send_order(): what is not filled at once rests; at the signal's own bar nothing rests.
LEMMA SendOrderEffect ==
  ASSUME NEW e \in Executor, e.risk.position = 0, NEW order \in Resting
  PROVE  \/ /\ order.price # e.bar.close
            /\ SendOrder(e, order).ok
            /\ SendOrder(e, order).ex = [e EXCEPT !.pending = Append(@, order)]
         \/ \E price \in Int :
              /\ order.price = e.bar.close => price = Slipped(order.side, order.price)
              /\ SendOrder(e, order) = Fill(e, order.side, order.qty, price, FALSE)
<1>1. /\ order.side \in {"BUY", "SELL"} /\ order.qty \in Nat \ {0}
      /\ order.price \in Nat \ {0} /\ order.reduceOnly = FALSE
      /\ e.bar.close \in Nat /\ Slip \in Nat
  BY ExecutorFields, CostAssumption DEF Resting, Quote
<1>2. ~(order.qty <= 0 \/ order.price <= 0) /\ order.qty > 0 /\ order.price > 0
  BY <1>1
<1>3. \A p \in Nat : Slipped(order.side, p) \in Int
  BY <1>1 DEF Slipped
<1>4. CASE order.type \in {"MARKET", "IOC"}
  <2>1. SendOrder(e, order) = Fill(e, order.side, order.qty,
                                   Slipped(order.side, order.price), FALSE)
    BY <1>1, <1>2, <1>4 DEF SendOrder
  <2>2. QED BY <1>1, <1>3, <2>1
<1>5. CASE order.type \notin {"MARKET", "IOC"} /\ Crosses(e, order)
  <2>1. SendOrder(e, order) = Fill(e, order.side, order.qty,
                                   Slipped(order.side, e.bar.close), FALSE)
    BY <1>1, <1>2, <1>5 DEF SendOrder
  <2>2. QED BY <1>1, <1>3, <2>1
<1>6. CASE order.type \notin {"MARKET", "IOC"} /\ ~Crosses(e, order)
  <2>1. /\ SendOrder(e, order).ok
        /\ SendOrder(e, order).ex = [e EXCEPT !.pending = Append(@, order)]
    BY <1>2, <1>6 DEF SendOrder
  <2>2. order.price # e.bar.close
    BY <1>1, <1>6 DEF Crosses
  <2>3. QED BY <2>1, <2>2
<1>7. QED BY <1>4, <1>5, <1>6

\* handle_json() for BUY and SELL.
LEMMA HandleOpenEffect ==
  ASSUME ex \in Executor, NEW msg \in Order, Books(ex), ex.pending = <<>>
  PROVE  LET f == HandleOpen(msg)
         IN  /\ f \in Executor /\ f.bar = ex.bar /\ Books(f)
             /\ \/ f = ex
                \/ f.risk.position = 0 /\ Len(f.pending) = 1 /\ f.pending # <<>>
                \/ f.risk.position # 0 /\ f.pending = <<>>
             /\ msg.price = ex.bar.close =>
                  /\ f.pending = <<>>
                  /\ Guarded(ex) => Guarded(f)
                  /\ Afforded(ex) => Afforded(f)
<1> DEFINE size == Sized(msg)
           order == OrderOf(msg)
           sent == SendOrder(ex, order)
<1>1. CASE ~Accepts(msg)
  <2>1. HandleOpen(msg) = ex
    BY <1>1 DEF HandleOpen
  <2>2. QED BY <2>1
<1>2. CASE Accepts(msg)
  <2>1. /\ ex.risk.position = 0 /\ ex.risk \in Account
        /\ size = TargetSize(ex.risk, msg.action, msg.price, msg.stop)
        /\ size > 0
    BY <1>2, ExecutorFields DEF Accepts, Sized
  <2>2. size \in Nat \ {0} /\ msg.price \in Nat \ {0}
    <3>1. TargetSize(ex.risk, msg.action, msg.price, msg.stop) > 0
      BY <2>1
    <3> HIDE DEF size
    <3>2. QED BY <2>1, <3>1, SizedOrder
  <2>3. msg.action \in {"BUY", "SELL"} /\ msg.type = WireType
    BY DEF Order
  <2> HIDE DEF size
  <2>4. /\ order \in Resting /\ order.side = msg.action /\ order.qty = size
        /\ order.price = msg.price
    BY <2>2, <2>3 DEF OrderOf, Resting, size
  <2>5. HandleOpen(msg) = IF sent.ok THEN Protect(sent.ex, msg) ELSE ex
    BY <1>2 DEF HandleOpen
  <2> HIDE DEF order
  <2>6. CASE /\ order.price # ex.bar.close
             /\ sent.ok
             /\ sent.ex = [ex EXCEPT !.pending = Append(@, order)]
    <3> DEFINE g == sent.ex
    <3>1. HandleOpen(msg) = Protect(g, msg)
      BY <2>5, <2>6
    <3>2. /\ g \in Executor /\ g.risk = ex.risk /\ g.bar = ex.bar /\ g.trades = ex.trades
          /\ g.pending = Append(ex.pending, order)
      <4>1. Append(ex.pending, order) \in Seq(Resting)
        BY <2>4, ExecutorFields
      <4> HIDE DEF sent
      <4>2. QED BY <2>6, <4>1 DEF Executor
    <3>3. Len(g.pending) = 1 /\ g.pending # <<>>
      BY <2>4, <3>2
    <3> HIDE DEF g
    <3> DEFINE f == Protect(g, msg)
    <3>4. /\ f \in Executor /\ f.bar = g.bar /\ f.pending = g.pending
          /\ f.trades = g.trades
          /\ f.risk.balance = g.risk.balance /\ f.risk.position = g.risk.position
          /\ f.risk.entry = g.risk.entry
      BY <3>2, ProtectEffect
    <3> HIDE DEF f
    <3>5. Books(f)
      BY <3>2, <3>4, BooksSame
    <3>6. f.bar = ex.bar /\ f.risk.position = 0 /\ Len(f.pending) = 1 /\ f.pending # <<>>
      BY <2>1, <3>2, <3>3, <3>4
    <3>7. msg.price # ex.bar.close
      BY <2>4, <2>6
    <3>8. QED BY <3>1, <3>4, <3>5, <3>6, <3>7 DEF f
  <2>7. ASSUME NEW price \in Int,
               order.price = ex.bar.close => price = Slipped(order.side, order.price),
               sent = Fill(ex, order.side, order.qty, price, FALSE)
        PROVE  LET f == HandleOpen(msg)
               IN  /\ f \in Executor /\ f.bar = ex.bar /\ Books(f)
                   /\ \/ f = ex
                      \/ f.risk.position # 0 /\ f.pending = <<>>
                   /\ msg.price = ex.bar.close =>
                        f.pending = <<>> /\ (Guarded(ex) => Guarded(f))
                                         /\ (Afforded(ex) => Afforded(f))
    <3> DEFINE g == sent.ex
    <3>1. sent = Fill(ex, msg.action, size, price, FALSE)
      BY <2>4, <2>7
    <3> HIDE DEF sent
    <3>2. CASE price <= 0
      <4>1. ~Fill(ex, msg.action, size, price, FALSE).ok
        BY <2>1, <2>2, <2>3, <2>7, <3>2, FillFlat
      <4>2. ~sent.ok
        BY <3>1, <4>1, Zenon
      <4>3. HandleOpen(msg) = ex
        BY <2>5, <4>2
      <4>4. QED BY <4>3
    <3>3. CASE price > 0
      <4>1. /\ Fill(ex, msg.action, size, price, FALSE).ok
            /\ Opened(ex, Fill(ex, msg.action, size, price, FALSE).ex, msg.action, size, price)
        BY <2>1, <2>2, <2>3, <2>7, <3>3, FillFlat
      <4>2. sent.ok /\ Opened(ex, g, msg.action, size, price)
        BY <3>1, <4>1, Zenon
      <4>3. HandleOpen(msg) = Protect(g, msg) /\ price \in Nat \ {0}
        BY <2>5, <2>7, <3>3, <4>2
      <4> HIDE DEF g
      <4>4. Books(g) /\ g.risk.position # 0
        BY <2>1, <2>2, <2>3, <4>2, <4>3, BooksOpened
      <4>5. /\ g \in Executor /\ g.bar = ex.bar /\ g.pending = <<>>
            /\ g.risk.balance = ex.risk.balance - Fee(price, size)
            /\ g.risk.position = Signed(msg.action, size)
            /\ g.risk.entry = price
        <5> DEFINE r == Opening(ex.risk, msg.action, size, price)
        <5>1. g \in Executor /\ g.bar = ex.bar /\ g.pending = <<>> /\ g.risk = r
          BY <4>2 DEF Opened
        <5>2. /\ r.balance = ex.risk.balance - Fee(price, size)
              /\ r.position = Signed(msg.action, size) /\ r.entry = price
          BY <2>1, OpeningFields
        <5> HIDE DEF r
        <5>3. QED BY <5>1, <5>2
      <4> DEFINE f == Protect(g, msg)
      <4>6. /\ f \in Executor /\ f.bar = g.bar /\ f.pending = g.pending
            /\ f.trades = g.trades
            /\ f.risk.balance = g.risk.balance /\ f.risk.position = g.risk.position
            /\ f.risk.entry = g.risk.entry /\ f.risk.stop = msg.stop
            /\ f.ts.side = SideOf(g.risk.position) /\ f.ts.hard = msg.stop
            /\ f.ts.indicator = SideSpecific(msg.action)
        BY <4>5, ProtectEffect
      <4> HIDE DEF f
      <4>7. Books(f)
        BY <4>4, <4>6, BooksSame
      <4>8. ASSUME msg.price = ex.bar.close PROVE Guarded(f) /\ Afforded(f)
        <5>1. price = Slipped(msg.action, msg.price)
          BY <2>4, <2>7, <4>8
        <5>2. /\ f.risk.position = Signed(msg.action, size)
              /\ f.risk.entry = Slipped(msg.action, msg.price)
              /\ f.risk.balance = ex.risk.balance - Fee(f.risk.entry, size)
              /\ f.risk.entry \in Nat \ {0}
              /\ f.ts.side = SideOf(f.risk.position)
          BY <4>3, <4>5, <4>6, <5>1
        <5>3. QED BY <2>1, <4>6, <5>2, EntryGuarded
      <4>9. f.bar = ex.bar /\ f.risk.position # 0 /\ f.pending = <<>>
        BY <4>4, <4>5, <4>6
      <4>10. QED BY <4>3, <4>6, <4>7, <4>8, <4>9 DEF f
    <3>4. QED BY <2>7, <3>2, <3>3
  <2>8. \/ /\ order.price # ex.bar.close
           /\ sent.ok
           /\ sent.ex = [ex EXCEPT !.pending = Append(@, order)]
        \/ \E price \in Int :
             /\ order.price = ex.bar.close => price = Slipped(order.side, order.price)
             /\ sent = Fill(ex, order.side, order.qty, price, FALSE)
    BY <2>1, <2>4, SendOrderEffect
  <2>9. QED BY <2>6, <2>7, <2>8
<1>3. QED BY <1>1, <1>2

(***************************************************************************)
(* process_pending_orders() walks the resting orders: there is one at most. *)
(***************************************************************************)
Handled(e, bar, cleared, i) ==
  \/ Through(e.pending[i], bar)
  \/ Touched(e.pending[i], bar) /\ i \in cleared

Tried(e, bar, cleared, acc, i) ==
  IF Handled(e, bar, cleared, i)
  THEN Fill(acc, e.pending[i].side, e.pending[i].qty,
            e.pending[i].price, e.pending[i].reduceOnly).ex
  ELSE [acc EXCEPT !.pending = Append(@, e.pending[i])]

Emptying(e) == [e EXCEPT !.pending = <<>>]

\* g is the recursion the fold over the resting orders unfolds to.
Walk(e, bar, cleared, S, g) ==
  g = [s \in SUBSET S |->
         IF s = {} THEN Emptying(e)
         ELSE Tried(e, bar, cleared, g[s \ {Max(s)}],
                    [i \in DOMAIN e.pending |-> i][Max(s)])]

LEMMA WalkUnfolds ==
  ASSUME NEW e, NEW bar, NEW cleared
  PROVE  LET S == DOMAIN [i \in DOMAIN e.pending |-> i]
         IN  ProcessPending(e, bar, cleared) = (CHOOSE g : Walk(e, bar, cleared, S, g))[S]
BY DEF ProcessPending, FoldLeft, MapThenFoldSet, Walk, Tried, Handled, Emptying

\* Without a resting order nothing is tried.
LEMMA NothingPending ==
  ASSUME NEW e, NEW bar, NEW cleared, e.pending = <<>>
  PROVE  ProcessPending(e, bar, cleared) = Emptying(e)
<1>1. DOMAIN [i \in DOMAIN e.pending |-> i] = {}
  OBVIOUS
<1>2. \E g : Walk(e, bar, cleared, {}, g)
  <2> DEFINE g == [s \in SUBSET {} |-> Emptying(e)]
  <2>1. g = [s \in SUBSET {} |->
               IF s = {} THEN Emptying(e)
               ELSE Tried(e, bar, cleared, g[s \ {Max(s)}],
                          [i \in DOMAIN e.pending |-> i][Max(s)])]
    OBVIOUS
  <2>2. Walk(e, bar, cleared, {}, g)
    BY <2>1 DEF Walk
  <2>3. QED BY <2>2
<1>3. PICK g : g = CHOOSE h : Walk(e, bar, cleared, {}, h)
  OBVIOUS
<1>4. Walk(e, bar, cleared, {}, g)
  BY <1>2, <1>3
<1>5. g[{}] = Emptying(e)
  BY <1>4 DEF Walk
<1>6. ProcessPending(e, bar, cleared) = g[{}]
  BY <1>1, <1>3, WalkUnfolds
<1>7. QED BY <1>5, <1>6

LEMMA MaxOfOne == Max({1}) = 1
BY DEF Max

\* One resting order is tried or kept.
LEMMA OnePending ==
  ASSUME NEW e, NEW bar, NEW cleared, e.pending \in Seq(Resting), Len(e.pending) = 1
  PROVE  ProcessPending(e, bar, cleared) = Tried(e, bar, cleared, Emptying(e), 1)
<1> DEFINE index == [i \in DOMAIN e.pending |-> i]
           Step(g, s) == IF s = {} THEN Emptying(e)
                         ELSE Tried(e, bar, cleared, g[s \ {Max(s)}], index[Max(s)])
           last == Tried(e, bar, cleared, Emptying(e), 1)
<1>1. DOMAIN index = {1} /\ index[1] = 1
  OBVIOUS
<1> HIDE DEF index
<1>2. {1} \ {Max({1})} = {} /\ index[Max({1})] = 1 /\ {1} # {}
  BY <1>1, MaxOfOne
<1>3. \E g : Walk(e, bar, cleared, {1}, g)
  <2> DEFINE g == [s \in SUBSET {1} |-> IF s = {} THEN Emptying(e) ELSE last]
  <2>1. g[{}] = Emptying(e)
    OBVIOUS
  <2>2. \A s \in SUBSET {1} : s = {} \/ s = {1}
    OBVIOUS
  <2> HIDE DEF last
  <2>3. \A s \in SUBSET {1} : g[s] = IF s = {} THEN Emptying(e) ELSE last
    OBVIOUS
  <2>4. g = [s \in SUBSET {1} |-> g[s]]
    OBVIOUS
  <2> HIDE DEF g
  <2>5. ASSUME NEW s \in SUBSET {1} PROVE g[s] = Step(g, s)
    <3>1. CASE s = {}
      BY <2>3, <3>1
    <3>2. CASE s # {}
      <4>1. s = {1}
        BY <2>2, <3>2
      <4>2. Step(g, {1}) = Tried(e, bar, cleared, g[{}], 1)
        BY <1>2
      <4>3. g[s] = last
        BY <2>3, <3>2
      <4>4. QED BY <2>1, <4>1, <4>2, <4>3 DEF last
    <3>3. QED BY <3>1, <3>2
  <2>6. g = [s \in SUBSET {1} |-> Step(g, s)]
    <3> HIDE DEF Step
    <3>1. QED BY <2>4, <2>5
  <2>7. Walk(e, bar, cleared, {1}, g)
    BY <2>6 DEF Walk, index
  <2>8. QED BY <2>7
<1>4. PICK g : g = CHOOSE h : Walk(e, bar, cleared, {1}, h)
  OBVIOUS
<1>5. Walk(e, bar, cleared, {1}, g)
  BY <1>3, <1>4
<1>6. g = [s \in SUBSET {1} |-> Step(g, s)]
  BY <1>5 DEF Walk, index
<1>7. \A s \in SUBSET {1} : g[s] = Step(g, s)
  <2> DEFINE F == [s \in SUBSET {1} |-> Step(g, s)]
  <2>1. \A s \in SUBSET {1} : F[s] = Step(g, s)
    <3> HIDE DEF Step
    <3>1. QED OBVIOUS
  <2> HIDE DEF F, Step
  <2>2. g = F
    BY <1>6 DEF F
  <2>3. QED BY <2>1, <2>2
<1>8. g[{}] = Emptying(e) /\ g[{1}] = Tried(e, bar, cleared, g[{}], 1)
  BY <1>2, <1>7
<1>9. ProcessPending(e, bar, cleared) = g[{1}]
  <2>1. DOMAIN [i \in DOMAIN e.pending |-> i] = {1}
    BY <1>1 DEF index
  <2>2. QED BY <1>4, <2>1, WalkUnfolds
<1>10. QED BY <1>8, <1>9

\* set_market(): the window takes the bar, and a resting order is filled whole or rests.
LEMMA SetMarketEffect ==
  ASSUME NEW e \in Executor, NEW bar \in BarSet, NEW cleared, Books(e),
         e.pending # <<>> => Len(e.pending) = 1 /\ e.risk.position = 0
  PROVE  LET f == SetMarket(e, bar, cleared)
         IN  /\ f \in Executor /\ f.bar = bar /\ Books(f)
             /\ \/ f.pending = e.pending /\ f.risk = e.risk
                \/ f.pending = <<>> /\ e.pending # <<>> /\ f.risk.position # 0
             /\ e.pending = <<>> => /\ Guarded(e) => Guarded(f)
                                    /\ Afforded(e) => Afforded(f)
<1> DEFINE g == [e EXCEPT !.bar = bar, !.ts = Observe(e.ts, bar)]
           h == Emptying(g)
           f == SetMarket(e, bar, cleared)
<1>1. /\ bar \in Bar /\ bar \in Quote /\ e.ts \in Stop /\ e.pending \in Seq(Resting)
      /\ Observe(e.ts, bar) \in Stop
      /\ Observe(e.ts, bar).side = e.ts.side /\ Observe(e.ts, bar).hard = e.ts.hard
      /\ Observe(e.ts, bar).indicator = e.ts.indicator
  <2>1. bar \in Bar /\ bar \in Quote /\ e.ts \in Stop /\ e.pending \in Seq(Resting)
    BY BarSetBar, ExecutorFields
  <2>2. /\ Observe(e.ts, bar) \in Stop
        /\ Observe(e.ts, bar) = [e.ts EXCEPT !.window = Observe(e.ts, bar).window]
    BY <2>1, ObserveStop
  <2> DEFINE ts == Observe(e.ts, bar)
  <2>3. ts.side = e.ts.side /\ ts.hard = e.ts.hard
    BY <2>1, ObserveKeepsStop
  <2>4. ts.indicator = e.ts.indicator
    <3> DEFINE w == ts.window
    <3>1. ts = [e.ts EXCEPT !.window = w]
      BY <2>2
    <3> HIDE DEF w, ts
    <3>2. QED BY <2>1, <3>1 DEF Stop
  <2>5. QED BY <2>1, <2>2, <2>3, <2>4
<1>2. /\ g \in Executor /\ g.bar = bar /\ g.ts = Observe(e.ts, bar) /\ g.risk = e.risk
      /\ g.pending = e.pending /\ g.trades = e.trades
  BY <1>1 DEF Executor
<1>3. f = ProcessPending(g, bar, cleared)
  BY DEF SetMarket
<1> HIDE DEF g
<1>4. /\ h \in Executor /\ h.bar = bar /\ h.ts = Observe(e.ts, bar) /\ h.risk = e.risk
      /\ h.pending = <<>> /\ h.trades = e.trades
  <2>1. h = [g EXCEPT !.pending = <<>>] /\ <<>> \in Seq(Resting)
    BY DEF Emptying
  <2> HIDE DEF h
  <2>2. QED BY <1>2, <2>1 DEF Executor
<1> HIDE DEF h, f
<1>5. Books(h)
  BY <1>4, BooksSame
<1>6. CASE e.pending = <<>>
  <2>1. f = h
    BY <1>2, <1>3, <1>6, NothingPending DEF h
  <2>2. Guarded(e) => Guarded(h)
    BY <1>1, <1>4 DEF Guarded
  <2>3. Afforded(e) => Afforded(h)
    BY <1>4, BooksSame
  <2>4. QED BY <1>4, <1>5, <1>6, <2>1, <2>2, <2>3 DEF f
<1>7. CASE e.pending # <<>>
  <2> DEFINE o == e.pending[1]
  <2>1. Len(e.pending) = 1 /\ e.risk.position = 0 /\ o \in Resting /\ e.pending = <<o>>
    BY <1>1, <1>7
  <2>2. /\ o.side \in {"BUY", "SELL"} /\ o.qty \in Nat \ {0} /\ o.price \in Nat \ {0}
        /\ o.reduceOnly = FALSE
    BY <2>1 DEF Resting
  <2>3. f = Tried(g, bar, cleared, h, 1)
    BY <1>1, <1>2, <1>3, <2>1, OnePending DEF h
  <2>4. CASE Handled(g, bar, cleared, 1)
    <3>1. f = Fill(h, o.side, o.qty, o.price, FALSE).ex
      BY <1>2, <2>2, <2>3, <2>4 DEF Tried
    <3>2. Opened(h, f, o.side, o.qty, o.price)
      <4> HIDE DEF o
      <4>1. o.price \in Int /\ o.price > 0 /\ h.risk.position = 0
        BY <1>4, <2>1, <2>2
      <4>2. QED BY <1>4, <2>2, <3>1, <4>1, FillFlat
    <3>3. Books(f) /\ f.risk.position # 0
      <4> HIDE DEF o
      <4>1. h.risk.position = 0
        BY <1>4, <2>1
      <4>2. QED BY <1>4, <1>5, <2>2, <3>2, <4>1, BooksOpened
    <3>4. f \in Executor /\ f.bar = bar /\ f.pending = <<>>
      BY <1>4, <3>2 DEF Opened
    <3>5. QED BY <1>7, <3>3, <3>4 DEF f
  <2>5. CASE ~Handled(g, bar, cleared, 1)
    <3>1. f = [h EXCEPT !.pending = Append(@, o)]
      BY <1>2, <2>3, <2>5 DEF Tried
    <3>2. Append(h.pending, o) = e.pending
      BY <1>4, <2>1
    <3> HIDE DEF o
    <3>3. f = [h EXCEPT !.pending = e.pending]
      BY <3>1, <3>2
    <3>4. /\ f \in Executor /\ f.bar = bar /\ f.risk = e.risk /\ f.trades = e.trades
          /\ f.pending = e.pending
      BY <1>1, <1>4, <3>3 DEF Executor
    <3>5. Books(f)
      BY <3>4, BooksSame
    <3>6. QED BY <1>7, <3>4, <3>5 DEF f
  <2>6. QED BY <2>4, <2>5
<1>8. QED BY <1>6, <1>7

-----------------------------------------------------------------------------
(* The messages on their way to the engine.                                *)

Message == Order \cup {Ack}

LEMMA OrderOrAck ==
  ASSUME NEW x \in Message
  PROVE  /\ x.type # "ack" => x \in Order
         /\ x \in Order => x.type # "ack"
         /\ Ack.type = "ack"
<1>1. Ack.type = "ack"
  BY DEF Ack
<1>2. \A o \in Order : o.type = WireType
  BY DEF Order
<1>3. QED BY <1>1, <1>2, WireAssumption DEF Message

LEMMA OrdersAppended ==
  ASSUME NEW m \in Seq(Message), NEW x \in Message
  PROVE  /\ x.type = "ack" => OrdersIn(Append(m, x)) = OrdersIn(m)
         /\ x.type # "ack" => OrdersIn(Append(m, x)) = OrdersIn(m) \cup {Len(m) + 1}
         /\ \A i \in OrdersIn(m) : Append(m, x)[i] = m[i]
         /\ Append(m, x)[Len(m) + 1] = x /\ Len(Append(m, x)) = Len(m) + 1
         /\ Append(m, x) \in Seq(Message)
<1> DEFINE l == Append(m, x)
<1>1. /\ Len(m) \in Nat /\ DOMAIN m = 1..Len(m) /\ DOMAIN l = 1..(Len(m) + 1)
      /\ Len(l) = Len(m) + 1 /\ l[Len(m) + 1] = x /\ l \in Seq(Message)
      /\ \A i \in 1..Len(m) : l[i] = m[i]
  OBVIOUS
<1> HIDE DEF l
<1>2. x.type = "ack" => OrdersIn(l) = OrdersIn(m)
  BY <1>1 DEF OrdersIn
<1>3. x.type # "ack" => OrdersIn(l) = OrdersIn(m) \cup {Len(m) + 1}
  BY <1>1 DEF OrdersIn
<1>4. \A i \in OrdersIn(m) : l[i] = m[i]
  BY <1>1 DEF OrdersIn
<1>5. QED BY <1>1, <1>2, <1>3, <1>4 DEF l

LEMMA OrdersTaken ==
  ASSUME NEW m \in Seq(Message), m # <<>>
  PROVE  /\ Tail(m) \in Seq(Message) /\ Len(Tail(m)) = Len(m) - 1 /\ Len(m) \in Nat \ {0}
         /\ Head(m) = m[1] /\ Head(m) \in Message
         /\ (1 \in OrdersIn(m)) <=> (Head(m).type # "ack")
         /\ \A i \in OrdersIn(Tail(m)) : /\ i \in Nat \ {0} /\ i + 1 \in OrdersIn(m)
                                         /\ Tail(m)[i] = m[i + 1]
         /\ \A i \in OrdersIn(m) : i \in 1..Len(m) /\ (i = 1 \/ i - 1 \in OrdersIn(Tail(m)))
<1> DEFINE l == Tail(m)
<1>1. /\ Len(m) \in Nat \ {0} /\ DOMAIN m = 1..Len(m) /\ DOMAIN l = 1..(Len(m) - 1)
      /\ Len(l) = Len(m) - 1 /\ l \in Seq(Message) /\ Head(m) = m[1] /\ Head(m) \in Message
      /\ \A i \in 1..(Len(m) - 1) : l[i] = m[i + 1]
  OBVIOUS
<1> HIDE DEF l
<1>2. (1 \in OrdersIn(m)) <=> (Head(m).type # "ack")
  BY <1>1 DEF OrdersIn
<1>3. \A i \in OrdersIn(l) : i \in Nat \ {0} /\ i + 1 \in OrdersIn(m) /\ l[i] = m[i + 1]
  BY <1>1 DEF OrdersIn
<1>4. \A i \in OrdersIn(m) : i \in 1..Len(m) /\ (i = 1 \/ i - 1 \in OrdersIn(l))
  BY <1>1 DEF OrdersIn
<1>5. QED BY <1>1, <1>2, <1>3, <1>4 DEF l

LEMMA OrdersAreOrders ==
  ASSUME NEW m \in Seq(Message), NEW i \in OrdersIn(m)
  PROVE  m[i] \in Order /\ i \in 1..Len(m)
<1>1. i \in 1..Len(m) /\ m[i] \in Message /\ m[i].type # "ack"
  BY DEF OrdersIn
<1>2. QED BY <1>1, OrderOrAck

\* How many acknowledgements are on their way.
LEMMA AcksMoved ==
  ASSUME NEW m \in Seq(Message), \A i, j \in OrdersIn(m) : i = j
  PROVE  /\ AcksIn(m) \in Int
         /\ OrdersIn(m) = {} => AcksIn(m) = Len(m)
         /\ AcksIn(Append(m, Ack)) = AcksIn(m) + 1
         /\ OrdersIn(m) = {} => \A o \in Order : AcksIn(Append(m, o)) = AcksIn(m)
         /\ m # <<>> /\ Head(m).type = "ack" => AcksIn(Tail(m)) = AcksIn(m) - 1
         /\ m # <<>> /\ Head(m).type # "ack" =>
              AcksIn(Tail(m)) = AcksIn(m) /\ OrdersIn(Tail(m)) = {}
<1>1. Len(m) \in Nat
  OBVIOUS
<1>2. AcksIn(m) \in Int /\ (OrdersIn(m) = {} => AcksIn(m) = Len(m))
  BY <1>1 DEF AcksIn
<1>3. AcksIn(Append(m, Ack)) = AcksIn(m) + 1
  <2>1. Ack \in Message /\ Ack.type = "ack"
    BY OrderOrAck DEF Message
  <2>2. OrdersIn(Append(m, Ack)) = OrdersIn(m) /\ Len(Append(m, Ack)) = Len(m) + 1
    BY <2>1, OrdersAppended
  <2>3. QED BY <1>1, <2>2 DEF AcksIn
<1>4. ASSUME OrdersIn(m) = {}, NEW o \in Order PROVE AcksIn(Append(m, o)) = AcksIn(m)
  <2>1. o \in Message /\ o.type # "ack"
    BY OrderOrAck DEF Message
  <2>2. OrdersIn(Append(m, o)) = {Len(m) + 1} /\ Len(Append(m, o)) = Len(m) + 1
    BY <1>4, <2>1, OrdersAppended
  <2>3. OrdersIn(Append(m, o)) # {}
    BY <2>2
  <2>4. QED BY <1>1, <1>4, <2>2, <2>3 DEF AcksIn
<1>5. ASSUME m # <<>>, Head(m).type = "ack" PROVE AcksIn(Tail(m)) = AcksIn(m) - 1
  <2>1. (OrdersIn(Tail(m)) = {}) <=> (OrdersIn(m) = {})
    BY <1>5, OrdersTaken
  <2>2. Len(Tail(m)) = Len(m) - 1
    BY <1>5, OrdersTaken
  <2> DEFINE l == Tail(m)
  <2>3. (OrdersIn(l) = {}) <=> (OrdersIn(m) = {})
    BY <2>1
  <2>4. Len(l) = Len(m) - 1
    BY <2>2
  <2> HIDE DEF l
  <2>5. AcksIn(l) = AcksIn(m) - 1
    BY <1>1, <2>3, <2>4 DEF AcksIn
  <2>6. QED BY <2>5 DEF l
<1>6. ASSUME m # <<>>, Head(m).type # "ack"
      PROVE  AcksIn(Tail(m)) = AcksIn(m) /\ OrdersIn(Tail(m)) = {}
  <2>1. 1 \in OrdersIn(m)
    BY <1>6, OrdersTaken
  <2>2. OrdersIn(Tail(m)) = {}
    <3>1. ASSUME NEW i \in OrdersIn(Tail(m)) PROVE FALSE
      <4>1. i \in Nat \ {0} /\ i + 1 \in OrdersIn(m)
        BY <1>6, OrdersTaken
      <4>2. QED BY <2>1, <4>1
    <3>2. QED BY <3>1
  <2>3. Len(Tail(m)) = Len(m) - 1
    BY <1>6, OrdersTaken
  <2>4. OrdersIn(m) # {}
    BY <2>1
  <2> DEFINE l == Tail(m)
  <2>5. OrdersIn(l) = {} /\ Len(l) = Len(m) - 1
    BY <2>2, <2>3
  <2> HIDE DEF l
  <2>6. AcksIn(l) = AcksIn(m)
    BY <1>1, <2>4, <2>5 DEF AcksIn
  <2>7. QED BY <2>2, <2>6 DEF l
<1>7. QED BY <1>2, <1>3, <1>4, <1>5, <1>6

-----------------------------------------------------------------------------
(* The klines on their way to the brain, and one entry at a time.          *)

LEMMA KlinesTaken ==
  ASSUME NEW q \in Seq(Kline), q # <<>>
  PROVE  /\ Tail(q) \in Seq(Kline) /\ Len(Tail(q)) = Len(q) - 1
         /\ Head(q) = q[1] /\ Head(q) \in Kline /\ 1 \in DOMAIN q /\ Len(q) \in Nat \ {0}
         /\ \A j \in DOMAIN Tail(q) : /\ j \in Nat \ {0} /\ j + 1 \in DOMAIN q
                                      /\ Tail(q)[j] = q[j + 1]
                                      /\ Held(Tail(q), j) <=> Held(q, j + 1)
         /\ \A j \in DOMAIN q : j \in Nat \ {0} /\ (j = 1 \/ j - 1 \in DOMAIN Tail(q))
<1> DEFINE l == Tail(q)
<1>1. /\ Len(q) \in Nat \ {0} /\ DOMAIN q = 1..Len(q) /\ DOMAIN l = 1..(Len(q) - 1)
      /\ Len(l) = Len(q) - 1 /\ l \in Seq(Kline) /\ Head(q) = q[1] /\ Head(q) \in Kline
      /\ \A i \in 1..(Len(q) - 1) : l[i] = q[i + 1]
  OBVIOUS
<1> HIDE DEF l
<1>2. \A j \in DOMAIN l : /\ j \in Nat \ {0} /\ j + 1 \in DOMAIN q /\ l[j] = q[j + 1]
                          /\ Held(l, j) <=> Held(q, j + 1)
  BY <1>1 DEF Held
<1>3. \A j \in DOMAIN q : j \in Nat \ {0} /\ (j = 1 \/ j - 1 \in DOMAIN l)
  BY <1>1
<1>4. QED BY <1>1, <1>2, <1>3 DEF l

LEMMA KlinesAppended ==
  ASSUME NEW q \in Seq(Kline), NEW k \in Kline
  PROVE  LET l == Append(q, k)
         IN  /\ l \in Seq(Kline) /\ Len(l) = Len(q) + 1 /\ Len(q) \in Nat
             /\ Len(q) + 1 \in DOMAIN l /\ l[Len(q) + 1] = k
             /\ \A j \in DOMAIN q : /\ j \in Nat \ {0} /\ j <= Len(q) /\ j \in DOMAIN l
                                    /\ l[j] = q[j] /\ (Held(l, j) <=> Held(q, j))
             /\ \A j \in DOMAIN l : j \in DOMAIN q \/ j = Len(q) + 1
             /\ Held(l, Len(q) + 1) <=> (k.closed /\ k.position # 0)
<1> DEFINE l == Append(q, k)
<1>1. /\ Len(q) \in Nat /\ DOMAIN q = 1..Len(q) /\ DOMAIN l = 1..(Len(q) + 1)
      /\ Len(l) = Len(q) + 1 /\ l \in Seq(Kline) /\ l[Len(q) + 1] = k
      /\ \A i \in 1..Len(q) : l[i] = q[i]
  OBVIOUS
<1> HIDE DEF l
<1>2. QED BY <1>1 DEF Held, l

\* publish_market_data(), and a ping: the kline carries the position there is.
LEMMA ExposurePublishes ==
  ASSUME NEW b \in Brain, NEW q \in Seq(Kline), NEW m, NEW pending, NEW position \in Int,
         NEW k \in Kline, k.closed => k.position = position,
         Exposure(b, q, m, pending, position)
  PROVE  Exposure(b, Append(q, k), m, pending, position)
<1> DEFINE l == Append(q, k)
           new == Len(q) + 1
<1>1. /\ new \in DOMAIN l /\ l[new] = k /\ Len(q) \in Nat
      /\ \A j \in DOMAIN q : /\ j \in Nat \ {0} /\ j <= Len(q) /\ j \in DOMAIN l
                             /\ l[j] = q[j] /\ (Held(l, j) <=> Held(q, j))
      /\ \A j \in DOMAIN l : j \in DOMAIN q \/ j = new
  BY KlinesAppended
<1>2. Held(l, new) <=> (k.closed /\ position # 0)
  BY KlinesAppended
<1>3. new \in Nat /\ new \notin DOMAIN q /\ \A j \in DOMAIN q : j < new /\ ~(new <= j)
  BY <1>1
<1>4. /\ OneEntry(m, pending, position) /\ Rearmed(b, q, m, pending, position)
      /\ Reported(b, q, m, pending) /\ Ended(b, q, position)
  BY DEF Exposure
<1> HIDE DEF l, new
<1>5. Rearmed(b, l, m, pending, position)
  BY <1>1, <1>2, <1>4 DEF Rearmed
<1>6. Reported(b, l, m, pending)
  BY <1>1, <1>2, <1>4 DEF Reported, OneEntry
<1>7. Ended(b, l, position)
  <2>1. ASSUME NEW j \in DOMAIN l, SeenBefore(b, l, j), l[j].closed, ~Held(l, j)
        PROVE  position = 0 /\ \A i \in DOMAIN l : j <= i => ~Held(l, i)
    <3>1. CASE j \in DOMAIN q
      <4>1. SeenBefore(b, q, j)
        <5>1. \A i \in DOMAIN l : i < j => i \in DOMAIN q
          BY <1>1, <1>3, <3>1
        <5>2. QED BY <1>1, <2>1, <5>1 DEF SeenBefore
      <4>2. position = 0 /\ \A i \in DOMAIN q : j <= i => ~Held(q, i)
        BY <1>1, <1>4, <2>1, <3>1, <4>1 DEF Ended
      <4>3. QED BY <1>1, <1>2, <4>2
    <3>2. CASE j = new
      <4>1. position = 0
        BY <1>1, <1>2, <2>1, <3>2
      <4>2. QED BY <1>1, <1>2, <1>3, <3>2, <4>1
    <3>3. QED BY <1>1, <2>1, <3>1, <3>2
  <2>2. QED BY <2>1 DEF Ended
<1>8. QED BY <1>4, <1>5, <1>6, <1>7 DEF Exposure, l

\* A ping goes by the brain.
LEMMA ExposurePinged ==
  ASSUME NEW b \in Brain, NEW q \in Seq(Kline), NEW m, NEW pending, NEW position,
         q # <<>>, ~Held(q, 1), Exposure(b, q, m, pending, position)
  PROVE  Exposure(b, Tail(q), m, pending, position)
<1> DEFINE l == Tail(q)
<1>1. /\ \A j \in DOMAIN l : /\ j \in Nat \ {0} /\ j + 1 \in DOMAIN q /\ l[j] = q[j + 1]
                             /\ Held(l, j) <=> Held(q, j + 1)
  BY KlinesTaken
<1>2. /\ OneEntry(m, pending, position) /\ Rearmed(b, q, m, pending, position)
      /\ Reported(b, q, m, pending) /\ Ended(b, q, position)
  BY DEF Exposure
<1> HIDE DEF l
<1>3. Rearmed(b, l, m, pending, position)
  BY <1>1, <1>2 DEF Rearmed
<1>4. Reported(b, l, m, pending)
  BY <1>1, <1>2 DEF Reported
<1>5. Ended(b, l, position)
  <2>1. ASSUME NEW j \in DOMAIN l, SeenBefore(b, l, j), l[j].closed, ~Held(l, j)
        PROVE  position = 0 /\ \A i \in DOMAIN l : j <= i => ~Held(l, i)
    <3>1. SeenBefore(b, q, j + 1)
      BY <1>1, <2>1 DEF SeenBefore
    <3>2. position = 0 /\ \A i \in DOMAIN q : j + 1 <= i => ~Held(q, i)
      BY <1>1, <1>2, <2>1, <3>1 DEF Ended
    <3>3. QED BY <1>1, <2>1, <3>2
  <2>2. QED BY <2>1 DEF Ended
<1>6. QED BY <1>2, <1>3, <1>4, <1>5 DEF Exposure, l

LEMMA GateFields ==
  ASSUME NEW b \in Brain, NEW p \in Int
  PROVE  /\ AfterGate(b, p) \in Brain
         /\ b.state = "IDLE" => AfterGate(b, p) = b
         /\ b.state # "IDLE" /\ b.saw /\ p = 0 =>
              AfterGate(b, p).state = "IDLE" /\ ~AfterGate(b, p).saw
         /\ b.state # "IDLE" /\ ~(b.saw /\ p = 0) =>
              /\ AfterGate(b, p).state # "IDLE"
              /\ AfterGate(b, p).saw <=> (b.saw \/ p # 0)
BY DEF AfterGate, Observed, FreshBrain, Brain

\* on_bar()'s gate on a finished bar.
LEMMA ExposureGated ==
  ASSUME NEW b \in Brain, NEW q \in Seq(Kline), NEW m, NEW pending, NEW position,
         q # <<>>, Head(q).closed, Exposure(b, q, m, pending, position)
  PROVE  /\ AfterGate(b, Head(q).position) \in Brain
         /\ Exposure(AfterGate(b, Head(q).position), Tail(q), m, pending, position)
<1> DEFINE p == Head(q).position
           c == AfterGate(b, p)
<1>1. p \in Int /\ Head(q) = q[1] /\ 1 \in DOMAIN q
  BY KlinesTaken DEF Kline
<1>2. Held(q, 1) <=> p # 0
  BY <1>1 DEF Held
<1> HIDE DEF p
<1>3. /\ c \in Brain
      /\ b.state = "IDLE" => c = b
      /\ b.state # "IDLE" /\ b.saw /\ p = 0 => c.state = "IDLE" /\ ~c.saw
      /\ b.state # "IDLE" /\ ~(b.saw /\ p = 0) =>
           c.state # "IDLE" /\ (c.saw <=> (b.saw \/ p # 0))
  BY <1>1, GateFields
<1> HIDE DEF c
<1>4. /\ OneEntry(m, pending, position) /\ Rearmed(b, q, m, pending, position)
      /\ Reported(b, q, m, pending) /\ Ended(b, q, position)
  BY DEF Exposure
<1>5. CASE b.state = "IDLE"
  <2>1. ~Held(q, 1) /\ c = b
    BY <1>1, <1>3, <1>4, <1>5 DEF Rearmed
  <2>2. QED BY <2>1, <1>3, ExposurePinged DEF c, p
<1> DEFINE l == Tail(q)
<1>6. \A j \in DOMAIN l : /\ j \in Nat \ {0} /\ j + 1 \in DOMAIN q /\ l[j] = q[j + 1]
                          /\ Held(l, j) <=> Held(q, j + 1)
  BY KlinesTaken
<1> HIDE DEF l
<1>7. CASE b.state # "IDLE" /\ b.saw /\ p = 0
  <2>1. position = 0 /\ \A j \in DOMAIN q : 1 <= j => ~Held(q, j)
    <3>1. SeenBefore(b, q, 1) /\ q[1].closed /\ ~Held(q, 1)
      BY <1>1, <1>2, <1>7 DEF SeenBefore
    <3>2. QED BY <1>1, <1>4, <3>1 DEF Ended
  <2>2. OrdersIn(m) = {} /\ pending = <<>>
    BY <1>4, <1>7 DEF Reported
  <2>3. \A j \in DOMAIN l : ~Held(l, j)
    BY <1>6, <2>1
  <2>4. c.state = "IDLE" /\ ~c.saw
    BY <1>3, <1>7
  <2>5. Rearmed(c, l, m, pending, position) /\ Reported(c, l, m, pending)
    BY <2>1, <2>2, <2>3, <2>4 DEF Rearmed, Reported
  <2>6. Ended(c, l, position)
    BY <2>3, <2>4 DEF Ended, SeenBefore
  <2>7. QED BY <1>3, <1>4, <2>5, <2>6 DEF Exposure, c, l, p
<1>8. CASE b.state # "IDLE" /\ ~(b.saw /\ p = 0)
  <2>1. c.state # "IDLE" /\ (c.saw <=> (b.saw \/ Held(q, 1)))
    BY <1>2, <1>3, <1>8
  <2>2. Rearmed(c, l, m, pending, position)
    BY <2>1 DEF Rearmed
  <2>3. Reported(c, l, m, pending)
    BY <1>1, <1>4, <1>6, <2>1 DEF Reported
  <2>4. Ended(c, l, position)
    <3>1. ASSUME NEW j \in DOMAIN l, SeenBefore(c, l, j), l[j].closed, ~Held(l, j)
          PROVE  position = 0 /\ \A i \in DOMAIN l : j <= i => ~Held(l, i)
      <4>1. SeenBefore(b, q, j + 1)
        <5>1. 1 < j + 1 /\ \A i \in DOMAIN l : i < j => i + 1 < j + 1
          BY <1>6, <3>1
        <5>2. QED BY <1>1, <1>6, <2>1, <3>1, <5>1 DEF SeenBefore
      <4>2. position = 0 /\ \A i \in DOMAIN q : j + 1 <= i => ~Held(q, i)
        BY <1>4, <1>6, <3>1, <4>1 DEF Ended
      <4>3. QED BY <1>6, <3>1, <4>2
    <3>2. QED BY <3>1 DEF Ended
  <2>5. QED BY <1>3, <1>4, <2>2, <2>3, <2>4 DEF Exposure, c, l, p
<1>9. QED BY <1>5, <1>7, <1>8

\* A re-armed brain sends an order and waits.
LEMMA ExposureEntered ==
  ASSUME NEW b \in Brain, NEW q, NEW m \in Seq(Message), NEW pending, NEW position,
         NEW o \in Order, b.state = "IDLE", Exposure(b, q, m, pending, position)
  PROVE  /\ OrdersIn(m) = {}
         /\ Exposure([b EXCEPT !.state = "WAITING_CLOSE"], q, Append(m, o), pending, position)
<1> DEFINE c == [b EXCEPT !.state = "WAITING_CLOSE"]
           l == Append(m, o)
<1>1. /\ ~b.saw /\ position = 0 /\ OrdersIn(m) = {} /\ pending = <<>>
      /\ \A j \in DOMAIN q : ~Held(q, j)
  BY DEF Exposure, Rearmed
<1>2. c.state # "IDLE" /\ ~c.saw
  BY <1>1 DEF Brain
<1>3. OrdersIn(l) = {Len(m) + 1}
  BY <1>1, OrderOrAck, OrdersAppended DEF Message
<1> HIDE DEF c, l
<1>4. OneEntry(l, pending, position)
  BY <1>1, <1>3 DEF OneEntry
<1>5. Rearmed(c, q, l, pending, position) /\ Reported(c, q, l, pending)
  BY <1>1, <1>2 DEF Rearmed, Reported
<1>6. Ended(c, q, position)
  BY <1>1, <1>2 DEF Ended, SeenBefore
<1>7. QED BY <1>1, <1>4, <1>5, <1>6 DEF Exposure, c, l

\* The engine takes an order: it rests, is held, or leaves no trace.
LEMMA ExposureTaken ==
  ASSUME NEW b \in Brain, NEW q, NEW m \in Seq(Message), NEW pending, NEW position,
         NEW rest, NEW held, m # <<>>, Head(m).type # "ack",
         \/ rest = pending /\ held = position
         \/ Len(rest) = 1 /\ rest # <<>> /\ held = 0
         \/ rest = <<>> /\ held # 0,
         Exposure(b, q, m, pending, position)
  PROVE  Exposure(b, q, Tail(m), rest, held)
<1>1. 1 \in OrdersIn(m)
  BY OrdersTaken
<1>2. OrdersIn(Tail(m)) = {}
  <2>1. \A i, j \in OrdersIn(m) : i = j
    BY DEF Exposure, OneEntry
  <2>2. QED BY <2>1, AcksMoved
<1>3. pending = <<>> /\ position = 0 /\ b.state # "IDLE"
  BY <1>1 DEF Exposure, OneEntry, Rearmed
<1>4. ~b.saw /\ \A j \in DOMAIN q : ~Held(q, j)
  BY <1>1 DEF Exposure, Reported
<1> DEFINE l == Tail(m)
<1>5. OrdersIn(l) = {}
  BY <1>2
<1> HIDE DEF l
<1>6. OneEntry(l, rest, held)
  BY <1>3, <1>5 DEF OneEntry
<1>7. Rearmed(b, q, l, rest, held) /\ Reported(b, q, l, rest)
  BY <1>3, <1>4 DEF Rearmed, Reported
<1>8. Ended(b, q, held)
  BY <1>4 DEF Ended, SeenBefore
<1>9. QED BY <1>6, <1>7, <1>8 DEF Exposure, l

\* Acknowledgements come and go.
LEMMA ExposureAcks ==
  ASSUME NEW b, NEW q, NEW m, NEW l, NEW pending, NEW position,
         OrdersIn(l) = {} <=> OrdersIn(m) = {},
         \A i, j \in OrdersIn(l) : i = j,
         Exposure(b, q, m, pending, position)
  PROVE  Exposure(b, q, l, pending, position)
BY DEF Exposure, OneEntry, Rearmed, Reported

\* A bar or a stop: what rests is filled, what is held is closed.
LEMMA ExposureMarket ==
  ASSUME NEW b, NEW q, NEW m, NEW pending, NEW position, NEW rest, NEW held,
         \/ rest = pending /\ held = position
         \/ rest = pending /\ held = 0
         \/ rest = <<>> /\ pending # <<>> /\ held # 0,
         Exposure(b, q, m, pending, position)
  PROVE  Exposure(b, q, m, rest, held)
<1>1. CASE rest = pending /\ held = position
  BY <1>1
<1>2. CASE rest = pending /\ held = 0
  <2>1. OneEntry(m, rest, held) /\ Rearmed(b, q, m, rest, held) /\ Reported(b, q, m, rest)
    BY <1>2 DEF Exposure, OneEntry, Rearmed, Reported
  <2>2. Ended(b, q, held)
    BY <1>2 DEF Exposure, Ended
  <2>3. QED BY <2>1, <2>2 DEF Exposure
<1>3. CASE rest = <<>> /\ pending # <<>> /\ held # 0
  <2>1. OrdersIn(m) = {} /\ b.state # "IDLE"
    BY <1>3 DEF Exposure, OneEntry, Rearmed
  <2>2. ~b.saw /\ \A j \in DOMAIN q : ~Held(q, j)
    BY <1>3 DEF Exposure, Reported
  <2>3. OneEntry(m, rest, held) /\ Rearmed(b, q, m, rest, held) /\ Reported(b, q, m, rest)
    BY <1>3, <2>1, <2>2 DEF OneEntry, Rearmed, Reported
  <2>4. Ended(b, q, held)
    BY <2>2 DEF Ended, SeenBefore
  <2>5. QED BY <2>3, <2>4 DEF Exposure
<1>4. QED BY <1>1, <1>2, <1>3

-----------------------------------------------------------------------------
(* The pipes pay for every read.                                           *)

LEMMA NumbersAreInt ==
  ASSUME NEW q \in Seq(Kline), NEW m \in Seq(Message)
  PROVE  /\ Len(q) \in Nat /\ AcksIn(m) \in Int
         /\ \A j \in DOMAIN q : j \in Nat /\ q[j].n \in Int
         /\ \A i \in OrdersIn(m) : i \in Nat /\ m[i].n \in Int
<1>1. Len(q) \in Nat /\ Len(m) \in Nat
  OBVIOUS
<1>2. AcksIn(m) \in Int
  BY <1>1 DEF AcksIn
<1>3. \A j \in DOMAIN q : j \in Nat /\ q[j].n \in Int
  <2>1. \A j \in DOMAIN q : j \in Nat /\ q[j] \in Kline
    OBVIOUS
  <2>2. \A k \in Kline : k.n \in Int
    BY BoundAssumption DEF Kline
  <2>3. QED BY <2>1, <2>2
<1>4. \A i \in OrdersIn(m) : i \in Nat /\ m[i].n \in Int
  BY OrdersAreOrders, BoundAssumption DEF Order
<1>5. QED BY <1>1, <1>2, <1>3, <1>4

LEMMA SlackAdds ==
  ASSUME NEW r \in Int, NEW a \in Int, NEW s \in Int, NEW r2 \in Int, NEW a2 \in Int,
         NEW s2 \in Int, NEW c \in Int, NEW j \in Int, NEW k \in Int,
         r2 <= r, a2 <= a, s <= s2, r + c + a + j <= s + k
  PROVE  r2 + c + a2 + j <= s2 + k
OBVIOUS

\* Fewer reads or answers, more pings: nothing is owed.
LEMMA TimelySlack ==
  ASSUME NEW q \in Seq(Kline), NEW m \in Seq(Message),
         NEW r \in Int, NEW a \in Int, NEW budget \in Int, NEW spare \in Int,
         NEW r2 \in Int, NEW a2 \in Int, NEW budget2 \in Int, NEW spare2 \in Int,
         NEW number, NEW close,
         r2 <= r, a2 <= a, budget <= budget2, spare <= spare2,
         Timely(q, m, r, a, budget, spare, number, close)
  PROVE  Timely(q, m, r2, a2, budget2, spare2, number, close)
<1>1. PaidFor(q, m, r2, a2, budget2)
  BY NumbersAreInt DEF Timely, PaidFor
<1>2. BarsInTime(q, m, r2, a2, spare2, number, close)
  <2>1. ASSUME NEW j \in DOMAIN q, q[j].closed
        PROVE  BarInTime(q[j], r2 + AcksIn(m) + a2 + (j - 1), spare2, number, close)
    <3>1. j \in Nat /\ q[j].n \in Int /\ AcksIn(m) \in Int
      BY NumbersAreInt
    <3>2. BarInTime(q[j], r + AcksIn(m) + a + (j - 1), spare, number, close)
      BY <2>1 DEF Timely, BarsInTime
    <3>3. r + AcksIn(m) + a + (j - 1) <= spare + q[j].n - 1
      BY <3>2 DEF BarInTime
    <3> DEFINE c == AcksIn(m)
               k == q[j].n
    <3>4. c \in Int /\ k \in Int /\ r + c + a + (j - 1) <= spare + k - 1
      BY <3>1, <3>3
    <3> HIDE DEF c, k
    <3>5. r + c + a + (j - 1) <= spare + (k - 1)
      BY <3>1, <3>4
    <3>6. r2 + c + a2 + (j - 1) <= spare2 + (k - 1)
      BY <3>1, <3>4, <3>5, SlackAdds
    <3>7. r2 + c + a2 + (j - 1) <= spare2 + k - 1
      BY <3>1, <3>4, <3>6
    <3>8. QED BY <3>2, <3>7 DEF BarInTime, c, k
  <2>2. QED BY <2>1 DEF BarsInTime
<1>3. OrdersInTime(m, r2, spare2, number, close)
  <2>1. ASSUME NEW i \in OrdersIn(m)
        PROVE  OrderInTime(m[i], r2 + (i - 1), spare2, number, close)
    <3>1. i \in Nat /\ m[i].n \in Int
      BY NumbersAreInt
    <3>2. OrderInTime(m[i], r + (i - 1), spare, number, close)
      BY DEF Timely, OrdersInTime
    <3>3. r + (i - 1) <= spare + m[i].n - 1
      BY <3>2 DEF OrderInTime
    <3> DEFINE k == m[i].n
    <3>4. k \in Int /\ r + (i - 1) <= spare + k - 1
      BY <3>1, <3>3
    <3> HIDE DEF k
    <3>5. r2 + (i - 1) <= spare2 + k - 1
      BY <3>1, <3>4
    <3>6. QED BY <3>2, <3>5 DEF OrderInTime, k
  <2>2. QED BY <2>1 DEF OrdersInTime
<1>4. QED BY <1>1, <1>2, <1>3 DEF Timely

\* The next line is read: no message is about it yet.
LEMMA TimelyRead ==
  ASSUME NEW q \in Seq(Kline), NEW m \in Seq(Message),
         NEW r \in Int, NEW a \in Int, NEW budget \in Int, NEW spare \in Int,
         NEW number \in Nat, NEW close, NEW close2,
         Timely(q, m, r, a, budget, spare, number, close)
  PROVE  Timely(q, m, r, a, budget, spare, number + 1, close2)
<1>1. \A x \in 1..number : x \in 1..(number + 1) /\ x # number + 1
  OBVIOUS
<1>2. BarsInTime(q, m, r, a, spare, number + 1, close2)
  BY <1>1 DEF Timely, BarsInTime, BarInTime
<1>3. OrdersInTime(m, r, spare, number + 1, close2)
  BY <1>1 DEF Timely, OrdersInTime, OrderInTime
<1>4. QED BY <1>2, <1>3 DEF Timely

\* A kline is published: the last bar's, or a ping.
LEMMA TimelyPublished ==
  ASSUME NEW q \in Seq(Kline), NEW m \in Seq(Message), NEW k \in Kline,
         NEW r \in Int, NEW a \in Int, NEW budget \in Int, NEW spare \in Int,
         NEW number \in Nat, NEW close,
         k.closed => /\ k.n = number /\ number >= 1 /\ k.close = close
                     /\ budget <= spare + number - 1,
         Timely(q, m, r, a, budget, spare, number, close)
  PROVE  Timely(Append(q, k), m, r, a, budget + 1, spare, number, close)
<1> DEFINE l == Append(q, k)
<1>1. /\ l \in Seq(Kline) /\ Len(l) = Len(q) + 1 /\ Len(q) \in Nat
      /\ l[Len(q) + 1] = k
      /\ \A j \in DOMAIN q : l[j] = q[j]
      /\ \A j \in DOMAIN l : j \in DOMAIN q \/ j = Len(q) + 1
  BY KlinesAppended
<1>2. AcksIn(m) \in Int
  BY NumbersAreInt
<1> HIDE DEF l
<1>3. PaidFor(l, m, r, a, budget + 1)
  BY <1>1, <1>2 DEF Timely, PaidFor
<1>4. BarsInTime(l, m, r, a, spare, number, close)
  <2>1. ASSUME NEW j \in DOMAIN l, l[j].closed
        PROVE  BarInTime(l[j], r + AcksIn(m) + a + (j - 1), spare, number, close)
    <3>1. CASE j \in DOMAIN q
      BY <1>1, <2>1, <3>1 DEF Timely, BarsInTime
    <3>2. CASE j = Len(q) + 1
      <4>1. r + AcksIn(m) + a + Len(q) <= budget
        BY DEF Timely, PaidFor
      <4>2. r + AcksIn(m) + a + (j - 1) <= spare + k.n - 1 /\ k.n \in 1..number
        BY <1>1, <1>2, <2>1, <3>2, <4>1
      <4>3. QED BY <1>1, <2>1, <3>2, <4>2 DEF BarInTime
    <3>3. QED BY <1>1, <2>1, <3>1, <3>2
  <2>2. QED BY <2>1 DEF BarsInTime
<1>5. QED BY <1>3, <1>4 DEF Timely, l

\* One more ping, whether it is heard or not.
LEMMA TimelyPinged ==
  ASSUME NEW q \in Seq(Kline), NEW m \in Seq(Message), NEW k \in Kline, ~k.closed,
         NEW r \in Int, NEW a \in Int, NEW budget \in Int, NEW spare \in Int,
         NEW number \in Nat, NEW close,
         Timely(q, m, r, a, budget, spare, number, close)
  PROVE  /\ Timely(q, m, r, a, budget + 1, spare + 1, number, close)
         /\ Timely(Append(q, k), m, r, a, budget + 1, spare + 1, number, close)
<1> DEFINE l == Append(q, k)
           more == budget + 1
           room == spare + 1
<1>1. /\ more \in Int /\ room \in Int /\ budget <= more /\ spare <= room /\ more <= more
      /\ r <= r /\ a <= a /\ l \in Seq(Kline)
  OBVIOUS
<1>2. Timely(l, m, r, a, more, spare, number, close)
  BY TimelyPublished
<1> HIDE DEF l, more, room
<1>3. Timely(q, m, r, a, more, room, number, close)
  BY <1>1, TimelySlack
<1>4. Timely(l, m, r, a, more, room, number, close)
  BY <1>1, <1>2, TimelySlack
<1>5. QED BY <1>3, <1>4 DEF l, more, room

\* The strategy takes a kline and owes an acknowledgement.
LEMMA TimelyAnswered ==
  ASSUME NEW q \in Seq(Kline), NEW m \in Seq(Message), q # <<>>,
         NEW r \in Int, NEW budget \in Int, NEW spare \in Int,
         NEW number, NEW close,
         Timely(q, m, r, 0, budget, spare, number, close)
  PROVE  Timely(Tail(q), m, r, 1, budget, spare, number, close)
<1> DEFINE l == Tail(q)
<1>1. /\ Len(l) = Len(q) - 1 /\ Len(q) \in Nat
      /\ \A j \in DOMAIN l : j \in Nat /\ j + 1 \in DOMAIN q /\ l[j] = q[j + 1]
  BY KlinesTaken
<1>2. AcksIn(m) \in Int
  BY NumbersAreInt
<1> HIDE DEF l
<1>3. PaidFor(l, m, r, 1, budget)
  BY <1>1, <1>2 DEF Timely, PaidFor
<1>4. BarsInTime(l, m, r, 1, spare, number, close)
  <2>1. ASSUME NEW j \in DOMAIN l, l[j].closed
        PROVE  BarInTime(l[j], r + AcksIn(m) + 1 + (j - 1), spare, number, close)
    <3>1. BarInTime(q[j + 1], r + AcksIn(m) + 0 + ((j + 1) - 1), spare, number, close)
      BY <1>1, <2>1 DEF Timely, BarsInTime
    <3>2. r + AcksIn(m) + 0 + ((j + 1) - 1) = r + AcksIn(m) + 1 + (j - 1)
      BY <1>1, <1>2
    <3>3. QED BY <1>1, <3>1, <3>2
  <2>2. QED BY <2>1 DEF BarsInTime
<1>5. QED BY <1>3, <1>4 DEF Timely, l

\* The strategy sends the order it decided on the bar it is about to acknowledge.
LEMMA TimelyEntered ==
  ASSUME NEW q \in Seq(Kline), NEW m \in Seq(Message), NEW o \in Order,
         NEW r \in Int, NEW budget \in Int, NEW spare \in Int,
         NEW number, NEW close,
         q # <<>>, Head(q).closed, OrdersIn(m) = {},
         o.n = Head(q).n, o.price = Head(q).close,
         Timely(q, m, r, 0, budget, spare, number, close)
  PROVE  Timely(q, Append(m, o), r, 0, budget, spare, number, close)
<1> DEFINE l == Append(m, o)
<1>1. AcksIn(l) = AcksIn(m) /\ AcksIn(m) = Len(m) /\ Len(m) \in Nat
  BY AcksMoved
<1>2. OrdersIn(l) = {Len(m) + 1} /\ l[Len(m) + 1] = o
  BY OrderOrAck, OrdersAppended DEF Message
<1>3. Head(q) = q[1] /\ 1 \in DOMAIN q
  BY KlinesTaken
<1> HIDE DEF l
<1>4. PaidFor(q, l, r, 0, budget) /\ BarsInTime(q, l, r, 0, spare, number, close)
  BY <1>1 DEF Timely, PaidFor, BarsInTime
<1>5. OrdersInTime(l, r, spare, number, close)
  <2>1. BarInTime(q[1], r + AcksIn(m) + 0 + (1 - 1), spare, number, close)
    BY <1>3 DEF Timely, BarsInTime
  <2>2. r + AcksIn(m) + 0 + (1 - 1) = r + ((Len(m) + 1) - 1)
    BY <1>1
  <2>3. OrderInTime(o, r + ((Len(m) + 1) - 1), spare, number, close)
    BY <1>3, <2>1, <2>2 DEF BarInTime, OrderInTime
  <2>4. QED BY <1>2, <2>3 DEF OrdersInTime
<1>6. QED BY <1>4, <1>5 DEF Timely, l

\* An acknowledgement is sent.
LEMMA TimelyAckSent ==
  ASSUME NEW q \in Seq(Kline), NEW m \in Seq(Message), \A i, j \in OrdersIn(m) : i = j,
         NEW r \in Int, NEW budget \in Int, NEW spare \in Int,
         NEW number, NEW close,
         Timely(q, m, r, 1, budget, spare, number, close)
  PROVE  Timely(q, Append(m, Ack), r, 0, budget, spare, number, close)
<1> DEFINE l == Append(m, Ack)
<1>1. AcksIn(l) = AcksIn(m) + 1 /\ AcksIn(m) \in Int /\ Len(q) \in Nat
      /\ \A j \in DOMAIN q : j \in Nat
  BY AcksMoved, NumbersAreInt
<1>2. OrdersIn(l) = OrdersIn(m) /\ \A i \in OrdersIn(m) : l[i] = m[i]
  BY OrderOrAck, OrdersAppended DEF Message
<1> HIDE DEF l
<1>3. PaidFor(q, l, r, 0, budget)
  BY <1>1 DEF Timely, PaidFor
<1>4. BarsInTime(q, l, r, 0, spare, number, close)
  <2>1. ASSUME NEW j \in DOMAIN q, q[j].closed
        PROVE  BarInTime(q[j], r + AcksIn(l) + 0 + (j - 1), spare, number, close)
    <3>1. BarInTime(q[j], r + AcksIn(m) + 1 + (j - 1), spare, number, close)
      BY <2>1 DEF Timely, BarsInTime
    <3>2. r + AcksIn(l) + 0 + (j - 1) = r + AcksIn(m) + 1 + (j - 1)
      BY <1>1
    <3>3. QED BY <3>1, <3>2
  <2>2. QED BY <2>1 DEF BarsInTime
<1>5. OrdersInTime(l, r, spare, number, close)
  BY <1>2 DEF Timely, OrdersInTime
<1>6. QED BY <1>3, <1>4, <1>5 DEF Timely, l

\* An acknowledgement is taken, and pays for one more read.
LEMMA TimelyAckTaken ==
  ASSUME NEW q \in Seq(Kline), NEW m \in Seq(Message), \A i, j \in OrdersIn(m) : i = j,
         m # <<>>, Head(m).type = "ack",
         NEW r \in Int, NEW a \in Int, NEW budget \in Int, NEW spare \in Int,
         NEW number, NEW close,
         Timely(q, m, r, a, budget, spare, number, close)
  PROVE  Timely(q, Tail(m), r + 1, a, budget, spare, number, close)
<1> DEFINE l == Tail(m)
<1>1. AcksIn(l) = AcksIn(m) - 1 /\ AcksIn(m) \in Int /\ Len(q) \in Nat
      /\ \A j \in DOMAIN q : j \in Nat
  BY AcksMoved, NumbersAreInt
<1>2. \A i \in OrdersIn(l) : i \in Nat /\ i + 1 \in OrdersIn(m) /\ l[i] = m[i + 1]
  BY OrdersTaken
<1> HIDE DEF l
<1>3. PaidFor(q, l, r + 1, a, budget)
  BY <1>1 DEF Timely, PaidFor
<1>4. BarsInTime(q, l, r + 1, a, spare, number, close)
  <2>1. ASSUME NEW j \in DOMAIN q, q[j].closed
        PROVE  BarInTime(q[j], (r + 1) + AcksIn(l) + a + (j - 1), spare, number, close)
    <3>1. BarInTime(q[j], r + AcksIn(m) + a + (j - 1), spare, number, close)
      BY <2>1 DEF Timely, BarsInTime
    <3>2. (r + 1) + AcksIn(l) + a + (j - 1) = r + AcksIn(m) + a + (j - 1)
      BY <1>1
    <3>3. QED BY <3>1, <3>2
  <2>2. QED BY <2>1 DEF BarsInTime
<1>5. OrdersInTime(l, r + 1, spare, number, close)
  <2>1. ASSUME NEW i \in OrdersIn(l)
        PROVE  OrderInTime(l[i], (r + 1) + (i - 1), spare, number, close)
    <3>1. OrderInTime(m[i + 1], r + ((i + 1) - 1), spare, number, close)
      BY <1>2 DEF Timely, OrdersInTime
    <3>2. i \in Nat /\ l[i] = m[i + 1]
      BY <1>2
    <3>3. r + ((i + 1) - 1) = (r + 1) + (i - 1)
      BY <3>2
    <3>4. QED BY <3>1, <3>2, <3>3
  <2>2. QED BY <2>1 DEF OrdersInTime
<1>6. QED BY <1>3, <1>4, <1>5 DEF Timely, l

\* An order is taken: it was the only one.
LEMMA TimelyOrderTaken ==
  ASSUME NEW q, NEW m \in Seq(Message), \A i, j \in OrdersIn(m) : i = j,
         m # <<>>, Head(m).type # "ack",
         NEW r, NEW a, NEW budget, NEW spare, NEW number, NEW close,
         Timely(q, m, r, a, budget, spare, number, close)
  PROVE  /\ Timely(q, Tail(m), r, a, budget, spare, number, close)
         /\ OrderInTime(Head(m), r + (1 - 1), spare, number, close)
<1> DEFINE l == Tail(m)
<1>1. AcksIn(l) = AcksIn(m) /\ OrdersIn(l) = {}
  BY AcksMoved
<1>2. 1 \in OrdersIn(m) /\ Head(m) = m[1]
  BY OrdersTaken
<1> HIDE DEF l
<1>3. PaidFor(q, l, r, a, budget) /\ BarsInTime(q, l, r, a, spare, number, close)
  BY <1>1 DEF Timely, PaidFor, BarsInTime
<1>4. OrdersInTime(l, r, spare, number, close)
  BY <1>1 DEF OrdersInTime
<1>5. OrderInTime(Head(m), r + (1 - 1), spare, number, close)
  BY <1>2 DEF Timely, OrdersInTime
<1>6. QED BY <1>3, <1>4, <1>5 DEF Timely, l

-----------------------------------------------------------------------------
(* The invariant holds initially, and every step keeps it.                 *)

LEMMA TypedFacts ==
  ASSUME Typed
  PROVE  /\ ex \in Executor /\ ex.risk.position \in Int /\ ex.bar.close \in Nat
         /\ n \in Nat /\ pings \in Nat /\ pings \in Int /\ brain \in Brain
         /\ toBrain \in Seq(Kline) /\ toEngine \in Seq(Message)
         /\ Reads \in Int /\ Acking \in Int /\ Published \in Int
         /\ MaxBars \in Nat /\ MaxPings \in Nat
<1>1. n \in Nat /\ pings \in Nat /\ MaxBars \in Nat /\ MaxPings \in Nat
  BY BoundAssumption DEF Typed
<1>2. ex \in Executor /\ ex.risk.position \in Int /\ ex.bar \in Quote
  BY ExecutorFields DEF Typed
<1>3. ex.bar.close \in Nat
  BY <1>2 DEF Quote
<1>4. brain \in Brain /\ toBrain \in Seq(Kline) /\ toEngine \in Seq(Message)
  BY DEF Typed, Message
<1>5. Reads \in Int /\ Acking \in Int /\ Published \in Int
  BY <1>1 DEF Reads, Acking, Published
<1>6. QED BY <1>1, <1>2, <1>3, <1>4, <1>5

LEMMA InitInv ==
  Init => BacktestInv
<1> SUFFICES ASSUME Init PROVE BacktestInv
  OBVIOUS
<1>1. /\ ex.risk = OpenAccount(InitialBalance) /\ ex.ts = FreshStop
      /\ ex.pending = <<>> /\ ex.bar = NoBar /\ ex.trades = <<>>
      /\ phase = "waiting" /\ n = 0 /\ pings = 0
      /\ brain = FreshBrain /\ py = "off" /\ toBrain = <<>> /\ toEngine = <<>>
  BY DEF Init
<1>2. /\ ex.risk \in Account /\ ex.risk.position = 0 /\ ex.risk.balance = InitialBalance
      /\ InitialBalance \in Nat
  BY <1>1, BoundAssumption DEF OpenAccount, Account
<1>3. ex \in Executor
  <2>1. FreshStop \in Stop
    BY DEF FreshStop, Stop, Indicators, Sides
  <2>2. NoBar \in Quote
    BY DEF NoBar, Quote
  <2>3. <<>> \in Seq(Resting) /\ <<>> \in Seq(Booked)
    OBVIOUS
  <2>4. PICK risk \in Account : risk = ex.risk
    BY <1>2
  <2>5. ex = [risk |-> risk, ts |-> FreshStop, pending |-> <<>>, bar |-> NoBar, trades |-> <<>>]
    BY <2>4 DEF Init
  <2>6. QED BY <2>1, <2>2, <2>3, <2>5 DEF Executor
<1>4. Typed
  BY <1>1, <1>3, BoundAssumption DEF Typed, Phases, FreshBrain, Brain
<1>5. OrdersIn(toEngine) = {} /\ DOMAIN toBrain = {} /\ Len(toEngine) = 0 /\ Len(toBrain) = 0
  BY <1>1 DEF OrdersIn
<1>6. Exposed
  <2>1. ~brain.saw
    BY <1>1 DEF FreshBrain
  <2>2. OneEntry(toEngine, ex.pending, ex.risk.position)
    BY <1>1, <1>5 DEF OneEntry
  <2>3. Rearmed(brain, toBrain, toEngine, ex.pending, ex.risk.position)
    BY <1>1, <1>2, <1>5, <2>1 DEF Rearmed
  <2>4. Reported(brain, toBrain, toEngine, ex.pending)
    BY <1>1, <1>5 DEF Reported
  <2>5. Ended(brain, toBrain, ex.risk.position)
    BY <1>5 DEF Ended
  <2>6. QED BY <2>2, <2>3, <2>4, <2>5 DEF Exposed, Exposure
<1>7. InTime
  <2>1. AcksIn(toEngine) = 0
    BY <1>5 DEF AcksIn
  <2>2. Reads = 0 /\ Acking = 0 /\ Published = 0
    BY <1>1 DEF Reads, Acking, Published
  <2>3. PaidFor(toBrain, toEngine, Reads, Acking, pings + Published)
    BY <1>1, <1>5, <2>1, <2>2 DEF PaidFor
  <2>4. QED BY <1>5, <2>3 DEF InTime, Timely, BarsInTime, OrdersInTime
<1>8. Books(ex)
  <2>1. Len(ex.trades) = 0 /\ DOMAIN ex.trades = {}
    BY <1>1
  <2>2. BalanceAt(ex, Len(ex.trades) + 1) = InitialBalance
    BY <2>1 DEF BalanceAt
  <2>3. QED BY <1>2, <2>1, <2>2 DEF Books
<1>9. Prompt
  BY <1>1, <1>2 DEF Prompt, Guarded, Afforded
<1>10. QED BY <1>4, <1>6, <1>7, <1>8, <1>9 DEF BacktestInv

\* wait_for_python() publishes one more ping.
LEMMA PingKeeps ==
  ASSUME BacktestInv, Ping
  PROVE  BacktestInv'
<1> DEFINE k == KlineOf(0, NoBar, FALSE)
<1>1. Typed /\ Exposed /\ InTime /\ Books(ex) /\ Prompt
  BY DEF BacktestInv
<1>2. /\ phase = "waiting" /\ pings < MaxPings /\ pings' = pings + 1
      /\ ex' = ex /\ phase' = phase /\ n' = n /\ brain' = brain /\ py' = py
      /\ toEngine' = toEngine
      /\ \/ toBrain' = toBrain
         \/ toBrain' = Append(toBrain, k)
  BY DEF Ping
<1>3. k \in Kline /\ ~k.closed
  BY <1>1, TypedFacts DEF KlineOf, Kline, NoBar
<1> HIDE DEF k
<1>4. /\ n \in Nat /\ pings \in Nat /\ MaxPings \in Nat /\ toBrain \in Seq(Kline)
      /\ toEngine \in Seq(Message) /\ brain \in Brain /\ ex.risk.position \in Int
      /\ Reads \in Int /\ Acking \in Int /\ Published \in Int
  BY <1>1, TypedFacts
<1>5. Typed'
  <2>1. Append(toBrain, k) \in Seq(Kline)
    BY <1>3, <1>4
  <2>2. toBrain' \in Seq(Kline)
    BY <1>2, <1>4, <2>1
  <2>3. pings' \in 0..MaxPings
    BY <1>2, <1>4
  <2>4. QED BY <1>1, <1>2, <2>2, <2>3 DEF Typed
<1>6. Exposed'
  <2>1. Exposure(brain, toBrain, toEngine, ex.pending, ex.risk.position)
    BY <1>1 DEF Exposed
  <2>2. Exposure(brain, Append(toBrain, k), toEngine, ex.pending, ex.risk.position)
    BY <1>3, <1>4, <2>1, ExposurePublishes
  <2>3. QED BY <1>2, <2>1, <2>2 DEF Exposed
<1>7. InTime'
  <2>1. Reads' = Reads /\ Acking' = Acking /\ Published' = Published
    BY <1>2 DEF Reads, Acking, Published
  <2>2. Timely(toBrain, toEngine, Reads, Acking, pings + Published, pings, n, ex.bar.close)
    BY <1>1 DEF InTime
  <2> DEFINE budget == pings + Published
  <2>3. budget \in Int /\ (pings + 1) + Published = budget + 1
    BY <1>4
  <2> HIDE DEF budget
  <2>4. Timely(toBrain, toEngine, Reads, Acking, budget, pings, n, ex.bar.close)
    BY <2>2 DEF budget
  <2>5. /\ Timely(toBrain, toEngine, Reads, Acking, budget + 1, pings + 1, n, ex.bar.close)
        /\ Timely(Append(toBrain, k), toEngine, Reads, Acking, budget + 1, pings + 1, n,
                  ex.bar.close)
    <3>1. toBrain \in Seq(Kline) /\ toEngine \in Seq(Message) /\ Reads \in Int /\ Acking \in Int
          /\ budget \in Int /\ pings \in Int /\ n \in Nat
      BY <1>4, <2>3
    <3>2. k \in Kline /\ ~k.closed
      BY <1>3
    <3>3. QED BY <3>1, <3>2, <2>4, TimelyPinged
  <2>6. QED BY <1>2, <2>1, <2>3, <2>5 DEF InTime
<1>8. Books(ex)' /\ Prompt'
  BY <1>1, <1>2, <1>4 DEF Prompt
<1>9. QED BY <1>5, <1>6, <1>7, <1>8 DEF BacktestInv

(***************************************************************************)
(* A side stops: the replay is done, or Python no longer answers.  What    *)
(* was owed stays owed.                                                    *)
(***************************************************************************)
Stopped ==
  /\ UNCHANGED <<ex, n, pings, brain, toBrain, toEngine>>
  /\ \/ phase' = phase
     \/ phase \notin {"stop", "publish"} /\ phase' = "done"
  /\ \/ py' = py
     \/ py' \in {"listening", "dead"}

LEMMA StoppedKeeps ==
  ASSUME BacktestInv, Stopped
  PROVE  BacktestInv'
<1>1. Typed /\ Exposed /\ InTime /\ Books(ex) /\ Prompt
  BY DEF BacktestInv
<1>2. /\ ex' = ex /\ n' = n /\ pings' = pings /\ brain' = brain
      /\ toBrain' = toBrain /\ toEngine' = toEngine
  BY DEF Stopped
<1>3. /\ n \in Nat /\ pings \in Int /\ toBrain \in Seq(Kline) /\ toEngine \in Seq(Message)
      /\ Reads \in Int /\ Acking \in Int /\ Published \in Int
  BY <1>1, TypedFacts
<1>4. Typed'
  BY <1>1, <1>2 DEF Typed, Stopped, Phases
<1>5. Exposed' /\ Books(ex)' /\ Prompt'
  BY <1>1, <1>2 DEF Exposed, Prompt
<1>6. InTime'
  <2> DEFINE r == Reads'
             a == Acking'
             budget == pings + Published
  <2>1. r \in Int /\ r <= Reads
    <3>1. CASE phase' = phase
      BY <1>2, <1>3, <3>1 DEF Reads
    <3>2. CASE phase' = "done"
      BY <1>2, <1>3, <3>2 DEF Reads
    <3>3. QED BY <3>1, <3>2 DEF Stopped
  <2>2. a \in Int /\ a <= Acking
    <3>1. CASE py' = py
      BY <1>3, <3>1 DEF Acking
    <3>2. CASE py' \in {"listening", "dead"}
      BY <3>2 DEF Acking
    <3>3. QED BY <3>1, <3>2 DEF Stopped
  <2>3. Published' = Published
    <3>1. CASE phase' = phase
      BY <1>2, <3>1 DEF Published
    <3>2. CASE phase \notin {"stop", "publish"} /\ phase' = "done"
      BY <1>2, <3>2 DEF Published
    <3>3. QED BY <3>1, <3>2 DEF Stopped
  <2>4. Timely(toBrain, toEngine, Reads, Acking, budget, pings, n, ex.bar.close)
    BY <1>1 DEF InTime
  <2>5. budget \in Int /\ budget <= budget /\ pings <= pings
    BY <1>3
  <2> HIDE DEF r, a, budget
  <2>6. Timely(toBrain, toEngine, r, a, budget, pings, n, ex.bar.close)
    <3>1. /\ toBrain \in Seq(Kline) /\ toEngine \in Seq(Message)
          /\ Reads \in Int /\ Acking \in Int /\ pings \in Int
      BY <1>3
    <3>2. QED BY <2>1, <2>2, <2>4, <2>5, <3>1, TimelySlack
  <2>7. QED BY <1>2, <2>3, <2>6 DEF InTime, r, a, budget
<1>7. QED BY <1>4, <1>5, <1>6 DEF BacktestInv

LEMMA EndingsStop ==
  EndOfData \/ AckTimeout \/ Connect \/ PythonDies => Stopped
BY DEF EndOfData, AckTimeout, Connect, PythonDies, Stopped

\* set_market() on the next line: what rests is filled or kept, nothing is about it yet.
LEMMA ReadBarKeeps ==
  ASSUME BacktestInv, NEW bar \in BarSet, NEW cleared, ReadBar(bar, cleared)
  PROVE  BacktestInv'
<1> DEFINE f == SetMarket(ex, bar, cleared)
<1>1. Typed /\ Exposed /\ InTime /\ Books(ex) /\ Prompt
  BY DEF BacktestInv
<1>2. /\ phase = "market" /\ n < MaxBars /\ n' = n + 1 /\ ex' = f /\ phase' = "stop"
      /\ pings' = pings /\ brain' = brain /\ py' = py
      /\ toBrain' = toBrain /\ toEngine' = toEngine
  BY DEF ReadBar
<1>3. /\ n \in Nat /\ pings \in Int /\ toBrain \in Seq(Kline) /\ toEngine \in Seq(Message)
      /\ ex \in Executor /\ MaxBars \in Nat
      /\ Reads \in Int /\ Acking \in Int /\ Published \in Int
  BY <1>1, TypedFacts
<1>4. Exposure(brain, toBrain, toEngine, ex.pending, ex.risk.position)
  BY <1>1 DEF Exposed
<1>5. ex.pending # <<>> => Len(ex.pending) = 1 /\ ex.risk.position = 0
  BY <1>4 DEF Exposure, OneEntry
<1>6. /\ f \in Executor /\ f.bar = bar /\ Books(f)
      /\ \/ f.pending = ex.pending /\ f.risk = ex.risk
         \/ f.pending = <<>> /\ ex.pending # <<>> /\ f.risk.position # 0
      /\ ex.pending = <<>> => /\ Guarded(ex) => Guarded(f)
                              /\ Afforded(ex) => Afforded(f)
  BY <1>1, <1>3, <1>5, SetMarketEffect
<1> HIDE DEF f
<1>7. Typed'
  <2>1. n' \in 0..MaxBars /\ n' >= 1
    BY <1>2, <1>3
  <2>2. QED BY <1>1, <1>2, <1>6, <2>1 DEF Typed, Phases
<1>8. Exposed'
  <2>1. Exposure(brain, toBrain, toEngine, f.pending, f.risk.position)
    BY <1>4, <1>6, ExposureMarket
  <2>2. QED BY <1>2, <2>1 DEF Exposed
<1>9. InTime'
  <2>1. Reads' = Reads /\ Acking' = Acking /\ Published' = Published
    BY <1>2, <1>3 DEF Reads, Acking, Published
  <2> DEFINE budget == pings + Published
  <2>2. Timely(toBrain, toEngine, Reads, Acking, budget, pings, n, ex.bar.close)
    BY <1>1 DEF InTime
  <2>3. budget \in Int
    BY <1>3
  <2> HIDE DEF budget
  <2>4. Timely(toBrain, toEngine, Reads, Acking, budget, pings, n + 1, bar.close)
    BY <1>3, <2>2, <2>3, TimelyRead
  <2>5. QED BY <1>2, <1>6, <2>1, <2>4 DEF InTime, budget
<1>10. Books(ex)'
  BY <1>2, <1>6
<1>11. Prompt'
  BY <1>1, <1>2, <1>6 DEF Prompt
<1>12. QED BY <1>7, <1>8, <1>9, <1>10, <1>11 DEF BacktestInv

\* check_and_execute_stop(): what is held stays or is closed.
LEMMA RunStopKeeps ==
  ASSUME BacktestInv, RunStop
  PROVE  BacktestInv'
<1> DEFINE f == CheckStop(ex)
<1>1. Typed /\ Exposed /\ InTime /\ Books(ex) /\ Prompt
  BY DEF BacktestInv
<1>2. /\ phase = "stop" /\ ex' = f /\ phase' = "publish" /\ n' = n
      /\ pings' = pings /\ brain' = brain /\ py' = py
      /\ toBrain' = toBrain /\ toEngine' = toEngine
  BY DEF RunStop
<1>3. ex \in Executor /\ ex.bar \in BarSet
  BY <1>1, <1>2 DEF Typed
<1>4. /\ f \in Executor /\ f.bar = ex.bar /\ f.pending = ex.pending /\ Books(f)
      /\ f.risk = ex.risk \/ f.risk.position = 0
      /\ Guarded(ex) => Guarded(f)
      /\ Afforded(ex) => Afforded(f)
  BY <1>1, <1>3, CheckStopEffect
<1> HIDE DEF f
<1>5. Typed'
  BY <1>1, <1>2, <1>4 DEF Typed, Phases
<1>6. Exposed'
  <2>1. Exposure(brain, toBrain, toEngine, ex.pending, ex.risk.position)
    BY <1>1 DEF Exposed
  <2>2. Exposure(brain, toBrain, toEngine, f.pending, f.risk.position)
    BY <1>4, <2>1, ExposureMarket
  <2>3. QED BY <1>2, <2>2 DEF Exposed
<1>7. InTime'
  <2>1. Reads' = Reads /\ Acking' = Acking /\ Published' = Published
    BY <1>2 DEF Reads, Acking, Published
  <2>2. QED BY <1>1, <1>2, <1>4, <2>1 DEF InTime
<1>8. Books(ex)' /\ Prompt'
  BY <1>1, <1>2, <1>4 DEF Prompt
<1>9. QED BY <1>5, <1>6, <1>7, <1>8 DEF BacktestInv

\* publish_market_data(): the finished bar, with the position the engine holds now.
LEMMA PublishKeeps ==
  ASSUME BacktestInv, Publish
  PROVE  BacktestInv'
<1> DEFINE k == KlineOf(n, ex.bar, TRUE)
<1>1. Typed /\ Exposed /\ InTime /\ Books(ex) /\ Prompt
  BY DEF BacktestInv
<1>2. /\ phase = "publish" /\ ex' = ex /\ phase' = "receiving" /\ n' = n
      /\ pings' = pings /\ brain' = brain /\ py' = py /\ toEngine' = toEngine
      /\ \/ toBrain' = toBrain
         \/ toBrain' = Append(toBrain, k)
  BY DEF Publish
<1>3. /\ n \in Nat /\ pings \in Int /\ toBrain \in Seq(Kline) /\ toEngine \in Seq(Message)
      /\ ex.risk.position \in Int /\ ex.bar.close \in Nat /\ brain \in Brain
      /\ Reads \in Int /\ Acking \in Int /\ Published \in Int
  BY <1>1, TypedFacts
<1>4. n \in 0..MaxBars /\ n >= 1
  BY <1>1, <1>2 DEF Typed
<1>5. /\ k \in Kline /\ k.n = n /\ k.close = ex.bar.close /\ k.position = ex.risk.position
  BY <1>3, <1>4 DEF KlineOf, Kline
<1> HIDE DEF k
<1>6. Append(toBrain, k) \in Seq(Kline)
  BY <1>3, <1>5
<1>7. Typed'
  <2>1. toBrain' \in Seq(Kline)
    BY <1>2, <1>3, <1>6
  <2>2. QED BY <1>1, <1>2, <2>1 DEF Typed, Phases
<1>8. Exposed'
  <2>1. Exposure(brain, toBrain, toEngine, ex.pending, ex.risk.position)
    BY <1>1 DEF Exposed
  <2>2. Exposure(brain, Append(toBrain, k), toEngine, ex.pending, ex.risk.position)
    BY <1>3, <1>5, <2>1, ExposurePublishes
  <2>3. QED BY <1>2, <2>1, <2>2 DEF Exposed
<1>9. InTime'
  <2> DEFINE budget == pings + Published
  <2>1. Reads' = Reads /\ Acking' = Acking
    BY <1>2 DEF Reads, Acking
  <2>2. /\ budget \in Int /\ budget + 1 \in Int /\ budget <= budget + 1
        /\ budget <= pings + n - 1 /\ pings' + Published' = budget + 1
    BY <1>2, <1>3 DEF Published
  <2>3. Timely(toBrain, toEngine, Reads, Acking, budget, pings, n, ex.bar.close)
    BY <1>1 DEF InTime
  <2> HIDE DEF budget
  <2> DEFINE more == budget + 1
  <2>4. Timely(Append(toBrain, k), toEngine, Reads, Acking, more, pings, n, ex.bar.close)
    BY <1>3, <1>4, <1>5, <2>2, <2>3, TimelyPublished
  <2>5. Timely(toBrain, toEngine, Reads, Acking, more, pings, n, ex.bar.close)
    <3>1. /\ more \in Int /\ budget <= more /\ Reads <= Reads /\ Acking <= Acking
          /\ pings <= pings /\ Reads \in Int /\ Acking \in Int /\ pings \in Int /\ budget \in Int
          /\ toBrain \in Seq(Kline) /\ toEngine \in Seq(Message)
      BY <1>3, <2>2
    <3> HIDE DEF more
    <3>2. QED BY <2>3, <3>1, TimelySlack
  <2>6. QED BY <1>2, <2>1, <2>2, <2>4, <2>5 DEF InTime
<1>10. Books(ex)' /\ Prompt'
  BY <1>1, <1>2 DEF Prompt
<1>11. QED BY <1>7, <1>8, <1>9, <1>10 DEF BacktestInv

\* handle_json(): with one ping the order meets the bar it was decided on.
LEMMA ReceiveOrderKeeps ==
  ASSUME BacktestInv, ReceiveOrder
  PROVE  BacktestInv'
<1> DEFINE o == Head(toEngine)
           f == HandleOpen(o)
<1>1. Typed /\ Exposed /\ InTime /\ Books(ex) /\ Prompt
  BY DEF BacktestInv
<1>2. /\ phase \in {"waiting", "receiving"} /\ toEngine # <<>> /\ o.type # "ack"
      /\ ex' = f /\ toEngine' = Tail(toEngine) /\ phase' = phase /\ n' = n
      /\ pings' = pings /\ brain' = brain /\ py' = py /\ toBrain' = toBrain
  BY DEF ReceiveOrder
<1>3. /\ n \in Nat /\ pings \in Int /\ toBrain \in Seq(Kline) /\ toEngine \in Seq(Message)
      /\ ex \in Executor /\ brain \in Brain
      /\ Reads \in Int /\ Acking \in Int /\ Published \in Int
  BY <1>1, TypedFacts
<1>4. Exposure(brain, toBrain, toEngine, ex.pending, ex.risk.position)
  BY <1>1 DEF Exposed
<1>5. 1 \in OrdersIn(toEngine) /\ o \in Message /\ Tail(toEngine) \in Seq(Message)
  BY <1>2, <1>3, OrdersTaken
<1>6. o \in Order
  BY <1>2, <1>5, OrderOrAck
<1>7. /\ \A i, j \in OrdersIn(toEngine) : i = j
      /\ ex.pending = <<>>
  BY <1>4, <1>5 DEF Exposure, OneEntry
<1> HIDE DEF o
<1>8. /\ f \in Executor /\ f.bar = ex.bar /\ Books(f)
      /\ \/ f = ex
         \/ f.risk.position = 0 /\ Len(f.pending) = 1 /\ f.pending # <<>>
         \/ f.risk.position # 0 /\ f.pending = <<>>
      /\ o.price = ex.bar.close =>
           /\ f.pending = <<>>
           /\ Guarded(ex) => Guarded(f)
           /\ Afforded(ex) => Afforded(f)
  BY <1>1, <1>3, <1>6, <1>7, HandleOpenEffect
<1> HIDE DEF f
<1>9. Typed'
  <2>1. Tail(toEngine) \in Seq(Order \cup {Ack})
    BY <1>5 DEF Message
  <2>2. QED BY <1>1, <1>2, <1>8, <2>1 DEF Typed
<1>10. Exposed'
  <2>1. \/ f.pending = ex.pending /\ f.risk.position = ex.risk.position
        \/ Len(f.pending) = 1 /\ f.pending # <<>> /\ f.risk.position = 0
        \/ f.pending = <<>> /\ f.risk.position # 0
    BY <1>8
  <2>2. Exposure(brain, toBrain, Tail(toEngine), f.pending, f.risk.position)
    BY <1>2, <1>3, <1>4, <2>1, ExposureTaken DEF o
  <2>3. QED BY <1>2, <2>2 DEF Exposed
<1>11. /\ Timely(toBrain, Tail(toEngine), Reads, Acking, pings + Published, pings, n,
                 ex.bar.close)
       /\ OrderInTime(o, Reads + (1 - 1), pings, n, ex.bar.close)
  <2>1. Timely(toBrain, toEngine, Reads, Acking, pings + Published, pings, n, ex.bar.close)
    BY <1>1 DEF InTime
  <2>2. QED BY <1>2, <1>3, <1>7, <2>1, TimelyOrderTaken DEF o
<1>12. InTime'
  <2>1. Reads' = Reads /\ Acking' = Acking /\ Published' = Published
    BY <1>2 DEF Reads, Acking, Published
  <2>2. QED BY <1>2, <1>8, <1>11, <2>1 DEF InTime
<1>13. Prompt'
  <2>1. CASE pings <= 1
    <3>1. Reads = n
      BY <1>2, <1>3 DEF Reads
    <3>2. /\ o.n \in 1..n /\ n + (1 - 1) <= pings + o.n - 1
          /\ o.n = n => o.price = ex.bar.close
      BY <1>11, <3>1 DEF OrderInTime
    <3>3. o.n = n
      BY <1>3, <2>1, <3>2
    <3>4. QED BY <1>1, <1>2, <1>8, <2>1, <3>2, <3>3 DEF Prompt
  <2>2. CASE ~(pings <= 1)
    BY <1>2, <2>2 DEF Prompt
  <2>3. QED BY <2>1, <2>2
<1>14. Books(ex)'
  BY <1>2, <1>8
<1>15. QED BY <1>9, <1>10, <1>12, <1>13, <1>14 DEF BacktestInv

\* The wait ends with an acknowledgement, and the replay goes on.
LEMMA ReceiveAckKeeps ==
  ASSUME BacktestInv, ReceiveAck
  PROVE  BacktestInv'
<1>1. Typed /\ Exposed /\ InTime /\ Books(ex) /\ Prompt
  BY DEF BacktestInv
<1>2. /\ phase \in {"waiting", "receiving"} /\ toEngine # <<>> /\ Head(toEngine).type = "ack"
      /\ ex' = ex /\ toEngine' = Tail(toEngine) /\ phase' = "market" /\ n' = n
      /\ pings' = pings /\ brain' = brain /\ py' = py /\ toBrain' = toBrain
  BY DEF ReceiveAck
<1>3. /\ n \in Nat /\ pings \in Int /\ toBrain \in Seq(Kline) /\ toEngine \in Seq(Message)
      /\ Reads \in Int /\ Acking \in Int /\ Published \in Int
  BY <1>1, TypedFacts
<1>4. Exposure(brain, toBrain, toEngine, ex.pending, ex.risk.position)
  BY <1>1 DEF Exposed
<1>5. \A i, j \in OrdersIn(toEngine) : i = j
  BY <1>4 DEF Exposure, OneEntry
<1> DEFINE l == Tail(toEngine)
<1>6. /\ l \in Seq(Message) /\ 1 \notin OrdersIn(toEngine)
      /\ \A i \in OrdersIn(l) : i \in Nat /\ i + 1 \in OrdersIn(toEngine)
      /\ \A i \in OrdersIn(toEngine) : i = 1 \/ i - 1 \in OrdersIn(l)
  BY <1>2, <1>3, OrdersTaken
<1> HIDE DEF l
<1>7. /\ OrdersIn(l) = {} <=> OrdersIn(toEngine) = {}
      /\ \A i, j \in OrdersIn(l) : i = j
  <2>1. OrdersIn(l) = {} <=> OrdersIn(toEngine) = {}
    BY <1>6
  <2>2. ASSUME NEW i \in OrdersIn(l), NEW j \in OrdersIn(l) PROVE i = j
    <3>1. i \in Nat /\ j \in Nat /\ i + 1 = j + 1
      BY <1>5, <1>6
    <3>2. QED BY <3>1
  <2>3. QED BY <2>1, <2>2
<1>8. Typed'
  <2>1. l \in Seq(Order \cup {Ack})
    BY <1>6 DEF Message
  <2>2. QED BY <1>1, <1>2, <2>1 DEF Typed, Phases, l
<1>9. Exposed'
  <2>1. Exposure(brain, toBrain, l, ex.pending, ex.risk.position)
    BY <1>4, <1>7, ExposureAcks
  <2>2. QED BY <1>2, <2>1 DEF Exposed, l
<1>10. InTime'
  <2>1. Reads' = Reads + 1 /\ Acking' = Acking /\ Published' = Published
    BY <1>2, <1>3 DEF Reads, Acking, Published
  <2> DEFINE budget == pings + Published
  <2>2. Timely(toBrain, toEngine, Reads, Acking, budget, pings, n, ex.bar.close)
    BY <1>1 DEF InTime
  <2>3. budget \in Int
    BY <1>3
  <2> HIDE DEF budget
  <2>4. Timely(toBrain, Tail(toEngine), Reads + 1, Acking, budget, pings, n, ex.bar.close)
    BY <1>2, <1>3, <1>5, <2>2, <2>3, TimelyAckTaken
  <2>5. QED BY <1>2, <2>1, <2>4 DEF InTime, budget
<1>11. Books(ex)' /\ Prompt'
  BY <1>1, <1>2 DEF Prompt
<1>12. QED BY <1>8, <1>9, <1>10, <1>11 DEF BacktestInv

\* A ping goes by the brain and is acknowledged like a bar.
LEMMA HandlePingKeeps ==
  ASSUME BacktestInv, HandlePing
  PROVE  BacktestInv'
<1>1. Typed /\ Exposed /\ InTime /\ Books(ex) /\ Prompt
  BY DEF BacktestInv
<1>2. /\ py = "listening" /\ toBrain # <<>> /\ ~Head(toBrain).closed
      /\ toBrain' = Tail(toBrain) /\ py' = "acking" /\ ex' = ex /\ phase' = phase
      /\ n' = n /\ pings' = pings /\ brain' = brain /\ toEngine' = toEngine
  BY DEF HandlePing
<1>3. /\ pings \in Int /\ toBrain \in Seq(Kline) /\ toEngine \in Seq(Message)
      /\ brain \in Brain /\ Reads \in Int /\ Published \in Int
  BY <1>1, TypedFacts
<1>4. Tail(toBrain) \in Seq(Kline) /\ Head(toBrain) = toBrain[1]
  BY <1>2, <1>3, KlinesTaken
<1>5. Typed'
  BY <1>1, <1>2, <1>4 DEF Typed
<1>6. Exposed'
  <2>1. Exposure(brain, toBrain, toEngine, ex.pending, ex.risk.position)
    BY <1>1 DEF Exposed
  <2>2. ~Held(toBrain, 1)
    BY <1>2, <1>4 DEF Held
  <2>3. Exposure(brain, Tail(toBrain), toEngine, ex.pending, ex.risk.position)
    BY <1>2, <1>3, <2>1, <2>2, ExposurePinged
  <2>4. QED BY <1>2, <2>3 DEF Exposed
<1>7. InTime'
  <2>1. Reads' = Reads /\ Acking = 0 /\ Acking' = 1 /\ Published' = Published
    BY <1>2 DEF Reads, Acking, Published
  <2> DEFINE budget == pings + Published
  <2>2. Timely(toBrain, toEngine, Reads, 0, budget, pings, n, ex.bar.close)
    BY <1>1, <2>1 DEF InTime
  <2>3. budget \in Int
    BY <1>3
  <2> HIDE DEF budget
  <2>4. Timely(Tail(toBrain), toEngine, Reads, 1, budget, pings, n, ex.bar.close)
    BY <1>2, <1>3, <2>2, <2>3, TimelyAnswered
  <2>5. QED BY <1>2, <2>1, <2>4 DEF InTime, budget
<1>8. Books(ex)' /\ Prompt'
  BY <1>1, <1>2 DEF Prompt
<1>9. QED BY <1>5, <1>6, <1>7, <1>8 DEF BacktestInv

\* on_bar() without an order.
LEMMA PassBarKeeps ==
  ASSUME BacktestInv, PassBar
  PROVE  BacktestInv'
<1> DEFINE c == AfterGate(brain, Head(toBrain).position)
<1>1. Typed /\ Exposed /\ InTime /\ Books(ex) /\ Prompt
  BY DEF BacktestInv
<1>2. /\ py = "listening" /\ toBrain # <<>> /\ Head(toBrain).closed
      /\ toBrain' = Tail(toBrain) /\ py' = "acking" /\ ex' = ex /\ phase' = phase
      /\ n' = n /\ pings' = pings /\ brain' = c /\ toEngine' = toEngine
  BY DEF PassBar
<1>3. /\ pings \in Int /\ toBrain \in Seq(Kline) /\ toEngine \in Seq(Message)
      /\ brain \in Brain /\ Reads \in Int /\ Published \in Int
  BY <1>1, TypedFacts
<1>4. Tail(toBrain) \in Seq(Kline)
  BY <1>2, <1>3, KlinesTaken
<1>5. /\ c \in Brain
      /\ Exposure(c, Tail(toBrain), toEngine, ex.pending, ex.risk.position)
  <2>1. Exposure(brain, toBrain, toEngine, ex.pending, ex.risk.position)
    BY <1>1 DEF Exposed
  <2>2. QED BY <1>2, <1>3, <2>1, ExposureGated
<1> HIDE DEF c
<1>6. Typed'
  BY <1>1, <1>2, <1>4, <1>5 DEF Typed
<1>7. Exposed'
  BY <1>2, <1>5 DEF Exposed
<1>8. InTime'
  <2>1. Reads' = Reads /\ Acking = 0 /\ Acking' = 1 /\ Published' = Published
    BY <1>2 DEF Reads, Acking, Published
  <2> DEFINE budget == pings + Published
  <2>2. Timely(toBrain, toEngine, Reads, 0, budget, pings, n, ex.bar.close)
    BY <1>1, <2>1 DEF InTime
  <2>3. budget \in Int
    BY <1>3
  <2> HIDE DEF budget
  <2>4. Timely(Tail(toBrain), toEngine, Reads, 1, budget, pings, n, ex.bar.close)
    BY <1>2, <1>3, <2>2, <2>3, TimelyAnswered
  <2>5. QED BY <1>2, <2>1, <2>4 DEF InTime, budget
<1>9. Books(ex)' /\ Prompt'
  BY <1>1, <1>2 DEF Prompt
<1>10. QED BY <1>6, <1>7, <1>8, <1>9 DEF BacktestInv

\* on_bar() with a signal: the brain was re-armed, so nothing else is on its way.
LEMMA EnterOnBarKeeps ==
  ASSUME BacktestInv, NEW action \in {"BUY", "SELL"}, NEW stop \in Stops,
         EnterOnBar(action, stop)
  PROVE  BacktestInv'
<1> DEFINE c == AfterGate(brain, Head(toBrain).position)
           o == [type |-> WireType, action |-> action, stop |-> stop,
                 price |-> Head(toBrain).close, n |-> Head(toBrain).n]
           l == Append(toEngine, o)
<1>1. Typed /\ Exposed /\ InTime /\ Books(ex) /\ Prompt
  BY DEF BacktestInv
<1>2. /\ py = "listening" /\ toBrain # <<>> /\ Head(toBrain).closed /\ c.state = "IDLE"
      /\ toBrain' = Tail(toBrain) /\ py' = "acking" /\ ex' = ex /\ phase' = phase
      /\ n' = n /\ pings' = pings /\ brain' = [c EXCEPT !.state = "WAITING_CLOSE"]
      /\ toEngine' = l
  BY DEF EnterOnBar, MayEnter, Entered, Sent
<1>3. /\ pings \in Int /\ toBrain \in Seq(Kline) /\ toEngine \in Seq(Message)
      /\ brain \in Brain /\ Reads \in Int /\ Published \in Int
  BY <1>1, TypedFacts
<1>4. Tail(toBrain) \in Seq(Kline) /\ Head(toBrain) \in Kline
  BY <1>2, <1>3, KlinesTaken
<1>5. o \in Order /\ o.n = Head(toBrain).n /\ o.price = Head(toBrain).close
  <2>1. Head(toBrain).close \in Nat /\ Head(toBrain).n \in 0..MaxBars
    BY <1>4 DEF Kline
  <2>2. QED BY <2>1 DEF Order
<1> HIDE DEF o
<1>6. l \in Seq(Message)
  BY <1>3, <1>5 DEF Message
<1>7. /\ c \in Brain
      /\ Exposure(c, Tail(toBrain), toEngine, ex.pending, ex.risk.position)
  <2>1. Exposure(brain, toBrain, toEngine, ex.pending, ex.risk.position)
    BY <1>1 DEF Exposed
  <2>2. QED BY <1>2, <1>3, <2>1, ExposureGated
<1> HIDE DEF c
<1>8. /\ OrdersIn(toEngine) = {}
      /\ Exposure([c EXCEPT !.state = "WAITING_CLOSE"], Tail(toBrain), l,
                  ex.pending, ex.risk.position)
  BY <1>2, <1>3, <1>5, <1>7, ExposureEntered
<1>9. [c EXCEPT !.state = "WAITING_CLOSE"] \in Brain
  BY <1>7 DEF Brain
<1>10. Typed'
  <2>1. l \in Seq(Order \cup {Ack})
    BY <1>6 DEF Message
  <2> HIDE DEF l
  <2>2. QED BY <1>1, <1>2, <1>4, <1>9, <2>1 DEF Typed
<1>11. Exposed'
  BY <1>2, <1>8 DEF Exposed
<1>12. InTime'
  <2>1. Reads' = Reads /\ Acking = 0 /\ Acking' = 1 /\ Published' = Published
    BY <1>2 DEF Reads, Acking, Published
  <2> DEFINE budget == pings + Published
  <2>2. Timely(toBrain, toEngine, Reads, 0, budget, pings, n, ex.bar.close)
    BY <1>1, <2>1 DEF InTime
  <2>3. budget \in Int
    BY <1>3
  <2> HIDE DEF budget
  <2>4. Timely(toBrain, l, Reads, 0, budget, pings, n, ex.bar.close)
    BY <1>2, <1>3, <1>5, <1>8, <2>2, <2>3, TimelyEntered
  <2> HIDE DEF l
  <2>5. Timely(Tail(toBrain), l, Reads, 1, budget, pings, n, ex.bar.close)
    BY <1>2, <1>3, <1>6, <2>3, <2>4, TimelyAnswered
  <2>6. QED BY <1>2, <2>1, <2>5 DEF InTime, budget
<1>13. Books(ex)' /\ Prompt'
  BY <1>1, <1>2 DEF Prompt
<1>14. QED BY <1>10, <1>11, <1>12, <1>13 DEF BacktestInv

LEMMA SendAckKeeps ==
  ASSUME BacktestInv, SendAck
  PROVE  BacktestInv'
<1> DEFINE l == Append(toEngine, Ack)
<1>1. Typed /\ Exposed /\ InTime /\ Books(ex) /\ Prompt
  BY DEF BacktestInv
<1>2. /\ py = "acking" /\ toEngine' = l /\ py' = "listening" /\ ex' = ex /\ phase' = phase
      /\ n' = n /\ pings' = pings /\ brain' = brain /\ toBrain' = toBrain
  BY DEF SendAck, Sent
<1>3. /\ pings \in Int /\ toBrain \in Seq(Kline) /\ toEngine \in Seq(Message)
      /\ Reads \in Int /\ Published \in Int
  BY <1>1, TypedFacts
<1>4. Exposure(brain, toBrain, toEngine, ex.pending, ex.risk.position)
  BY <1>1 DEF Exposed
<1>5. \A i, j \in OrdersIn(toEngine) : i = j
  BY <1>4 DEF Exposure, OneEntry
<1>6. l \in Seq(Message) /\ OrdersIn(l) = OrdersIn(toEngine)
  BY <1>3, OrderOrAck, OrdersAppended DEF Message
<1> HIDE DEF l
<1>7. Typed'
  <2>1. l \in Seq(Order \cup {Ack})
    BY <1>6 DEF Message
  <2>2. QED BY <1>1, <1>2, <2>1 DEF Typed
<1>8. Exposed'
  <2>1. Exposure(brain, toBrain, l, ex.pending, ex.risk.position)
    BY <1>4, <1>5, <1>6, ExposureAcks
  <2>2. QED BY <1>2, <2>1 DEF Exposed
<1>9. InTime'
  <2>1. Reads' = Reads /\ Acking = 1 /\ Acking' = 0 /\ Published' = Published
    BY <1>2 DEF Reads, Acking, Published
  <2> DEFINE budget == pings + Published
  <2>2. Timely(toBrain, toEngine, Reads, 1, budget, pings, n, ex.bar.close)
    BY <1>1, <2>1 DEF InTime
  <2>3. budget \in Int
    BY <1>3
  <2> HIDE DEF budget
  <2>4. Timely(toBrain, l, Reads, 0, budget, pings, n, ex.bar.close)
    BY <1>3, <1>5, <2>2, <2>3, TimelyAckSent DEF l
  <2>5. QED BY <1>2, <2>1, <2>4 DEF InTime, budget
<1>10. Books(ex)' /\ Prompt'
  BY <1>1, <1>2 DEF Prompt
<1>11. QED BY <1>7, <1>8, <1>9, <1>10 DEF BacktestInv

-----------------------------------------------------------------------------
(***************************************************************************)
(* Whatever CSV is replayed, however many pings were needed and whichever  *)
(* side stops, every state of the backtest keeps the invariant: one entry  *)
(* runs through brain, pipes and engine at a time, every read was paid for *)
(* by an acknowledgement, the books balance, and after one ping an order   *)
(* meets the bar it was decided on.                                        *)
(***************************************************************************)
THEOREM BacktestInvariant ==
  Spec => []BacktestInv
<1>1. BacktestInv /\ [Next]_vars => BacktestInv'
  <2> SUFFICES ASSUME BacktestInv, [Next]_vars PROVE BacktestInv'
    OBVIOUS
  <2>1. CASE Ping
    BY <2>1, PingKeeps
  <2>2. CASE EndOfData \/ AckTimeout \/ Connect \/ PythonDies
    BY <2>2, EndingsStop, StoppedKeeps
  <2>3. CASE RunStop
    BY <2>3, RunStopKeeps
  <2>4. CASE Publish
    BY <2>4, PublishKeeps
  <2>5. CASE ReceiveOrder
    BY <2>5, ReceiveOrderKeeps
  <2>6. CASE ReceiveAck
    BY <2>6, ReceiveAckKeeps
  <2>7. CASE \E bar \in BarSet, cleared \in SUBSET DOMAIN ex.pending : ReadBar(bar, cleared)
    BY <2>7, ReadBarKeeps
  <2>8. CASE HandlePing
    BY <2>8, HandlePingKeeps
  <2>9. CASE PassBar
    BY <2>9, PassBarKeeps
  <2>10. CASE SendAck
    BY <2>10, SendAckKeeps
  <2>11. CASE \E action \in {"BUY", "SELL"}, stop \in Stops : EnterOnBar(action, stop)
    BY <2>11, EnterOnBarKeeps
  <2>12. CASE UNCHANGED vars
    BY <2>12, StoppedKeeps DEF vars, Stopped
  <2>13. QED BY <2>1, <2>2, <2>3, <2>4, <2>5, <2>6, <2>7, <2>8, <2>9, <2>10, <2>11, <2>12 DEF Next
<1>2. QED BY InitInv, <1>1, PTL DEF Spec

\* The state of the replay, of the engine and of the strategy keep their types, nothing
\* without a size or a price rests (mock_executor.cpp:101), and the brain waits while an
\* order of its own is in the pipe.
THEOREM BacktestTypes ==
  Spec => []TypeOK
<1>1. BacktestInv => TypeOK
  <2> SUFFICES ASSUME BacktestInv PROVE TypeOK
    OBVIOUS
  <2>1. Typed /\ Exposed
    BY DEF BacktestInv
  <2>2. /\ ex.risk \in Account /\ ex.ts \in Stop /\ ex.pending \in Seq(Resting)
    BY <2>1, TypedFacts, ExecutorFields
  <2>3. \A i \in DOMAIN ex.pending :
          ex.pending[i].qty > 0 /\ ex.pending[i].price > 0 /\ ~ex.pending[i].reduceOnly
    <3>1. ASSUME NEW r \in Resting PROVE r.qty > 0 /\ r.price > 0 /\ ~r.reduceOnly
      <4>1. r.qty \in Nat \ {0} /\ r.price \in Nat \ {0} /\ r.reduceOnly = FALSE
        BY DEF Resting
      <4>2. r.qty > 0 /\ r.price > 0
        BY <4>1
      <4>3. QED BY <4>1, <4>2, Zenon
    <3>2. \A i \in DOMAIN ex.pending : ex.pending[i] \in Resting
      BY <2>2
    <3>3. QED BY <3>1, <3>2
  <2>4. Orders # {} => brain.state = "WAITING_CLOSE"
    <3>1. brain.state = "IDLE" => OrdersIn(toEngine) = {}
      BY <2>1 DEF Exposed, Exposure, Rearmed
    <3>2. brain.state \in {"IDLE", "WAITING_CLOSE"}
      BY <2>1 DEF Typed, Brain
    <3>3. QED BY <3>1, <3>2 DEF Orders, OrdersIn
  <2>5. QED BY <2>1, <2>2, <2>3, <2>4 DEF TypeOK, Typed
<1>2. QED BY BacktestInvariant, <1>1, PTL

\* The replay (data_replayer.cpp) is ahead of the strategy by one bar for each ping
\* after the first, and never by more.
THEOREM LagIsBounded ==
  Spec => []LagBoundedByPings
<1>1. BacktestInv => LagBoundedByPings
  <2> SUFFICES ASSUME BacktestInv, NEW i \in OrdersIn(toEngine)
               PROVE  toEngine[i].n <= n /\ n <= toEngine[i].n + pings - 1
    BY DEF LagBoundedByPings, Orders, OrdersIn
  <2>1. Typed /\ InTime
    BY DEF BacktestInv
  <2>2. toEngine \in Seq(Message) /\ n \in Nat /\ pings \in Nat
    BY <2>1, TypedFacts
  <2>3. i \in 1..Len(toEngine) /\ Len(toEngine) \in Nat
    BY <2>2, OrdersAreOrders
  <2>4. OrderInTime(toEngine[i], Reads + (i - 1), pings, n, ex.bar.close)
    BY <2>1 DEF InTime, Timely, OrdersInTime
  <2> DEFINE k == toEngine[i].n
  <2>5. k \in 1..n /\ Reads + (i - 1) <= pings + k - 1
    BY <2>4 DEF OrderInTime
  <2> HIDE DEF k
  <2>6. Reads \in Nat /\ n <= Reads
    BY <2>2 DEF Reads
  <2>7. k <= n /\ n <= k + pings - 1
    BY <2>2, <2>3, <2>5, <2>6
  <2>8. QED BY <2>7 DEF k
<1>2. QED BY BacktestInvariant, <1>1, PTL

\* Neither side sees the pipe, and still one entry at most is on its way, resting or held
\* (strategy_wrapper.py:141-151).
THEOREM OneExposureInBacktest ==
  Spec => []SingleExposure
<1>1. BacktestInv => SingleExposure
  <2> SUFFICES ASSUME BacktestInv PROVE SingleExposure
    OBVIOUS
  <2>1. /\ OneEntry(toEngine, ex.pending, ex.risk.position)
        /\ ex.risk.position \in Int /\ ex.pending \in Seq(Resting)
    BY TypedFacts, ExecutorFields DEF BacktestInv, Exposed, Exposure
  <2>2. Abs(SideOf(ex.risk.position)) \in {0, 1}
        /\ (ex.risk.position = 0 => Abs(SideOf(ex.risk.position)) = 0)
    <3>1. SideOf(ex.risk.position) \in {-1, 0, 1}
          /\ (ex.risk.position = 0 => SideOf(ex.risk.position) = 0)
      BY <2>1 DEF SideOf
    <3>2. \A x \in {-1, 0, 1} : Abs(x) \in {0, 1} /\ (x = 0 => Abs(x) = 0)
      BY DEF Abs
    <3>3. QED BY <3>1, <3>2
  <2>3. Orders = OrdersIn(toEngine)
    BY DEF Orders, OrdersIn
  <2>4. CASE OrdersIn(toEngine) # {}
    <3>1. PICK i \in OrdersIn(toEngine) : TRUE
      BY <2>4
    <3>2. Orders = {i}
      BY <2>1, <2>3, <3>1 DEF OneEntry
    <3>3. Cardinality(Orders) = 1
      BY <3>2, FS_Singleton
    <3>4. Len(ex.pending) = 0 /\ ex.risk.position = 0
      BY <2>1, <2>4 DEF OneEntry
    <3>5. QED BY <2>2, <3>3, <3>4 DEF SingleExposure
  <2>5. CASE OrdersIn(toEngine) = {}
    <3>1. Cardinality(Orders) = 0
      BY <2>3, <2>5, FS_EmptySet
    <3>2. \/ Len(ex.pending) = 0
          \/ Len(ex.pending) = 1 /\ ex.risk.position = 0
      BY <2>1 DEF OneEntry
    <3>3. CASE Len(ex.pending) = 0
      BY <2>2, <3>1, <3>3 DEF SingleExposure
    <3>4. CASE Len(ex.pending) = 1 /\ ex.risk.position = 0
      BY <2>2, <3>1, <3>4 DEF SingleExposure
    <3>5. QED BY <3>2, <3>3, <3>4
  <2>6. QED BY <2>4, <2>5
<1>2. QED BY BacktestInvariant, <1>1, PTL

\* trades.csv (mock_executor.cpp:207-251) is a ledger of round trips, and every cent of
\* the balance is in it.
THEOREM LedgerBalances ==
  Spec => []LedgerOfRoundTrips
<1>1. BacktestInv => LedgerOfRoundTrips
  BY DEF BacktestInv, Books, RecordAgrees, BalanceAt, LedgerOfRoundTrips, BalanceBefore, Trades
<1>2. QED BY BacktestInvariant, <1>1, PTL

\* After one ping, a position of a backtest is watched by the stop it was entered with,
\* armed on its side and on the losing side of the fill (ipc_server.cpp, handle_json()).
THEOREM PositionsAreProtected ==
  Spec => []ProtectedPosition
<1>1. BacktestInv => ProtectedPosition
  <2> SUFFICES ASSUME BacktestInv, pings <= 1, ex.risk.position # 0
               PROVE  /\ ex.ts.side = SideOf(ex.risk.position)
                      /\ ex.ts.hard = ex.risk.stop
                      /\ ex.ts.hard > 0
                      /\ IF ex.risk.position > 0 THEN ex.ts.hard < ex.risk.entry
                                                 ELSE ex.ts.hard > ex.risk.entry
                      /\ ex.ts.indicator = (IF ex.risk.position > 0 THEN "donchian_low"
                                                                    ELSE "donchian_high")
    BY DEF ProtectedPosition
  <2>1. Guarded(ex)
    BY DEF BacktestInv, Prompt
  <2>2. ex.risk.stop > 0
    <3>1. ex.risk.stop \in Stops \ {0}
      BY <2>1 DEF Guarded
    <3>2. \A x \in Stops \ {0} : x > 0
      BY StopsAssumption
    <3>3. QED BY <3>1, <3>2
  <2>3. QED BY <2>1, <2>2 DEF Guarded
<1>2. QED BY BacktestInvariant, <1>1, PTL

\* After one ping, what is held was sized within one risk budget and within the leverage
\* (risk_manager.cpp:75-103).
THEOREM EntriesAreBudgeted ==
  Spec => []BudgetedEntry
<1>1. BacktestInv => BudgetedEntry
  BY DEF BacktestInv, Prompt, Afforded, SignalOf, BalanceBeforeFill, BudgetedEntry
<1>2. QED BY BacktestInvariant, <1>1, PTL
=============================================================================
