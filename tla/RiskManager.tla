---------------------------- MODULE RiskManager -----------------------------
(***************************************************************************)
(* The C++ class RiskManager (live_engine/src/core/risk_manager.cpp): the  *)
(* account state that the market, receive and user-stream threads share.   *)
(* Each public method takes the mutex for its own duration only, so one    *)
(* method is one operator here; a caller that needs two of them is not     *)
(* atomic, and the modules that model threads keep such calls apart.       *)
(*                                                                         *)
(* Quantities are lots of kMinTradeQty, prices are ticks and 0 is "none".  *)
(* The balance counts Cents to a tick-lot, so that a fee can be a fraction *)
(* of a tick-lot.                                                          *)
(***************************************************************************)
EXTENDS Integers

CONSTANTS
  RiskShare,    \* 1 / risk_pct: the balance is this many risk budgets
  Leverage,     \* max_leverage
  Cents         \* balance units in one tick times one lot

ASSUME RiskAssumption ==
  RiskShare \in Nat \ {0} /\ Leverage \in Nat \ {0} /\ Cents \in Nat \ {0}

Account == [balance : Int, position : Int, stop : Nat, entry : Nat]

Distance(a, b) == IF a < b THEN b - a ELSE a - b

OpenAccount(balance) ==
  [balance |-> balance, position |-> 0, stop |-> 0, entry |-> 0]

\* update_position(): a position below one lot is no position and takes its stop along.
UpdatePosition(rm, size) ==
  IF size = 0 THEN [rm EXCEPT !.position = 0, !.stop = 0, !.entry = 0]
              ELSE [rm EXCEPT !.position = size]

(***************************************************************************)
(* calculate_target_size(): lots that lose one risk budget between price   *)
(* and stop, capped by leverage and floored; 0 refuses the order.          *)
(***************************************************************************)
StopOnLosingSide(action, price, stop) ==
  \/ action = "BUY" /\ stop < price
  \/ action = "SELL" /\ stop > price

BySize(rm, price, stop) == rm.balance \div (Cents * RiskShare * Distance(price, stop))
ByLeverage(rm, price) == (rm.balance * Leverage) \div (Cents * price)

UncappedSize(rm, action, price, stop) ==
  IF price <= 0 \/ stop <= 0 \/ price = stop THEN 0
  ELSE IF ~StopOnLosingSide(action, price, stop) THEN 0
  ELSE BySize(rm, price, stop)

TargetSize(rm, action, price, stop) ==
  IF price <= 0 \/ stop <= 0 \/ price = stop THEN 0
  ELSE IF ~StopOnLosingSide(action, price, stop) THEN 0
  ELSE IF ByLeverage(rm, price) < BySize(rm, price, stop)
       THEN ByLeverage(rm, price) ELSE BySize(rm, price, stop)
=============================================================================
