---------------------------- MODULE OrderTracker ----------------------------
(***************************************************************************)
(* The C++ class OrderTracker (live_engine/src/live/order_tracker.cpp):    *)
(* the engine's picture of its own orders, a map from client order ids to  *)
(* TrackedOrder.  The private WebSocket, the order monitor and every       *)
(* thread that places an order call it; each method is atomic under the    *)
(* tracker's mutex, so a method is an operator here.                       *)
(*                                                                         *)
(* A client order id is the number of the order in the exchange's order of *)
(* acceptance.  Quantities are lots.                                       *)
(***************************************************************************)
EXTENDS Integers

OpenStatus == {"NEW", "PARTIALLY_FILLED"}
TerminalStatus == {"FILLED", "CANCELED", "EXPIRED", "REJECTED"}

\* The engine's spelling of unfilled_policy and Python's; any other is one more "CANCEL".
Policies == {"CANCEL", "REPRICE", "MARKET", "cancel", "reprice", "market"}

\* What the monitor reads of an ExecutionSpec; timed: timeout_ms > 0.
ExecutionSpec == [policy : Policies, timed : BOOLEAN, max : Nat]

Tracked == [quantity : Nat, filled : Nat, status : OpenStatus \cup TerminalStatus,
            reduceOnly : BOOLEAN, attempts : Nat, exec : ExecutionSpec,
            reported : BOOLEAN]

\* register_order(): the last registration of an id wins.
Registered(orders, cid, order) ==
  [c \in DOMAIN orders \cup {cid} |-> IF c = cid THEN order ELSE orders[c]]

Blank(status, filled) ==
  [quantity |-> 0, filled |-> filled, status |-> status, reduceOnly |-> FALSE,
   attempts |-> 0, exec |-> [policy |-> "CANCEL", timed |-> FALSE, max |-> 2],
   reported |-> FALSE]

UpdatedOrInserted(orders, cid, status, filled) ==
  IF cid \in DOMAIN orders
  THEN [orders EXCEPT ![cid].status = status, ![cid].filled = filled]
  ELSE Registered(orders, cid, Blank(status, filled))

(***************************************************************************)
(* on_order_update(): an unknown id is dropped; a known one takes status   *)
(* and filled quantity from the message even after its end, and the first  *)
(* terminal status is the one that is published.                           *)
(***************************************************************************)
Updated(orders, cid, status, filled) ==
  IF cid \notin DOMAIN orders THEN orders
  ELSE [orders EXCEPT ![cid].status = status,
                      ![cid].filled = filled,
                      ![cid].reported = @ \/ status \in TerminalStatus]

Fires(orders, cid, status) ==
  /\ cid \in DOMAIN orders
  /\ status \in TerminalStatus
  /\ ~orders[cid].reported

\* mark_cancel_requested(): the order's end, published by the caller.
MarkedCanceled(orders, cid) ==
  IF cid \notin DOMAIN orders THEN orders
  ELSE [orders EXCEPT ![cid].status = "CANCELED", ![cid].reported = TRUE]

IsOpen(order) == order.status \in OpenStatus /\ ~order.reported

\* has_open_order().
HasOpenOrder(orders) == \E c \in DOMAIN orders : IsOpen(orders[c])

\* get_timed_out_orders(): any order with a timeout may have reached its age.
TimedOut(orders) == {c \in DOMAIN orders : IsOpen(orders[c]) /\ orders[c].exec.timed}
=============================================================================
