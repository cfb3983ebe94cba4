--------------------------- MODULE StrategyBrain ----------------------------
(***************************************************************************)
(* The IDLE / WAITING_CLOSE gate of the Python StrategyWrapper             *)
(* (core/strategy_wrapper.py), with sync_close_from_state = True as both   *)
(* the factory and LiveTurtleBot construct it.  The signal, the model and  *)
(* the sizer decide whether a bar that passes the gate gives an order;     *)
(* which of those bars do is left to the module that uses this one.        *)
(***************************************************************************)
EXTENDS Integers

Brain == [state : {"IDLE", "WAITING_CLOSE"}, saw : BOOLEAN]

FreshBrain == [state |-> "IDLE", saw |-> FALSE]

\* on_bar(), its WAITING_CLOSE gate, for the position the kline carries.
Observed(brain, position) ==
  IF brain.state = "WAITING_CLOSE" THEN [brain EXCEPT !.saw = brain.saw \/ position # 0]
                                   ELSE brain

RearmedAtOnce(brain, position) ==
  IF brain.state = "WAITING_CLOSE" /\ position = 0 THEN FreshBrain ELSE brain

AfterGate(brain, position) ==
  LET seen == Observed(brain, position)
  IN  IF seen.state = "WAITING_CLOSE" /\ seen.saw /\ position = 0 THEN FreshBrain
                                                                  ELSE seen

MayEnter(brain, position) == AfterGate(brain, position).state = "IDLE"

\* on_bar() when an order was assembled: the saw flag is whatever the gate left.
EnteredWithoutWaiting(brain, position) == AfterGate(brain, position)

Entered(brain, position) ==
  [AfterGate(brain, position) EXCEPT !.state = "WAITING_CLOSE"]

(***************************************************************************)
(* on_order_update(): only an entry that ended without a fill, and with no *)
(* follow-up order announced, re-arms the brain.                           *)
(***************************************************************************)
FollowUpReasons == {"timeout_reprice", "timeout_market"}

OnOrderUpdate(brain, update) ==
  IF /\ ~update.reduceOnly
     /\ brain.state = "WAITING_CLOSE"
     /\ update.status \in {"CANCELED", "EXPIRED", "REJECTED"}
     /\ update.filled = 0
     /\ update.reason \notin FollowUpReasons
  THEN FreshBrain ELSE brain
=============================================================================
