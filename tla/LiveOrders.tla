----------------------------- MODULE LiveOrders -----------------------------
(***************************************************************************)
(* The life of an order in the live engine.  Four threads share the        *)
(* OrderTracker and the position in RiskManager:                           *)
(*                                                                         *)
(*   rx      IpcServer::receive_loop: entry signals from the brain         *)
(*   main    main_live.cpp's loop: pumps order updates to the brain, and   *)
(*           on a closed kline checks the trailing stop and publishes      *)
(*   mon     BinanceLiveExecutor::monitor_loop: orders left unfilled       *)
(*   stream  the private WebSocket: fills and positions from the exchange  *)
(*                                                                         *)
(* REST calls block their thread only, so anything may happen between a    *)
(* call and the use of its answer.  The brain takes a message when it is   *)
(* published; how long messages travel is left to the pipe toEngine.       *)
(*                                                                         *)
(* Entries are on one side of the market (the code treats the sides alike) *)
(* and every entry is sized to Lots.  What the trailing stop's level is,   *)
(* and so when it is hit, is left open here: TrailingExit has that.        *)
(***************************************************************************)
EXTENDS OrderTracker, StrategyBrain, SequencesExt, FiniteSetsExt

CONSTANTS
  EntrySpecs,     \* execution specs that entries may carry
  ExitSpec,       \* execution spec of the trailing exit's close
  Lots,           \* calculate_target_size()'s answer
  MaxOrders,      \* bound: orders the exchange accepts
  MaxSignals,     \* bound: entry signals the brain gives
  MaxFailures,    \* bound: REST answers that are lost
  MaxLost         \* bound: user-stream messages that are lost

ASSUME SpecAssumption ==
  /\ EntrySpecs \subseteq ExecutionSpec /\ ExitSpec \in ExecutionSpec
  /\ Lots \in Nat \ {0}
ASSUME BoundAssumption ==
  MaxOrders \in Nat /\ MaxSignals \in Nat /\ MaxFailures \in Nat /\ MaxLost \in Nat

VARIABLES
  exch,       \* the exchange's orders, in order of acceptance
  stream,     \* user-stream messages under way
  orders,     \* OrderTracker
  position,   \* RiskManager's current_position_
  queue,      \* IpcServer's order_update_queue_
  fired,      \* trailing_fired_: the close of this position was sent
  pc, call,   \* where each thread is, and the order it is placing
  batch,      \* the monitor's copies of timed-out orders, by client order id
  toEngine,   \* signals under way
  brain,
  count       \* the bounded events so far

exchangeVars == <<exch, stream>>
trackerVars == <<orders, queue>>
threadVars == <<pc, call, batch>>
brainVars == <<toEngine, brain>>
vars == <<exchangeVars, trackerVars, threadVars, brainVars, position, fired, count>>

Threads == {"rx", "main", "mon"}

\* An order as place_order_internal() gets it; root names the first order of its chain.
Request(quantity, reduceOnly, exec, attempts, root) ==
  [quantity |-> quantity, reduceOnly |-> reduceOnly, exec |-> exec,
   attempts |-> attempts, root |-> root]

\* The market order of monitor_loop(): never chased.
MarketSpec == [policy |-> "CANCEL", timed |-> FALSE, max |-> 0]

NoRequest == Request(0, FALSE, MarketSpec, 0, 0)
NoCall == [req |-> NoRequest, cid |-> 0, status |-> "NEW"]

-----------------------------------------------------------------------------
(***************************************************************************)
(* The exchange (outside this repository), as the engine uses it.          *)
(***************************************************************************)
Live(c) == exch[c].status \in OpenStatus

Net == SumFunction([c \in DOMAIN exch |-> IF exch[c].reduceOnly THEN -exch[c].filled
                                                               ELSE exch[c].filled])

FillMessages(c, order, net) ==
  <<[kind |-> "account", position |-> net],
    [kind |-> "order", cid |-> c, status |-> order.status, filled |-> order.filled]>>

WithFill(order, lots) ==
  LET filled == order.filled + lots
  IN  [order EXCEPT !.filled = filled,
                    !.status = IF filled = order.quantity THEN "FILLED"
                               ELSE IF filled = 0 THEN "NEW" ELSE "PARTIALLY_FILLED"]

\* lots trade in the order: what becomes of it and which messages that sends.
Trades(c, order, lots) ==
  /\ lots <= order.quantity - order.filled
  /\ order.reduceOnly => lots <= Net
  /\ exch' = IF c \in DOMAIN exch THEN [exch EXCEPT ![c] = WithFill(order, lots)]
                                  ELSE Append(exch, WithFill(order, lots))
  /\ stream' = IF lots = 0 THEN stream
               ELSE stream \o FillMessages(c, WithFill(order, lots),
                                           IF order.reduceOnly THEN Net - lots ELSE Net + lots)

Trade(c, lots) ==
  /\ Live(c) /\ lots > 0
  /\ Trades(c, exch[c], lots)
  /\ UNCHANGED <<trackerVars, threadVars, brainVars, position, fired, count>>

Ended(c, status) ==
  /\ exch' = [exch EXCEPT ![c].status = status]
  /\ stream' = Append(stream, [kind |-> "order", cid |-> c, status |-> status,
                               filled |-> exch[c].filled])

\* Immediate-or-cancel, post-only and reduce-only orders may end unfilled.
Expire(c) ==
  /\ Live(c)
  /\ Ended(c, "EXPIRED")
  /\ UNCHANGED <<trackerVars, threadVars, brainVars, position, fired, count>>

-----------------------------------------------------------------------------
(***************************************************************************)
(* IpcServer::queue_order_update(), and on_order_update() with that        *)
(* callback.                                                               *)
(***************************************************************************)
Publish(c, status, filled, reason, reduceOnly) ==
  queue' = Append(queue, [cid |-> c, status |-> status, filled |-> filled,
                          reason |-> reason, reduceOnly |-> reduceOnly])

Update(known, c, status, filled) ==
  /\ orders' = Updated(known, c, status, filled)
  /\ IF Fires(known, c, status)
     THEN Publish(c, status, filled, "", known[c].reduceOnly)
     ELSE UNCHANGED queue

(***************************************************************************)
(* The private WebSocket.  A disconnect loses what it had not delivered:   *)
(* after the reconnect neither positions nor orders are asked for again.   *)
(***************************************************************************)
Deliver ==
  /\ stream # <<>>
  /\ stream' = Tail(stream)
  /\ LET m == Head(stream)
     IN  IF m.kind = "account"
         THEN position' = m.position /\ UNCHANGED trackerVars
         ELSE Update(orders, m.cid, m.status, m.filled) /\ UNCHANGED position
  /\ UNCHANGED <<exch, threadVars, brainVars, fired, count>>

Disconnect ==
  /\ stream # <<>>
  /\ count.lost < MaxLost
  /\ stream' = Tail(stream)
  /\ count' = [count EXCEPT !.lost = @ + 1]
  /\ UNCHANGED <<exch, trackerVars, threadVars, brainVars, position, fired>>

-----------------------------------------------------------------------------
(***************************************************************************)
(* place_order_internal() in thread t: the POST, and with its answer the   *)
(* registration.  The monitor and the main thread ignore what it returns.  *)
(***************************************************************************)
\* The monitor goes on with the orders left of its round.
Resume(left) == IF left = {} THEN "idle" ELSE "query"

AfterCall(t, placed) ==
  CASE t = "rx" -> IF placed THEN "arm" ELSE "idle"
    [] t = "main" -> "publish"
    [] t = "mon" -> Resume(DOMAIN batch)

Goto(t, label) == pc' = [pc EXCEPT ![t] = label]

NewOrder(req) ==
  [quantity |-> req.quantity, reduceOnly |-> req.reduceOnly, filled |-> 0, status |-> "NEW",
   exec |-> req.exec, root |-> IF req.root = 0 THEN Len(exch) + 1 ELSE req.root]

\* The order rests, or meets the market at once and fills in the answer.
Taken(t, lots) ==
  /\ Len(exch) < MaxOrders
  /\ Trades(Len(exch) + 1, NewOrder(call[t].req), lots)

Post(t) ==
  /\ pc[t] = "post"
  /\ \/ \E lots \in {0, call[t].req.quantity} :
          /\ Taken(t, lots)
          /\ call' = [call EXCEPT ![t].cid = Len(exch) + 1,
                                  ![t].status = IF lots = 0 THEN "NEW" ELSE "FILLED"]
          /\ Goto(t, "register")
     \/ Goto(t, AfterCall(t, FALSE)) /\ UNCHANGED <<exchangeVars, call>>
  /\ UNCHANGED <<trackerVars, brainVars, batch, position, fired, count>>

\* The order was taken, but no answer comes: the engine never hears its id.
PostUnanswered(t) ==
  /\ pc[t] = "post"
  /\ count.failures < MaxFailures
  /\ \E lots \in {0, call[t].req.quantity} : Taken(t, lots)
  /\ count' = [count EXCEPT !.failures = @ + 1]
  /\ Goto(t, AfterCall(t, FALSE))
  /\ UNCHANGED <<trackerVars, brainVars, call, batch, position, fired>>

Register(t) ==
  LET c == call[t]
      order == [quantity |-> c.req.quantity,
                filled |-> IF c.status = "FILLED" THEN c.req.quantity ELSE 0,
                status |-> c.status, reduceOnly |-> c.req.reduceOnly,
                attempts |-> c.req.attempts, exec |-> c.req.exec, reported |-> FALSE]
      known == Registered(orders, c.cid, order)
  IN  /\ pc[t] = "register"
      /\ IF c.status \in TerminalStatus
         THEN Update(known, c.cid, c.status, order.filled)
         ELSE orders' = known /\ UNCHANGED queue
      /\ call' = [call EXCEPT ![t] = NoCall]
      /\ Goto(t, AfterCall(t, TRUE))
      /\ UNCHANGED <<exchangeVars, brainVars, batch, position, fired, count>>

-----------------------------------------------------------------------------
(***************************************************************************)
(* rx: handle_json() for BUY and SELL.                                     *)
(***************************************************************************)
RxTake ==
  /\ pc["rx"] = "idle" /\ toEngine # <<>>
  /\ toEngine' = Tail(toEngine)
  /\ IF position # 0 THEN UNCHANGED <<pc, call>>
     ELSE /\ call' = [call EXCEPT !["rx"].req = Request(Lots, FALSE, Head(toEngine), 0, 0)]
          /\ Goto("rx", "flat")
  /\ UNCHANGED <<exchangeVars, trackerVars, batch, brain, position, fired, count>>

\* has_open_order(), then calculate_target_size(), which may refuse.
RxCheckOpen ==
  /\ pc["rx"] = "flat"
  /\ \/ Goto("rx", "idle")
     \/ ~HasOpenOrder(orders) /\ Goto("rx", "post")
  /\ UNCHANGED <<exchangeVars, trackerVars, call, batch, brainVars, position, fired, count>>

\* arm_trailing_exit().  Whether the stop is armed now or by a later bar shows in no test here.
RxArm ==
  /\ pc["rx"] = "arm"
  /\ fired' = FALSE
  /\ Goto("rx", "idle")
  /\ UNCHANGED <<exchangeVars, trackerVars, call, batch, brainVars, position, count>>

-----------------------------------------------------------------------------
(***************************************************************************)
(* main: the engine's loop, with the brain at the other end of its PUB     *)
(* socket.                                                                 *)
(***************************************************************************)
Pump ==
  /\ pc["main"] = "idle" /\ queue # <<>>
  /\ queue' = Tail(queue)
  /\ brain' = OnOrderUpdate(brain, Head(queue))
  /\ UNCHANGED <<exchangeVars, orders, threadVars, toEngine, position, fired, count>>

Closing == Request(position, TRUE, ExitSpec, 0, 0)

(***************************************************************************)
(* check_trailing_exit().  It reads the position before it takes its lock, *)
(* and arm_now_locked() reads it again; an account update between the two  *)
(* reads has the effect it would have had just before or just after.       *)
(***************************************************************************)
CheckStop ==
  /\ pc["main"] = "idle"
  /\ \/ /\ position = 0 /\ fired' = FALSE
        /\ Goto("main", "publish") /\ UNCHANGED call
     \/ /\ position # 0 /\ UNCHANGED fired
        /\ Goto("main", "publish") /\ UNCHANGED call
     \/ /\ position # 0 /\ ~fired                       \* the bar hits the stop
        /\ fired' = TRUE
        /\ call' = [call EXCEPT !["main"].req = Closing]
        /\ Goto("main", "post")
  /\ UNCHANGED <<exchangeVars, trackerVars, batch, brainVars, position, count>>

\* publish_kline() and the brain's on_bar(), which may give an entry.
PublishKline ==
  /\ pc["main"] = "publish"
  /\ \/ brain' = AfterGate(brain, position) /\ UNCHANGED <<toEngine, count>>
     \/ /\ MayEnter(brain, position)
        /\ count.signals < MaxSignals
        /\ brain' = Entered(brain, position)
        /\ \E exec \in EntrySpecs : toEngine' = Append(toEngine, exec)
        /\ count' = [count EXCEPT !.signals = @ + 1]
  /\ Goto("main", "idle")
  /\ UNCHANGED <<exchangeVars, trackerVars, call, batch, position, fired>>

-----------------------------------------------------------------------------
(***************************************************************************)
(* mon: monitor_loop().  It works on copies, so what it knows of an order  *)
(* is as old as the round.                                                 *)
(***************************************************************************)
MonUnchanged == UNCHANGED <<brainVars, position, fired>>

\* continue: the loop is through with order c.
Done(c) ==
  /\ batch' = [d \in DOMAIN batch \ {c} |-> batch[d]]
  /\ call' = [call EXCEPT !["mon"] = NoCall]
  /\ Goto("mon", Resume(DOMAIN batch \ {c}))

Collect ==
  /\ pc["mon"] = "idle"
  /\ batch' = [c \in TimedOut(orders) |-> orders[c]]
  /\ Goto("mon", Resume(DOMAIN batch'))
  /\ UNCHANGED <<exchangeVars, trackerVars, call, count>> /\ MonUnchanged

\* The copy in hand.
Ord == batch[call["mon"].cid]

\* The timeout's action: the policy names are compared as they came over the wire.
ChasedOnceMore(order) ==
  CASE order.exec.policy = "MARKET" -> "market"
    [] order.exec.policy = "REPRICE" /\ order.attempts <= order.exec.max -> "reprice"
    [] OTHER -> "cancel"

TimeoutAction(order) ==
  CASE order.exec.policy = "MARKET" -> "market"
    [] order.exec.policy = "REPRICE" /\ order.attempts < order.exec.max -> "reprice"
    [] OTHER -> "cancel"

\* query_order_status(): an order that is open, or of which nothing was learnt, is canceled next.
ToCancel(c) ==
  /\ call' = [call EXCEPT !["mon"].cid = c]
  /\ Goto("mon", "cancel")
  /\ UNCHANGED <<trackerVars, batch>>

QueryWithoutSync(c) ==
  /\ pc["mon"] = "query"
  /\ \/ Live(c) /\ ToCancel(c)
     \/ ~Live(c) /\ Done(c) /\ UNCHANGED trackerVars
  /\ UNCHANGED <<exchangeVars, count>> /\ MonUnchanged

Query(c) ==
  /\ pc["mon"] = "query"
  /\ \/ Live(c) /\ ToCancel(c) /\ UNCHANGED count
     \/ /\ count.failures < MaxFailures
        /\ count' = [count EXCEPT !.failures = @ + 1]
        /\ ToCancel(c)
     \/ /\ ~Live(c) /\ UNCHANGED count
        /\ Update(orders, c, exch[c].status, batch[c].filled)
        /\ Done(c)
  /\ UNCHANGED exchangeVars /\ MonUnchanged

\* cancel_order() is true only for an answer that says CANCELED.
AnsweredIsCanceled ==
  LET c == call["mon"].cid
  IN  /\ pc["mon"] = "cancel"
      /\ \/ Live(c) /\ Ended(c, "CANCELED")
         \/ UNCHANGED exchangeVars
      /\ Goto("mon", "mark")
      /\ UNCHANGED <<trackerVars, call, batch, count>> /\ MonUnchanged

Cancel ==
  LET c == call["mon"].cid
  IN  /\ pc["mon"] = "cancel"
      /\ \/ /\ Live(c) /\ Ended(c, "CANCELED")
            /\ Goto("mon", "mark") /\ UNCHANGED count
         \/ /\ ~Live(c) /\ UNCHANGED exchangeVars
            /\ Goto("mon", "sync") /\ UNCHANGED count
         \/ /\ count.failures < MaxFailures              \* no answer, done or not
            /\ count' = [count EXCEPT !.failures = @ + 1]
            /\ \/ UNCHANGED exchangeVars
               \/ Live(c) /\ Ended(c, "CANCELED")
            /\ Goto("mon", "sync")
      /\ UNCHANGED <<trackerVars, call, batch>> /\ MonUnchanged

\* The refused cancel: ask again, and count no fill.
Sync ==
  LET c == call["mon"].cid
  IN  /\ pc["mon"] = "sync"
      /\ \/ Update(orders, c, exch[c].status, 0) /\ UNCHANGED count
         \/ /\ count.failures < MaxFailures
            /\ count' = [count EXCEPT !.failures = @ + 1]
            /\ UNCHANGED trackerVars
      /\ Done(c)
      /\ UNCHANGED exchangeVars /\ MonUnchanged

Mark ==
  /\ pc["mon"] = "mark"
  /\ orders' = MarkedCanceled(orders, call["mon"].cid)
  /\ Goto("mon", "report")
  /\ UNCHANGED <<exchangeVars, queue, call, batch, count>> /\ MonUnchanged

ReasonFor == [market |-> "timeout_market", reprice |-> "timeout_reprice",
              cancel |-> "timeout_abandoned"]

\* The order that follows a canceled one; reprice_order() needs a price, which may not come.
FollowUp(c) ==
  LET left == Ord.quantity - Ord.filled
  IN  CASE TimeoutAction(Ord) = "reprice" ->
             Request(left, Ord.reduceOnly, Ord.exec, Ord.attempts + 1, exch[c].root)
        [] TimeoutAction(Ord) = "market" ->
             Request(left, Ord.reduceOnly, MarketSpec, 0, exch[c].root)
        [] OTHER -> NoRequest

Report ==
  LET c == call["mon"].cid
  IN  /\ pc["mon"] = "report"
      /\ Publish(c, "CANCELED", Ord.filled, ReasonFor[TimeoutAction(Ord)], Ord.reduceOnly)
      /\ \/ /\ FollowUp(c).quantity > 0
            /\ batch' = [d \in DOMAIN batch \ {c} |-> batch[d]]
            /\ call' = [call EXCEPT !["mon"] = [NoCall EXCEPT !.req = FollowUp(c)]]
            /\ Goto("mon", "post")
         \/ /\ FollowUp(c).quantity = 0 \/ TimeoutAction(Ord) = "reprice"
            /\ Done(c)
      /\ UNCHANGED <<exchangeVars, orders, count>> /\ MonUnchanged

-----------------------------------------------------------------------------
Init ==
  /\ exch = <<>> /\ stream = <<>> /\ orders = [c \in {} |-> 0] /\ position = 0
  /\ queue = <<>>
  /\ fired = FALSE
  /\ pc = [t \in Threads |-> "idle"] /\ call = [t \in Threads |-> NoCall]
  /\ batch = [c \in {} |-> 0]
  /\ toEngine = <<>> /\ brain = FreshBrain
  /\ count = [signals |-> 0, failures |-> 0, lost |-> 0]

Calls(t) == Post(t) \/ PostUnanswered(t) \/ Register(t)

Rx == RxTake \/ RxCheckOpen \/ RxArm \/ Calls("rx")
Main == Pump \/ CheckStop \/ PublishKline \/ Calls("main")
Monitor ==
  \/ Collect
  \/ \E c \in DOMAIN batch : Query(c)
  \/ Cancel \/ Sync \/ Mark \/ Report
  \/ Calls("mon")
Exchange == \E c \in DOMAIN exch : Expire(c) \/ \E lots \in 1..Lots : Trade(c, lots)
Stream == Deliver \/ Disconnect

Next == Rx \/ Main \/ Monitor \/ Exchange \/ Stream

Spec == Init /\ [][Next]_vars

\* Only the monitor is needed for an order with a timeout to be found out.
FairSpec == Spec /\ WF_vars(Monitor)

\* Every thread of the engine runs and the stream is read; the exchange owes nothing.
EngineFairSpec ==
  FairSpec /\ WF_vars(Deliver) /\ WF_vars(Rx) /\ WF_vars(Main)

-----------------------------------------------------------------------------
Messages == [kind : {"account"}, position : 0..(Lots * MaxOrders)]
            \cup [kind : {"order"}, cid : 1..MaxOrders, filled : 0..(Lots * MaxOrders),
                  status : OpenStatus \cup TerminalStatus]

\* Type invariant; every tracked order is one the exchange knows, of the same size.
TypeOK ==
  /\ DOMAIN orders \subseteq DOMAIN exch
  /\ \A c \in DOMAIN orders : orders[c] \in Tracked /\ orders[c].quantity = exch[c].quantity
  /\ \A i \in DOMAIN stream : stream[i] \in Messages
  /\ DOMAIN batch \subseteq DOMAIN orders
  /\ position \in 0..(Lots * MaxOrders) /\ fired \in BOOLEAN
  /\ pc \in [Threads -> {"idle", "flat", "post", "register", "arm", "publish",
                         "query", "cancel", "sync", "mark", "report"}]
  /\ brain \in Brain

(***************************************************************************)
(* A chase never has two orders working at once: the follow-up goes out    *)
(* only when the exchange has confirmed the cancel of the order before it, *)
(* whichever answers were lost and whatever filled meanwhile               *)
(* (binance_live_executor.cpp:346-348, 506-509).                           *)
(***************************************************************************)
OneLiveOrderPerChain ==
  \A c, d \in DOMAIN exch : c # d /\ exch[c].root = exch[d].root => ~(Live(c) /\ Live(d))

\* A chase ends: max_reprice_attempts further orders, or the one market order.
Chain(root) == {c \in DOMAIN exch : exch[c].root = root}
ChaseBounded ==
  \A c \in DOMAIN exch :
    Cardinality(Chain(c)) <= 1 + (CASE exch[c].exec.policy = "REPRICE" -> exch[c].exec.max
                                    [] exch[c].exec.policy = "MARKET" -> 1
                                    [] OTHER -> 0)

(***************************************************************************)
(* What the brain is told of an order's end is how it ended, whether it    *)
(* comes from the stream, from a status query that found the order ended,  *)
(* or from the monitor's own cancel.                                       *)
(***************************************************************************)
ReportedEndIsTrue ==
  \A i \in DOMAIN queue : queue[i].status = exch[queue[i].cid].status

(***************************************************************************)
(* An order with a timeout that has ended on the exchange is not taken for *)
(* an open one for good, even if the stream lost its end or told it before *)
(* the order was registered: the monitor finds out                         *)
(* (binance_live_executor.cpp:461-466).                                    *)
(***************************************************************************)
TakenForOpen(c) == c \in DOMAIN orders /\ IsOpen(orders[c]) /\ ~Live(c)
TimedOrdersSettle ==
  \A c \in 1..MaxOrders : (TakenForOpen(c) /\ orders[c].exec.timed) ~> ~TakenForOpen(c)

(***************************************************************************)
(* The same for every order: no timeout is "correct for MARKET, which      *)
(* fills immediately" (core/execution_spec.py:50).  With every thread      *)
(* running and nothing lost, the end that is told before the registration  *)
(* (order_tracker.cpp:28-29) is what breaks it.                            *)
(***************************************************************************)
EndedOrdersSettle ==
  \A c \in 1..MaxOrders : TakenForOpen(c) ~> ~TakenForOpen(c)

(***************************************************************************)
(* A chase does not buy what was already bought: "a fill may have raced    *)
(* in ... do NOT follow up (would double-fill)"                            *)
(* (binance_live_executor.cpp:507-509).                                    *)
(***************************************************************************)
NoDoubleFill ==
  LET Filled(c) == exch[c].filled
  IN  \A c \in DOMAIN exch : MapThenSumSet(Filled, Chain(c)) <= exch[exch[c].root].quantity

(***************************************************************************)
(* No second entry beside one that is still being worked: handle_json()    *)
(* means to "ignore duplicate open" (ipc_server.cpp:230-232), and the      *)
(* monitor to publish "exactly one CANCELED update with the correct        *)
(* reason" so that the brain does not take a chase for its end             *)
(* (order_tracker.cpp:89-92).                                              *)
(***************************************************************************)
Working == {c \in DOMAIN exch : Live(c) /\ ~exch[c].reduceOnly}
OneEntryAtATime ==
  \A c, d \in Working : exch[c].root = exch[d].root
=============================================================================
