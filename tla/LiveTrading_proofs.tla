------------------------- MODULE LiveTrading_proofs -------------------------
(***************************************************************************)
(* What reaches the engine from any bot, whatever file or flags it was     *)
(* started with, and however often, over any number of bars and faults;    *)
(* and what a bot's indicators are fed: the market's history, with the     *)
(* windows full after a warm-up, for every page size.                      *)
(***************************************************************************)
EXTENDS LiveTrading, SequenceTheorems, TLAPS

-----------------------------------------------------------------------------
(* Sequences of anything.                                                  *)

IsSeq(s) == s \in Seq(Range(s))

LEMMA SeqOfItsRange ==
  ASSUME NEW S, NEW s \in Seq(S)
  PROVE  IsSeq(s)
<1>1. Len(s) \in Nat /\ s \in [1..Len(s) -> S] /\ DOMAIN s = 1..Len(s)
  BY LenProperties
<1>2. s \in [1..Len(s) -> Range(s)]
  BY <1>1 DEF Range
<1>3. QED BY <1>1, <1>2, SeqDef DEF IsSeq

LEMMA AppendRange ==
  ASSUME NEW s, IsSeq(s), NEW e
  PROVE  IsSeq(Append(s, e)) /\ Range(Append(s, e)) = Range(s) \cup {e}
<1> DEFINE S == Range(s) \cup {e}
           t == Append(s, e)
<1>1. s \in Seq(S)
  BY SeqMonotonic DEF IsSeq
<1>2. t \in Seq(S) /\ Len(t) = Len(s) + 1 /\ Len(s) \in Nat
  BY <1>1
<1>3. (\A i \in 1..Len(s) : t[i] = s[i]) /\ t[Len(s) + 1] = e
  BY <1>1
<1>4. DOMAIN t = 1..Len(s) + 1 /\ DOMAIN s = 1..Len(s)
  BY <1>1, <1>2, LenProperties
<1> HIDE DEF t
<1>5. Range(t) = Range(s) \cup {e}
  BY <1>2, <1>3, <1>4 DEF Range
<1>6. QED BY <1>2, <1>5, SeqOfItsRange DEF t

LEMMA TailRange ==
  ASSUME NEW s, IsSeq(s), s # <<>>
  PROVE  IsSeq(Tail(s)) /\ Range(Tail(s)) \subseteq Range(s)
<1>1. Tail(s) \in Seq(Range(s))
  BY HeadTailProperties DEF IsSeq
<1>2. DOMAIN Tail(s) = 1..Len(Tail(s))
  BY <1>1, LenProperties
<1>3. \A i \in 1..Len(Tail(s)) : Tail(s)[i] \in Range(s)
  BY <1>1, ElementOfSeq
<1>4. QED BY <1>1, <1>2, <1>3, SeqOfItsRange DEF Range

-----------------------------------------------------------------------------
\* An order is what the settings of the bot that was started make of a bar.
FromSettings(o) ==
  /\ o.side \in {1, -1}
  /\ o.indicator # IF o.side > 0 THEN "donchian_high" ELSE "donchian_low"
  /\ o.period = settings.indicators.exit_period

WireInv == IsSeq(toEngine) /\ \A o \in Range(toEngine) : FromSettings(o)

\* The channel is turned to the losing side for either side.
LEMMA PayloadFromSettings ==
  ASSUME NEW side \in {1, -1}, NEW bar
  PROVE  FromSettings(OrderPayload(side, bar))
BY DEF FromSettings, OrderPayload, TrailingFor

\* No step changes what the bot is started with; an order is sent by the bot only, and
\* taken off the wire by the engine only.
WireStep ==
  \/ toEngine' = toEngine
  \/ toEngine # <<>> /\ toEngine' = Tail(toEngine)
  \/ \E side \in {1, -1} : HearSignal(side)

LEMMA BotOnWire ==
  ASSUME Bot
  PROVE  start' = start /\ WireStep
<1> USE DEF WireStep, botVars
<1>1. CASE StartBot
  BY <1>1 DEF StartBot
<1>2. CASE FetchPage
  BY <1>2 DEF FetchPage
<1>3. CASE WarmUp \/ WarmUpFails
  BY <1>3 DEF WarmUp, WarmUpFails
<1>4. CASE HearBar \/ HearOrderUpdate
  BY <1>4 DEF HearBar, HearOrderUpdate
<1>5. ASSUME NEW side \in {1, -1}, HearSignal(side) PROVE start' = start /\ WireStep
  BY <1>5 DEF HearSignal
<1>6. ASSUME NEW side \in {1, -1}, HearSignalRaises(side) PROVE start' = start /\ WireStep
  BY <1>6 DEF HearSignalRaises
<1>7. CASE BotDies
  BY <1>7 DEF BotDies
<1>8. QED BY <1>1, <1>2, <1>3, <1>4, <1>5, <1>6, <1>7 DEF Bot

LEMMA EngineOnWire ==
  ASSUME Rx \/ Main \/ RestartEngine
  PROVE  start' = start /\ WireStep
<1> USE DEF WireStep, botVars
<1>1. CASE RxRefuse
  BY <1>1 DEF RxRefuse
<1>2. CASE RxAccept \/ RxUnanswered
  BY <1>2 DEF RxAccept, RxUnanswered, engineVars
<1>3. CASE RxSetStop \/ RxArm
  BY <1>3 DEF RxSetStop, RxArm
<1>4. CASE CheckFlat
  BY <1>4 DEF CheckFlat, Unchecked, UncheckedBut
<1>5. CASE CheckHeld \/ CheckHit
  BY <1>5 DEF CheckHeld, CheckHit, UncheckedBut
<1>6. CASE CloseSent \/ CloseUnanswered \/ CloseRefused
  BY <1>6 DEF CloseSent, CloseUnanswered, CloseRefused, engineVars
<1>7. CASE Publish \/ MissBar
  BY <1>7 DEF Publish, MissBar
<1>8. CASE RestartEngine
  BY <1>8 DEF RestartEngine
<1>9. QED BY <1>1, <1>2, <1>3, <1>4, <1>5, <1>6, <1>7, <1>8 DEF Rx, Main

LEMMA OthersOnWire ==
  ASSUME Exchange \/ Stream \/ UNCHANGED vars
  PROVE  start' = start /\ WireStep
<1> USE DEF WireStep, botVars
<1>1. CASE MarketCloses \/ Liquidate
  BY <1>1 DEF MarketCloses, Liquidate
<1>2. ASSUME NEW o \in exch.working, Fill(o) \/ Expire(o) PROVE start' = start /\ WireStep
  BY <1>2 DEF Fill, Expire
<1>3. CASE Subscribe \/ Deliver \/ Disconnect
  BY <1>3 DEF Subscribe, Deliver, Disconnect
<1>4. CASE UNCHANGED vars
  BY <1>4 DEF vars
<1>5. QED BY <1>1, <1>2, <1>3, <1>4 DEF Exchange, Stream

LEMMA WireNext ==
  ASSUME WireInv, [Next]_vars
  PROVE  start' = start /\ WireInv'
<1>1. start' = start /\ WireStep
  BY BotOnWire, EngineOnWire, OthersOnWire DEF Next
<1>2. \A o : FromSettings(o) <=> FromSettings(o)'
  BY <1>1 DEF FromSettings, settings
<1>3. CASE toEngine' = toEngine
  BY <1>1, <1>2, <1>3 DEF WireInv
<1>4. CASE toEngine # <<>> /\ toEngine' = Tail(toEngine)
  BY <1>1, <1>2, <1>4, TailRange DEF WireInv
<1>5. ASSUME NEW side \in {1, -1}, HearSignal(side) PROVE WireInv'
  <2> DEFINE order == OrderPayload(side, Head(inbox).bar)
  <2>1. toEngine' = Append(toEngine, order)
    BY <1>5 DEF HearSignal
  <2>3. FromSettings(order)
    BY PayloadFromSettings
  <2> HIDE DEF order
  <2>4. IsSeq(toEngine') /\ Range(toEngine') = Range(toEngine) \cup {order}
    BY <2>1, AppendRange DEF WireInv
  <2>5. QED BY <1>2, <2>3, <2>4 DEF WireInv
<1>6. QED BY <1>1, <1>3, <1>4, <1>5 DEF WireStep

-----------------------------------------------------------------------------
\* The two readers of a file agree on the lookback it names.
LEMMA ReadersAgree ==
  ASSUME start.source = "file", NamesTrail(start.file)
  PROVE  settings.indicators.exit_period = Banner(start.file).trail
<1>1. settings = build_strategy_from_config(start.file)
  BY DEF settings, Settings
<1>2. settings.indicators.exit_period = TrailPeriod(start.file)
  BY <1>1 DEF build_strategy_from_config, IndicatorParams
<1>3. TrailPeriod(start.file) = Banner(start.file).trail
  BY DEF NamesTrail, TrailPeriod, Banner, BannerTrail, Or
<1>4. QED BY <1>2, <1>3

(***************************************************************************)
(* For any set of strategy files and flags, every order on the wire trails *)
(* the channel of its losing side, over the lookback that the start-up     *)
(* banner printed where the file names one (zmq_gateway.py:32-60,          *)
(* strategy_factory.py:195-200, live_trend_bot.py:220-225).                *)
(***************************************************************************)
THEOREM OrdersAsConfigured == Spec => []OrderOnTheWire
<1>1. Init => WireInv
  <2>1. SUFFICES ASSUME Init PROVE WireInv
    OBVIOUS
  <2>2. toEngine = <<>>
    BY <2>1 DEF Init
  <2>3. IsSeq(<<>>) /\ Range(<<>>) = {}
    <3>1. <<>> \in Seq({}) /\ DOMAIN <<>> = {}
      OBVIOUS
    <3>2. QED BY <3>1, SeqOfItsRange DEF Range
  <2>4. QED BY <2>2, <2>3 DEF WireInv
<1>2. WireInv /\ [Next]_vars => WireInv'
  BY WireNext
<1>3. WireInv => OrderOnTheWire
  <2>1. SUFFICES ASSUME WireInv, NEW o \in Range(toEngine)
                 PROVE  /\ o.indicator # IF o.side > 0 THEN "donchian_high" ELSE "donchian_low"
                        /\ start.source = "file" /\ NamesTrail(start.file) =>
                             o.period = Banner(start.file).trail
    BY DEF OrderOnTheWire
  <2>2. FromSettings(o)
    BY <2>1 DEF WireInv
  <2>3. QED BY <2>2, ReadersAgree DEF FromSettings
<1>4. QED BY <1>1, <1>2, <1>3, PTL DEF Spec

-----------------------------------------------------------------------------
(* Sequences.                                                              *)

\* What Append, Tail and the bars kept of a sequence are, element by element.
LEMMA AppendElements ==
  ASSUME NEW s, IsSeq(s), NEW e
  PROVE  /\ IsSeq(Append(s, e)) /\ Len(s) \in Nat /\ DOMAIN s = 1..Len(s)
         /\ Len(Append(s, e)) = Len(s) + 1 /\ DOMAIN Append(s, e) = 1..Len(s) + 1
         /\ \A i \in 1..Len(s) : Append(s, e)[i] = s[i]
         /\ Append(s, e)[Len(s) + 1] = e
<1> DEFINE S == Range(s) \cup {e}
<1>1. s \in Seq(S)
  BY SeqMonotonic DEF IsSeq
<1>2. Append(s, e) \in Seq(S)
  BY <1>1
<1>3. QED BY <1>1, <1>2, AppendRange, LenProperties

LEMMA TailElements ==
  ASSUME NEW s, IsSeq(s), s # <<>>
  PROVE  /\ IsSeq(Tail(s)) /\ Len(s) \in Nat \ {0} /\ DOMAIN s = 1..Len(s)
         /\ Len(Tail(s)) = Len(s) - 1 /\ DOMAIN Tail(s) = 1..Len(s) - 1
         /\ \A i \in 1..Len(s) - 1 : Tail(s)[i] = s[i + 1]
         /\ Head(s) = s[1]
<1>1. s \in Seq(Range(s))
  BY DEF IsSeq
<1>2. /\ Tail(s) \in Seq(Range(s)) /\ Len(Tail(s)) = Len(s) - 1
      /\ \A i \in 1..Len(Tail(s)) : Tail(s)[i] = s[i + 1]
  BY <1>1, HeadTailProperties
<1>3. Len(s) \in Nat \ {0} /\ DOMAIN s = 1..Len(s) /\ DOMAIN Tail(s) = 1..Len(Tail(s))
  BY <1>1, <1>2, EmptySeq, LenProperties
<1>4. QED BY <1>1, <1>2, <1>3, TailRange

\* The last n of a sequence of bars.
LEMMA NewestElements ==
  ASSUME NEW s \in Seq(Nat), NEW n \in Nat, n < Len(s)
  PROVE  LET r == SubSeq(s, Len(s) - n + 1, Len(s))
         IN  /\ r \in Seq(Nat) /\ Len(r) = n
             /\ \A i \in 1..n : r[i] = s[i + (Len(s) - n)]
<1> DEFINE m == Len(s) - n + 1
           r == SubSeq(s, m, Len(s))
<1>1. Len(s) \in Nat /\ m \in 1..Len(s) + 1 /\ \A i \in m..Len(s) : s[i] \in Nat
  BY LenProperties, ElementOfSeq
<1>2. /\ r \in Seq(Nat) /\ Len(r) = IF m <= Len(s) THEN Len(s) - m + 1 ELSE 0
      /\ \A i \in 1..Len(s) - m + 1 : r[i] = s[m + i - 1]
  BY <1>1, SubSeqProperties
<1>3. QED BY <1>1, <1>2

-----------------------------------------------------------------------------
(* The settings' periods.                                                  *)

LEMMA LongestOfThree ==
  ASSUME NEW a \in Nat, NEW b \in Nat, NEW c \in Nat
  PROVE  LET l == Longest({a, b, c})
         IN  l \in Nat /\ l \in {a, b, c} /\ a <= l /\ b <= l /\ c <= l
<1>1. \E n \in {a, b, c} : \A m \in {a, b, c} : m <= n
  <2>1. CASE b <= a /\ c <= a
    BY <2>1
  <2>2. CASE a <= b /\ c <= b
    BY <2>2
  <2>3. CASE a <= c /\ b <= c
    BY <2>3
  <2>4. QED BY <2>1, <2>2, <2>3
<1>2. /\ Longest({a, b, c}) \in {a, b, c}
      /\ \A m \in {a, b, c} : m <= Longest({a, b, c})
  BY <1>1 DEF Longest
<1>3. QED BY <1>2

LEMMA LongestOfFour ==
  ASSUME NEW a \in Nat, NEW b \in Nat, NEW c \in Nat, NEW d \in Nat
  PROVE  LET l == Longest({a, b, c, d})
         IN  l \in Nat /\ a <= l /\ b <= l /\ c <= l /\ d <= l
<1> DEFINE top == Longest({a, b, c})
<1>1. top \in Nat /\ top \in {a, b, c} /\ a <= top /\ b <= top /\ c <= top
  BY LongestOfThree
<1> HIDE DEF top
<1>2. \E n \in {a, b, c, d} : \A m \in {a, b, c, d} : m <= n
  <2>1. CASE d <= top
    BY <1>1, <2>1
  <2>2. CASE top <= d
    BY <1>1, <2>2
  <2>3. QED BY <1>1, <2>1, <2>2
<1>3. /\ Longest({a, b, c, d}) \in {a, b, c, d}
      /\ \A m \in {a, b, c, d} : m <= Longest({a, b, c, d})
  BY <1>2 DEF Longest
<1>4. QED BY <1>3

\* The windows a warm-up is for, and how many bars the indicators remember.
Windows == Longest({settings.indicators.entry_period, settings.indicators.exit_period,
                    settings.indicators.ma_period})
Memory == Longest({settings.indicators.entry_period, settings.indicators.exit_period,
                   settings.indicators.atr_period, settings.indicators.ma_period})

LEMMA WindowsAndMemory ==
  ASSUME start \in Started
  PROVE  /\ Windows \in Nat /\ Memory \in Nat /\ Windows <= Memory
         /\ settings.indicators.entry_period \in Nat
         /\ settings.indicators.exit_period \in Nat /\ settings.indicators.ma_period \in Nat
         /\ settings.indicators.entry_period <= Windows
         /\ settings.indicators.exit_period <= Windows
         /\ settings.indicators.ma_period <= Windows
         /\ fetch_limit = Windows + 6
<1>1. settings.indicators \in IndicatorSettings
  BY StartedAssumption DEF settings
<1> DEFINE e == settings.indicators.entry_period
           x == settings.indicators.exit_period
           a == settings.indicators.atr_period
           m == settings.indicators.ma_period
<1>2. e \in Nat /\ x \in Nat /\ a \in Nat /\ m \in Nat
  BY <1>1 DEF IndicatorSettings
<1>3. settings.warmup_period = Windows
  <2>1. CASE start.source = "flags"
    BY <2>1 DEF settings, Settings, LiveTurtleBot, Windows
  <2>2. CASE start.source # "flags"
    BY <2>2 DEF settings, Settings, build_strategy_from_config, WarmupPeriod, Windows
  <2>3. QED BY <2>1, <2>2
<1> HIDE DEF e, x, a, m
<1>4. /\ Windows \in Nat /\ Windows \in {e, x, m}
      /\ e <= Windows /\ x <= Windows /\ m <= Windows
  BY <1>2, LongestOfThree DEF Windows, e, x, m
<1>5. Memory \in Nat /\ e <= Memory /\ x <= Memory /\ m <= Memory
  BY <1>2, LongestOfFour DEF Memory, e, x, a, m
<1>6. fetch_limit = Windows + 6
  BY <1>3, <1>4 DEF fetch_limit
<1>7. QED BY <1>2, <1>4, <1>5, <1>6 DEF e, x, m

\* The newest bars are kept, as many as the longest indicator needs.
LEMMA RememberedBars ==
  ASSUME start \in Started, NEW a \in Seq(Nat)
  PROVE  LET r == Remembered(a)
         IN  /\ r \in Seq(Nat) /\ Len(r) \in Nat /\ Len(a) \in Nat
             /\ Len(r) = IF Len(a) > Memory THEN Memory ELSE Len(a)
             /\ \A i \in 1..Len(r) : r[i] = a[i + (Len(a) - Len(r))]
<1>1. Memory \in Nat /\ Len(a) \in Nat
  BY WindowsAndMemory
<1>2. Remembered(a) = IF Len(a) > Memory THEN SubSeq(a, Len(a) - Memory + 1, Len(a)) ELSE a
  BY DEF Remembered, Memory
<1>3. CASE Len(a) > Memory
  BY <1>1, <1>2, <1>3, NewestElements
<1>4. CASE ~(Len(a) > Memory)
  BY <1>1, <1>2, <1>4
<1>5. QED BY <1>3, <1>4

-----------------------------------------------------------------------------
(* The invariant.                                                          *)

\* The record of the bot, and the bars it holds; rows end with the bar that was still
\* forming at the first page, and reach back without a gap.
BotShape ==
  /\ bot = [phase |-> bot.phase, subscribed |-> bot.subscribed, rows |-> bot.rows,
            absorbed |-> bot.absorbed, brain |-> bot.brain, cold |-> bot.cold,
            firstPage |-> bot.firstPage, joined |-> bot.joined]
  /\ bot.phase \in {"down", "warmup", "listening"} /\ bot.subscribed \in BOOLEAN
  /\ bot.cold \in BOOLEAN
  /\ bot.rows \in Seq(Nat) /\ bot.absorbed \in Seq(Nat)
  /\ bot.firstPage \in Nat /\ bot.joined \in Nat

CountShape ==
  /\ count = [starts |-> count.starts, placed |-> count.placed, faults |-> count.faults]
  /\ count.faults \in [Faults -> Nat]

Kline(i) == inbox[i].kind = "kline"
Bars == IsSeq(inbox) /\ \A i \in DOMAIN inbox : Kline(i) => inbox[i].bar \in Nat

Shape ==
  /\ start \in Started /\ closed \in Nat \ {0} /\ published \in Nat
  /\ Bars /\ BotShape /\ CountShape

Pages ==
  /\ bot.rows # <<>> => bot.firstPage > 0 /\ Len(bot.rows) <= bot.firstPage + 1
  /\ \A i \in 1..Len(bot.rows) : bot.rows[i] = bot.firstPage + 1 - Len(bot.rows) + i
  /\ bot.phase # "listening" => bot.absorbed = <<>> /\ bot.cold

\* A bot that was warmed up holds as many bars as there were, or as its windows need.
Warm ==
  bot.phase = "listening" /\ ~bot.cold =>
    Len(bot.absorbed) >= bot.firstPage \/ Len(bot.absorbed) >= Windows

Clean == Without({"engine", "missed"})

Follows(bar, next) ==
  \/ next = bar + 1
  \/ ~bot.cold /\ bar = bot.firstPage /\ next = bot.joined + 1

Chain == \A i \in 1..Len(bot.absorbed) - 1 : Follows(bot.absorbed[i], bot.absorbed[i + 1])

\* Before the subscription reaches the engine there is nothing but the warm-up.
NotJoined ==
  bot.phase # "down" /\ ~bot.subscribed =>
    /\ inbox = <<>>
    /\ bot.absorbed # <<>> => ~bot.cold /\ bot.absorbed[Len(bot.absorbed)] = bot.firstPage
    /\ \A i \in 1..Len(bot.absorbed) - 1 : bot.absorbed[i + 1] = bot.absorbed[i] + 1

\* The bars on their way are those from e on, in order; and e is the bar to come.
UnderWay(e) ==
  /\ \A i \in DOMAIN inbox : Kline(i) => inbox[i].bar \in e..published
  /\ \A i, j \in DOMAIN inbox : i < j /\ Kline(i) /\ Kline(j) => inbox[i].bar < inbox[j].bar
  /\ \A b \in e..published : \E i \in DOMAIN inbox : Kline(i) /\ inbox[i].bar = b

Awaited(e) ==
  /\ bot.phase = "warmup" => e = bot.joined + 1
  /\ bot.absorbed # <<>> =>
       LET last == bot.absorbed[Len(bot.absorbed)]
       IN  e = last + 1 \/ (~bot.cold /\ last = bot.firstPage /\ e = bot.joined + 1)

Joined ==
  bot.phase # "down" /\ bot.subscribed =>
    \E e \in Nat : e <= published + 1 /\ UnderWay(e) /\ Awaited(e)

Fed1 == Chain /\ NotJoined /\ Joined

HistoryInv == Shape /\ Pages /\ Warm /\ (Clean => Fed1)

-----------------------------------------------------------------------------
(* Faults are counted up.                                                  *)

\* A step's effect on the faults: none is forgotten.
FaultsKept == CountShape' /\ (Clean' => Clean)

LEMMA SameFaults ==
  ASSUME CountShape, CountShape', count'.faults = count.faults
  PROVE  FaultsKept
BY DEF FaultsKept, Clean, Without

LEMMA FaultCounted ==
  ASSUME CountShape, NEW kinds \in SUBSET Faults, Fault(kinds)
  PROVE  /\ FaultsKept
         /\ kinds \cap {"engine", "missed"} # {} => ~Clean'
<1>1. count' = [count EXCEPT !.faults = AfterFaults(kinds)]
  BY DEF Fault
<1>2. count'.faults = [k \in Faults |-> IF k \in kinds THEN count.faults[k] + 1
                                                       ELSE count.faults[k]]
  BY <1>1 DEF CountShape, AfterFaults
<1>3. CountShape'
  BY <1>1, <1>2 DEF CountShape
<1>4. \A k \in Faults : /\ count.faults[k] \in Nat
                        /\ count'.faults[k] = 0 => count.faults[k] = 0 /\ k \notin kinds
  BY <1>2 DEF CountShape
<1>5. {"engine", "missed"} \subseteq Faults
  BY DEF Faults
<1>6. QED BY <1>3, <1>4, <1>5 DEF FaultsKept, Clean, Without

\* An order that is placed with a fault.
LEMMA FaultPlacedCounted ==
  ASSUME CountShape, NEW kinds \in SUBSET Faults, FaultPlaced(kinds)
  PROVE  FaultsKept
<1>1. count' = [count EXCEPT !.placed = @ + 1, !.faults = AfterFaults(kinds)]
  BY DEF FaultPlaced
<1>2. AfterFaults(kinds) =
        [k \in Faults |-> IF k \in kinds THEN count.faults[k] + 1 ELSE count.faults[k]]
  BY DEF AfterFaults
<1> DEFINE after == AfterFaults(kinds)
<1>3. after \in [Faults -> Nat]
  BY <1>2 DEF CountShape
<1> HIDE DEF after
<1>4. count' = [starts |-> count.starts, placed |-> count.placed + 1, faults |-> after]
  BY <1>1 DEF CountShape, after
<1>5. CountShape'
  BY <1>3, <1>4 DEF CountShape
<1>6. \A k \in Faults : count'.faults[k] = 0 => count.faults[k] = 0
  BY <1>2, <1>4 DEF CountShape, after
<1>7. {"engine", "missed"} \subseteq Faults
  BY DEF Faults
<1>8. QED BY <1>5, <1>6, <1>7 DEF FaultsKept, Clean, Without

-----------------------------------------------------------------------------
(* Steps that touch neither the bot nor what is on its way to it.          *)

Quiet ==
  /\ UNCHANGED <<start, bot, inbox, published>>
  /\ closed' \in {closed, closed + 1}
  /\ FaultsKept

LEMMA QuietKeeps ==
  ASSUME HistoryInv, Quiet
  PROVE  HistoryInv'
<1>1. Shape'
  BY DEF HistoryInv, Quiet, FaultsKept, Shape, BotShape, Bars, Kline
<1>2. Pages' /\ Warm'
  BY DEF HistoryInv, Quiet, Pages, Warm, Windows, settings
<1>3. Fed1' <=> Fed1
  BY DEF Quiet, Fed1, Chain, Follows, NotJoined, Joined, UnderWay, Kline, Awaited
<1>4. QED BY <1>1, <1>2, <1>3 DEF HistoryInv, Quiet, FaultsKept

LEMMA QuietSteps ==
  ASSUME Shape,
         \/ Rx \/ CheckFlat \/ CheckHeld \/ CheckHit
         \/ CloseSent \/ CloseUnanswered \/ CloseRefused
         \/ Exchange \/ Disconnect \/ UNCHANGED vars
  PROVE  Quiet
<1> USE DEF botVars
<1>a. CountShape /\ closed \in Nat
  BY DEF Shape
<1>b. ASSUME UNCHANGED count PROVE FaultsKept
  BY <1>a, <1>b, SameFaults DEF CountShape
<1>c. ASSUME count' = [count EXCEPT !.placed = @ + 1] PROVE FaultsKept
  BY <1>a, <1>c, SameFaults DEF CountShape
<1>1. CASE RxRefuse \/ RxSetStop \/ RxArm
  BY <1>1, <1>b DEF RxRefuse, RxSetStop, RxArm, Quiet
<1>2. CASE RxAccept
  BY <1>2, <1>c DEF RxAccept, Quiet
<1>13. CASE RxUnanswered \/ CloseUnanswered
  <2>1. {"unanswered"} \in SUBSET Faults /\ {"untracked"} \in SUBSET Faults
    BY DEF Faults
  <2>2. FaultsKept
    BY <1>13, <1>a, <2>1, FaultPlacedCounted DEF RxUnanswered, CloseUnanswered
  <2>3. QED BY <1>13, <2>2 DEF RxUnanswered, CloseUnanswered, Quiet
<1>3. CASE CheckFlat
  BY <1>3, <1>b DEF CheckFlat, Unchecked, UncheckedBut, Quiet
<1>4. CASE CheckHeld \/ CheckHit
  <2>1. FaultsKept
    BY <1>4, <1>a, <1>b, FaultCounted DEF CheckHeld, CheckHit, Raced, Faults
  <2>2. QED BY <1>4, <2>1 DEF CheckHeld, CheckHit, UncheckedBut, Quiet
<1>5. CASE CloseSent
  BY <1>5, <1>c DEF CloseSent, Quiet
<1>6. CASE CloseRefused
  <2>1. FaultsKept
    BY <1>6, <1>a, <1>b, FaultCounted DEF CloseRefused, Faults
  <2>2. QED BY <1>6, <2>1 DEF CloseRefused, Quiet
<1>7. CASE MarketCloses
  BY <1>7, <1>b DEF MarketCloses, Quiet
<1>8. CASE Liquidate
  <2>1. FaultsKept
    BY <1>8, <1>a, FaultCounted DEF Liquidate, Faults
  <2>2. QED BY <1>8, <2>1 DEF Liquidate, Quiet
<1>9. ASSUME NEW o \in exch.working, Fill(o) PROVE Quiet
  BY <1>9, <1>b DEF Fill, Quiet
<1>10. ASSUME NEW o \in exch.working, Expire(o) PROVE Quiet
  <2>1. FaultsKept
    BY <1>10, <1>a, <1>b, FaultCounted DEF Expire, Faults
  <2>2. QED BY <1>10, <2>1 DEF Expire, Quiet
<1>11. CASE Disconnect
  <2>1. FaultsKept
    BY <1>11, <1>a, FaultCounted DEF Disconnect, Faults
  <2>2. QED BY <1>11, <2>1 DEF Disconnect, Quiet
<1>12. CASE UNCHANGED vars
  BY <1>12, <1>b DEF vars, Quiet
<1>14. QED BY <1>1, <1>2, <1>3, <1>4, <1>5, <1>6, <1>7, <1>8, <1>9, <1>10, <1>11, <1>12, <1>13
           DEF Rx, Exchange

-----------------------------------------------------------------------------
(* The bot starts and ends.                                                *)

LEMMA NewBotKeeps ==
  ASSUME HistoryInv, NEW phase \in {"down", "warmup", "listening"}, bot' = NewBot(phase),
         Bars', phase # "down" => inbox' = <<>>,
         UNCHANGED <<start, closed, published>>, FaultsKept
  PROVE  HistoryInv'
<1>1. /\ bot'.phase = phase /\ bot'.subscribed = FALSE /\ bot'.rows = <<>>
      /\ bot'.absorbed = <<>> /\ bot'.cold = TRUE /\ bot'.firstPage = 0 /\ bot'.joined = 0
      /\ bot'.brain = FreshBrain
  BY DEF NewBot
<1>2. Len(<<>>) = 0 /\ <<>> \in Seq(Nat)
  OBVIOUS
<1>3. BotShape'
  BY <1>1, <1>2 DEF NewBot, BotShape
<1>4. Shape' /\ Pages' /\ Warm'
  BY <1>1, <1>2, <1>3 DEF HistoryInv, Shape, FaultsKept, Pages, Warm
<1>5. Fed1'
  BY <1>1, <1>2 DEF Fed1, Chain, NotJoined, Joined
<1>6. QED BY <1>4, <1>5 DEF HistoryInv

LEMMA NothingUnderWay ==
  ASSUME inbox' = <<>>
  PROVE  Bars'
<1>1. <<>> \in Seq({}) /\ Len(<<>>) = 0 /\ DOMAIN <<>> = {}
  OBVIOUS
<1>2. QED BY <1>1, SeqOfItsRange DEF Bars

\* A message is taken off.
LEMMA TakenOff ==
  ASSUME Bars, inbox # <<>>, inbox' = Tail(inbox)
  PROVE  Bars' /\ (Kline(1) => inbox[1].bar \in Nat) /\ Head(inbox) = inbox[1]
<1>1. /\ IsSeq(inbox') /\ Len(inbox) \in Nat \ {0} /\ DOMAIN inbox = 1..Len(inbox)
      /\ DOMAIN inbox' = 1..Len(inbox) - 1
      /\ \A i \in 1..Len(inbox) - 1 : inbox'[i] = inbox[i + 1]
      /\ Head(inbox) = inbox[1]
  BY TailElements DEF Bars
<1>2. QED BY <1>1 DEF Bars, Kline

\* Only a bar moves the turn on, and the first is the one whose turn it is.
LEMMA TurnTaken ==
  ASSUME Bars, inbox # <<>>, inbox' = Tail(inbox),
         NEW e \in Nat, published \in Nat, UNCHANGED published, UnderWay(e)
  PROVE  IF Kline(1) THEN inbox[1].bar = e /\ e <= published /\ UnderWay(e + 1)'
                     ELSE UnderWay(e)'
<1> DEFINE n == Len(inbox)
<1>1. /\ IsSeq(inbox') /\ n \in Nat \ {0} /\ DOMAIN inbox = 1..n /\ DOMAIN inbox' = 1..n - 1
      /\ \A i \in 1..n - 1 : inbox'[i] = inbox[i + 1]
      /\ Head(inbox) = inbox[1]
  BY TailElements DEF Bars
<1> HIDE DEF n
<1>2. /\ \A i \in 1..n : Kline(i) => inbox[i].bar \in e..published
      /\ \A i, j \in 1..n : i < j /\ Kline(i) /\ Kline(j) => inbox[i].bar < inbox[j].bar
      /\ \A b \in e..published : \E i \in 1..n : Kline(i) /\ inbox[i].bar = b
  BY <1>1 DEF UnderWay
<1>3. \A i \in 1..n - 1 : i + 1 \in 1..n /\ Kline(i)' = Kline(i + 1)
  BY <1>1 DEF Kline
<1>4. \A i, j \in 1..n - 1 : i < j /\ Kline(i)' /\ Kline(j)' => inbox'[i].bar < inbox'[j].bar
  BY <1>1, <1>2, <1>3
<1>5. CASE Kline(1)
  <2>1. 1 \in 1..n /\ inbox[1].bar \in e..published
    BY <1>1, <1>2, <1>5
  <2>2. e \in e..published
    BY <2>1
  <2>3. PICK k \in 1..n : Kline(k) /\ inbox[k].bar = e
    BY <1>2, <2>2
  <2>4. inbox[1].bar = e
    <3>1. CASE k = 1
      BY <2>3, <3>1
    <3>2. CASE k # 1
      <4>1. 1 < k
        BY <1>1, <3>2
      <4>2. inbox[1].bar < e
        BY <1>2, <1>5, <2>1, <2>3, <4>1
      <4>3. QED BY <2>1, <4>2
    <3>3. QED BY <3>1, <3>2
  <2>5. \A i \in 1..n - 1 : Kline(i)' => inbox'[i].bar \in e + 1..published
    <3>1. SUFFICES ASSUME NEW i \in 1..n - 1, Kline(i + 1)
                   PROVE  inbox[i + 1].bar \in e + 1..published
      BY <1>1, <1>3
    <3>2. i + 1 \in 1..n /\ 1 < i + 1
      BY <1>1
    <3>3. inbox[i + 1].bar \in e..published /\ e < inbox[i + 1].bar
      BY <1>2, <1>5, <2>1, <2>4, <3>1, <3>2
    <3>4. QED BY <3>3
  <2>6. ASSUME NEW b \in e + 1..published
        PROVE  \E i \in 1..n - 1 : Kline(i)' /\ inbox'[i].bar = b
    <3>1. b \in e..published /\ b # e
      BY <2>6
    <3>2. PICK i \in 1..n : Kline(i) /\ inbox[i].bar = b
      BY <1>2, <3>1
    <3>3. i - 1 \in 1..n - 1 /\ (i - 1) + 1 = i
      BY <1>1, <2>4, <3>1, <3>2
    <3>4. Kline(i - 1)' /\ inbox'[i - 1].bar = b
      BY <1>1, <1>3, <3>2, <3>3
    <3>5. QED BY <3>3, <3>4
  <2>7. UnderWay(e + 1)'
    BY <1>1, <1>4, <2>5, <2>6 DEF UnderWay
  <2>8. QED BY <1>5, <2>1, <2>4, <2>7
<1>6. CASE ~Kline(1)
  <2>1. \A i \in 1..n - 1 : Kline(i)' => inbox'[i].bar \in e..published
    BY <1>1, <1>2, <1>3
  <2>2. ASSUME NEW b \in e..published
        PROVE  \E i \in 1..n - 1 : Kline(i)' /\ inbox'[i].bar = b
    <3>1. PICK i \in 1..n : Kline(i) /\ inbox[i].bar = b
      BY <1>2
    <3>2. i - 1 \in 1..n - 1 /\ (i - 1) + 1 = i
      BY <1>1, <1>6, <3>1
    <3>3. Kline(i - 1)' /\ inbox'[i - 1].bar = b
      BY <1>1, <1>3, <3>1, <3>2
    <3>4. QED BY <3>2, <3>3
  <2>3. UnderWay(e)'
    BY <1>1, <1>4, <2>1, <2>2 DEF UnderWay
  <2>4. QED BY <1>6, <2>3
<1>7. QED BY <1>5, <1>6

\* A message is put on: the bar after the last one, or no bar.
PutsOn(m) ==
  /\ inbox' = Append(inbox, m)
  /\ \/ m.kind # "kline" /\ published' = published
     \/ m.kind = "kline" /\ m.bar = published + 1 /\ published' = published + 1

LEMMA PutOn ==
  ASSUME Bars, published \in Nat, NEW m, PutsOn(m)
  PROVE  Bars'
<1> DEFINE n == Len(inbox)
<1>1. /\ IsSeq(inbox') /\ n \in Nat /\ DOMAIN inbox = 1..n /\ DOMAIN inbox' = 1..n + 1
      /\ \A i \in 1..n : inbox'[i] = inbox[i]
      /\ inbox'[n + 1] = m
  BY AppendElements DEF Bars, PutsOn
<1> HIDE DEF n
<1>2. \A i \in 1..n + 1 : i \in 1..n \/ i = n + 1
  BY <1>1
<1>3. QED BY <1>1, <1>2 DEF Bars, Kline, PutsOn

LEMMA TurnKept ==
  ASSUME Bars, published \in Nat, NEW m, PutsOn(m),
         NEW e \in Nat, e <= published + 1, UnderWay(e)
  PROVE  UnderWay(e)'
<1> DEFINE n == Len(inbox)
<1>1. /\ IsSeq(inbox') /\ n \in Nat /\ DOMAIN inbox = 1..n /\ DOMAIN inbox' = 1..n + 1
      /\ \A i \in 1..n : inbox'[i] = inbox[i]
      /\ inbox'[n + 1] = m
  BY AppendElements DEF Bars, PutsOn
<1> HIDE DEF n
<1>2. \A i \in 1..n + 1 : i \in 1..n \/ i = n + 1
  BY <1>1
<1>3. /\ published' \in Nat /\ published <= published'
      /\ \/ published' = published
         \/ published' = published + 1 /\ m.kind = "kline" /\ m.bar = published + 1
      /\ m.kind = "kline" => m.bar = published + 1 /\ published' = published + 1
  BY DEF PutsOn
<1>4. /\ \A i \in 1..n : Kline(i) => inbox[i].bar \in e..published
      /\ \A i, j \in 1..n : i < j /\ Kline(i) /\ Kline(j) => inbox[i].bar < inbox[j].bar
      /\ \A b \in e..published : \E i \in 1..n : Kline(i) /\ inbox[i].bar = b
  BY <1>1, <1>3 DEF UnderWay
<1>5. \A i \in 1..n : Kline(i)' = Kline(i) /\ i \in 1..n + 1 /\ i < n + 1
  BY <1>1 DEF Kline
<1>6. \A i \in 1..n + 1 : i = n + 1 => inbox'[i] = m /\ (Kline(i)' <=> m.kind = "kline")
  BY <1>1 DEF Kline
<1>7. \A i \in 1..n + 1 : Kline(i)' => inbox'[i].bar \in e..published'
  <2>1. \A i \in 1..n : Kline(i)' => inbox'[i].bar \in e..published'
    BY <1>1, <1>3, <1>4, <1>5
  <2>2. \A i \in 1..n + 1 : i = n + 1 /\ Kline(i)' => inbox'[i].bar \in e..published'
    BY <1>1, <1>3, <1>6
  <2>3. QED BY <1>2, <2>1, <2>2
<1>8. ASSUME NEW i \in 1..n + 1, NEW j \in 1..n + 1, i < j, Kline(i)', Kline(j)'
      PROVE  inbox'[i].bar < inbox'[j].bar
  <2>1. i \in 1..n /\ Kline(i) /\ inbox'[i] = inbox[i]
    BY <1>1, <1>5, <1>8
  <2>2. CASE j \in 1..n
    BY <1>1, <1>4, <1>5, <1>8, <2>1, <2>2
  <2>3. CASE j = n + 1
    <3>1. inbox[i].bar \in e..published
      BY <1>4, <2>1
    <3>2. inbox'[j].bar = published + 1
      BY <1>3, <1>6, <1>8, <2>3
    <3>3. QED BY <2>1, <3>1, <3>2
  <2>4. QED BY <1>2, <2>2, <2>3
<1>9. ASSUME NEW b \in e..published'
      PROVE  \E i \in 1..n + 1 : Kline(i)' /\ inbox'[i].bar = b
  <2>1. CASE b \in e..published
    <3>1. PICK i \in 1..n : Kline(i) /\ inbox[i].bar = b
      BY <1>4, <2>1
    <3>2. QED BY <1>1, <1>5, <3>1
  <2>2. CASE b \notin e..published
    <3>1. b = published + 1 /\ m.kind = "kline" /\ m.bar = published + 1
      BY <1>3, <1>9, <2>2
    <3>2. n + 1 \in 1..n + 1
      BY <1>1
    <3>3. QED BY <1>6, <3>1, <3>2
  <2>3. QED BY <2>1, <2>2
<1>10. QED BY <1>1, <1>7, <1>8, <1>9 DEF UnderWay

LEMMA StartsAndEnds ==
  ASSUME HistoryInv,
         StartBot \/ BotDies \/ \E side \in {1, -1} : HearSignalRaises(side)
  PROVE  HistoryInv'
<1> USE DEF botVars
<1>a. Shape /\ CountShape /\ Bars
  BY DEF HistoryInv, Shape
<1>1. CASE StartBot
  <2>1. FaultsKept
    <3>1. count' = [count EXCEPT !.starts = @ + 1]
      BY <1>1 DEF StartBot
    <3>2. QED BY <1>a, <3>1, SameFaults DEF CountShape
  <2>2. PICK phase \in {"warmup", "listening"} : bot' = NewBot(phase)
    BY <1>1 DEF StartBot
  <2>3. inbox' = <<>> /\ UNCHANGED <<start, closed, published>>
    BY <1>1 DEF StartBot
  <2>4. QED BY <2>1, <2>2, <2>3, NothingUnderWay, NewBotKeeps
<1>2. CASE BotDies
  <2>1. FaultsKept
    BY <1>2, <1>a, FaultCounted DEF BotDies, Faults
  <2>2. bot' = NewBot("down") /\ UNCHANGED <<start, closed, published, inbox>>
    BY <1>2 DEF BotDies
  <2>3. Bars'
    BY <1>a, <2>2 DEF Bars, Kline
  <2>4. QED BY <2>1, <2>2, <2>3, NewBotKeeps
<1>3. ASSUME NEW side \in {1, -1}, HearSignalRaises(side) PROVE HistoryInv'
  <2>1. FaultsKept
    BY <1>3, <1>a, SameFaults DEF HearSignalRaises, CountShape
  <2>2. /\ bot' = NewBot("down") /\ UNCHANGED <<start, closed, published>>
        /\ inbox # <<>> /\ inbox' = Tail(inbox)
    BY <1>3 DEF HearSignalRaises, Hear
  <2>3. Bars'
    BY <1>a, <2>2, TakenOff
  <2>4. QED BY <2>1, <2>2, <2>3, NewBotKeeps
<1>4. QED BY <1>1, <1>2, <1>3

-----------------------------------------------------------------------------
(* The warm-up.                                                            *)

LEMMA PageSpan ==
  ASSUME NEW last \in Nat, NEW first, first = IF last > Batch THEN last - Batch + 1 ELSE 1
  PROVE  /\ first \in Nat \ {0} /\ last - first + 1 \in Nat /\ last - first + 1 <= last
         /\ last - first + 1 = 0 => last = 0
BY SessionAssumption

\* A page ends where the pages before it begin, and has no gap.
LEMMA PageBars ==
  ASSUME Shape, Pages, bot.phase = "warmup"
  PROVE  LET last == IF bot.rows = <<>> THEN closed + 1 ELSE Head(bot.rows) - 1
         IN  /\ last = IF bot.rows = <<>> THEN closed + 1 ELSE bot.firstPage + 1 - Len(bot.rows)
             /\ last \in Nat
             /\ Page \in Seq(Nat) /\ Len(Page) \in Nat /\ Len(Page) <= last
             /\ Page = <<>> => last = 0
             /\ \A i \in 1..Len(Page) : Page[i] = last - Len(Page) + i
<1> DEFINE last == IF bot.rows = <<>> THEN closed + 1 ELSE Head(bot.rows) - 1
           first == IF last > Batch THEN last - Batch + 1 ELSE 1
           n == last - first + 1
<1>1. Len(bot.rows) \in Nat /\ bot.rows \in Seq(Nat) /\ closed \in Nat /\ bot.firstPage \in Nat
  BY DEF Shape, BotShape
<1>2. bot.rows # <<>> => Head(bot.rows) = bot.rows[1] /\ 1 \in 1..Len(bot.rows)
  BY <1>1, EmptySeq
<1>3. /\ last = IF bot.rows = <<>> THEN closed + 1 ELSE bot.firstPage + 1 - Len(bot.rows)
      /\ last \in Nat
  <2>1. CASE bot.rows = <<>>
    BY <1>1, <2>1
  <2>2. CASE bot.rows # <<>>
    <3>1. bot.rows[1] = bot.firstPage + 1 - Len(bot.rows) + 1
      BY <1>2, <2>2 DEF Pages
    <3>2. Len(bot.rows) <= bot.firstPage + 1
      BY <2>2 DEF Pages
    <3>3. QED BY <1>1, <1>2, <2>2, <3>1, <3>2
  <2>3. QED BY <2>1, <2>2
<1>4. Page = [i \in 1..n |-> first + i - 1]
  BY DEF Page
<1> HIDE DEF last
<1>5. first \in Nat \ {0} /\ n \in Nat /\ n <= last /\ (n = 0 => last = 0)
  BY <1>3, PageSpan
<1> HIDE DEF n, first
<1>6. \A i \in 1..n : first + i - 1 \in Nat
  BY <1>5
<1>7. Page \in [1..n -> Nat]
  BY <1>4, <1>6
<1>8. Page \in Seq(Nat) /\ Len(Page) = n
  BY <1>5, <1>7, SeqDef
<1>9. Page = <<>> => n = 0
  BY <1>8
<1>10. first = last - n + 1
  BY <1>3, <1>5 DEF n
<1>11. \A i \in 1..n : Page[i] = last - n + i
  BY <1>3, <1>4, <1>5, <1>10
<1>12. QED BY <1>3, <1>5, <1>8, <1>9, <1>11 DEF last

\* Bars without a gap, the last of them number n.
EndsAt(s, n) == Len(s) <= n /\ \A i \in 1..Len(s) : s[i] = n - Len(s) + i

\* A page put before the pages that follow it.
LEMMA JoinedPages ==
  ASSUME NEW p \in Seq(Nat), NEW q \in Seq(Nat), NEW last \in Nat, NEW end \in Nat,
         end = last + Len(q), EndsAt(p, last), EndsAt(q, end)
  PROVE  p \o q \in Seq(Nat) /\ EndsAt(p \o q, end)
<1> DEFINE r == p \o q
           a == Len(p)
           b == Len(q)
<1>1. a \in Nat /\ b \in Nat
  OBVIOUS
<1>2. /\ r \in Seq(Nat) /\ Len(r) = a + b
      /\ \A i \in 1..a + b : r[i] = IF i <= a THEN p[i] ELSE q[i - a]
  BY ConcatProperties
<1>0. a <= last /\ end = last + b
  BY DEF EndsAt
<1>3. /\ \A i \in 1..a : p[i] = last - a + i
      /\ \A i \in 1..b : q[i] = end - b + i
  BY DEF EndsAt
<1> HIDE DEF r, a, b
<1>4. ASSUME NEW i \in 1..a + b PROVE r[i] = end - (a + b) + i
  <2>1. CASE i <= a
    <3>a. i \in 1..a
      BY <1>1, <1>4, <2>1
    <3>b. r[i] = p[i]
      BY <1>2, <1>4, <2>1
    <3>c. p[i] = last - a + i
      BY <1>3, <3>a
    <3>1. r[i] = last - a + i
      BY <3>b, <3>c
    <3>2. last - a + i = end - (a + b) + i
      <4>0. end = last + b
        BY <1>0
      <4>1. i \in Int
        BY <1>1, <1>4
      <4>2. \A l, x, y, k \in Int : l - x + k = (l + y) - (x + y) + k
        OBVIOUS
      <4>3. QED BY <1>1, <4>0, <4>1, <4>2
    <3>3. QED BY <3>1, <3>2
  <2>2. CASE ~(i <= a)
    <3>1. i - a \in 1..b
      BY <1>1, <1>4, <2>2
    <3>2. r[i] = end - b + (i - a)
      BY <1>1, <1>2, <1>3, <1>4, <2>2, <3>1
    <3>3. end - b + (i - a) = end - (a + b) + i
      BY <1>1, <1>4
    <3>4. QED BY <3>2, <3>3
  <2>3. QED BY <1>1, <1>4, <2>1, <2>2
<1>5. EndsAt(r, end)
  BY <1>0, <1>1, <1>2, <1>4 DEF EndsAt
<1>6. QED BY <1>2, <1>5 DEF r

LEMMA FetchPageKeeps ==
  ASSUME HistoryInv, FetchPage
  PROVE  HistoryInv'
<1> USE DEF botVars
<1> DEFINE rows == Page \o bot.rows
           last == IF bot.rows = <<>> THEN closed + 1 ELSE bot.firstPage + 1 - Len(bot.rows)
           page == IF bot.rows = <<>> THEN closed ELSE bot.firstPage
<1>1. /\ Shape /\ BotShape /\ Pages /\ bot.phase = "warmup" /\ Page # <<>>
      /\ closed \in Nat \ {0} /\ bot.rows \in Seq(Nat) /\ Len(bot.rows) \in Nat
      /\ bot.absorbed = <<>> /\ bot.cold
  BY DEF HistoryInv, Shape, BotShape, Pages, FetchPage
<1>2. /\ bot'.rows = rows /\ bot'.firstPage = page
      /\ bot'.phase = "warmup" /\ bot'.subscribed = bot.subscribed
      /\ bot'.absorbed = bot.absorbed /\ bot'.brain = bot.brain
      /\ bot'.cold = bot.cold /\ bot'.joined = bot.joined
      /\ UNCHANGED <<start, closed, published, inbox, count>>
  BY <1>1 DEF FetchPage, BotShape
<1>3. bot' = [phase |-> bot'.phase, subscribed |-> bot'.subscribed, rows |-> bot'.rows,
              absorbed |-> bot'.absorbed, brain |-> bot'.brain, cold |-> bot'.cold,
              firstPage |-> bot'.firstPage, joined |-> bot'.joined]
  <2>1. bot' = [bot EXCEPT !.rows = rows, !.firstPage = page]
    BY DEF FetchPage
  <2> HIDE DEF rows, page
  <2>2. QED BY <1>1, <2>1 DEF BotShape
<1>4. /\ Page \in Seq(Nat) /\ Len(Page) \in Nat \ {0} /\ Len(Page) <= last
      /\ last \in Nat /\ \A i \in 1..Len(Page) : Page[i] = last - Len(Page) + i
  BY <1>1, PageBars, EmptySeq
<1>5. page \in Nat \ {0} /\ page + 1 = last + Len(bot.rows)
  <2>1. CASE bot.rows = <<>>
    BY <1>1, <2>1
  <2>2. CASE bot.rows # <<>>
    BY <1>1, <2>2 DEF Pages, BotShape
  <2>3. QED BY <2>1, <2>2
<1>6. \A i \in 1..Len(bot.rows) : bot.rows[i] = (page + 1) - Len(bot.rows) + i
  <2>1. CASE bot.rows = <<>>
    BY <1>1, <2>1
  <2>2. ASSUME bot.rows # <<>>, NEW i \in 1..Len(bot.rows)
        PROVE  bot.rows[i] = (bot.firstPage + 1) - Len(bot.rows) + i
    <3>1. bot.rows[i] = bot.firstPage + 1 - Len(bot.rows) + i
      BY <1>1 DEF Pages
    <3>2. bot.firstPage \in Int /\ Len(bot.rows) \in Int
      BY <1>1 DEF BotShape
    <3>3. QED BY <3>1, <3>2
  <2>3. QED BY <2>1, <2>2
<1> HIDE DEF last, page
<1>7. /\ rows \in Seq(Nat) /\ Len(rows) \in Nat /\ Len(rows) <= page + 1
      /\ \A i \in 1..Len(rows) : rows[i] = page + 1 - Len(rows) + i
  <2>1. EndsAt(Page, last)
    BY <1>4 DEF EndsAt
  <2> DEFINE end == page + 1
  <2>2. end \in Nat /\ end = last + Len(bot.rows) /\ Len(bot.rows) <= end
    BY <1>1, <1>4, <1>5
  <2>3. \A i \in 1..Len(bot.rows) : bot.rows[i] = end - Len(bot.rows) + i
    BY <1>6, Zenon
  <2>4. /\ Len(rows) <= end /\ \A i \in 1..Len(rows) : rows[i] = end - Len(rows) + i
        /\ rows \in Seq(Nat) /\ Len(rows) \in Nat
    <3> HIDE DEF end
    <3>1. EndsAt(bot.rows, end)
      BY <2>2, <2>3 DEF EndsAt
    <3>2. rows \in Seq(Nat) /\ EndsAt(rows, end)
      BY <1>1, <1>4, <2>1, <2>2, <3>1, JoinedPages
    <3> HIDE DEF rows
    <3>3. QED BY <3>2 DEF EndsAt
  <2> HIDE DEF rows
  <2>5. QED BY <1>5, <2>4
<1> HIDE DEF rows
<1>9. BotShape'
  BY <1>1, <1>2, <1>3, <1>5, <1>7 DEF BotShape
<1>10. Shape' /\ Pages' /\ Warm' /\ FaultsKept
  <2>1. FaultsKept /\ CountShape'
    BY <1>1, <1>2, SameFaults DEF Shape, CountShape
  <2>2. Bars'
    BY <1>1, <1>2 DEF Shape, Bars, Kline
  <2>3. Shape'
    BY <1>1, <1>2, <1>9, <2>1, <2>2 DEF Shape
  <2>4. Pages'
    BY <1>1, <1>2, <1>5, <1>7 DEF Pages
  <2>5. Warm'
    BY <1>2 DEF Warm
  <2>6. QED BY <2>1, <2>3, <2>4, <2>5
<1>11. ASSUME Fed1 PROVE Fed1'
  <2>1. Len(<<>>) = 0
    OBVIOUS
  <2>2. Chain' /\ NotJoined'
    BY <1>1, <1>2, <1>11, <2>1 DEF Fed1, Chain, NotJoined
  <2>3. Joined'
    BY <1>1, <1>2, <1>11 DEF Fed1, Joined, UnderWay, Kline, Awaited
  <2>4. QED BY <2>2, <2>3 DEF Fed1
<1>12. QED BY <1>10, <1>11 DEF HistoryInv, FaultsKept

\* The closed bars of the pages reach up to where the market stood at the first page.
LEMMA WarmUpFeeds ==
  ASSUME Shape, Pages, WarmUp
  PROVE  LET a == Remembered(ClosedRows(bot.rows))
         IN  /\ a \in Seq(Nat) /\ Len(a) \in Nat
             /\ \A i \in 1..Len(a) : a[i] = bot.firstPage - Len(a) + i
             /\ Len(a) >= bot.firstPage \/ Len(a) >= Windows
<1> DEFINE rows == bot.rows
           n == Len(rows)
           page == bot.firstPage
           c == ClosedRows(rows)
           a == Remembered(c)
<1>1. /\ rows \in Seq(Nat) /\ n \in Nat /\ page \in Nat /\ page > 0 /\ n <= page + 1
      /\ \A i \in 1..n : rows[i] = page + 1 - n + i
      /\ rows # <<>> /\ start \in Started
  BY DEF Shape, BotShape, Pages, WarmUp
<1>2. Windows \in Nat /\ Memory \in Nat /\ Windows <= Memory /\ fetch_limit = Windows + 6
  BY <1>1, WindowsAndMemory
<1>3. n >= fetch_limit \/ n = page + 1
  <2>1. CASE Page = <<>>
    <3>1. page + 1 - n = 0
      BY <1>1, <2>1, PageBars DEF WarmUp
    <3>2. QED BY <1>1, <3>1
  <2>2. QED BY <2>1 DEF WarmUp
<1>4. n > 1
  BY <1>1, <1>2, <1>3
<1>5. c = SubSeq(rows, 1, n - 1)
  BY <1>4 DEF ClosedRows, Front
<1> HIDE DEF n, page, c, rows
<1>6. /\ c \in Seq(Nat) /\ Len(c) = n - 1
      /\ \A i \in 1..n - 1 : c[i] = rows[i]
  <2>1. \A i \in 1..n - 1 : rows[i] \in Nat
    BY <1>1, ElementOfSeq DEF n
  <2>2. 1 \in 1..n + 1 /\ n - 1 \in 0..n
    BY <1>1, <1>4
  <2>3. QED BY <1>1, <1>4, <1>5, <2>1, <2>2, SubSeqProperties DEF n
<1>7. \A i \in 1..n - 1 : c[i] = page - (n - 1) + i
  <2>1. SUFFICES ASSUME NEW i \in 1..n - 1 PROVE c[i] = page - (n - 1) + i
    OBVIOUS
  <2>2. rows[i] = page + 1 - n + i
    BY <1>1
  <2>3. page + 1 - n + i = page - (n - 1) + i
    BY <1>1
  <2>4. QED BY <1>6, <2>2, <2>3
<1>8. /\ a \in Seq(Nat) /\ Len(a) \in Nat
      /\ Len(a) = IF n - 1 > Memory THEN Memory ELSE n - 1
      /\ \A i \in 1..Len(a) : a[i] = c[i + (n - 1 - Len(a))]
  BY <1>1, <1>6, RememberedBars
<1> DEFINE k == Len(a)
<1>9. \A i \in 1..k : a[i] = page - k + i
  <2> HIDE DEF a, k
  <2>1. SUFFICES ASSUME NEW i \in 1..k PROVE a[i] = page - k + i
    OBVIOUS
  <2>2. k \in Nat /\ k <= n - 1 /\ a[i] = c[i + (n - 1 - k)]
    BY <1>1, <1>2, <1>4, <1>8 DEF k
  <2> DEFINE j == i + (n - 1 - k)
  <2>3. j \in 1..n - 1 /\ page - (n - 1) + j = page - k + i
    BY <1>1, <1>4, <2>1, <2>2
  <2> HIDE DEF j
  <2>4. c[j] = page - (n - 1) + j
    BY <1>7, <2>3
  <2>5. QED BY <2>2, <2>3, <2>4 DEF j
<1>10. k >= page \/ k >= Windows
  <2> HIDE DEF a
  <2>1. QED BY <1>1, <1>2, <1>3, <1>8
<1>11. QED BY <1>8, <1>9, <1>10 DEF c, rows, page

LEMMA WarmUpKeeps ==
  ASSUME HistoryInv, WarmUp
  PROVE  HistoryInv'
<1> USE DEF botVars
<1> DEFINE a == Remembered(ClosedRows(bot.rows))
<1>1. /\ Shape /\ BotShape /\ Pages /\ bot.phase = "warmup"
  BY DEF HistoryInv, Shape, WarmUp
<1>2. /\ a \in Seq(Nat) /\ Len(a) \in Nat
      /\ \A i \in 1..Len(a) : a[i] = bot.firstPage - Len(a) + i
      /\ Len(a) >= bot.firstPage \/ Len(a) >= Windows
  BY <1>1, WarmUpFeeds
<1>3. /\ bot' = [bot EXCEPT !.phase = "listening", !.rows = <<>>, !.cold = FALSE, !.absorbed = a]
      /\ UNCHANGED <<start, closed, published, inbox, count>>
  BY DEF WarmUp
<1> HIDE DEF a
<1>4. /\ bot'.phase = "listening" /\ bot'.rows = <<>> /\ bot'.cold = FALSE /\ bot'.absorbed = a
      /\ bot'.subscribed = bot.subscribed /\ bot'.brain = bot.brain
      /\ bot'.firstPage = bot.firstPage /\ bot'.joined = bot.joined
  BY <1>1, <1>3 DEF BotShape
<1>5. Len(<<>>) = 0 /\ <<>> \in Seq(Nat)
  OBVIOUS
<1>6. bot' = [phase |-> bot'.phase, subscribed |-> bot'.subscribed, rows |-> bot'.rows,
              absorbed |-> bot'.absorbed, brain |-> bot'.brain, cold |-> bot'.cold,
              firstPage |-> bot'.firstPage, joined |-> bot'.joined]
  BY <1>1, <1>3 DEF BotShape
<1>7. BotShape'
  BY <1>1, <1>2, <1>4, <1>5, <1>6 DEF BotShape
<1>8. FaultsKept /\ CountShape'
  BY <1>1, <1>3, SameFaults DEF Shape, CountShape
<1>9. Shape'
  BY <1>1, <1>3, <1>7, <1>8 DEF Shape, Bars, Kline
<1>10. Pages'
  BY <1>4, <1>5 DEF Pages
<1>11. Warm'
  BY <1>2, <1>3, <1>4 DEF Warm, Windows, settings
<1>12. ASSUME Fed1 PROVE Fed1'
  <2>1. bot.firstPage \in Nat
    BY <1>1 DEF BotShape
  <2>2. \A i \in 1..Len(a) - 1 : a[i + 1] = a[i] + 1
    <3>1. SUFFICES ASSUME NEW i \in 1..Len(a) - 1 PROVE a[i + 1] = a[i] + 1
      OBVIOUS
    <3>2. i \in 1..Len(a) /\ i + 1 \in 1..Len(a)
      BY <1>2
    <3>3. a[i] = bot.firstPage - Len(a) + i /\ a[i + 1] = bot.firstPage - Len(a) + (i + 1)
      BY <1>2, <3>2
    <3>4. QED BY <1>2, <2>1, <3>3
  <2>3. a # <<>> => a[Len(a)] = bot.firstPage
    <3>1. a # <<>> => Len(a) \in 1..Len(a)
      BY <1>2, EmptySeq
    <3>2. bot.firstPage - Len(a) + Len(a) = bot.firstPage
      BY <1>2, <2>1
    <3>3. QED BY <1>2, <3>1, <3>2
  <2>4. Chain'
    BY <1>4, <2>2 DEF Chain, Follows
  <2>5. NotJoined'
    BY <1>1, <1>3, <1>4, <1>12, <2>2, <2>3 DEF Fed1, NotJoined
  <2>6. Joined'
    <3>1. SUFFICES ASSUME bot.subscribed PROVE Joined'
      BY <1>4 DEF Joined
    <3>2. PICK e \in Nat : e <= published + 1 /\ UnderWay(e) /\ Awaited(e)
      BY <1>1, <1>12, <3>1 DEF Fed1, Joined
    <3>3. e = bot.joined + 1
      BY <1>1, <3>2 DEF Awaited
    <3>4. Awaited(e)'
      BY <1>4, <2>3, <3>3 DEF Awaited
    <3>5. UnderWay(e)' /\ e <= published' + 1
      BY <1>3, <3>2 DEF UnderWay, Kline
    <3>6. QED BY <3>4, <3>5 DEF Joined
  <2>7. QED BY <2>4, <2>5, <2>6 DEF Fed1
<1>13. QED BY <1>8, <1>9, <1>10, <1>11, <1>12 DEF HistoryInv, FaultsKept

\* A failed page: the bot listens, with nothing fed.
LEMMA WarmUpFailsKeeps ==
  ASSUME HistoryInv, WarmUpFails
  PROVE  HistoryInv'
<1> USE DEF botVars
<1>1. /\ Shape /\ BotShape /\ Pages /\ bot.phase = "warmup" /\ bot.absorbed = <<>> /\ bot.cold
  BY DEF HistoryInv, Shape, WarmUpFails, Pages
<1>2. /\ bot' = [bot EXCEPT !.phase = "listening", !.rows = <<>>]
      /\ UNCHANGED <<start, closed, published, inbox>> /\ Fault({"rest"})
  BY DEF WarmUpFails
<1>3. /\ bot'.phase = "listening" /\ bot'.rows = <<>> /\ bot'.cold = bot.cold
      /\ bot'.absorbed = <<>> /\ bot'.subscribed = bot.subscribed /\ bot'.brain = bot.brain
      /\ bot'.firstPage = bot.firstPage /\ bot'.joined = bot.joined
  BY <1>1, <1>2 DEF BotShape
<1>4. Len(<<>>) = 0 /\ <<>> \in Seq(Nat)
  OBVIOUS
<1>5. bot' = [phase |-> bot'.phase, subscribed |-> bot'.subscribed, rows |-> bot'.rows,
              absorbed |-> bot'.absorbed, brain |-> bot'.brain, cold |-> bot'.cold,
              firstPage |-> bot'.firstPage, joined |-> bot'.joined]
  BY <1>1, <1>2 DEF BotShape
<1>6. BotShape'
  BY <1>1, <1>3, <1>4, <1>5 DEF BotShape
<1>7. FaultsKept /\ CountShape'
  BY <1>1, <1>2, FaultCounted DEF Shape, Faults, FaultsKept
<1>8. Shape'
  BY <1>1, <1>2, <1>6, <1>7 DEF Shape, Bars, Kline
<1>9. Pages' /\ Warm'
  BY <1>1, <1>3, <1>4 DEF Pages, Warm
<1>10. ASSUME Fed1 PROVE Fed1'
  <2>1. Chain' /\ NotJoined'
    BY <1>1, <1>2, <1>3, <1>4, <1>10 DEF Fed1, Chain, NotJoined
  <2>2. Joined'
    <3>1. SUFFICES ASSUME bot.subscribed PROVE Joined'
      BY <1>3 DEF Joined
    <3>2. PICK e \in Nat : e <= published + 1 /\ UnderWay(e) /\ Awaited(e)
      BY <1>1, <1>10, <3>1 DEF Fed1, Joined
    <3>3. Awaited(e)'
      BY <1>3 DEF Awaited
    <3>4. UnderWay(e)' /\ e <= published' + 1
      BY <1>2, <3>2 DEF UnderWay, Kline
    <3>5. QED BY <3>3, <3>4 DEF Joined
  <2>3. QED BY <2>1, <2>2 DEF Fed1
<1>11. QED BY <1>7, <1>8, <1>9, <1>10 DEF HistoryInv, FaultsKept

-----------------------------------------------------------------------------
(* The subscription reaches the engine.                                    *)

LEMMA SubscribeKeeps ==
  ASSUME HistoryInv, Subscribe
  PROVE  HistoryInv'
<1> USE DEF botVars
<1>1. /\ Shape /\ BotShape /\ Pages /\ Warm /\ bot.phase # "down" /\ ~bot.subscribed
      /\ published \in Nat
  BY DEF HistoryInv, Shape, Subscribe
<1>2. /\ bot' = [bot EXCEPT !.subscribed = TRUE, !.joined = published]
      /\ UNCHANGED <<start, closed, published, inbox, count>>
  BY DEF Subscribe
<1>3. /\ bot'.subscribed = TRUE /\ bot'.joined = published /\ bot'.phase = bot.phase
      /\ bot'.rows = bot.rows /\ bot'.cold = bot.cold /\ bot'.absorbed = bot.absorbed
      /\ bot'.brain = bot.brain /\ bot'.firstPage = bot.firstPage
  BY <1>1, <1>2 DEF BotShape
<1>4. bot' = [phase |-> bot'.phase, subscribed |-> bot'.subscribed, rows |-> bot'.rows,
              absorbed |-> bot'.absorbed, brain |-> bot'.brain, cold |-> bot'.cold,
              firstPage |-> bot'.firstPage, joined |-> bot'.joined]
  BY <1>1, <1>2 DEF BotShape
<1>5. BotShape'
  BY <1>1, <1>3, <1>4 DEF BotShape
<1>6. FaultsKept /\ CountShape'
  BY <1>1, <1>2, SameFaults DEF Shape, CountShape
<1>7. Shape' /\ Pages' /\ Warm'
  BY <1>1, <1>2, <1>3, <1>5, <1>6 DEF Shape, Bars, Kline, Pages, Warm, Windows, settings
<1>8. ASSUME Fed1 PROVE Fed1'
  <2>1. NotJoined /\ inbox = <<>>
    BY <1>1, <1>8 DEF Fed1, NotJoined
  <2>2. Chain'
    BY <1>1, <1>3, <2>1 DEF Chain, Follows, NotJoined
  <2>3. NotJoined'
    BY <1>3 DEF NotJoined
  <2> DEFINE e == published + 1
  <2>4. DOMAIN <<>> = {} /\ e..published = {}
    BY <1>1
  <2>5. UnderWay(e)' /\ e \in Nat /\ e <= published' + 1
    BY <1>1, <1>2, <2>1, <2>4 DEF UnderWay
  <2>6. Awaited(e)'
    BY <1>1, <1>2, <1>3, <2>1 DEF Awaited, NotJoined
  <2>7. \E x \in Nat : x <= published' + 1 /\ UnderWay(x)' /\ Awaited(x)'
    <3>1. e' = e
      BY <1>2
    <3> HIDE DEF e
    <3>2. QED BY <2>5, <2>6, <3>1
  <2>8. Joined'
    BY <2>7 DEF Joined
  <2>9. QED BY <2>2, <2>3, <2>8 DEF Fed1
<1>9. QED BY <1>6, <1>7, <1>8 DEF HistoryInv, FaultsKept

-----------------------------------------------------------------------------
(* A message is heard.                                                     *)

\* A bar goes to the indicators, whatever the brain makes of it.
FeedsBar ==
  /\ bot.phase = "listening" /\ inbox # <<>> /\ inbox' = Tail(inbox) /\ Kline(1)
  /\ \E brain : bot' = [bot EXCEPT !.absorbed = Fed(inbox[1].bar), !.brain = brain]
  /\ UNCHANGED <<start, closed, published, count>>

LEMMA FedBars ==
  ASSUME Shape, Warm, Bars, NEW bar \in Nat
  PROVE  LET a == bot.absorbed
             r == Fed(bar)
         IN  /\ r \in Seq(Nat) /\ Len(r) \in Nat /\ Len(a) \in Nat
             /\ Len(r) <= Len(a) + 1
             /\ \A i \in 1..Len(r) :
                  r[i] = IF i + (Len(a) + 1 - Len(r)) <= Len(a)
                         THEN a[i + (Len(a) + 1 - Len(r))] ELSE bar
             /\ Len(a) >= bot.firstPage \/ Len(a) >= Windows =>
                  Len(r) >= bot.firstPage \/ Len(r) >= Windows
<1> DEFINE a == bot.absorbed
           b == Append(a, bar)
           r == Remembered(b)
           n == Len(a)
           k == Len(r)
<1>1. a \in Seq(Nat) /\ n \in Nat /\ start \in Started /\ bot.firstPage \in Nat
  BY DEF Shape, BotShape
<1>2. /\ b \in Seq(Nat) /\ Len(b) = n + 1
      /\ \A i \in 1..n + 1 : b[i] = IF i <= n THEN a[i] ELSE bar
  BY <1>1, AppendProperties
<1>3. r = Fed(bar)
  BY DEF Fed
<1> HIDE DEF a, b, n
<1>4. /\ r \in Seq(Nat) /\ k \in Nat /\ k = IF n + 1 > Memory THEN Memory ELSE n + 1
      /\ \A i \in 1..k : r[i] = b[i + (n + 1 - k)]
  <2>1. /\ r \in Seq(Nat) /\ k \in Nat /\ k = IF Len(b) > Memory THEN Memory ELSE Len(b)
        /\ \A i \in 1..k : r[i] = b[i + (Len(b) - k)]
    BY <1>1, <1>2, RememberedBars
  <2> HIDE DEF r, k
  <2>2. ASSUME NEW i \in 1..k PROVE r[i] = b[i + (n + 1 - k)]
    <3>1. i + (Len(b) - k) = i + (n + 1 - k)
      BY <1>1, <1>2, <2>1, <2>2
    <3>2. r[i] = b[i + (Len(b) - k)]
      BY <2>1, <2>2
    <3>3. QED BY <3>1, <3>2
  <2>3. QED BY <1>2, <2>1, <2>2
<1>5. Windows \in Nat /\ Memory \in Nat /\ Windows <= Memory
  BY <1>1, WindowsAndMemory
<1> HIDE DEF r, k
<1>6. k <= n + 1
  BY <1>1, <1>4, <1>5
<1>7. \A i \in 1..k : r[i] = IF i + (n + 1 - k) <= n THEN a[i + (n + 1 - k)] ELSE bar
  <2>1. SUFFICES ASSUME NEW i \in 1..k
                 PROVE  r[i] = IF i + (n + 1 - k) <= n THEN a[i + (n + 1 - k)] ELSE bar
    OBVIOUS
  <2> DEFINE j == i + (n + 1 - k)
  <2>2. j \in 1..n + 1
    BY <1>1, <1>4, <1>6
  <2>3. r[i] = b[j]
    BY <1>4
  <2> HIDE DEF j
  <2>4. r[i] = IF j <= n THEN a[j] ELSE bar
    BY <1>2, <2>2, <2>3
  <2>5. QED BY <2>4 DEF j
<1>8. n >= bot.firstPage \/ n >= Windows => k >= bot.firstPage \/ k >= Windows
  BY <1>1, <1>4, <1>5
<1>9. QED BY <1>1, <1>3, <1>4, <1>6, <1>7, <1>8 DEF a, n, r, k

LEMMA FeedKeeps ==
  ASSUME HistoryInv, FeedsBar
  PROVE  HistoryInv'
<1> DEFINE a == bot.absorbed
           bar == inbox[1].bar
           r == Fed(bar)
           n == Len(a)
           k == Len(r)
<1>1. /\ Shape /\ BotShape /\ Pages /\ Warm /\ Bars /\ bot.phase = "listening" /\ inbox # <<>>
      /\ inbox' = Tail(inbox) /\ Kline(1) /\ published \in Nat
      /\ UNCHANGED <<start, closed, published, count>>
  BY DEF HistoryInv, Shape, FeedsBar
<1>2. Bars' /\ bar \in Nat
  BY <1>1, TakenOff
<1>e. FeedsBar => \E brain : bot' = [bot EXCEPT !.absorbed = r, !.brain = brain]
  BY DEF FeedsBar
<1> HIDE DEF bar
<1>3. /\ r \in Seq(Nat) /\ k \in Nat /\ n \in Nat /\ k <= n + 1
      /\ \A i \in 1..k : r[i] = IF i + (n + 1 - k) <= n THEN a[i + (n + 1 - k)] ELSE bar
      /\ n >= bot.firstPage \/ n >= Windows => k >= bot.firstPage \/ k >= Windows
  BY <1>1, <1>2, FedBars
<1>4. PICK brain : bot' = [bot EXCEPT !.absorbed = r, !.brain = brain]
  BY <1>e
<1> HIDE DEF r
<1>5. /\ bot'.absorbed = r /\ bot'.brain = brain /\ bot'.phase = bot.phase
      /\ bot'.rows = bot.rows /\ bot'.cold = bot.cold /\ bot'.subscribed = bot.subscribed
      /\ bot'.joined = bot.joined /\ bot'.firstPage = bot.firstPage
  BY <1>1, <1>4 DEF BotShape
<1>6. bot' = [phase |-> bot'.phase, subscribed |-> bot'.subscribed, rows |-> bot'.rows,
              absorbed |-> bot'.absorbed, brain |-> bot'.brain, cold |-> bot'.cold,
              firstPage |-> bot'.firstPage, joined |-> bot'.joined]
  BY <1>1, <1>4 DEF BotShape
<1>7. BotShape'
  BY <1>1, <1>3, <1>5, <1>6 DEF BotShape
<1>8. FaultsKept /\ CountShape'
  BY <1>1, SameFaults DEF Shape, CountShape
<1>9. Shape' /\ Pages'
  BY <1>1, <1>2, <1>5, <1>7, <1>8 DEF Shape, Pages
<1>10. Warm'
  BY <1>1, <1>3, <1>5 DEF Warm, Windows, settings
<1>11. ASSUME Fed1 PROVE Fed1'
  <2>1. bot.subscribed
    BY <1>1, <1>11 DEF Fed1, NotJoined
  <2>2. PICK e \in Nat : e <= published + 1 /\ UnderWay(e) /\ Awaited(e)
    BY <1>1, <1>11, <2>1 DEF Fed1, Joined
  <2>3. bar = e /\ e <= published /\ UnderWay(e + 1)'
    BY <1>1, <2>2, TurnTaken DEF bar
  <2>4. \A i \in 1..n - 1 : Follows(a[i], a[i + 1])
    BY <1>11 DEF Fed1, Chain
  <2>5. n > 0 => Follows(a[n], e)
    <3>1. n > 0 => a # <<>>
      BY <1>1, EmptySeq DEF BotShape
    <3>2. QED BY <2>2, <3>1 DEF Awaited, Follows
  <2> HIDE DEF a, n, k, bar
  <2>6. ASSUME NEW i \in 1..k - 1 PROVE Follows(r[i], r[i + 1])
    <3> DEFINE j == i + (n + 1 - k)
    <3>1. /\ i \in 1..k /\ i + 1 \in 1..k /\ j \in 1..n
          /\ (i + 1) + (n + 1 - k) = j + 1
      BY <1>3, <2>6
    <3>2. r[i] = IF j <= n THEN a[j] ELSE bar
      BY <1>3, <3>1
    <3>3. r[i + 1] = IF j + 1 <= n THEN a[j + 1] ELSE bar
      <4>1. r[i + 1] = IF (i + 1) + (n + 1 - k) <= n THEN a[(i + 1) + (n + 1 - k)] ELSE bar
        BY <1>3, <3>1
      <4>2. QED BY <3>1, <4>1
    <3> HIDE DEF j
    <3>4. CASE j = n
      <4>1. r[i] = a[n] /\ r[i + 1] = e /\ n > 0
        BY <1>3, <2>3, <3>1, <3>2, <3>3, <3>4
      <4>2. QED BY <2>5, <4>1
    <3>5. CASE j # n
      <4>1. j \in 1..n - 1 /\ r[i] = a[j] /\ r[i + 1] = a[j + 1]
        BY <1>3, <3>1, <3>2, <3>3, <3>5
      <4>2. QED BY <2>4, <4>1
    <3>6. QED BY <3>4, <3>5
  <2>7. Chain'
    BY <1>5, <2>6 DEF Chain, Follows, k
  <2>8. NotJoined'
    BY <1>5, <2>1 DEF NotJoined
  <2>9. r # <<>> => r[Len(r)] = e
    <3>1. r # <<>> => k \in 1..k
      BY <1>3, EmptySeq DEF k
    <3>2. ~(k + (n + 1 - k) <= n)
      BY <1>3
    <3>3. r # <<>> => r[k] = bar
      BY <1>3, <3>1, <3>2
    <3>4. QED BY <2>3, <3>3 DEF k
  <2>10. Awaited(e + 1)'
    BY <1>1, <1>5, <2>9 DEF Awaited
  <2>11. Joined'
    <3>1. e + 1 \in Nat /\ e + 1 <= published' + 1
      BY <1>1, <2>3
    <3>2. QED BY <2>3, <2>10, <3>1 DEF Joined
  <2>12. QED BY <2>7, <2>8, <2>11 DEF Fed1
<1>12. QED BY <1>8, <1>9, <1>10, <1>11 DEF HistoryInv, FaultsKept

\* Anything else is heard.
LEMMA HearOrderUpdateKeeps ==
  ASSUME HistoryInv, HearOrderUpdate
  PROVE  HistoryInv'
<1> USE DEF botVars
<1>1. /\ Shape /\ BotShape /\ Pages /\ Warm /\ Bars /\ bot.phase = "listening" /\ inbox # <<>>
      /\ inbox' = Tail(inbox) /\ published \in Nat
      /\ UNCHANGED <<start, closed, published, count>>
  BY DEF HistoryInv, Shape, HearOrderUpdate, Hear
<1>2. PICK brain : bot' = [bot EXCEPT !.brain = brain]
  BY DEF HearOrderUpdate
<1>3. Bars' /\ ~Kline(1)
  BY <1>1, TakenOff DEF HearOrderUpdate, Kline
<1>4. /\ bot'.absorbed = bot.absorbed /\ bot'.brain = brain /\ bot'.phase = bot.phase
      /\ bot'.rows = bot.rows /\ bot'.cold = bot.cold /\ bot'.subscribed = bot.subscribed
      /\ bot'.joined = bot.joined /\ bot'.firstPage = bot.firstPage
  BY <1>1, <1>2 DEF BotShape
<1>5. bot' = [phase |-> bot'.phase, subscribed |-> bot'.subscribed, rows |-> bot'.rows,
              absorbed |-> bot'.absorbed, brain |-> bot'.brain, cold |-> bot'.cold,
              firstPage |-> bot'.firstPage, joined |-> bot'.joined]
  BY <1>1, <1>2 DEF BotShape
<1>6. BotShape'
  BY <1>1, <1>4, <1>5 DEF BotShape
<1>7. FaultsKept /\ CountShape'
  BY <1>1, SameFaults DEF Shape, CountShape
<1>8. Shape' /\ Pages' /\ Warm'
  BY <1>1, <1>3, <1>4, <1>6, <1>7 DEF Shape, Pages, Warm, Windows, settings
<1>9. ASSUME Fed1 PROVE Fed1'
  <2>1. bot.subscribed
    BY <1>1, <1>9 DEF Fed1, NotJoined
  <2>2. PICK e \in Nat : e <= published + 1 /\ UnderWay(e) /\ Awaited(e)
    BY <1>1, <1>9, <2>1 DEF Fed1, Joined
  <2>3. UnderWay(e)'
    BY <1>1, <1>3, <2>2, TurnTaken
  <2>4. Awaited(e)' /\ e <= published' + 1
    BY <1>1, <1>4, <2>2 DEF Awaited
  <2>5. Chain' /\ NotJoined'
    BY <1>4, <1>9, <2>1 DEF Fed1, Chain, Follows, NotJoined
  <2>6. QED BY <2>3, <2>4, <2>5 DEF Fed1, Joined
<1>10. QED BY <1>7, <1>8, <1>9 DEF HistoryInv, FaultsKept

LEMMA HearSteps ==
  ASSUME HistoryInv,
         HearBar \/ HearOrderUpdate \/ \E side \in {1, -1} : HearSignal(side)
  PROVE  HistoryInv'
<1> USE DEF botVars
<1>1. CASE HearBar
  <2>1. Head(inbox) = inbox[1]
    BY <1>1, TakenOff DEF HistoryInv, Shape, HearBar, Hear
  <2>2. FeedsBar
    BY <1>1, <2>1 DEF HearBar, Hear, FeedsBar, Kline
  <2>3. QED BY <2>2, FeedKeeps
<1>2. ASSUME NEW side \in {1, -1}, HearSignal(side) PROVE HistoryInv'
  <2>1. Head(inbox) = inbox[1]
    BY <1>2, TakenOff DEF HistoryInv, Shape, HearSignal, Hear
  <2>2. FeedsBar
    BY <1>2, <2>1 DEF HearSignal, Hear, FeedsBar, Kline
  <2>3. QED BY <2>2, FeedKeeps
<1>3. QED BY <1>1, <1>2, HearOrderUpdateKeeps

-----------------------------------------------------------------------------
(* Messages are put on their way, or a bar or the engine is lost.          *)

LEMMA SendsKeep ==
  ASSUME HistoryInv, NEW m, IF bot.subscribed THEN PutsOn(m) ELSE UNCHANGED inbox,
         published' \in {published, published + 1},
         UNCHANGED <<start, closed, bot, count>>
  PROVE  HistoryInv'
<1>1. /\ Shape /\ BotShape /\ Pages /\ Warm /\ Bars /\ published \in Nat /\ published' \in Nat
      /\ published <= published'
  BY DEF HistoryInv, Shape
<1>2. Bars'
  BY <1>1, PutOn DEF Bars, Kline
<1>3. FaultsKept /\ CountShape'
  BY <1>1, SameFaults DEF Shape, CountShape
<1>4. Shape' /\ Pages' /\ Warm'
  BY <1>1, <1>2, <1>3 DEF Shape, BotShape, Pages, Warm, Windows, settings
<1>5. ASSUME Fed1 PROVE Fed1'
  <2>1. Chain' /\ NotJoined'
    BY <1>5 DEF Fed1, Chain, Follows, NotJoined
  <2>2. Joined'
    <3>1. SUFFICES ASSUME bot.phase # "down", bot.subscribed PROVE Joined'
      BY DEF Joined
    <3>2. PICK e \in Nat : e <= published + 1 /\ UnderWay(e) /\ Awaited(e)
      BY <1>5, <3>1 DEF Fed1, Joined
    <3>3. UnderWay(e)'
      BY <1>1, <3>1, <3>2, TurnKept
    <3>4. Awaited(e)'
      BY <3>2 DEF Awaited
    <3>5. e <= published' + 1
      <4>1. published \in Nat /\ published' \in Nat /\ published <= published' /\ e \in Nat
        BY <1>1
      <4>2. e <= published + 1
        BY <3>2
      <4>3. \A x, y, z \in Nat : x <= y + 1 /\ y <= z => x <= z + 1
        OBVIOUS
      <4>4. QED BY <4>1, <4>2, <4>3, Zenon
    <3>6. QED BY <3>3, <3>4, <3>5 DEF Joined
  <2>3. QED BY <2>1, <2>2 DEF Fed1
<1>6. QED BY <1>3, <1>4, <1>5 DEF HistoryInv, FaultsKept

LEMMA SendSteps ==
  ASSUME HistoryInv, Publish \/ Deliver
  PROVE  HistoryInv'
<1> USE DEF botVars
<1>1. CASE Publish
  <2> DEFINE m == [kind |-> "kline", bar |-> published + 1, position |-> account.position]
  <2>1. m.kind = "kline" /\ m.bar = published + 1
    OBVIOUS
  <2>2. /\ inbox' = IF bot.subscribed THEN Append(inbox, m) ELSE inbox
        /\ published' = published + 1
        /\ UNCHANGED <<start, closed, bot, count>>
    BY <1>1 DEF Publish, ToBot
  <2> HIDE DEF m
  <2>3. QED BY <2>1, <2>2, SendsKeep DEF PutsOn
<1>2. CASE Deliver
  <2> DEFINE s == Head(stream)
             m == [kind |-> "order_update", status |-> s.status, filled |-> s.filled,
                   reduceOnly |-> s.reduceOnly, reason |-> ""]
  <2>1. m.kind # "kline"
    OBVIOUS
  <2>2. /\ (inbox' = IF bot.subscribed THEN Append(inbox, m) ELSE inbox) \/ UNCHANGED inbox
        /\ UNCHANGED <<start, closed, bot, count, published>>
    BY <1>2 DEF Deliver, ToBot
  <2> HIDE DEF m
  <2>3. CASE inbox' = IF bot.subscribed THEN Append(inbox, m) ELSE inbox
    BY <2>1, <2>2, <2>3, SendsKeep DEF PutsOn
  <2>4. CASE UNCHANGED inbox
    <3>1. FaultsKept
      BY <2>2, SameFaults DEF HistoryInv, Shape, CountShape
    <3>2. QED BY <2>2, <2>4, <3>1, QuietKeeps DEF Quiet
  <2>5. QED BY <2>2, <2>3, <2>4
<1>3. QED BY <1>1, <1>2

\* What the property does not speak of any more.
LEMMA LossSteps ==
  ASSUME HistoryInv, MissBar \/ RestartEngine
  PROVE  HistoryInv'
<1> USE DEF botVars
<1>1. Shape /\ BotShape /\ Pages /\ Warm /\ CountShape
  BY DEF HistoryInv, Shape
<1>2. FaultsKept /\ ~Clean'
  <2>1. PICK kinds \in SUBSET Faults : Fault(kinds) /\ kinds \cap {"engine", "missed"} # {}
    <3>1. CASE MissBar
      BY <3>1 DEF MissBar, Faults
    <3>2. CASE RestartEngine
      BY <3>2 DEF RestartEngine, Faults
    <3>3. QED BY <3>1, <3>2
  <2>2. QED BY <1>1, <2>1, FaultCounted
<1>3. /\ UNCHANGED <<start, closed, inbox>> /\ published' \in Nat
      /\ bot' = bot \/ bot' = [bot EXCEPT !.subscribed = FALSE]
  BY <1>1 DEF MissBar, RestartEngine, Shape
<1>4. /\ bot'.absorbed = bot.absorbed /\ bot'.brain = bot.brain /\ bot'.phase = bot.phase
      /\ bot'.rows = bot.rows /\ bot'.cold = bot.cold /\ bot'.subscribed \in BOOLEAN
      /\ bot'.joined = bot.joined /\ bot'.firstPage = bot.firstPage
  BY <1>1, <1>3 DEF BotShape
<1>5. bot' = [phase |-> bot'.phase, subscribed |-> bot'.subscribed, rows |-> bot'.rows,
              absorbed |-> bot'.absorbed, brain |-> bot'.brain, cold |-> bot'.cold,
              firstPage |-> bot'.firstPage, joined |-> bot'.joined]
  BY <1>1, <1>3 DEF BotShape
<1>6. BotShape'
  BY <1>1, <1>4, <1>5 DEF BotShape
<1>7. Shape' /\ Pages' /\ Warm'
  BY <1>1, <1>2, <1>3, <1>4, <1>6 DEF Shape, FaultsKept, Bars, Kline, Pages, Warm, Windows, settings
<1>8. QED BY <1>2, <1>7 DEF HistoryInv

-----------------------------------------------------------------------------
(* The theorems.                                                           *)

LEMMA HistoryInvInitial == Init => HistoryInv
<1> SUFFICES ASSUME Init PROVE HistoryInv
  OBVIOUS
<1> USE DEF botVars
<1>1. Len(<<>>) = 0 /\ <<>> \in Seq(Nat) /\ <<>> \in Seq({}) /\ DOMAIN <<>> = {}
  OBVIOUS
<1>2. inbox = <<>> /\ bot = NewBot("down") /\ start \in Started
      /\ closed = History /\ published = History
      /\ count = [starts |-> 0, placed |-> 0, faults |-> [k \in Faults |-> 0]]
  BY DEF Init
<1>3. /\ bot.phase = "down" /\ bot.subscribed = FALSE /\ bot.rows = <<>>
      /\ bot.absorbed = <<>> /\ bot.cold = TRUE /\ bot.firstPage = 0 /\ bot.joined = 0
      /\ bot.brain = FreshBrain
  BY <1>2 DEF NewBot
<1>4. Bars
  BY <1>1, <1>2, SeqOfItsRange DEF Bars
<1>5. BotShape
  BY <1>1, <1>2, <1>3 DEF BotShape, NewBot
<1>6. CountShape
  BY <1>2 DEF CountShape
<1>7. Shape /\ Pages /\ Warm
  BY <1>1, <1>2, <1>3, <1>4, <1>5, <1>6, SessionAssumption DEF Shape, Pages, Warm
<1>8. Fed1
  BY <1>1, <1>3 DEF Fed1, Chain, NotJoined, Joined
<1>9. QED BY <1>7, <1>8 DEF HistoryInv

LEMMA HistoryInvStep == HistoryInv /\ [Next]_vars => HistoryInv'
<1> SUFFICES ASSUME HistoryInv, [Next]_vars PROVE HistoryInv'
  OBVIOUS
<1>1. CASE \/ Rx \/ CheckFlat \/ CheckHeld \/ CheckHit
           \/ CloseSent \/ CloseUnanswered \/ CloseRefused
           \/ Exchange \/ Disconnect \/ UNCHANGED vars
  <2>1. Quiet
    BY <1>1, QuietSteps DEF HistoryInv
  <2>2. QED BY <2>1, QuietKeeps
<1>2. CASE StartBot \/ BotDies \/ \E side \in {1, -1} : HearSignalRaises(side)
  BY <1>2, StartsAndEnds
<1>3. CASE FetchPage
  BY <1>3, FetchPageKeeps
<1>4. CASE WarmUp \/ WarmUpFails
  BY <1>4, WarmUpKeeps, WarmUpFailsKeeps
<1>5. CASE HearBar \/ HearOrderUpdate \/ \E side \in {1, -1} : HearSignal(side)
  BY <1>5, HearSteps
<1>6. CASE Subscribe
  BY <1>6, SubscribeKeeps
<1>7. CASE Publish \/ Deliver
  BY <1>7, SendSteps
<1>8. CASE MissBar \/ RestartEngine
  BY <1>8, LossSteps
<1>9. QED BY <1>1, <1>2, <1>3, <1>4, <1>5, <1>6, <1>7, <1>8 DEF Next, Bot, Main, Stream

\* What the bot decides on is the market, bar after bar, but for the one seam between the
\* warm-up and the live bars (zmq_feeder.py:107-170, live_trend_bot.py:182-189).
THEOREM HistoryIsTheMarket == Spec => []HistoryIsMarket
<1>1. HistoryInv => HistoryIsMarket
  BY DEF HistoryInv, Fed1, Chain, Follows, Clean, HistoryIsMarket
<1>2. QED BY <1>1, HistoryInvInitial, HistoryInvStep, PTL DEF Spec

\* A bot that was warmed up from a long enough history decides with full windows of entry,
\* exit and trend (zmq_feeder.py:107-163), however many pages that took.
THEOREM WarmBotIsReady == Spec => []WarmStart
<1>1. HistoryInv => WarmStart
  <2> SUFFICES ASSUME HistoryInv, bot.phase = "listening", ~bot.cold, bot.firstPage >= Windows
               PROVE  Len(bot.absorbed) >= Windows /\ WarmStart
    BY DEF WarmStart, Windows
  <2>1. /\ Len(bot.absorbed) \in Nat /\ bot.firstPage \in Nat /\ start \in Started
        /\ Len(bot.absorbed) >= bot.firstPage \/ Len(bot.absorbed) >= Windows
    BY DEF HistoryInv, Shape, BotShape, Warm
  <2>2. /\ settings.indicators.entry_period \in Nat /\ settings.indicators.exit_period \in Nat
        /\ settings.indicators.ma_period \in Nat /\ Windows \in Nat
        /\ settings.indicators.entry_period <= Windows
        /\ settings.indicators.exit_period <= Windows
        /\ settings.indicators.ma_period <= Windows
    BY <2>1, WindowsAndMemory
  <2>3. Len(bot.absorbed) >= Windows
    BY <2>1, <2>2
  <2>4. QED BY <2>1, <2>2, <2>3 DEF WarmStart, Full
<1>2. QED BY <1>1, HistoryInvInitial, HistoryInvStep, PTL DEF Spec
=============================================================================
