---------------------------- MODULE RatchetStop -----------------------------
(***************************************************************************)
(* What trailing_stop.h promises of a protective stop, with no indicator,  *)
(* no window and no arithmetic on levels: a position is closed on the      *)
(* first bar that reaches the stop in force, and until then the stop only  *)
(* moves in the position's favour.                                         *)
(***************************************************************************)
EXTENDS Integers

CONSTANT BarSet     \* the bars the market may print: [low, high, close]

VARIABLES
  side,     \* 1 long, -1 short, 0 flat
  stop,     \* the stop in force for the next bar, 0 when flat
  bar       \* the last bar printed

vars == <<side, stop, bar>>

Reached(b) == \/ side > 0 /\ b.low <= stop
              \/ side < 0 /\ b.high >= stop

AtLeastAsTight(new) == \/ side > 0 /\ new >= stop
                       \/ side < 0 /\ new <= stop

Init == side = 0 /\ stop = 0 /\ bar \in BarSet

\* A position is opened between two bars.
Open == /\ side = 0
        /\ side' \in {-1, 1}
        /\ stop' \in Nat
        /\ bar' = bar

\* A bar is printed while there is no position.
Idle == /\ side = 0
        /\ bar' \in BarSet
        /\ UNCHANGED <<side, stop>>

\* A bar that does not reach the stop may tighten it.
Hold == /\ side # 0
        /\ bar' \in BarSet
        /\ ~Reached(bar')
        /\ stop' \in Nat /\ AtLeastAsTight(stop')
        /\ side' = side

\* The bar that reaches the stop closes the position.
Close == /\ side # 0
         /\ bar' \in BarSet
         /\ Reached(bar')
         /\ side' = 0 /\ stop' = 0

Next == Open \/ Idle \/ Hold \/ Close

Spec == Init /\ [][Next]_vars
=============================================================================
