----------------------------- MODULE MCBacktest -----------------------------
(***************************************************************************)
(* Backtest over four bars: two quiet ones at different levels and two     *)
(* wide ones that reach stops on either side.                              *)
(***************************************************************************)
EXTENDS Backtest

MCBars == {[low |-> 4, high |-> 4, close |-> 4],
           [low |-> 5, high |-> 6, close |-> 5],
           [low |-> 2, high |-> 5, close |-> 4]}
=============================================================================
