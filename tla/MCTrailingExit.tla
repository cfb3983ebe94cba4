--------------------------- MODULE MCTrailingExit ---------------------------
(***************************************************************************)
(* TrailingExit over three prices.  All are even, so that the mean of two  *)
(* closes is exact.  The bars are chosen so that the channel rises, falls  *)
(* and gaps through a stop on either side.                                 *)
(***************************************************************************)
EXTENDS TrailingExit

MCBars == {[low |-> 2, high |-> 4, close |-> 4],
           [low |-> 2, high |-> 2, close |-> 2],
           [low |-> 4, high |-> 6, close |-> 4],
           [low |-> 6, high |-> 6, close |-> 6],
           [low |-> 4, high |-> 4, close |-> 4]}
=============================================================================
