SPECIFICATION Spec
CONSTANTS
  BarSet <- MCBars
  Period = 2
  ObserveFirst = TRUE
  Modes = {"donchian", "moving_average"}
  MaxBars = 6
INVARIANTS
  ParityWithLabeler
CHECK_DEADLOCK FALSE
