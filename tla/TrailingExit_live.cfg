SPECIFICATION Spec
CONSTANTS
  BarSet <- MCBars
  Period = 2
  ObserveFirst = FALSE
  Modes = {"donchian", "moving_average"}
  MaxBars = 6
INVARIANTS
  TypeOK
  WindowIsRecentHistory
  ParityWithLabeler
  NeverExitsBeforeLabeler
PROPERTIES
  RatchetSpec
CHECK_DEADLOCK FALSE
