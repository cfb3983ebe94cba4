SPECIFICATION Spec
CONSTANTS
  Default <- MCDefault
  Started <- MCStarted
  History = 8
  Batch = 4
  MaxBars = 3
  MaxLag = 1
  MaxStarts = 2
  MaxFaults = 1
PROPERTY
  ConfiguredBotTrades
CHECK_DEADLOCK FALSE
