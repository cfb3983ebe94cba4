SPECIFICATION Spec
CONSTANTS
  BarSet <- MCBars
  Stops = {0, 3, 6}
  WireType = "market"
  Period = 2
  InitialBalance = 80
  RiskShare = 2
  Leverage = 1
  Cents = 10
  Slip = 1
  FeeRate = 1
  MaxBars = 4
  MaxPings = 2
INVARIANT
  OrdersAppliedFirst
CHECK_DEADLOCK FALSE
