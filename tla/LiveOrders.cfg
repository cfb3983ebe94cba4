SPECIFICATION FairSpec
CONSTANTS
  EntrySpecs <- MCEntrySpecs
  ExitSpec <- MCPythonExitSpec
  Lots = 1
  MaxOrders = 2
  MaxSignals = 1
  MaxFailures = 1
  MaxLost = 1
INVARIANTS TypeOK OneLiveOrderPerChain  ReportedEndIsTrue
PROPERTIES TimedOrdersSettle
