SPECIFICATION EngineFairSpec
CONSTANTS
  EntrySpecs <- MCPythonEntrySpecs
  ExitSpec <- MCPythonExitSpec
  Lots = 1
  MaxOrders = 2
  MaxSignals = 1
  MaxFailures = 0
  MaxLost = 0
PROPERTIES EndedOrdersSettle
