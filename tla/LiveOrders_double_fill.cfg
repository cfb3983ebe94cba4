SPECIFICATION Spec
CONSTANTS
  EntrySpecs <- MCEntrySpecs
  ExitSpec <- MCPythonExitSpec
  Lots = 2
  MaxOrders = 2
  MaxSignals = 1
  MaxFailures = 0
  MaxLost = 0
INVARIANTS NoDoubleFill
