SPECIFICATION Spec
CONSTANTS
  EntrySpecs <- MCEntrySpecs
  ExitSpec <- MCPythonExitSpec
  Lots = 1
  MaxOrders = 3
  MaxSignals = 2
  MaxFailures = 0
  MaxLost = 0
INVARIANTS OneEntryAtATime
