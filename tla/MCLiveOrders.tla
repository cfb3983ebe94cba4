---------------------------- MODULE MCLiveOrders ----------------------------
EXTENDS LiveOrders

Timed(policy, max) == [policy |-> policy, timed |-> TRUE, max |-> max]

\* Every action of the engine's timeout, a chase that may go on and one that may not,
\* and a chase as Python spells it.
MCEntrySpecs == {Timed("REPRICE", 0), Timed("REPRICE", 1), Timed("MARKET", 2),
                 Timed("reprice", 1)}

\* DEFAULT_ENTRY_EXECUTION and DEFAULT_EXIT_EXECUTION as Python writes them.
MCPythonEntrySpecs == {[policy |-> "cancel", timed |-> FALSE, max |-> 2]}
MCPythonExitSpec == Timed("market", 2)
=============================================================================
