CONSTANTS
    MaxGen = 3
    Operations = {"start", "switch", "shutdown"}
SPECIFICATION Spec
INVARIANTS
    ShutdownLeavesNoWorker
PROPERTIES
    HandoverAfterCleanup
    ImplementsOwnership
\* The Host stops for good once ShutdownForApp has returned.
CHECK_DEADLOCK FALSE
