CONSTANTS
    MaxGen = 1
    Operations = {"start", "restart", "quit", "shutdown"}
SPECIFICATION Spec
PROPERTIES
    StopEnds
    CallsReturn
    ShutdownAnswers
\* The Host stops for good once ShutdownForApp has returned.
CHECK_DEADLOCK FALSE
