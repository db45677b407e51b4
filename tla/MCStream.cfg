CONSTANTS
    Generation = {g1, g2, g3}
    NoSession = NoSession
    Topics = {"lifecycle"}
    Values = {"a", "b"}
    MaxConns = 2
    MaxSets = 1
    MaxCommands = 1
    SubscriberBuffer = 1
    CommandBuffer = 1
    PipeBuffer = 1
SPECIFICATION StreamSpec
INVARIANTS
    StreamTypeOK
    CurrentIsOpen
    StreamDelivers
PROPERTIES
    OnlyOwnCloseRetracts
    CancelledLeaves
    ReplacedIsSilent
    TakeoverServed
CHECK_DEADLOCK FALSE
