CONSTANTS
    MaxGen = 3
    Operations = {"start", "mutate", "restore", "recover", "fault"}
SPECIFICATION Spec
INVARIANTS
    RecoverySparesNewer
    ReadyIsCommitted
