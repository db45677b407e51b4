CONSTANTS
    MaxGen = 2
    Operations = {"start", "switch", "restart", "cancel"}
SPECIFICATION Spec
INVARIANTS
    TypeOK
    WorkerIsOwned
    NoOverlap
    CurrentContextIsOwned
    
