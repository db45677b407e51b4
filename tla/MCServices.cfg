CONSTANTS
    AutoCalls = {c1, c2}
    MaxEpoch = 3
    MaxPreps = 2
    MaxEntries = 2
    Conns = {"n1", "n2", "n3"}
    Profiles = {"a", "b"}
    Bindings = {"b1", "b2"}
    Routes = {"r1"}
    MaxBrowserEpoch = 5
    Tools = {"t1", "t2"}
    MaxTurns = 2
    MaxEvents = 1
    Sessions = {"s1"}
    Uses = {"u1", "u2"}
    MaxLives = 2
    MaxSnapshots = 2
    MaxStops = 1
    MaxGiveUps = 1
    Managed = {1}
    System = 3
    Nodes = {1}
    Directories = {1}
    MaxInstalls = 2
    MaxOperations = 4
    MaxCatalogCrashes = 1
    MaxDrifts = 1
    HoldCompleted = 3
    HoldFailed = 5
    IdleWait = 3
    MaxAge = 16
    MaxPetEvents = 4
    PetKeys = {"k1", "k2"}
    PetVersions = {0, 1, 2}
    Unrenderable = {2}
    PetSizes = {1, 2}
    MaxCached = 1
    MaxEdits = 1
    MaxPetGen = 1
    MaxPetCalls = 2
    Policies <- SomePolicies
    UseSession <- OneSession
    Contexts <- SomeContexts
    Packages <- SomePackages
SPECIFICATION ServicesSpec
SYMMETRY ServicesSymmetry
INVARIANTS
    ServicesTypeOK
    CapabilitiesEnd
    ConsentHolds
    CatalogIsTrue
    

    
\* The bounds on calls, failures and crashes end every behaviour.
CHECK_DEADLOCK FALSE
