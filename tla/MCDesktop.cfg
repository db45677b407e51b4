CONSTANTS
    Requests = {"r1", "r2"}
    Calls = {"c1"}
    Channels = {"stable", "beta"}
    Runners = {"r1", "r2"}
    Switchers = {"s1"}
    MaxSwitches = 1
    Publishers = {"p1", "p2"}
    MaxValues = 4
    MaxTimers = 2
    Surfaces = {"workspace", "workspace-2"}
    Instances = {"i1", "i2"}
    Sessions = {"s1"}
    Keys = {"k1", "k2"}
    MaxRemembered = 1
    MaxReports = 2
    QueueLimit = 2
    FocusQueue = 2
    MaxUICommands = 3
    MaxFocusEvents = 4
    MaxLaunches = 2
    Callers = {s1, s2}
    MaxSets = 3
    MaxCrashes = 1
    Roots = {"A", "B"}
    Datas = {"X", "Y"}
    DefaultRoot = "A"
    DefaultData = "X"
    Daemons = {d1, d2}
    Clis = {"c1"}
    Purges = {"u1"}
    MaxSaves = 1
    MaxKills = 1
    Openers = {"o1"}
    MaxGenerations = 2
    MaxRuns = 2
    MaxNavigations = 2
    MaxRetries = 1
    Procs = {"root", "child", "grandchild"}
    Root = "root"
    MaxOutput = 1
    MaxHostStops = 2
    SourceKeys = {"x", "y"}
    OwnKeys = {"y"}
    SourceSpaces <- ImportedSpaces
    OwnSpaces <- ManagedSpaces
    FreshIds = {5, 6, 7, 8, 9, 10}
    MaxImports = 3
    MaxFailures = 2
    First = 0
    CloneNames = {1, 2}
    RestoredNames = {3}
    Files = {1, 2, 3}
    MaxProfileOps = 4
    MaxProfileCrashes = 1
    RuntimeOps = {r1, r2}
    PluginOps = {"p1"}
    HasMirror = TRUE
    Frames <- SomeFrames
SPECIFICATION DesktopSpec
SYMMETRY DesktopSymmetry
CONSTRAINT DesktopConstraint
INVARIANTS
    DesktopTypeOK
    ExitIsOrderly
    
    ActivityIsTrue
    JobIsContained
    DataIsKept
    ProfilesAreKept
PROPERTIES
    StepsKeepPromises
\* The bounds on calls, failures and crashes end every behaviour.
CHECK_DEADLOCK FALSE
