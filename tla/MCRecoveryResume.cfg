CONSTANTS
    MaxProfile = 2
    Existing = {1, 2}
    Content <- SameContent
    MaxPoint = 2
    Operations = {"switch", "delete", "clone"}
SPECIFICATION Spec
INVARIANTS
    TypeOK
    ResumesOnce
