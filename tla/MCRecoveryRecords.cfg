CONSTANTS
    MaxProfile = 2
    Existing = {1, 2}
    Content <- OwnContent
    MaxPoint = 3
    Operations = {"switch", "drift"}
SPECIFICATION Spec
INVARIANTS
    
    RecordIsAccepted
PROPERTIES
    SavedIsOnDisk
