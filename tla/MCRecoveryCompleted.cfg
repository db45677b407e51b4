CONSTANTS
    MaxProfile = 1
    Existing = {1}
    Content <- OwnContent
    MaxPoint = 2
    Operations = {"restore"}
SPECIFICATION Spec
PROPERTIES
    CompletedStays
