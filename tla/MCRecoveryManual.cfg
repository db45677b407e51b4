CONSTANTS
    MaxProfile = 2
    Existing = {1}
    Content <- SameContent
    MaxPoint = 3
    Operations = {"restore", "save", "remove", "rename", "cancel"}
SPECIFICATION Spec
PROPERTIES
    ManualKept
