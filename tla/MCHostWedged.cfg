CONSTANTS
    MaxGen = 1
    Operations = {"start", "cancel"}
SPECIFICATION Spec
INVARIANT StoppingHasOwner
