\* A ring of four cells
SPECIFICATION Spec
CONSTANTS
    Letters = {"a"}
    OutLen = 4
INVARIANT WaitingIsUnsent
