SPECIFICATION Spec
CONSTANTS
    Window = 0
INVARIANTS
    SuccessMeansCommitted
