SPECIFICATION Spec
CONSTANTS
    Nodes = {n1, n2, n3}
    SaveFails = {n1}
    Unsaved = {}
    MaxRuns = 2
    MaxRestarts = 0
INVARIANTS
    DkgInv
    KeyAgreement
    KnownStallsOnly
CONSTRAINT RunBound
SYMMETRY Alike
CHECK_DEADLOCK FALSE
