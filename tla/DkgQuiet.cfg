SPECIFICATION Spec
CONSTANTS
    Nodes = {n1, n2, n3}
    SaveFails = {}
    Unsaved = {}
    MaxRuns = 2
    MaxRestarts = 0
INVARIANTS
    CompletedWhenQuiet
CONSTRAINT RunBound
SYMMETRY Alike
CHECK_DEADLOCK FALSE
