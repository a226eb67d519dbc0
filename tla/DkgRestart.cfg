SPECIFICATION Spec
CONSTANTS
    Nodes = {n1, n2}
    SaveFails = {n1}
    Unsaved = {n2}
    MaxRuns = 3
    MaxRestarts = 2
INVARIANTS
    KeysDurable
PROPERTIES
    KeysEndTheRuns
CONSTRAINT RunBound
CHECK_DEADLOCK FALSE
