SPECIFICATION Spec
CONSTANTS
    n1 = n1
    n2 = n2
    n3 = n3
    n4 = n4
    Nodes <- MCNodes
    min_signers = 3
    SignIds = {1, 2, 3}
    Coordinator <- MCCoordinator
    Spends = {1, 3}
    Refused = {3}
INVARIANTS
    SigningInv
    NoncesSignOnce
    NeverPanics
    SpendInOnePlace
    QuietMeansDone
    LoneSessionCompletes
CHECK_DEADLOCK FALSE
