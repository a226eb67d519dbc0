CONSTANTS
    alice = alice
    bob = bob
    Users <- MCUsers
    Txs <- MCTxs
    TxType <- MCTxType
    Owner <- MCOwner
    Amount <- MCAmount
    MaxFinalize = 2
    MaxRestarts = 1
SPECIFICATION Spec
INVARIANTS
    AppliedOnce
