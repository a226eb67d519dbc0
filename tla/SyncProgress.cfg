SPECIFICATION SyncSpec
CONSTANTS
    Validators = {0, 1, 2, 3}
    Txs = {}
    Fallible = {}
    MaxRound = 6
PROPERTY FirstBlockEverywhere
CHECK_DEADLOCK FALSE
