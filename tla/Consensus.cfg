SPECIFICATION Spec
CONSTANTS
    Validators = {0, 1}
    Txs = {t1}
    Fallible = {t1}
    MaxRound = 4
INVARIANTS
    OneLeaderPerRound
    PrevoteBacksTheLeader
    VotesAreJustified
    ReceivedTxExactlyOnce
    ConsensusInv
PROPERTIES
    AtMostOneBlockPerRound
CHECK_DEADLOCK FALSE
