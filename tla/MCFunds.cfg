SPECIFICATION Spec
CONSTANTS
    Deposits = {1, 2}
    Withdrawals = {11, 12}
    Foreign = {21}
    Refused = {12}
    Own = {2}
    Restored = {2}
    Lost = {1}
    Paid <- PaidValue
    Amounts <- AmountValues
    EstimatedFee = 0
    Fee = 1
    Dust = 1
    confirmation_depth = 1
    MaxU32 = 255
    StartHeight = 0
    Mocks = {TRUE, FALSE}
    StartBlocks = {0, 1}
    MaxHeight = 5
INVARIANTS  CreditedWhenDeep WatchedNeverMissed  AccountFollowsBitcoin ShortByFeeOnly
CHECK_DEADLOCK FALSE
