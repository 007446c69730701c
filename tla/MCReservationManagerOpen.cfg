CONSTANTS
    c1 = c1
    c2 = c2
    c3 = c3
    X = X
    Y = Y
    CoinValue <- MCCoinValue
    CoinAsset <- MCCoinAsset
    ActiveAsset = X
    FundingAmounts = {0, 1, 2}
    MaxReservations = 3
    MaxFaults = 0
SPECIFICATION Spec
INVARIANT
    NoNilDereference
