CONSTANTS
    c1 = c1
    c2 = c2
    c3 = c3
    c4 = c4
    X = X
    Y = Y
    CoinValue <- MCCoinValue
    CoinAsset <- MCCoinAsset
    ActiveAsset = X
    Dust = 546
    FundingDust = 8190
    OpReturnScript <- MCOpReturnScript
SPECIFICATION Spec
INVARIANT
    FundingOutputKeepsCapacity
