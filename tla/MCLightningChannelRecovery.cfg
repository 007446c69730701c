CONSTANTS
    Alice = A
    Bob = B
    A = A
    B = B
    InitialBalance <- MCInitialBalance
    Hashes = {H1}
    Amounts = {1}
    NoHash = NoHash
    MaxHTLCs = 1
    InitialRevocationWindow = 1
    MaxFaults = 1
    Closers = {}
    MaxRestarts = 1
SPECIFICATION Spec
INVARIANTS
    NoRevealedCommitment
