CONSTANTS
    Alice = A
    Bob = B
    A = A
    B = B
    InitialBalance <- MCInitialBalance
    Hashes = {H1}
    Amounts = {1}
    NoHash = NoHash
    MaxHTLCs = 1
    InitialRevocationWindow = 1
    MaxFaults = 0
    Closers = {A, B}
    MaxRestarts = 0
SPECIFICATION FairSpec
INVARIANTS
    TypeOK
    CommitmentBalanced
    NoHonestRejection
    RevocationAccepted
    SettlesMatchAdds
    WindowBudget
    CloseAgreement
PROPERTIES
    LedgerRefinement
    EventuallySynced
