SPECIFICATION FairSpec
CONSTANTS
    c1 = c1
    c2 = c2
    n1 = n1
    n2 = n2
    Clients <- TwoClients
    NoClient = NoClient
    Nonces <- TwoNonces
    NonceLimit = 1
    Backlog = 1
    MaxLife = 1
    MaxNow = 2
    MaxStarts = 2
INVARIANTS
    GrantsAreEarned
    LockIsNeverLeaked
    SingleUseInOneLife
PROPERTIES
    ImplementsService
    EverybodyIsAnswered
CHECK_DEADLOCK FALSE
