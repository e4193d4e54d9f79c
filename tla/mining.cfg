\* The mining service over a pool of six entries and bodies of three.
SPECIFICATION Spec
CONSTANTS
    m1 = m1  m2 = m2  w1 = w1  w2 = w2  n1 = n1
    root = root  a1 = a1  sc = sc  pn = pn
    NoWallet = NoWallet
    ForeignId = ForeignId
    Miners = {m1, m2}
    Wallets = {w1, w2}
    Nonces = {n1}
    ShareUnits = 1
    BlockUnits = 2
    MaxUnits = 20
    RewardCapacity = 5
    Roots = {root}
    Identities = {a1}
    InitialIdentities = {}
    Scopes = {sc}
    PublicationNonces = {pn}
    MaxRevoked = 1
    MaxRotations = 0
    Genesis <- MCGenesis
    ActivationHeight = 1
    Offers <- MCOffers
    IdOf <- MCIdOf
    MaxEntries = 6
    MaxBody = 3
    Endorsed = {}
    Submitted <- MCSubmitted
    Solutions <- MCSolutions
    Branches <- MCBranches
    Times = {0, 2}
    MaxHeight = 3
INVARIANTS
    TemplateConsensus
    TemplatePaysOnce
PROPERTIES
    PairsWhole
    PoolFollowsAccepted
    RoomForReward
CHECK_DEADLOCK FALSE
