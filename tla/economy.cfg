\* Economic rules of consensus: histories of up to four blocks.
SPECIFICATION Spec
CONSTANTS
    m1 = m1  m2 = m2  w1 = w1  w2 = w2  n1 = n1  n2 = n2
    NoWallet = NoWallet
    ForeignId = ForeignId
    MaxHeight = 3
    Miners <- MCMiners
    Wallets <- MCWallets
    Nonces <- MCNonces
    ShareUnits = 1
    BlockUnits = 2
    MaxUnits = 5
    RewardCapacity = 2
    Roots = {}
    Identities = {}
    InitialIdentities = {}
    Scopes = {}
    PublicationNonces = {}
    MaxRevoked = 0
    MaxRotations = 0
    Genesis <- MCGenesis
    ActivationHeight = 1
    Offers <- MCOffers
INVARIANTS
    TypeOK
    SupplyIsAccounted
    EvidenceActsOnce
    IssuanceHasEvidence
    PaidToFirstDestination
    EntryPointsAgree
    AcceptedStateReplays
