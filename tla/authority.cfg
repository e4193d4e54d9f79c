\* Authority rules of consensus: histories of up to four blocks.
SPECIFICATION Spec
CONSTANTS
    r = r  r2 = r2  a = a  b = b  c = c  s = s  p1 = p1
    NoWallet = NoWallet
    ForeignId = ForeignId
    MaxHeight = 3
    Miners = {}
    Wallets = {}
    Nonces = {}
    ShareUnits = 1
    BlockUnits = 100
    MaxUnits = 0
    RewardCapacity = 0
    Roots <- MCRoots
    Identities <- MCIdentities
    InitialIdentities <- MCInitial
    Scopes <- MCScopes
    PublicationNonces <- MCNonces
    MaxRevoked = 1
    MaxRotations = 2
    Genesis <- MCGenesis
    ActivationHeight = 2
    Offers <- MCOffers
INVARIANTS
    AuthorityActsOnce
    PublicationAuthorized
    RetiredIdentitySilent
