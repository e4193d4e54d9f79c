\* Contracts: two roots, three identities, three drafts, six actions each.
SPECIFICATION Spec
CONSTANTS
    root = root  root2 = root2  a = a  b = b  c = c  d1 = d1  d2 = d2  d3 = d3
    NoKey = NoKey
    NoEvidence = NoEvidence
    Participants <- MCParticipants
    CreatedAt <- MCCreatedAt
    MaxContracts = 2
    MaxVotes = 5
    MaxSequence = 6
    Founding <- MCFounding
    Grants <- MCGrants
    Revocations <- MCRevocations
    Limits = {1, 2}
    Roots = {root, root2}
    Identities = {a, b, c}
    InitialIdentities = {}
    Scopes <- MCScopes
    PublicationNonces = {}
    MaxRevoked = 1
    MaxRotations = 0
INVARIANTS
    TypeOK
    AttestedByMajority
    EntriesKeepTheirOwn
    ActionActsOnce
    RebuildAgrees
    QueryListsFirst
PROPERTIES
    ActorInForce
