SPECIFICATION Spec
CONSTANTS
    root = root
    p = p
    q = q
    x = x
    n1 = n1
    n2 = n2
    g = g
    a = a
    b = b
    b2 = b2
    d = d
    u = u
    e = e
    t = t
    rpc = rpc
    host = host
    NoCursor = NoCursor
    Genesis = g
    Blocks <- MCBlocks
    Valid <- MCValid
    Work <- MCWork
    Deferred <- MCDeferred
    Roots <- MCRoots
    Identities <- MCIdentities
    InitialIdentities <- MCIdentities
    Scopes <- MCScopes
    PublicationNonces <- MCNonces
    MaxRevoked = 4
    MaxRotations = 4
    Others <- MCOthers
    Content <- MCContent
    Activation = 2
    Consumers <- MCConsumers
    Keepers <- MCKeepers
INVARIANTS
    SeenIsAccepted
    InfoIsAccepted
PROPERTIES
    ConsumersCatchUp
