SPECIFICATION Spec
CONSTANTS
    s1 = s1
    s2 = s2
    g = g
    a = a
    b = b
    c = c
    e = e
    r = r
    NoStage = NoStage
    Genesis = g
    Blocks <- MCBlocks
    Valid <- MCValid
    Work <- MCWork
    Deferred <- MCDeferred
    Rewarded <- MCRewarded
    Endpoints <- MCEndpoints
    Configured <- MCConfigured
    Own = 1
    Self = {}
    Known <- MCKnown
    Foreign <- MCForeign
    Unstable <- MCUnstable
    CandidateMax = 3
    PageSize = 2
    MaxBlocks = 3
    Clients <- MCClients
    Targets <- MCTargets
    MaxStage = 2
PROPERTIES
    PreferredAdopted
