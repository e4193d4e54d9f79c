SPECIFICATION Spec
CONSTANTS
    n1 = n1
    n2 = n2
    g = g
    a = a
    b = b
    c = c
    NoNode = NoNode
    Genesis = g
    Nodes <- MCNodes
    Blocks <- MCBlocks
    Valid <- MCValid
    Work <- MCWork
    Deferred <- MCDeferred
INVARIANTS
    TypeOK
    ReadIsStillCurrent
PROPERTIES
    HistoryOnlyGrows
    DurableBeforeVisible
    LeftStagingFailsClosed
    LockReturns
