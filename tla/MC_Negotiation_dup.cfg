\* Two nodes, one packet each, both masters (no IntroducePacket); a master
\* may order A to invalidate its route to B at any time, after which A may
\* contact B again through a new record.  The transport may lose, reorder
\* and duplicate datagrams (one redelivery in a behaviour), and a single
\* cookie value is reused by every exchange.
CONSTANTS
    A = A  B = B  C = C  eA = eA  eB = eB  eC = eC  eB2 = eB2
    None = None  NoKey = NoKey
    Nodes = {A, B}
    Endpoints <- TwoEndpoints
    Reach <- TwoReach
    SourceOf <- TwoSource
    Cookies = {c1}
    SlaveNodes = {}
    Invalidated = {eB}
    MaxRecords = 2
    MaxSends <- SendsOne
    MaxDuplicates = 1
SPECIFICATION Spec
INVARIANT QueuedOnlyWhileNegotiating
PROPERTY QueueEventuallyFlushed
PROPERTY ShutdownReadyUnlessDangling
CHECK_DEADLOCK FALSE
