\* Two nodes on a flat network, both may send and exit (A one packet, B
\* two), B is a joined slave: it introduces itself after every
\* PublicKeyExchange reply; no route invalidation.  Lossy, reordering
\* network.
CONSTANTS
    A = A  B = B  C = C  eA = eA  eB = eB  eC = eC  eB2 = eB2
    None = None  NoKey = NoKey
    Nodes = {A, B}
    Endpoints <- TwoEndpoints
    Reach <- TwoReach
    SourceOf <- TwoSource
    Cookies = {c1}
    SlaveNodes = {B}
    Invalidated = {}
    MaxRecords = 2
    MaxSends <- SendsOneTwo
    MaxDuplicates = 0
SPECIFICATION Spec
INVARIANT TypeOK
INVARIANT QueuedOnlyWhileNegotiating
PROPERTY QueueEventuallyFlushed
PROPERTY ShutdownEventuallyReady
CHECK_DEADLOCK FALSE
