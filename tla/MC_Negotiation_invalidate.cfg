\* Two nodes; a master may order A to invalidate its route to B while A
\* exits.
CONSTANTS
    A = A  B = B  C = C  eA = eA  eB = eB  eC = eC  eB2 = eB2
    None = None  NoKey = NoKey
    Nodes = {A, B}
    Endpoints <- TwoEndpoints
    Reach <- TwoReach
    SourceOf <- TwoSource
    Cookies = {c1}
    SlaveNodes = {}
    Invalidated = {eB}
    MaxRecords = 2
    MaxSends <- SendsOne
    MaxDuplicates = 0
SPECIFICATION Spec
PROPERTY ShutdownEventuallyReady
CHECK_DEADLOCK FALSE
