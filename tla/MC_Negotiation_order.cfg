\* Same bounds as MC_Negotiation: both nodes may start a negotiation with
\* the other, so the two handshakes can cross.
CONSTANTS
    A = A  B = B  C = C  eA = eA  eB = eB  eC = eC  eB2 = eB2
    None = None  NoKey = NoKey
    Nodes = {A, B}
    Endpoints <- TwoEndpoints
    Reach <- TwoReach
    SourceOf <- TwoSource
    Cookies = {c1, c2}
    SlaveNodes = {B}
    Invalidated = {}
    MaxRecords = 2
    MaxSends <- SendsTwo
    MaxDuplicates = 0
SPECIFICATION Spec
INVARIANT SendOrderPreserved
CHECK_DEADLOCK FALSE
