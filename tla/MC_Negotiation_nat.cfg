\* Three nodes: A and B behind one NAT (A knows B at eB, B's datagrams
\* reach A from eB2), C on the flat network.  Every node may send two
\* packets and qrand() returns the same cookie every time, so both the
\* handshake of spec scenario 5 and two handshakes pending at one node
\* under one cookie are in the model.
CONSTANTS
    A = A  B = B  C = C  eA = eA  eB = eB  eC = eC  eB2 = eB2
    None = None  NoKey = NoKey
    Nodes = {A, B, C}
    Endpoints <- NatThreeEndpoints
    Reach <- NatThreeReach
    SourceOf <- NatThreeSource
    Cookies = {c1}
    SlaveNodes = {}
    Invalidated = {}
    MaxRecords = 3
    MaxSends <- SendsTwo
    MaxDuplicates = 0
SPECIFICATION Spec
INVARIANT UniqueEndpoints
CHECK_DEADLOCK FALSE
