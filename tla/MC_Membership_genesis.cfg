\* The design's genesis, grown by one node: A creates a network with
\* divisor 1 and B and C join through A, so every node is a master.  The
\* packets from one node to another arrive in the order they were sent
\* (spec 5); nobody exits, asks for a route or loses a datagram.
CONSTANTS
    A = A  B = B  C = C  D = D
    Nodes = {A, B, C}
    Founder = A
    Bootstraps = {A}
    NatNodes = {}
    NetworkDivisor = 1
    MaxExits = 0
    MaxRouteRequests = 0
    Ordered = TRUE
SPECIFICATION FairSpec
PROPERTY MastersKnown
CHECK_DEADLOCK FALSE
