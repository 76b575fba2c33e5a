\* Four nodes: A founded the network with divisor 2, B and C are public,
\* D is behind a NAT.  Joiners are given A's or D's address; one node may
\* exit, one slave may ask for a route; no datagram is lost, and packets
\* between two nodes may arrive in any order.
CONSTANTS
    A = A  B = B  C = C  D = D
    Nodes = {A, B, C, D}
    Founder = A
    Bootstraps = {A, D}
    NatNodes = {D}
    NetworkDivisor = 2
    MaxExits = 1
    MaxRouteRequests = 1
    Ordered = FALSE
SYMMETRY PublicJoiners
SPECIFICATION Spec
INVARIANT TypeOK
INVARIANT NatNeverRoutedAsMaster
\* Every process may stop, and the network then falls silent.
CHECK_DEADLOCK FALSE
