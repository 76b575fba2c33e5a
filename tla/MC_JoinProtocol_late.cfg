\* A network that loses nothing but may deliver a datagram after any delay
\* (UDP gives no bound), with a bootstrap of the same version.
CONSTANTS
    J = J  B = B  M = M  eJ = eJ  eJnat = eJnat  eB = eB  eM = eM
    None = None
    ProtocolVersion = 1
    PeerVersions = {1}
    PingBurst = 4
    Timeout = 7
    MaxDelay = 2
    Timely = FALSE
    Loss = FALSE
    JoinerBehindNAT = FALSE
SPECIFICATION Spec
INVARIANT JoinedOnlyIfNeverFailed
CHECK_DEADLOCK FALSE
