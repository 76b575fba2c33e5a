\* A bootstrap node of another protocol version, on a reliable timely network.
CONSTANTS
    J = J  B = B  M = M  eJ = eJ  eJnat = eJnat  eB = eB  eM = eM
    None = None
    ProtocolVersion = 1
    PeerVersions = {2}
    PingBurst = 4
    Timeout = 7
    MaxDelay = 2
    Timely = TRUE
    Loss = FALSE
    JoinerBehindNAT = FALSE
SPECIFICATION Spec
PROPERTY FailureIsFinal
CHECK_DEADLOCK FALSE
