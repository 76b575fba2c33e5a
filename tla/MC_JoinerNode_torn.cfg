\* The node crashes once while writeToFile is writing rsa_key, and is
\* started again.
CONSTANTS
    J = J  B = B  M = M  eJ = eJ  eJnat = eJnat  eB = eB  eM = eM
    None = None
    NoFile = NoFile
    Keys <- MCKeys
    NodeOptions = {TRUE}
    CrashPhases = {"writing"}
    MaxCrashes = 1
    ProtocolVersion = 1
    PeerVersions = {1, 2}
    PingBurst = 4
    Timeout = 7
    MaxDelay = 2
    Timely = TRUE
    Loss = TRUE
    JoinerBehindNAT = TRUE
SPECIFICATION NodeSpec
PROPERTY KeyFileLoadsGeneratedKey
CHECK_DEADLOCK FALSE
