\* A node that generates its key pair, may crash while generating or after
\* writing it and is started again, then joins from behind a NAT over a
\* network that loses datagrams, with a bootstrap of either version.
CONSTANTS
    J = J  B = B  M = M  eJ = eJ  eJnat = eJnat  eB = eB  eM = eM
    None = None
    NoFile = NoFile
    Keys <- MCKeys2
    NodeOptions = {FALSE, TRUE}
    CrashPhases = {"generating", "ready"}
    MaxCrashes = 2
    ProtocolVersion = 1
    PeerVersions = {1, 2}
    PingBurst = 4
    Timeout = 7
    MaxDelay = 2
    Timely = TRUE
    Loss = TRUE
    JoinerBehindNAT = TRUE
SPECIFICATION NodeSpec
INVARIANT NodeTypeOK
INVARIANT CryptRoundTrip
INVARIANT SelfEndpointObserved
INVARIANT JoinedOnlyIfNeverFailed
PROPERTY JoinEventuallyEnds
PROPERTY KeyFileLoadsGeneratedKey
CHECK_DEADLOCK FALSE
