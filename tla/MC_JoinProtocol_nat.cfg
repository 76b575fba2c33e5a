\* A joiner behind a NAT on a network that loses nothing and delivers every
\* datagram within two ticks; the timers are worth seven ticks (more than the three
\* hops of the ping exchange).
CONSTANTS
    J = J  B = B  M = M  eJ = eJ  eJnat = eJnat  eB = eB  eM = eM
    None = None
    ProtocolVersion = 1
    PeerVersions = {1}
    PingBurst = 4
    Timeout = 7
    MaxDelay = 2
    Timely = TRUE
    Loss = FALSE
    JoinerBehindNAT = TRUE
SPECIFICATION Spec
PROPERTY JoinSucceeds
CHECK_DEADLOCK FALSE
