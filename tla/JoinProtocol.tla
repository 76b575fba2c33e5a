---------------------------- MODULE JoinProtocol ----------------------------
(***************************************************************************)
(* The client side of Sparkle's join (LinkLayer.cpp: joinNetwork,          *)
(* handleProtocolVersionReply, handleMasterNodeReply, handlePing,          *)
(* pingTimeout, joinGotPinged, handleRegisterReply, joinTimeout,           *)
(* revertJoin) against a bootstrap node B and a second master M that run   *)
(* the same code's request handlers.                                       *)
(*                                                                         *)
(* Time is discrete.  The join timer and the ping timer count down one     *)
(* per Tick; a datagram is delivered at least one tick after it is sent    *)
(* and, when Timely, at most MaxDelay ticks after (Tick waits for it).     *)
(* The handshake that sendEncryptedPacket runs before the first encrypted  *)
(* packet to a peer (module Negotiation) is folded into that latency: the  *)
(* joiner holds session keys for every live record it has sent encrypted   *)
(* packets to.  A record is identified by endpoint and generation;         *)
(* revertJoin deletes every record, so it starts a new generation and      *)
(* pointers of the old one (joinMaster, a handler's node) dangle.          *)
(***************************************************************************)
EXTENDS Integers, FiniteSets, TLC

CONSTANTS
    J, B, M,            \* the joining node, the bootstrap node, another master
    eJ, eJnat, eB, eM,  \* J's own endpoint, J's endpoint behind its NAT, B, M
    None,
    ProtocolVersion,    \* the joiner's compile-time protocol version
    PeerVersions,       \* versions the bootstrap's build may speak
    PingBurst,          \* joinPingsEmitted and the PingRequest count (4)
    Timeout,            \* joinTimer and pingTimer interval, in ticks
    MaxDelay,           \* worst-case latency of a datagram, in ticks
    Timely,             \* every datagram not lost arrives within MaxDelay
    Loss,               \* the network may lose datagrams
    JoinerBehindNAT     \* J sits behind a NAT that drops unsolicited packets

ASSUME PingBurst \in 1..16 /\ Timeout \in Nat \ {0} /\ MaxDelay \in Nat \ {0}
ASSUME {Timely, Loss, JoinerBehindNAT} \subseteq BOOLEAN

Peers == {B, M}
EpOf == (B :> eB) @@ (M :> eM)
NodeAt(ep) == CHOOSE p \in Peers : EpOf[p] = ep
\* The endpoint the peers see J at.
JView == IF JoinerBehindNAT THEN eJnat ELSE eJ

Off == -1
Steps == {"Unset", "JoinVersionRequest", "JoinMasterNodeRequest",
          "JoinAwaitingPings", "JoinRegistration", "JoinFinished"}
EncTypes == {"MasterNodeRequest", "MasterNodeReply", "PingRequest",
             "PingInitiate", "RegisterRequest", "RegisterReply"}
Types == EncTypes \cup {"ProtocolVersionRequest", "ProtocolVersionReply", "Ping"}
\* Each handler of J deletes all records at most once per failure; two
\* failures are the most any behaviour reaches (see README).
MaxGen == 2
Message == [type : Types, from : Peers \cup {J}, to : Peers \cup {J},
            addr : {eJ, eJnat, eB, eM, None}, ver : PeerVersions \cup {0},
            nat : BOOLEAN, n : 0..PingBurst, d : 0..MaxDelay]

Msg(type, from, to, addr, ver, nat, n) ==
    [type |-> type, from |-> from, to |-> to, addr |-> addr, ver |-> ver,
     nat |-> nat, n |-> n, d |-> 0]

VARIABLES
    joinStep, forceBehindNAT, joinMaster, joinPing, joinPingsArrived,
    joinTimer, pingTimer,
    spool,      \* endpoints with a record of the current generation
    gen,        \* generation of the records (revertJoins so far)
    keyed,      \* endpoints whose current record has session keys
    selfEp,     \* the endpoint of router.getSelfNode()
    joined,     \* joined(self) was emitted
    failed,     \* number of joinFailed emissions
    opened,     \* peers J's NAT lets through (J has sent to them)
    net

vars == <<joinStep, forceBehindNAT, joinMaster, joinPing, joinPingsArrived,
          joinTimer, pingTimer, spool, gen, keyed, selfEp, joined, failed,
          opened, net>>
joinVars == <<joinStep, forceBehindNAT, joinMaster, joinPing, joinPingsArrived>>

Record(ep) == <<ep, gen>>
-----------------------------------------------------------------------------
(* The joiner's sends.  A send reaches the wire also through a dangling    *)
(* record (the freed object still holds the endpoint); only a live record  *)
(* gets session keys.                                                      *)
SendFromJ(base, r, type, addr, nat, g, kd) ==
    /\ net' = base \cup {Msg(type, J, NodeAt(r[1]), addr, 0, nat, 0)}
    /\ opened' = opened \cup {NodeAt(r[1])}
    /\ keyed' = IF type \in EncTypes /\ r[2] = g THEN kd \cup {r[1]} ELSE kd

\* revertJoin: delete every record, clear the router, queues and cookies.
\* joinStep and the timers are left as they are.
RevertJoin ==
    /\ gen' = gen + 1
    /\ spool' = {}
    /\ selfEp' = None

Init ==
    /\ joinStep = "Unset"
    /\ forceBehindNAT = FALSE
    /\ joinMaster = None
    /\ joinPing = None
    /\ joinPingsArrived = 0
    /\ joinTimer = Off
    /\ pingTimer = Off
    /\ spool = {}
    /\ gen = 0
    /\ keyed = {}
    /\ selfEp = None
    /\ joined = FALSE
    /\ failed = 0
    /\ opened = {}
    /\ net = {}

\* joinNetwork(bootstrap, forceBehindNAT).
JoinNetwork ==
    /\ joinStep = "Unset"
    /\ \E f \in BOOLEAN : forceBehindNAT' = f
    /\ joinStep' = "JoinVersionRequest"
    /\ spool' = {eB}
    /\ SendFromJ(net, Record(eB), "ProtocolVersionRequest", None, FALSE, gen, keyed)
    /\ joinTimer' = Timeout
    /\ UNCHANGED <<joinMaster, joinPing, joinPingsArrived, pingTimer, gen,
                   selfEp, joined, failed>>

-----------------------------------------------------------------------------
(* Datagrams arriving at J.  handlePacket wraps the sender first; an       *)
(* encrypted packet from a record without keys is dropped there.           *)

Arrives(m) == /\ m \in net /\ m.d >= 1 /\ m.to = J
              /\ (JoinerBehindNAT => m.from \in opened)
From(m) == EpOf[m.from]
\* Only handlePacket's wrapNode of the sender takes effect.
Dropped(m) ==
    /\ spool' = spool \cup {From(m)}
    /\ net' = net \ {m}
    /\ UNCHANGED <<joinVars, joinTimer, pingTimer, gen, keyed, selfEp, joined,
                   failed, opened>>

HandleUnkeyed(m) ==
    /\ Arrives(m) /\ m.type \in EncTypes /\ From(m) \notin keyed
    /\ Dropped(m)

\* handleProtocolVersionReply.  On a version mismatch revertJoin and
\* joinFailed run, and then the handler goes on as on a match, sending
\* MasterNodeRequest through the deleted record.
HandleProtocolVersionReply(m) ==
    /\ Arrives(m) /\ m.type = "ProtocolVersionReply"
    /\ \/ joinStep # "JoinVersionRequest" /\ Dropped(m)
       \/ /\ joinStep = "JoinVersionRequest"
          /\ \/ /\ m.ver = ProtocolVersion
                /\ spool' = spool \cup {From(m)}
                /\ SendFromJ(net \ {m}, Record(From(m)), "MasterNodeRequest",
                             None, FALSE, gen, keyed)
                /\ UNCHANGED <<gen, selfEp, failed>>
             \/ /\ m.ver # ProtocolVersion
                /\ RevertJoin
                /\ failed' = failed + 1
                /\ SendFromJ(net \ {m}, Record(From(m)), "MasterNodeRequest",
                             None, FALSE, gen + 1, {})
          /\ joinStep' = "JoinMasterNodeRequest"
          /\ joinTimer' = Timeout
          /\ UNCHANGED <<forceBehindNAT, joinMaster, joinPing, joinPingsArrived,
                         pingTimer, joined>>

\* handleMasterNodeReply: wrap the master's endpoint as joinMaster, then ask
\* for pings through the sender, or register at once when forceBehindNAT.
HandleMasterNodeReply(m) ==
    /\ Arrives(m) /\ m.type = "MasterNodeReply" /\ From(m) \in keyed
    /\ \/ joinStep # "JoinMasterNodeRequest" /\ Dropped(m)
       \/ /\ joinStep = "JoinMasterNodeRequest"
          /\ spool' = spool \cup {From(m), m.addr}
          /\ joinMaster' = Record(m.addr)
          /\ \/ /\ ~forceBehindNAT
                /\ joinStep' = "JoinAwaitingPings"
                /\ joinPing' = None
                /\ joinPingsArrived' = 0
                /\ pingTimer' = Timeout
                /\ SendFromJ(net \ {m}, Record(From(m)), "PingRequest",
                             m.addr, FALSE, gen, keyed)
             \/ /\ forceBehindNAT
                /\ joinStep' = "JoinRegistration"
                /\ SendFromJ(net \ {m}, Record(m.addr), "RegisterRequest",
                             None, TRUE, gen, keyed)
                /\ UNCHANGED <<joinPing, joinPingsArrived, pingTimer>>
          /\ joinTimer' = Timeout
          /\ UNCHANGED <<forceBehindNAT, gen, selfEp, joined, failed>>

\* joinGotPinged, after the pings are counted: stop the ping timer and
\* register as a node with a public endpoint.
JoinGotPinged(base) ==
    /\ pingTimer' = Off
    /\ joinStep' = "JoinRegistration"
    /\ SendFromJ(base, joinMaster, "RegisterRequest", None, FALSE, gen, keyed)
    /\ joinTimer' = Timeout

\* handlePing: count a ping from joinMaster and keep the endpoint it
\* reports.  (The pings of one burst all carry the endpoint the pinging
\* master has for J, so the nonidentical-pings branch is not reachable
\* between nodes running this code.)
HandlePing(m) ==
    /\ Arrives(m) /\ m.type = "Ping"
    /\ \/ /\ joinStep # "JoinAwaitingPings" \/ Record(From(m)) # joinMaster
          /\ Dropped(m)
       \/ /\ joinStep = "JoinAwaitingPings" /\ Record(From(m)) = joinMaster
          /\ spool' = spool \cup {From(m)}
          /\ joinPingsArrived' = joinPingsArrived + 1
          /\ joinPing' = IF joinPing = None THEN m.addr ELSE joinPing
          /\ \/ /\ joinPingsArrived' = PingBurst
                /\ JoinGotPinged(net \ {m})
             \/ /\ joinPingsArrived' # PingBurst
                /\ net' = net \ {m}
                /\ UNCHANGED <<joinStep, joinTimer, pingTimer, keyed, opened>>
          /\ UNCHANGED <<forceBehindNAT, joinMaster, gen, selfEp, joined, failed>>

\* Mutant: the self endpoint is always taken from the pings.
HandleRegisterReplyPingOnly(m) ==
    /\ Arrives(m) /\ m.type = "RegisterReply" /\ From(m) \in keyed
    /\ \/ joinStep # "JoinRegistration" /\ Dropped(m)
       \/ /\ joinStep = "JoinRegistration"
          /\ spool' = spool \cup {From(m)}
          /\ selfEp' = joinPing
          /\ joinTimer' = Off
          /\ joinStep' = "JoinFinished"
          /\ joined' = TRUE
          /\ net' = net \ {m}
          /\ UNCHANGED <<forceBehindNAT, joinMaster, joinPing, joinPingsArrived,
                         pingTimer, gen, keyed, failed, opened>>

\* handleRegisterReply: install the self node at the endpoint the master
\* saw (behind NAT) or the one the pings reported, and finish the join.
HandleRegisterReply(m) ==
    /\ Arrives(m) /\ m.type = "RegisterReply" /\ From(m) \in keyed
    /\ \/ joinStep # "JoinRegistration" /\ Dropped(m)
       \/ /\ joinStep = "JoinRegistration"
          /\ LET self == IF m.addr # None THEN m.addr ELSE joinPing
             IN /\ spool' = spool \cup {From(m), self}
                /\ selfEp' = self
          /\ joinTimer' = Off
          /\ joinStep' = "JoinFinished"
          /\ joined' = TRUE
          /\ net' = net \ {m}
          /\ UNCHANGED <<forceBehindNAT, joinMaster, joinPing, joinPingsArrived,
                         pingTimer, gen, keyed, failed, opened>>

-----------------------------------------------------------------------------
(* Timers.  Both are single-shot.  handleMasterNodeReply starts pingTimer  *)
(* before joinTimer with the same interval, so when both are due the ping  *)
(* timer fires first.                                                      *)

\* Mutant: the join timer is not single-shot and keeps firing.
JoinTimeoutRepeats ==
    /\ joinTimer = 0 /\ pingTimer # 0
    /\ RevertJoin
    /\ keyed' = {}
    /\ failed' = failed + 1
    /\ UNCHANGED <<joinVars, joinTimer, pingTimer, joined, opened, net>>

\* Mutant: joinTimeout emits joinFailed without revertJoin.
JoinTimeoutNoRevert ==
    /\ joinTimer = 0 /\ pingTimer # 0
    /\ joinTimer' = Off
    /\ failed' = failed + 1
    /\ UNCHANGED <<joinVars, pingTimer, spool, gen, keyed, selfEp, joined,
                   opened, net>>

\* Mutant: joinTimeout reverts the join but never emits joinFailed.
JoinTimeoutSilent ==
    /\ joinTimer = 0 /\ pingTimer # 0
    /\ joinTimer' = Off
    /\ RevertJoin
    /\ keyed' = {}
    /\ UNCHANGED <<joinVars, pingTimer, joined, failed, opened, net>>

\* joinTimeout: revertJoin and joinFailed; joinStep and pingTimer stay.
JoinTimeout ==
    /\ joinTimer = 0 /\ pingTimer # 0
    /\ joinTimer' = Off
    /\ RevertJoin
    /\ keyed' = {}
    /\ failed' = failed + 1
    /\ UNCHANGED <<joinVars, pingTimer, joined, opened, net>>

\* pingTimeout: no ping means NAT; register without restarting joinTimer.
\* Otherwise joinGotPinged.
PingTimeout ==
    /\ pingTimer = 0
    /\ \/ /\ joinPingsArrived = 0
          /\ pingTimer' = Off
          /\ joinStep' = "JoinRegistration"
          /\ SendFromJ(net, joinMaster, "RegisterRequest", None, TRUE, gen, keyed)
          /\ UNCHANGED joinTimer
       \/ /\ joinPingsArrived > 0
          /\ JoinGotPinged(net)
    /\ UNCHANGED <<forceBehindNAT, joinMaster, joinPing, joinPingsArrived,
                   spool, gen, selfEp, joined, failed>>

-----------------------------------------------------------------------------
(* The peers' handlers.  B and M are masters of an established network;   *)
(* they hold session keys with J once J has sent to them.                  *)

PeerGets(m, type) == m \in net /\ m.d >= 1 /\ m.to \in Peers /\ m.type = type
Reply(m, out) ==
    /\ net' = (net \ {m}) \cup out
    /\ UNCHANGED <<joinVars, joinTimer, pingTimer, spool, gen, keyed, selfEp,
                   joined, failed, opened>>

\* handleProtocolVersionRequest: reply with the build's ProtocolVersion.
PeerProtocolVersionRequest(m) ==
    /\ PeerGets(m, "ProtocolVersionRequest")
    /\ \E v \in PeerVersions :
         Reply(m, {Msg("ProtocolVersionReply", m.to, J, None, v, FALSE, 0)})

\* handleMasterNodeRequest: router.selectMaster() picks any master.
PeerMasterNodeRequest(m) ==
    /\ PeerGets(m, "MasterNodeRequest")
    /\ \E mm \in Peers :
         Reply(m, {Msg("MasterNodeReply", m.to, J, EpOf[mm], 0, FALSE, 0)})

\* doPing: count pings, each reporting the endpoint the pinger has for J.
Pings(from, addr) == {Msg("Ping", from, J, addr, 0, FALSE, i) : i \in 1..PingBurst}

\* handlePingRequest: ping J itself when it is the target, otherwise ask
\* the target to ping J with PingInitiate.
PeerPingRequest(m) ==
    /\ PeerGets(m, "PingRequest")
    /\ Reply(m, IF m.addr = EpOf[m.to]
                THEN Pings(m.to, JView)
                ELSE {Msg("PingInitiate", m.to, NodeAt(m.addr), JView, 0,
                          FALSE, 0)})

\* handlePingInitiate: doPing to the endpoint in the request.
PeerPingInitiate(m) ==
    /\ PeerGets(m, "PingInitiate")
    /\ Reply(m, Pings(m.to, m.addr))

\* handleRegisterRequest + sendRegisterReply: a node registering as behind
\* NAT is told the endpoint the master sees it at.  (Role election and the
\* Route gossip are modelled in Membership.)
PeerRegisterRequest(m) ==
    /\ PeerGets(m, "RegisterRequest")
    /\ Reply(m, {Msg("RegisterReply", m.to, J, IF m.nat THEN JView ELSE None,
                     0, FALSE, 0)})

-----------------------------------------------------------------------------
(* The network and time.                                                   *)

\* J's NAT drops a datagram from a peer J has not sent to.
NatDrop(m) ==
    /\ m \in net /\ m.d >= 1 /\ m.to = J
    /\ JoinerBehindNAT /\ m.from \notin opened
    /\ Reply(m, {})

Lose ==
    /\ Loss
    /\ \E m \in net : Reply(m, {})

Older(m) == [m EXCEPT !.d = IF @ < MaxDelay THEN @ + 1 ELSE @]
Down(t) == IF t > 0 THEN t - 1 ELSE t

\* One tick passes: no timer is due and, on a timely network, no datagram
\* is overdue.
Tick ==
    /\ joinTimer # 0 /\ pingTimer # 0
    /\ Timely => \A m \in net : m.d < MaxDelay
    /\ joinTimer' = Down(joinTimer)
    /\ pingTimer' = Down(pingTimer)
    /\ net' = {Older(m) : m \in net}
    /\ UNCHANGED <<joinVars, spool, gen, keyed, selfEp, joined, failed, opened>>

Receive(m) ==
    \/ HandleUnkeyed(m)
    \/ HandleProtocolVersionReply(m)
    \/ HandleMasterNodeReply(m)
    \/ HandlePing(m)
    \/ HandleRegisterReply(m)
    \/ PeerProtocolVersionRequest(m)
    \/ PeerMasterNodeRequest(m)
    \/ PeerPingRequest(m)
    \/ PeerPingInitiate(m)
    \/ PeerRegisterRequest(m)
    \/ NatDrop(m)

Next ==
    \/ JoinNetwork
    \/ \E m \in net : HandleUnkeyed(m)
    \/ \E m \in net : HandleProtocolVersionReply(m)
    \/ \E m \in net : HandleMasterNodeReply(m)
    \/ \E m \in net : HandlePing(m)
    \/ \E m \in net : HandleRegisterReply(m)
    \/ \E m \in net : PeerProtocolVersionRequest(m)
    \/ \E m \in net : PeerMasterNodeRequest(m)
    \/ \E m \in net : PeerPingRequest(m)
    \/ \E m \in net : PeerPingInitiate(m)
    \/ \E m \in net : PeerRegisterRequest(m)
    \/ \E m \in net : NatDrop(m)
    \/ JoinTimeout
    \/ PingTimeout
    \/ Tick
    \/ Lose

\* The application calls joinNetwork once; Qt fires due timers; time
\* passes; a datagram that is neither lost nor dropped is handled.
Fairness ==
    /\ WF_vars(JoinNetwork)
    /\ WF_vars(JoinTimeout)
    /\ WF_vars(PingTimeout)
    /\ WF_vars(Tick)
    /\ WF_vars(\E m \in net : Receive(m))

Spec == Init /\ [][Next]_vars /\ Fairness

-----------------------------------------------------------------------------
TypeOK ==
    /\ joinStep \in Steps
    /\ forceBehindNAT \in BOOLEAN
    /\ joinMaster \in ({eB, eM} \X (0..MaxGen)) \cup {None}
    /\ joinPing \in {eJ, eJnat, None}
    /\ joinPingsArrived \in 0..PingBurst
    /\ joinTimer \in {Off} \cup 0..Timeout
    /\ pingTimer \in {Off} \cup 0..Timeout
    /\ spool \subseteq {eJ, eJnat, eB, eM}
    /\ gen \in 0..MaxGen
    /\ keyed \subseteq spool
    /\ selfEp \in {eJ, eJnat, None}
    /\ joined \in BOOLEAN
    /\ failed \in 0..MaxGen
    /\ opened \subseteq Peers
    /\ net \subseteq Message

(* Spec 4.4 and test 3: a node that joined installs as its own endpoint   *)
(* the one the network sees it at: the master's observation when it       *)
(* registered as behind NAT, the pinged endpoint otherwise                *)
(* (handleMasterNodeReply, handlePing, pingTimeout, handleRegisterReply).  *)
SelfEndpointObserved ==
    joined => selfEp = JView

(* Spec 4.4, 7: a join that failed is over: joined(self) is never emitted *)
(* after joinFailed (joinTimeout, revertJoin, handleProtocolVersionReply). *)
JoinedOnlyIfNeverFailed ==
    joined => failed = 0

(* Spec 4.4, 7: after joinFailed the join does not advance: no step of    *)
(* any handler or timer moves joinStep or emits joined                    *)
(* (handleProtocolVersionReply's mismatch path, joinTimeout, revertJoin). *)
FailureIsFinal ==
    [][failed' > 0 => joinStep' = joinStep /\ joined' = joined]_vars

(* Every join ends: after joinNetwork the node eventually emits joined or *)
(* joinFailed (joinTimer, pingTimer, all join handlers).                  *)
JoinEventuallyEnds ==
    joinStep # "Unset" ~> (joined \/ failed > 0)

(* Spec 4.4, 9 (tests 1 and 3): on a network that loses nothing and       *)
(* answers each step within its 5 s timeout, the join succeeds, with or   *)
(* without a NAT (joinTimer restarts, pingTimeout, joinGotPinged).         *)
JoinSucceeds ==
    joinStep # "Unset" ~> joined
====
