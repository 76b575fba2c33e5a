----------------------------- MODULE Membership -----------------------------
(***************************************************************************)
(* Registration, role election, route gossip, role updates, exit and       *)
(* reincarnation (LinkLayer.cpp: createNetwork, exitNetwork,              *)
(* handleMasterNodeRequest, handleRegisterRequest, handleRegisterReply,   *)
(* handleRoute, handleRouteRequest, handleRouteMissing,                    *)
(* handleRouteInvalidate, handleRoleUpdate, handleExitNotification,        *)
(* reincarnateSomeone) for a small set of nodes, each with its own router.  *)
(*                                                                         *)
(* The client's join up to RegisterRequest (module JoinProtocol) is one    *)
(* step: the joiner asks a bootstrap for a master and registers with it.   *)
(* Encrypted packets pass the handshake gate (module Negotiation); none is *)
(* lost.  With Ordered, the packets from one node to another are handled  *)
(* in the order they were sent (spec 5, "Ordering guarantees"; each packet *)
(* carries its place on its channel), otherwise in any order.  A packet   *)
(* for a process that stopped is never handled: it stays in the set.  A   *)
(* handler that dereferences a NULL pointer crashes its process: the node *)
(* stops without a word.                                                   *)
(* The Router class is not part of the sources; its queries are taken     *)
(* from the design: getNodes() holds the self node, selectMaster() picks  *)
(* another master when there is one, selectWhiteSlave() a slave not       *)
(* behind NAT or NULL.                                                     *)
(***************************************************************************)
EXTENDS Naturals, FiniteSets
LOCAL INSTANCE FiniteSetsExt

CONSTANTS
    Nodes,           \* the processes
    Founder,         \* the node that ran createNetwork
    Bootstraps,      \* the nodes whose address joiners are given
    NatNodes,        \* nodes behind a NAT (as the join's ping test finds)
    NetworkDivisor,  \* createNetwork's divisor: masters should be 1/divisor
    MaxExits,        \* exitNetwork calls in a behaviour
    MaxRouteRequests, \* sendRouteRequest calls in a behaviour
    Ordered          \* whether each pair's packets arrive in sending order

ASSUME Founder \in Nodes /\ Founder \notin NatNodes
ASSUME NatNodes \subseteq Nodes /\ Bootstraps \subseteq Nodes
ASSUME NetworkDivisor \in Nat \ {0}
ASSUME {MaxExits, MaxRouteRequests} \subseteq Nat /\ Ordered \in BOOLEAN

\* Process states: not yet started, RegisterRequest sent (joinStep is
\* JoinRegistration, no self node), joined, joinFailed, exited, crashed.
States == {"out", "joining", "in", "failed", "gone", "crashed"}
\* An entry of a router: absent, or a SparkleNode with isMaster false/true.
Entries == {"none", "slave", "master"}
Types == {"RegisterRequest", "RegisterReply", "Route", "RouteRequest",
          "RouteMissing", "RouteInvalidate", "RoleUpdate", "ExitNotification"}
\* flag: isBehindNAT of a RegisterRequest, isMaster of a RegisterReply or
\* of a Route's target, isMasterNow of a RoleUpdate; seq: the packet's
\* place on the channel from -> to (0 when the channel does not order).
\* A process sends nothing to itself.
Content == {c \in [type : Types, from : Nodes, to : Nodes, about : Nodes,
                   flag : BOOLEAN] : c.from # c.to}
Message == {m \in [type : Types, from : Nodes, to : Nodes, about : Nodes,
                   flag : BOOLEAN, seq : Nat] : m.from # m.to}

Msg(type, from, to, about, flag) ==
    [type |-> type, from |-> from, to |-> to, about |-> about, flag |-> flag,
     seq |-> 0]
ContentOf(m) == [type |-> m.type, from |-> m.from, to |-> m.to,
                 about |-> m.about, flag |-> m.flag]

\* sendEncryptedPacket of the packets ms, after the packets in flight S:
\* on an ordering channel each goes behind those already on it.  Packets
\* sent by one loop (ms) share a place.
Top(S, from, to) == Max({o.seq : o \in {o \in S : o.from = from /\ o.to = to}}
                        \cup {0})
Emit(S, ms) ==
    S \cup {[x EXCEPT !.seq = IF Ordered THEN Top(S, x.from, x.to) + 1 ELSE 0] :
            x \in ms}

VARIABLES
    st,        \* process state
    isMaster,  \* router.getSelfNode()->isMaster()
    view,      \* view[n][x]: the entry for x in n's router (x # n)
    net,       \* encrypted packets in flight
    exits,     \* exitNetwork calls so far
    requests   \* sendRouteRequest calls so far

vars == <<st, isMaster, view, net, exits, requests>>
-----------------------------------------------------------------------------
(* Router queries of node n, over a router content v.                      *)
OtherNodesIn(n, v) == {x \in Nodes \ {n} : v[x] # "none"}
MastersIn(n, v) == {x \in OtherNodesIn(n, v) : v[x] = "master"}
OtherNodes(n) == OtherNodesIn(n, view[n])
OtherMasters(n) == MastersIn(n, view[n])
\* getMasters().count() and getNodes().count() of a node whose self is set.
MasterCount(n, v) == Cardinality(MastersIn(n, v)) + (IF isMaster[n] THEN 1 ELSE 0)
NodeCount(n, v) == Cardinality(OtherNodesIn(n, v)) + 1
\* selectMaster(): the candidates it may return; {} stands for NULL.
SelectMaster(n) == IF OtherMasters(n) # {} THEN OtherMasters(n)
                   ELSE IF isMaster[n] THEN {n} ELSE {}
\* Mutant: selectWhiteSlave() returns any slave.
AnySlave(n, v) == {x \in OtherNodesIn(n, v) : v[x] = "slave"}

\* selectWhiteSlave(): the candidates; {} stands for NULL.
WhiteSlaves(n, v) == {x \in OtherNodesIn(n, v) : v[x] = "slave" /\ x \notin NatNodes}

\* rk < ik with rk = masters / nodes and ik = 1. / networkDivisor.  For
\* counts this small the two doubles compare as the rationals do.
Insufficient(masters, nodes) == masters * NetworkDivisor < nodes

Live(n) == st[n] \in {"in", "joining"}
Crash(n) == st' = [st EXCEPT ![n] = "crashed"]
-----------------------------------------------------------------------------
\* createNetwork: the founder is its network's only node and master.
Init ==
    /\ st = [n \in Nodes |-> IF n = Founder THEN "in" ELSE "out"]
    /\ isMaster = [n \in Nodes |-> n = Founder]
    /\ view = [n \in Nodes |-> [x \in Nodes |-> "none"]]
    /\ net = {}
    /\ exits = 0
    /\ requests = 0

\* A node joins through bootstrap b: b's handleMasterNodeRequest answers
\* with selectMaster() (a NULL answer is dereferenced: b crashes), and the
\* joiner sends RegisterRequest to that master with its NAT verdict.
Register(n) ==
    /\ st[n] = "out"
    /\ \E b \in Bootstraps :
          /\ st[b] = "in"
          /\ \/ /\ SelectMaster(b) = {}
                /\ Crash(b)
                /\ UNCHANGED net
             \/ \E m \in SelectMaster(b) :
                   /\ st' = [st EXCEPT ![n] = "joining"]
                   /\ net' = Emit(net, {Msg("RegisterRequest", n, m, n, n \in NatNodes)})
    /\ UNCHANGED <<isMaster, view, exits, requests>>

\* joinTimeout during registration: revertJoin clears the router and the
\* node reports joinFailed; nothing in the process restarts the join.
JoinTimeout(n) ==
    /\ st[n] = "joining"
    /\ st' = [st EXCEPT ![n] = "failed"]
    /\ view' = [view EXCEPT ![n] = [x \in Nodes |-> "none"]]
    /\ UNCHANGED <<isMaster, net, exits, requests>>
-----------------------------------------------------------------------------
(* Encrypted packets arriving at a live process.  Before its RegisterReply *)
(* a node has no self node: a handler that asks router.getSelfNode() for  *)
(* its role dereferences NULL.                                             *)
\* The packet is the next one on its channel when the channel orders.
InOrder(m) == Ordered => \A o \in net : o.from = m.from /\ o.to = m.to => m.seq <= o.seq
Arrive(m, type) == m \in net /\ m.type = type /\ Live(m.to) /\ InOrder(m)
Ignore(m) == /\ net' = net \ {m}
             /\ UNCHANGED <<st, isMaster, view, exits, requests>>
NullSelf(m) == /\ st[m.to] = "joining"
               /\ Crash(m.to)
               /\ net' = net \ {m}
               /\ UNCHANGED <<isMaster, view, exits, requests>>

\* reincarnateSomeone at master r, whose router holds v once the caller's
\* own changes are made; out are the packets sent so far, s1 the process
\* states.  A NULL selectWhiteSlave() is dereferenced at once.
ReincarnateSomeone(r, v, out, s1) ==
    \/ /\ NodeCount(r, v) = 1
       /\ view' = [view EXCEPT ![r] = v] /\ net' = out /\ st' = s1
    \/ /\ NodeCount(r, v) > 1
       /\ WhiteSlaves(r, v) = {}
       /\ view' = [view EXCEPT ![r] = v] /\ net' = out
       /\ st' = [s1 EXCEPT ![r] = "crashed"]
    \/ \E t \in WhiteSlaves(r, v) :
          LET v2 == [v EXCEPT ![t] = "master"]
              paired == {x \in OtherNodesIn(r, v2) : v2[x] = "slave"}
          IN /\ view' = [view EXCEPT ![r] = v2]
             /\ net' = Emit(Emit(out, {Msg("Route", r, x, t, TRUE) : x \in paired}
                                     \cup {Msg("Route", r, t, x, FALSE) : x \in paired}),
                           {Msg("RoleUpdate", r, t, t, TRUE)})
             /\ st' = s1

\* handleRegisterRequest's role decision at master r for a joiner that is
\* or is not behind a NAT: master if it is the second master, or if the
\* masters fall short of 1/divisor of the nodes counting the joiner.
NewMaster(r, behindNat) ==
    /\ ~behindNat
    /\ \/ MasterCount(r, view[r]) = 1
       \/ Insufficient(MasterCount(r, view[r]), NodeCount(r, view[r]) + 1)

\* Mutant: the whole router (getNodes, getMasters) instead of the others.
UpdatesAllNodes(r, nm) ==
    IF nm THEN OtherNodes(r) \cup {r} ELSE OtherMasters(r) \cup {r}

\* The nodes handleRegisterRequest pairs a new master or slave with.
Updates(r, nm) == IF nm THEN OtherNodes(r) ELSE OtherMasters(r)

\* Mutant: the RegisterReply is sent before the Routes.
RegisterAnswerReplyFirst(S, r, n, gossip, nm) ==
    Emit(Emit(Emit(S, {Msg("RegisterReply", r, n, n, nm)}), gossip),
         {Msg("Route", r, n, r, TRUE)})

\* The end of handleRegisterRequest: the Route gossip, the master's Route
\* about itself, then the RegisterReply.
RegisterAnswer(S, r, n, gossip, nm) ==
    Emit(Emit(Emit(S, gossip), {Msg("Route", r, n, r, TRUE)}),
         {Msg("RegisterReply", r, n, n, nm)})

\* handleRegisterRequest: the role decision, the Route gossip and the reply.
HandleRegisterRequest(m) ==
    LET r == m.to
        n == m.from
        v == view[r]
        nm == NewMaster(r, m.flag)
        gossip == {Msg("Route", r, n, u, v[u] = "master") : u \in Updates(r, nm)}
                  \cup {Msg("Route", r, u, n, nm) : u \in Updates(r, nm)}
    IN /\ Arrive(m, "RegisterRequest")
       /\ \/ NullSelf(m)
          \/ st[r] = "in" /\ ~isMaster[r] /\ Ignore(m)
          \/ /\ st[r] = "in" /\ isMaster[r]
             /\ view' = [view EXCEPT ![r][n] = IF nm THEN "master" ELSE "slave"]
             /\ net' = RegisterAnswer(net \ {m}, r, n, gossip, nm)
             /\ UNCHANGED <<st, isMaster, exits, requests>>

\* handleRegisterReply: accepted only in step JoinRegistration.
HandleRegisterReply(m) ==
    LET r == m.to
    IN /\ Arrive(m, "RegisterReply")
       /\ \/ /\ st[r] = "joining"
             /\ st' = [st EXCEPT ![r] = "in"]
             /\ isMaster' = [isMaster EXCEPT ![r] = m.flag]
             /\ net' = net \ {m}
             /\ UNCHANGED <<view, exits, requests>>
          \/ st[r] = "in" /\ Ignore(m)

\* handleRoute: from a master, or from anyone before the self node is set;
\* a joined node refuses a Route about itself.
HandleRoute(m) ==
    LET r == m.to
        accepted == /\ view[r][m.from] = "master" \/ st[r] = "joining"
                    /\ ~(m.about = r /\ st[r] = "in")
    IN /\ Arrive(m, "Route")
       /\ \/ /\ accepted
             /\ view' = [view EXCEPT ![r][m.about] = IF m.flag THEN "master" ELSE "slave"]
             /\ net' = net \ {m}
             /\ UNCHANGED <<st, isMaster, exits, requests>>
          \/ ~accepted /\ Ignore(m)

\* handleRouteRequest: a master answers with a Route or a RouteMissing.
HandleRouteRequest(m) ==
    LET r == m.to
        x == m.about
        known == x = r \/ view[r][x] # "none"
        answer == IF known THEN Msg("Route", r, m.from, x, x = r \/ view[r][x] = "master")
                  ELSE Msg("RouteMissing", r, m.from, x, FALSE)
    IN /\ Arrive(m, "RouteRequest")
       /\ \/ NullSelf(m)
          \/ st[r] = "in" /\ ~isMaster[r] /\ Ignore(m)
          \/ /\ st[r] = "in" /\ isMaster[r]
             /\ net' = Emit(net \ {m}, {answer})
             /\ UNCHANGED <<st, isMaster, view, exits, requests>>

\* handleRouteMissing only logs.
HandleRouteMissing(m) == Arrive(m, "RouteMissing") /\ Ignore(m)

\* handleRouteInvalidate: the router forgets the target, whoever asks.
HandleRouteInvalidate(m) ==
    /\ Arrive(m, "RouteInvalidate")
    /\ view' = [view EXCEPT ![m.to][m.about] = "none"]
    /\ net' = net \ {m}
    /\ UNCHANGED <<st, isMaster, exits, requests>>

\* handleRoleUpdate: only a master may change the receiver's role.
HandleRoleUpdate(m) ==
    LET r == m.to
    IN /\ Arrive(m, "RoleUpdate")
       /\ \/ view[r][m.from] # "master" /\ Ignore(m)
          \/ view[r][m.from] = "master" /\ NullSelf(m)
          \/ /\ view[r][m.from] = "master" /\ st[r] = "in"
             /\ isMaster' = [isMaster EXCEPT ![r] = m.flag]
             /\ net' = net \ {m}
             /\ UNCHANGED <<st, view, exits, requests>>

\* handleExitNotification: forget the node, tell every other node, and
\* reincarnate a slave when masters run short or only one is left.
HandleExitNotification(m) ==
    LET r == m.to
        v == [view[r] EXCEPT ![m.from] = "none"]
        out == Emit(net \ {m}, {Msg("RouteInvalidate", r, t, m.from, FALSE) :
                                 t \in OtherNodesIn(r, v)})
        short == \/ Insufficient(MasterCount(r, v), NodeCount(r, v))
                 \/ MasterCount(r, v) = 1
    IN /\ Arrive(m, "ExitNotification")
       /\ \/ NullSelf(m)
          \/ st[r] = "in" /\ ~isMaster[r] /\ Ignore(m)
          \/ /\ st[r] = "in" /\ isMaster[r]
             /\ \/ short /\ ReincarnateSomeone(r, v, out, st)
                \/ ~short /\ view' = [view EXCEPT ![r] = v] /\ net' = out /\ UNCHANGED st
             /\ UNCHANGED <<isMaster, exits, requests>>

\* exitNetwork: before the join finished the node just stops; the last
\* master reincarnates a slave; anyone else notifies selectMaster().
ExitNetwork(n) ==
    LET last == isMaster[n] /\ MasterCount(n, view[n]) = 1
        gone == [st EXCEPT ![n] = "gone"]
    IN /\ Live(n)
       /\ exits < MaxExits
       /\ exits' = exits + 1
       /\ \/ st[n] = "joining" /\ st' = gone /\ UNCHANGED <<view, net>>
          \/ st[n] = "in" /\ last /\ ReincarnateSomeone(n, view[n], net, gone)
          \/ /\ st[n] = "in" /\ ~last /\ SelectMaster(n) = {}
             /\ Crash(n) /\ UNCHANGED <<view, net>>
          \/ /\ st[n] = "in" /\ ~last
             /\ \E m \in SelectMaster(n) :
                   net' = Emit(net, {Msg("ExitNotification", n, m, n, FALSE)})
             /\ st' = gone /\ UNCHANGED view
       /\ UNCHANGED <<isMaster, requests>>

\* A slave asks selectMaster() for the route to a joined node (an overlay
\* address the application has traffic for) that its router lacks.
SendRouteRequest(n) ==
    /\ st[n] = "in" /\ ~isMaster[n]
    /\ requests < MaxRouteRequests
    /\ requests' = requests + 1
    /\ \E x \in Nodes \ {n} :
          /\ st[x] = "in" /\ view[n][x] = "none"
          /\ \/ SelectMaster(n) = {} /\ Crash(n) /\ UNCHANGED net
             \/ \E m \in SelectMaster(n) :
                   /\ net' = Emit(net, {Msg("RouteRequest", n, m, x, FALSE)})
                   /\ UNCHANGED st
    /\ UNCHANGED <<isMaster, view, exits>>
-----------------------------------------------------------------------------
Next ==
    \/ \E n \in Nodes : Register(n)
    \/ \E n \in Nodes : JoinTimeout(n)
    \/ \E n \in Nodes : ExitNetwork(n)
    \/ \E n \in Nodes : SendRouteRequest(n)
    \/ \E m \in net : HandleRegisterRequest(m)
    \/ \E m \in net : HandleRegisterReply(m)
    \/ \E m \in net : HandleRoute(m)
    \/ \E m \in net : HandleRouteRequest(m)
    \/ \E m \in net : HandleRouteMissing(m)
    \/ \E m \in net : HandleRouteInvalidate(m)
    \/ \E m \in net : HandleRoleUpdate(m)
    \/ \E m \in net : HandleExitNotification(m)

Spec == Init /\ [][Next]_vars

\* The event loop of every process handles each datagram that reaches it
\* (handleDatagram runs a handler to completion, one packet at a time).
Receive(m) ==
    \/ HandleRegisterRequest(m) \/ HandleRegisterReply(m) \/ HandleRoute(m)
    \/ HandleRouteRequest(m) \/ HandleRouteMissing(m)
    \/ HandleRouteInvalidate(m) \/ HandleRoleUpdate(m)
    \/ HandleExitNotification(m)

FairSpec == Spec /\ \A c \in Content :
                      WF_vars(\E m \in net : ContentOf(m) = c /\ Receive(m))
-----------------------------------------------------------------------------
\* The members are the joined processes; a member's role is its own.
Members == {n \in Nodes : st[n] = "in"}
Masters == {n \in Members : isMaster[n]}

\* Every variable has its type; no packet is addressed to its sender (the
\* handlers send to the router's other nodes, never to the self node).
TypeOK ==
    /\ st \in [Nodes -> States]
    /\ isMaster \in [Nodes -> BOOLEAN]
    /\ view \in [Nodes -> [Nodes -> Entries]]
    /\ net \subseteq Message
    /\ exits \in 0..MaxExits
    /\ requests \in 0..MaxRouteRequests

\* No router ever holds a node behind a NAT as a master: the registrar
\* makes it a slave and gossips it as one (handleRegisterRequest), masters
\* pass on what their routers hold (sendRoute, handleRouteRequest), and
\* reincarnateSomeone promotes only a slave selectWhiteSlave() accepts.
NatNeverRoutedAsMaster ==
    \A n \in Nodes, x \in NatNodes : view[n][x] # "master"

\* Spec 8, scenario 1 ("both have routes to each other"): every member
\* comes to hold a master route to every other master that stays a
\* member.  handleRegisterRequest sends the joiner a Route for each node
\* it pairs it with and one about the registrar itself before the
\* RegisterReply, and gossips the joiner to those nodes; handleRoute takes
\* a Route from anyone before the self node is set and afterwards only
\* from a sender the router lists as master.  With one channel's packets
\* in sending order, the joiner has its registrar as master before its
\* join finishes.
MastersKnown ==
    \A n, x \in Nodes :
        (n # x /\ n \in Members /\ x \in Masters)
            ~> (view[n][x] = "master" \/ n \notin Members \/ x \notin Masters)
=============================================================================
