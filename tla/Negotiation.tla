---------------------------- MODULE Negotiation ----------------------------
(***************************************************************************)
(* The handshake gate of LinkLayer (src/libsparkle/LinkLayer.cpp): the     *)
(* node spool (wrapNode), the encrypted send gate with its per-peer send   *)
(* queue, the two-phase PublicKeyExchange with its cookie table and the    *)
(* behind-the-same-NAT rewrite, the two-phase SessionKeyExchange that      *)
(* drains the queue, the per-peer negotiation timeout, the receive path of *)
(* EncryptedPacket, RouteInvalidate (which deletes a peer record) and the  *)
(* readyForShutdown bookkeeping of exitNetwork.                            *)
(*                                                                         *)
(* Each element of Nodes is one LinkLayer instance.  A peer record         *)
(* (SparkleNode object) is identified by a slot number local to its owner; *)
(* slots are never reused, so a pointer to a deleted record stays visibly  *)
(* dangling.  The network is UDP: datagrams may be lost, duplicated and    *)
(* delivered in any order.  Payloads of encrypted packets are numbered in  *)
(* the order the sender hands them to the gate.                            *)
(***************************************************************************)
EXTENDS Naturals, Sequences, SequencesExt, FiniteSets

CONSTANTS
    Nodes,        \* LinkLayer instances
    Endpoints,    \* UDP endpoints (ip, port)
    Reach,        \* [Endpoints -> Nodes]: who receives a datagram sent to e
    SourceOf,     \* [Nodes -> [Nodes -> Endpoints]]: source endpoint of a
                  \*   datagram from n as seen by its receiver m (NAT)
    Cookies,      \* the values qrand() may return
    SlaveNodes,   \* nodes whose self node is a joined slave
    Invalidated,  \* endpoints a master may order a node to invalidate
    MaxDuplicates, \* bound: datagrams the transport delivers once more
    MaxRecords,   \* bound: SparkleNode objects one node allocates
    MaxSends,     \* bound: packets each node hands to the gate
    None,         \* null pointer / absent map entry / no endpoint
    NoKey         \* session key not set

ASSUME /\ Reach \in [Endpoints -> Nodes]
       /\ \A n, m \in Nodes :
            n # m => SourceOf[n][m] \in Endpoints /\ Reach[SourceOf[n][m]] = n
       /\ SlaveNodes \subseteq Nodes /\ Invalidated \subseteq Endpoints
       /\ MaxRecords \in Nat /\ MaxDuplicates \in Nat
       /\ \A n \in Nodes : MaxSends[n] \in Nat

RecIds == 1..MaxRecords
Payloads == 1..Max({MaxSends[n] : n \in Nodes})

\* The session key a node generates for one of its peer records.
Keys == Nodes \X RecIds
MyKey(a, id) == <<a, id>>

\* SparkleNode fields the gate uses.
Record == [ep : Endpoints \cup {None}, auth : Nodes \cup {None},
           his : Keys \cup {NoKey}, queue : Seq([p : Payloads \cup {0}, for : Nodes]),
           timer : BOOLEAN]

NewRecord(ep) == [ep |-> ep, auth |-> None, his |-> NoKey, queue |-> <<>>,
                  timer |-> FALSE]

Message == [type : {"PKE", "SKE", "ENC"}, src : Endpoints, dst : Endpoints,
            need : BOOLEAN, cookie : Cookies \cup {None},
            key : Nodes \cup Keys \cup {NoKey}, p : Payloads \cup {0},
            for : Nodes \cup {None}]

VARIABLES
    spool,      \* nodeSpool: [Nodes -> Seq(RecIds)], in insertion order
    rec,        \* [Nodes -> [RecIds -> Record]]
    nalloc,     \* slots allocated so far by each node
    awaiting,   \* awaitingNegotiation
    cookies,    \* [Nodes -> [Cookies -> RecIds \cup {None}]]
    preparing,  \* preparingForShutdown
    ready,      \* readyForShutdown has been emitted
    sends,      \* encrypted packets handed to the gate so far
    net,        \* datagrams in flight
    dups,       \* datagrams kept in flight after delivery so far
    xmit        \* history: encrypted packets handed to the transport

vars == <<spool, rec, nalloc, awaiting, cookies, preparing, ready, sends, net,
          dups, xmit>>

Live(a) == Range(spool[a])

\* SparkleNode::areKeysNegotiated: the peer's session key has been stored.
Negotiated(r) == r.his # NoKey

-----------------------------------------------------------------------------
(* wrapNode: the first record of the spool with this endpoint, otherwise a *)
(* new record appended to the spool.                                       *)

Found(a, ep) == SelectInSeq(spool[a], LAMBDA i : rec[a][i].ep = ep)
CanWrap(a, ep) == Found(a, ep) > 0 \/ nalloc[a] < MaxRecords
WrapId(a, ep) == IF Found(a, ep) > 0 THEN spool[a][Found(a, ep)]
                                     ELSE nalloc[a] + 1
WrapSpool(a, ep) == IF Found(a, ep) > 0 THEN spool[a]
                                        ELSE Append(spool[a], nalloc[a] + 1)
WrapRecs(a, ep) == IF Found(a, ep) > 0 THEN rec[a]
                   ELSE [rec[a] EXCEPT ![nalloc[a] + 1] = NewRecord(ep)]
WrapAlloc(a, ep) == IF Found(a, ep) > 0 THEN nalloc[a] ELSE nalloc[a] + 1

\* The spool after wrapNode(ep), for a handler that wraps the sender.
Wrapped(a, ep) ==
    /\ spool' = [spool EXCEPT ![a] = WrapSpool(a, ep)]
    /\ nalloc' = [nalloc EXCEPT ![a] = WrapAlloc(a, ep)]

\* Mutant: every datagram carries the host's public key, as if
\* sendSessionKeyExchange framed hostKeyPair instead of the session key.
DatagramHostKey(a, ep, type, need, c, k, p, f) ==
    [type |-> type, src |-> SourceOf[a][Reach[ep]], dst |-> ep, need |-> need,
     cookie |-> c, key |-> a, p |-> p, for |-> f]

\* sendPacket: a datagram from a to endpoint ep.
Datagram(a, ep, type, need, c, k, p, f) ==
    [type |-> type, src |-> SourceOf[a][Reach[ep]], dst |-> ep, need |-> need,
     cookie |-> c, key |-> k, p |-> p, for |-> f]

\* The in-flight set after a datagram is received; a kept datagram may be
\* received again (duplication), at most MaxDuplicates times in all.
Keep == IF dups < MaxDuplicates THEN BOOLEAN ELSE {FALSE}
Consume(m, keep) == IF keep THEN net ELSE net \ {m}
Duplicated(keep) == dups' = IF keep THEN dups + 1 ELSE dups

(***************************************************************************)
(* sendEncryptedPacket on the state (R, aw, ck) of node a: send through    *)
(* encryptAndSend when the keys are negotiated, otherwise queue the packet *)
(* and, unless a negotiation is already running, arm the negotiation timer *)
(* and send a PublicKeyExchange with cookie c.                             *)
(***************************************************************************)
\* Mutant: the packet is queued and the handshake started, but the record
\* is not inserted into awaitingNegotiation.
EncryptedSendNoAwait(a, R, aw, ck, id, entry, c) ==
    IF Negotiated(R[id])
    THEN [R |-> R, aw |-> aw, ck |-> ck,
          out |-> {Datagram(a, R[id].ep, "ENC", FALSE, None, MyKey(a, id),
                            entry.p, entry.for)},
          x |-> <<[to |-> id, p |-> entry.p]>>]
    ELSE IF id \in aw
    THEN [R |-> [R EXCEPT ![id].queue = Append(@, entry)], aw |-> aw,
          ck |-> ck, out |-> {}, x |-> <<>>]
    ELSE [R |-> [R EXCEPT ![id].queue = Append(@, entry), ![id].timer = TRUE],
          aw |-> aw, ck |-> [ck EXCEPT ![c] = id],
          out |-> {Datagram(a, R[id].ep, "PKE", TRUE, c, a, 0, None)},
          x |-> <<>>]

EncryptedSend(a, R, aw, ck, id, entry, c) ==
    IF Negotiated(R[id])
    THEN [R |-> R, aw |-> aw, ck |-> ck,
          out |-> {Datagram(a, R[id].ep, "ENC", FALSE, None, MyKey(a, id),
                            entry.p, entry.for)},
          x |-> <<[to |-> id, p |-> entry.p]>>]
    ELSE IF id \in aw
    THEN [R |-> [R EXCEPT ![id].queue = Append(@, entry)], aw |-> aw,
          ck |-> ck, out |-> {}, x |-> <<>>]
    ELSE [R |-> [R EXCEPT ![id].queue = Append(@, entry), ![id].timer = TRUE],
          aw |-> aw \cup {id}, ck |-> [ck EXCEPT ![c] = id],
          out |-> {Datagram(a, R[id].ep, "PKE", TRUE, c, a, 0, None)},
          x |-> <<>>]

\* The packet handed to the gate: the next payload, meant for the node the
\* record's endpoint reaches at the time of the call.
Entry(a, ep) == [p |-> sends[a] + 1, for |-> Reach[ep]]

\* sendIntroducePacket's packet: not one of the application's, so it is
\* numbered 0 and not counted against the send bound.
IntroEntry(a, ep) == [p |-> 0, for |-> Reach[ep]]

-----------------------------------------------------------------------------
Init ==
    /\ spool = [a \in Nodes |-> <<>>]
    /\ rec = [a \in Nodes |-> [i \in RecIds |-> NewRecord(None)]]
    /\ nalloc = [a \in Nodes |-> 0]
    /\ awaiting = [a \in Nodes |-> {}]
    /\ cookies = [a \in Nodes |-> [c \in Cookies |-> None]]
    /\ preparing = [a \in Nodes |-> FALSE]
    /\ ready = [a \in Nodes |-> FALSE]
    /\ sends = [a \in Nodes |-> 0]
    /\ net = {}
    /\ dups = 0
    /\ xmit = [a \in Nodes |-> <<>>]

\* sendDataToNode (and every other sendEncryptedPacket caller) to the
\* record wrapNode returns for endpoint ep.
SendEncrypted(a) ==
    /\ sends[a] < MaxSends[a]
    /\ \E ep \in Endpoints, c \in Cookies :
         /\ Reach[ep] # a
         /\ CanWrap(a, ep)
         /\ LET s == EncryptedSend(a, WrapRecs(a, ep), awaiting[a],
                                   cookies[a], WrapId(a, ep), Entry(a, ep), c)
            IN /\ Wrapped(a, ep)
               /\ rec' = [rec EXCEPT ![a] = s.R]
               /\ awaiting' = [awaiting EXCEPT ![a] = s.aw]
               /\ cookies' = [cookies EXCEPT ![a] = s.ck]
               /\ net' = net \cup s.out
               /\ xmit' = [xmit EXCEPT ![a] = @ \o s.x]
    /\ sends' = [sends EXCEPT ![a] = @ + 1]
    /\ UNCHANGED <<preparing, ready, dups>>

(***************************************************************************)
(* handlePublicKeyExchange.  A request (needOthersKey) is answered with    *)
(* our public key and the echoed cookie.  A reply is accepted only if its  *)
(* cookie is in the table; the cookie names the record the request was     *)
(* sent for, and if that record has another endpoint than the sender of   *)
(* the reply the record is rewritten to the sender's endpoint ("behind the *)
(* same NAT").  A joined slave then introduces itself, and the session    *)
(* key exchange starts.                                                    *)
(***************************************************************************)
HandlePublicKeyExchange(a) ==
    \E m \in net, keep \in Keep, c \in Cookies :
      /\ m.type = "PKE" /\ Reach[m.dst] = a
      /\ CanWrap(a, m.src)
      /\ Wrapped(a, m.src)
      /\ LET id == WrapId(a, m.src)
             R0 == WrapRecs(a, m.src)
             R1 == [R0 EXCEPT ![id].auth = m.key]
             orig == cookies[a][m.cookie]
         IN \/ /\ ~m.need /\ orig = None
               /\ rec' = [rec EXCEPT ![a] = R0]
               /\ net' = Consume(m, keep)
               /\ UNCHANGED <<awaiting, cookies, sends, xmit>>
            \/ /\ m.need
               /\ rec' = [rec EXCEPT ![a] = R1]
               /\ net' = Consume(m, keep) \cup
                         {Datagram(a, m.src, "PKE", FALSE, m.cookie, a, 0, None)}
               /\ UNCHANGED <<awaiting, cookies, sends, xmit>>
            \/ /\ ~m.need /\ orig # None
               /\ LET merge == R1[orig].ep # R1[id].ep
                      R2 == IF merge
                            THEN [R1 EXCEPT ![orig].ep = R1[id].ep,
                                            ![orig].auth = m.key]
                            ELSE R1
                      node == IF merge THEN orig ELSE id
                      ck == [cookies[a] EXCEPT ![m.cookie] = None]
                      intro == a \in SlaveNodes
                      s == IF intro
                           THEN EncryptedSend(a, R2, awaiting[a], ck, node,
                                  IntroEntry(a, R2[node].ep), c)
                           ELSE [R |-> R2, aw |-> awaiting[a], ck |-> ck,
                                 out |-> {}, x |-> <<>>]
                  IN /\ rec' = [rec EXCEPT ![a] = s.R]
                     /\ awaiting' = [awaiting EXCEPT ![a] = s.aw]
                     /\ cookies' = [cookies EXCEPT ![a] = s.ck]
                     /\ net' = Consume(m, keep) \cup s.out \cup
                               {Datagram(a, R2[node].ep, "SKE", TRUE, None,
                                         MyKey(a, node), 0, None)}
                     /\ xmit' = [xmit EXCEPT ![a] = @ \o s.x]
      /\ Duplicated(keep)
      /\ UNCHANGED <<preparing, ready, sends>>

(***************************************************************************)
(* handleSessionKeyExchange: store the peer's session key.  A request is   *)
(* answered with our own key.  A reply finishes the negotiation: stop the *)
(* timer, leave awaitingNegotiation, send the whole queue in order, and    *)
(* emit readyForShutdown if this was the last negotiation of an exit.      *)
(***************************************************************************)
HandleSessionKeyExchange(a) ==
    \E m \in net, keep \in Keep :
      /\ m.type = "SKE" /\ Reach[m.dst] = a
      /\ CanWrap(a, m.src)
      /\ Wrapped(a, m.src)
      /\ LET id == WrapId(a, m.src)
             R1 == [WrapRecs(a, m.src) EXCEPT ![id].his = m.key]
             q == R1[id].queue
             aw == awaiting[a] \ {id}
         IN \/ /\ m.need
               /\ rec' = [rec EXCEPT ![a] = R1]
               /\ net' = Consume(m, keep) \cup
                         {Datagram(a, m.src, "SKE", FALSE, None, MyKey(a, id),
                                   0, None)}
               /\ UNCHANGED <<awaiting, xmit, ready>>
            \/ /\ ~m.need
               /\ rec' = [rec EXCEPT ![a] = [R1 EXCEPT ![id].timer = FALSE,
                                                       ![id].queue = <<>>]]
               /\ awaiting' = [awaiting EXCEPT ![a] = aw]
               /\ net' = Consume(m, keep) \cup
                         {Datagram(a, R1[id].ep, "ENC", FALSE, None,
                                   MyKey(a, id), q[i].p, q[i].for) :
                          i \in 1..Len(q)}
               /\ xmit' = [xmit EXCEPT ![a] =
                             @ \o [i \in 1..Len(q) |-> [to |-> id, p |-> q[i].p]]]
               /\ ready' = [ready EXCEPT ![a] = @ \/ (aw = {} /\ preparing[a])]
      /\ Duplicated(keep)
      /\ UNCHANGED <<cookies, preparing, sends>>

(***************************************************************************)
(* handlePacket for an EncryptedPacket: dropped when no keys are           *)
(* negotiated with the sender; otherwise decrypted with the sender's       *)
(* session key.  A packet encrypted under another key decrypts to garbage  *)
(* that fails the header checks; a good one goes to its handler, which is  *)
(* outside this module.  Either way only wrapNode changes state.           *)
(***************************************************************************)
HandleEncrypted(a) ==
    \E m \in net, keep \in Keep :
      /\ m.type = "ENC" /\ Reach[m.dst] = a
      /\ CanWrap(a, m.src)
      /\ Wrapped(a, m.src)
      /\ rec' = [rec EXCEPT ![a] = WrapRecs(a, m.src)]
      /\ net' = Consume(m, keep)
      /\ Duplicated(keep)
      /\ UNCHANGED <<awaiting, cookies, preparing, ready, sends, xmit>>

\* Mutant: the timeout forgets flushQueue.
NegotiationTimeoutKeepsQueue(a, id) ==
    /\ id \in Live(a)
    /\ rec[a][id].timer
    /\ LET aw == awaiting[a] \ {id}
       IN /\ rec' = [rec EXCEPT ![a][id].timer = FALSE]
          /\ awaiting' = [awaiting EXCEPT ![a] = aw]
          /\ ready' = [ready EXCEPT ![a] = @ \/ (aw = {} /\ preparing[a])]
    /\ UNCHANGED <<spool, nalloc, cookies, preparing, sends, net, xmit, dups>>

\* Mutant: the timeout retries the negotiation instead of dropping the
\* queue (re-arms the timer and sends the PublicKeyExchange again).
NegotiationTimeoutRetries(a, id) ==
    /\ id \in Live(a)
    /\ rec[a][id].timer
    /\ \E c \in Cookies :
         /\ cookies' = [cookies EXCEPT ![a][c] = id]
         /\ net' = net \cup {Datagram(a, rec[a][id].ep, "PKE", TRUE, c, a, 0, None)}
    /\ UNCHANGED <<spool, rec, nalloc, awaiting, preparing, ready, sends, xmit,
                   dups>>

\* Mutant: the timeout does not emit readyForShutdown.
NegotiationTimeoutNoReady(a, id) ==
    /\ id \in Live(a)
    /\ rec[a][id].timer
    /\ rec' = [rec EXCEPT ![a][id].timer = FALSE, ![a][id].queue = <<>>]
    /\ awaiting' = [awaiting EXCEPT ![a] = @ \ {id}]
    /\ UNCHANGED <<spool, nalloc, cookies, preparing, ready, sends, net, xmit, dups>>

\* negotiationTimeout: drop the queue and leave awaitingNegotiation.
NegotiationTimeout(a, id) ==
    /\ id \in Live(a)
    /\ rec[a][id].timer
    /\ LET aw == awaiting[a] \ {id}
       IN /\ rec' = [rec EXCEPT ![a][id].timer = FALSE, ![a][id].queue = <<>>]
          /\ awaiting' = [awaiting EXCEPT ![a] = aw]
          /\ ready' = [ready EXCEPT ![a] = @ \/ (aw = {} /\ preparing[a])]
    /\ UNCHANGED <<spool, nalloc, cookies, preparing, sends, net, xmit, dups>>

(***************************************************************************)
(* handleRouteInvalidate, once the packet from a master is accepted: the   *)
(* record wrapNode finds for the endpoint is removed from the spool and    *)
(* deleted (which also stops its timer).  awaitingNegotiation and the      *)
(* cookie table are left as they are.                                      *)
(***************************************************************************)
HandleRouteInvalidate(a) ==
    \E ep \in Invalidated :
      /\ Reach[ep] # a
      /\ CanWrap(a, ep)
      /\ LET id == WrapId(a, ep)
         IN /\ spool' = [spool EXCEPT ![a] = Remove(WrapSpool(a, ep), id)]
            /\ rec' = [rec EXCEPT ![a] = [WrapRecs(a, ep) EXCEPT ![id].timer = FALSE]]
      /\ nalloc' = [nalloc EXCEPT ![a] = WrapAlloc(a, ep)]
      /\ UNCHANGED <<awaiting, cookies, preparing, ready, sends, net, xmit, dups>>

(***************************************************************************)
(* exitNetwork of a joined node: one encrypted packet (ExitNotification to *)
(* the selected master, or the reincarnation commands of the last master)  *)
(* through the gate, then readyForShutdown at once or after the pending    *)
(* negotiations.                                                           *)
(***************************************************************************)
ExitNetwork(a) ==
    /\ ~preparing[a] /\ ~ready[a]
    /\ sends[a] < MaxSends[a]
    /\ \E ep \in Endpoints, c \in Cookies :
         /\ Reach[ep] # a
         /\ CanWrap(a, ep)
         /\ LET s == EncryptedSend(a, WrapRecs(a, ep), awaiting[a],
                                   cookies[a], WrapId(a, ep), Entry(a, ep), c)
            IN /\ Wrapped(a, ep)
               /\ rec' = [rec EXCEPT ![a] = s.R]
               /\ awaiting' = [awaiting EXCEPT ![a] = s.aw]
               /\ cookies' = [cookies EXCEPT ![a] = s.ck]
               /\ net' = net \cup s.out
               /\ xmit' = [xmit EXCEPT ![a] = @ \o s.x]
               /\ preparing' = [preparing EXCEPT ![a] = s.aw # {}]
               /\ ready' = [ready EXCEPT ![a] = s.aw = {}]
    /\ sends' = [sends EXCEPT ![a] = @ + 1]
    /\ UNCHANGED dups

\* The UDP transport loses a datagram.
Lose ==
    \E m \in net :
      /\ net' = net \ {m}
      /\ UNCHANGED <<spool, rec, nalloc, awaiting, cookies, preparing, ready,
                     sends, xmit, dups>>

Next ==
    \/ \E a \in Nodes :
         \/ SendEncrypted(a)
         \/ HandlePublicKeyExchange(a)
         \/ HandleSessionKeyExchange(a)
         \/ HandleEncrypted(a)
         \/ \E id \in RecIds : NegotiationTimeout(a, id)
         \/ HandleRouteInvalidate(a)
         \/ ExitNetwork(a)
    \/ Lose

\* Qt timers fire once the event loop is idle; datagrams may be lost, so
\* no fairness is assumed for their delivery.
Fairness == \A a \in Nodes, id \in RecIds : WF_vars(NegotiationTimeout(a, id))

Spec == Init /\ [][Next]_vars /\ Fairness

-----------------------------------------------------------------------------
TypeOK ==
    /\ spool \in [Nodes -> Seq(RecIds)]
    /\ rec \in [Nodes -> [RecIds -> Record]]
    /\ nalloc \in [Nodes -> 0..MaxRecords]
    /\ awaiting \in [Nodes -> SUBSET RecIds]
    /\ cookies \in [Nodes -> [Cookies -> RecIds \cup {None}]]
    /\ preparing \in [Nodes -> BOOLEAN]
    /\ ready \in [Nodes -> BOOLEAN]
    /\ sends \in [Nodes -> Payloads \cup {0}]
    /\ net \subseteq Message
    /\ dups \in 0..MaxDuplicates
    /\ xmit \in [Nodes -> Seq([to : RecIds, p : Payloads \cup {0}])]

(* Spec 3, "send_queue": a live peer record holds queued packets only      *)
(* while its negotiation is running: the record is in awaitingNegotiation  *)
(* and its negotiation timer is armed, so the queue will be sent or        *)
(* dropped (sendEncryptedPacket, handleSessionKeyExchange,                 *)
(* negotiationTimeout).                                                    *)
QueuedOnlyWhileNegotiating ==
    \A a \in Nodes : \A id \in Live(a) :
        rec[a][id].queue # <<>> => rec[a][id].timer /\ id \in awaiting[a]

(* Spec 5, "Ordering guarantees": the send queue preserves FIFO across the *)
(* handshake gap: packets to one peer record reach the transport in the    *)
(* order they were handed to sendEncryptedPacket.  The numbered packets   *)
(* are the application's; IntroducePackets (0) are left out.             *)
SendOrderPreserved ==
    \A a \in Nodes : \A i, j \in 1..Len(xmit[a]) :
        /\ i < j /\ xmit[a][i].to = xmit[a][j].to
        /\ xmit[a][i].p > 0 /\ xmit[a][j].p > 0
        => xmit[a][i].p < xmit[a][j].p

(* Spec 3: no two records of the node spool share an endpoint, so         *)
(* wrapNode's answer is the only record of that peer                       *)
(* (handlePublicKeyExchange's NAT rewrite, wrapNode).                      *)
UniqueEndpoints ==
    \A a \in Nodes : \A i, j \in 1..Len(spool[a]) :
        i # j => rec[a][spool[a][i]].ep # rec[a][spool[a][j]].ep

(* Every queued packet is eventually sent or dropped: a live record's      *)
(* queue does not stay non-empty forever (negotiation timer,               *)
(* handleSessionKeyExchange).                                              *)
QueueEventuallyFlushed ==
    \A a \in Nodes, id \in RecIds :
        (id \in Live(a) /\ rec[a][id].queue # <<>>)
            ~> (rec[a][id].queue = <<>> \/ id \notin Live(a))

(* awaitingNegotiation entries whose record has left the spool.          *)
Dangling(a) == awaiting[a] \ Live(a)

(* Spec 4.8, with the one way out the code leaves: a node that has begun  *)
(* exitNetwork eventually emits readyForShutdown, unless a RouteInvalidate *)
(* deleted a record that awaitingNegotiation still holds (exitNetwork,     *)
(* negotiationTimeout, handleSessionKeyExchange, handleRouteInvalidate).   *)
(* Duplicated and lost handshake datagrams, crossing handshakes and timer  *)
(* expiry all leave readiness reachable.                                   *)
ShutdownReadyUnlessDangling ==
    \A a \in Nodes : preparing[a] ~> (ready[a] \/ Dangling(a) # {})

(* Spec 4.8: a node that has begun exitNetwork eventually emits            *)
(* readyForShutdown (exitNetwork, negotiationTimeout,                      *)
(* handleSessionKeyExchange).                                              *)
ShutdownEventuallyReady ==
    \A a \in Nodes : preparing[a] ~> ready[a]
=============================================================================
