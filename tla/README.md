# TLA+ models of Sparkle's link layer

This directory holds TLA+ models of the Sparkle overlay VPN. They are checked
with TLC. Sparkle's protocol engine lives in `src/libsparkle/LinkLayer.cpp`.
It runs as one Qt event-loop task per node. Its handlers always run to
completion. Concurrency comes only from datagrams and timers arriving in
some order at each node, and from several nodes running at once. The
network is UDP, so datagrams may be lost, reordered or duplicated.
A node process also keeps one piece of state on disk: its RSA host key
pair in `rsa_key`, written on the first start and read on every later one.

## 1. Inventory

### Components, their state and operations

| Component | Source | State | Operations |
|---|---|---|---|
| Handshake gate and node spool | `LinkLayer.cpp` 151-283, 425-523, 212-220 | `nodeSpool` (list of `SparkleNode*`), `awaitingNegotiation`, `cookies` (cookie to record), per record: endpoint, auth key, session keys, send queue, negotiation timer | `wrapNode`, `sendPacket`, `sendEncryptedPacket`, `encryptAndSend`, `handlePublicKeyExchange`, `handleSessionKeyExchange`, `negotiationTimeout`, encrypted path of `handlePacket` |
| Join protocol (client side) | `LinkLayer.cpp` 60-105, 379-421, 584-613, 674-738, 816-847, 1054-1062 | `joinStep`, `joinMaster`, `forceBehindNAT`, `joinPing`, `joinPingsEmitted/Arrived`, `joinTimer`, `pingTimer` | `joinNetwork`, `handleProtocolVersionReply`, `handleMasterNodeReply`, `handlePing`, `pingTimeout`, `joinGotPinged`, `handleRegisterReply`, `joinTimeout`, `revertJoin`, `createNetwork` |
| NAT assist | `LinkLayer.cpp` 615-680 | none of its own; it sends pings | `handlePingRequest`, `handlePingInitiate`, `doPing`, `sendPing` |
| Registration and role election (master side) | `LinkLayer.cpp` 555-582, 740-814 | the router (self node, known nodes, roles), `networkDivisor` | `handleMasterNodeRequest`, `handleRegisterRequest`, `sendRegisterReply` |
| Routing gossip | `LinkLayer.cpp` 525-553, 849-965 | router, node spool | `handleIntroducePacket`, `handleRoute`, `handleRouteRequest`, `handleRouteMissing`, `handleRouteInvalidate` |
| Exit and reincarnation | `LinkLayer.cpp` 107-126, 967-1046 | `preparingForShutdown`, router roles | `exitNetwork`, `handleExitNotification`, `reincarnateSomeone`, `handleRoleUpdate` |
| Router | not under `src/` (`Router.h`) | self node, node list with roles | `selectMaster`, `selectWhiteSlave`, `getMasters`, `getOtherNodes`, `updateNode`, `removeNode`, `clear` |
| SparkleNode | `src/SparkleNode.cpp` (an older revision of the class) | endpoint, key, fingerprint, overlay IP and MAC, queue | constructor, `setPublicKey` (overlay identity from the SHA-1 fingerprint), queue operations |
| RSAKeyPair | `src/libsparkle/RSAKeyPair.cpp` | RSA context | key generation, file I/O, `publicKey`/`setPublicKey`, chunked `encrypt`/`decrypt` |
| UDP transport | `src/libsparkle/headers/Sparkle/udppackettransport.h` | socket | `sendPacket`, `receivedPacket` signal |
| CLI | `src/main.cpp` | the `rsa_key` file, which outlives the process | argument parsing, generate and write or read the key pair, then `createNetwork` or `joinNetwork` |
| Log | `src/libsparkle/headers/Sparkle/log.h` | none kept | message formatting |
| Sippy login / audio | `src/sippy/ExtendedLogin.h`, `src/sippy/multimedia/qaudioengine.cpp` | declarations and Qt documentation only | none with logic in the repository |

### How the components interact

A datagram arrives from the transport. It goes to `LinkLayer::handlePacket`.
That handler calls `wrapNode` to find or create the sender's `SparkleNode`,
then dispatches on the opcode. PublicKeyExchange, SessionKeyExchange, Ping
and the ProtocolVersion opcodes travel in clear. Every other opcode is
framed inside an EncryptedPacket. It is sent through `sendEncryptedPacket`.
If the session keys with the peer are not yet negotiated, that gate queues
the packet and starts a handshake. The join protocol, the master-side
handlers and the gossip all send through this gate. Their handlers read
and change the Router's roles and routes. Two Qt timers drive the join
(`joinTimer` and `pingTimer`, 5 s each). One timer per SparkleNode bounds
each handshake (`negotiationTimedOut`). The application layer receives
decrypted `DataPacket`s and sends data with `sendDataToNode`.

### What is hard

* **Crossing handshakes.** Both peers can start a negotiation with each
  other at once. Each side then answers the other's PublicKeyExchange and
  SessionKeyExchange while its own is still running.
* **Lossy UDP.** Any handshake datagram may be lost or duplicated. Timeouts
  are the only recovery, and the link layer never retries.
* **Records found by endpoint.** Pointers to SparkleNode objects sit in
  `awaitingNegotiation`, in `cookies` and in `joinMaster`.
  `handleRouteInvalidate`, `handleExitNotification` and `revertJoin` delete
  records without clearing those pointers.
* **Timers against handlers.** The join timer, the ping timer and the
  negotiation timers race with late replies.
* **Error paths that do not return.** They run `revertJoin` and then carry
  on.
* **Role arithmetic.** The master/slave ratio is computed in floating point
  over counts that change on every join and exit.

### Properties that make each component correct

* Handshake gate:
  * a queue is non-empty only while its negotiation runs;
  * packets to one peer reach the transport in the order they were handed
    to the gate;
  * every queued packet is eventually sent or dropped;
  * an exiting node eventually becomes ready for shutdown;
  * no two spool records share an endpoint;
  * no pointer refers to a deleted record.
* Join protocol:
  * the steps are visited in order;
  * a failed join stops: nothing is sent and no step is taken after
    `joinFailed`;
  * every step gets its full timeout;
  * a join whose datagrams are delivered in time finishes;
  * a node behind NAT registers with the master-observed endpoint.
* Registration and roles:
  * a node behind NAT is never a master;
  * after every registration and every exit, masters make up at least
    1/divisor of the nodes, or there is a single master;
  * reincarnation always finds a slave.
* Gossip:
  * a slave knows routes to every master;
  * Routes are accepted only from masters;
  * a node never holds a route to itself.
* SparkleNode identity: the overlay IP is `fp0.fp1.fp2.14` and the MAC is
  `02:fp0..fp4`, computed from the SHA-1 fingerprint.

## 2. Plan

Modules, in the order they are (or will be) written. The most important
behaviour comes first.

1. **`Negotiation`** (done). The handshake gate for N nodes over a lossy
   network. It covers the node spool, queues, cookies, negotiation timers,
   RouteInvalidate deletion and exit readiness. `MC_Negotiation` holds its
   instances.
2. **`JoinProtocol`** (done). The client's join state machine
   (`joinNetwork` ... `joined`/`joinFailed`) against a bootstrap peer B and
   a master M. B and M run the code's own request handlers. Time is
   discrete, `joinTimer` and `pingTimer` are countdowns, and there is a NAT
   filter in front of the joiner. Encrypted opcodes need session keys, which
   stand for a finished negotiation; `Negotiation` checks that gate on its
   own. `MC_JoinProtocol` holds the instances.
3. **`Membership`** (done). The master side: registration, role election,
   Route gossip, RouteRequest, ExitNotification, reincarnateSomeone and
   RoleUpdate, for 4 nodes with one behind a NAT, and a three-node
   genesis in which each channel keeps sending order. `MC_Membership`
   holds the instances.
4. **`OverlayIdentity`** (not written). The pure function `setPublicKey`
   uses to derive the overlay IPv4 and MAC from fingerprint bytes. Its one
   interesting outcome, the host byte order of the `quint32` cast, is a
   divergence that would need a violation run of its own; see "Not
   modelled".
5. **`RSAKeyPair`** (done). The byte layout `writeToFile` and `publicKey`
   stream, the base64 text, what `readFromFile` and `setPublicKey` recover
   from a truncated stream, and the chunk loops of `encrypt`/`decrypt`, as
   operators (`RECURSIVE` where the code loops).
6. **`Startup`** and **`JoinerNode`** (done). `main`'s key step (generate
   and write `rsa_key`, or read it) with crashes and restarts, composed
   with `JoinProtocol`: the join starts only once the key pair is loaded.
   `MC_JoinerNode` holds the instances.
7. A composition of `Negotiation` and `JoinProtocol`, if the state space
   allows. The join then runs over the real gate, not over an assumed
   channel.

Bounds are chosen so that every interesting interleaving fits:

* 2 nodes give crossing handshakes;
* a third endpoint gives the NAT rewrite;
* 2 cookie values give reuse;
* 1-2 payloads per node give ordering;
* 2 record slots give a record deleted and created again.

## 3. What is modelled now: `Negotiation`

### Correspondence with the code

| TLA+ | Code |
|---|---|
| `spool[a]`, `rec[a][id]`, `nalloc[a]` | `nodeSpool` and the SparkleNode objects. A record is a slot number that is never reused, so a deleted record stays visibly dangling. |
| `awaiting[a]` | `awaitingNegotiation` |
| `cookies[a]` | `cookies` (`None` = no entry) |
| `preparing[a]`, `ready[a]` | `preparingForShutdown`; whether `readyForShutdown` was emitted |
| `net` | datagrams in flight (a set: lost, reordered; at most `MaxDuplicates` redeliveries per behaviour) |
| `Found`/`WrapId`/`Wrapped` | `wrapNode` |
| `EncryptedSend` | `sendEncryptedPacket` + `encryptAndSend` |
| `SendEncrypted` | `sendDataToNode` and any other caller of the gate |
| `HandlePublicKeyExchange` | `sendPublicKeyExchange` + `handlePublicKeyExchange`, including the NAT rewrite and the slave's IntroducePacket (`IntroEntry`: sent straight from the handler, numbered 0, not counted against `MaxSends`) |
| `HandleSessionKeyExchange` | `sendSessionKeyExchange` + `handleSessionKeyExchange` |
| `HandleEncrypted` | the EncryptedPacket path of `handlePacket` |
| `NegotiationTimeout` | `negotiationTimeout` |
| `HandleRouteInvalidate` | `handleRouteInvalidate` once the packet is accepted |
| `ExitNetwork` | `exitNetwork` of a joined node, with one packet through the gate |
| `Lose` | UDP loss |

Payloads are numbered in the order they are handed to the gate. `xmit`
records the order in which they reach the transport. The session key a node
makes for a record is `<<node, slot>>`. `areKeysNegotiated` means "the
peer's key has been stored". The SparkleNode revision that LinkLayer uses is
not under `src/`, and the responder never calls `negotiationFinished`, so
this is the only reading under which the responder could ever receive an
encrypted packet.

### Runs

| Run | Result | What it shows |
|---|---|---|
| `negotiation` | pass | With crossing handshakes, loss and a joined slave B that introduces itself after every PublicKeyExchange reply it handles (A may send 1 packet, B 2), a queue is non-empty only while its negotiation runs, and every queue is eventually sent or dropped (`QueuedOnlyWhileNegotiating`, `QueueEventuallyFlushed`). Without route invalidation, a node that calls `exitNetwork` always emits `readyForShutdown` (`ShutdownEventuallyReady`): the timeout or the handshake ends every pending negotiation. |
| `negotiation_dup` | pass | Between two masters (no IntroducePacket), with one datagram delivered twice per behaviour (`MaxDuplicates` = 1), the queue discipline also holds, and also when RouteInvalidate deletes a record during its negotiation and `wrapNode` creates it again. In that model an exiting node always emits `readyForShutdown` unless `awaitingNegotiation` still holds a record RouteInvalidate deleted (`ShutdownReadyUnlessDangling`): duplicated and lost handshake datagrams never hang an exit, the dangling entry of `invalidate_hang` is the only way. |
| `send_order` | violation | Crossing handshakes break FIFO. B's record for A gets A's session key from A's SessionKeyExchange request while B's own negotiation still holds a queued packet. A packet B sends next goes straight to the transport, ahead of the queued one. |
| `nat_duplicate` | violation | The behind-the-same-NAT rewrite moves the original record to the reply's endpoint. The record `wrapNode` created for that endpoint stays in the spool, so two records share an endpoint. The run has three nodes (B behind A's NAT, C public) and one cookie value, so the model also holds two handshakes pending at one node under one cookie: the first peer's reply is then applied to the second peer's record and moves it to the first peer's endpoint, which breaks the same invariant. TLC reports the shorter NAT trace; with B public, the collision trace is found instead. |
| `invalidate_hang` | violation | A RouteInvalidate for a peer with a running negotiation deletes the record (and its timer) but leaves it in `awaitingNegotiation`. An exit waiting on that negotiation never becomes ready. |

### Fairness

The only fairness is weak fairness of each record's `NegotiationTimeout`.
A Qt single-shot timer that has been started fires once the event loop runs.
Datagram delivery gets no fairness, because UDP may drop anything.

### Not modelled in `Negotiation`

* Malformed packets and malformed public keys. They come only from a peer
  that does not run this code, and the size checks drop them without
  changing state.
* The contents of decrypted packets. Their handlers are in the other
  modules.
* A second `readyForShutdown`. `ready` is a flag, so a second emission
  (reachable in `negotiation`: a negotiation timed out, the exit became
  ready, and a later send starts and finishes another negotiation) is not
  visible. Nothing under `src/` connects the signal.

## 3b. What is modelled now: `JoinProtocol`

### Correspondence with the code

| TLA+ | Code |
|---|---|
| `joinStep`, `forceBehindNAT`, `joinMaster`, `joinPing`, `joinPingsArrived` | the LinkLayer members of the same names (`joinStep` values are the `JoinStep` enum) |
| `joinTimer`, `pingTimer` | the two single-shot `QTimer`s: `Off` = stopped, otherwise the ticks left |
| `spool`, `gen`, `keyed` | `nodeSpool`. A record is `<<endpoint, generation>>`. `RevertJoin` bumps the generation, so a pointer kept across it dangles. `keyed` holds records that have session keys |
| `selfEp`, `joined`, `failed` | the `self` node's endpoint; whether `joined()` was emitted; how many times `joinFailed()` was emitted |
| `opened` | peers the NAT has seen the joiner send to |
| `net` | datagrams in flight, each with an age `d` |
| `JoinNetwork` | `joinNetwork` |
| `HandleProtocolVersionReply`, `HandleMasterNodeReply`, `HandlePing`, `JoinGotPinged`, `HandleRegisterReply` | the handlers of the same names and `joinGotPinged` |
| `JoinTimeout`, `PingTimeout` | `joinTimeout`, `pingTimeout` |
| `RevertJoin` | `revertJoin` |
| `Peer*` actions | the peers' `handleProtocolVersionRequest`, `handleMasterNodeRequest`, `handlePingRequest` (both sides), `handleRegisterRequest` |
| `HandleUnkeyed`, `Dropped` | an encrypted packet from a peer without keys; a packet the current `joinStep` does not accept |
| `NatDrop`, `Lose`, `Tick` | the NAT filter, UDP loss, and time passing |

`pingTimer` has priority over `joinTimer` when both expire on the same tick.
The code starts `pingTimer` first with the same 5 s interval, so the event
loop handles it first. `Timely` makes every datagram arrive within
`MaxDelay` ticks. Without it, a reply may arrive after any timeout.

### Runs

| Run | Result | What it shows |
|---|---|---|
| `joiner` (section 3d) | pass | The join run inside `JoinerNode`: with loss, NAT and both peer versions, a joined node's own endpoint is the one its peer observed (`SelfEndpointObserved`); a join never reports success after a failure (`JoinedOnlyIfNeverFailed`); and every join ends in `joined` or `joinFailed` (`JoinEventuallyEnds`). |
| `nat_join` | violation | A joiner behind NAT never joins. `pingTimeout` reports "behind NAT" and sends the master request but does not restart `joinTimer`. The join timer started together with the ping timer then expires during the master exchange (LinkLayer.cpp:718). |
| `version_mismatch` | violation | After a version mismatch, `handleProtocolVersionReply` calls `revertJoin` and `joinFailed` and then falls through. It sends a MasterNodeRequest through the freed record, moves to the next step and restarts the timer, so a second `joinFailed` follows (LinkLayer.cpp:413). |
| `late_reply` | violation | `revertJoin` does not reset `joinStep`. A ProtocolVersionReply that arrives after `joinTimeout` is still accepted and restarts the join, which can emit `joined` after `joinFailed` (LinkLayer.cpp:1054). |

`JoinSucceeds` (every join on a timely, lossless network with compatible
peers ends in `joined`) holds for a joiner with a public endpoint; it was a
passing run of its own and gave its slot to `torn_key_file`. It is checked
in `nat_join`, where the NAT makes it fail. `FailureIsFinal` is checked only in `version_mismatch`, because the
mismatch violates it in every configuration that has peers of another
version. The project keeps at most twelve runs, so no passing run repeats it
for compatible peers.

### Fairness

Weak fairness of `JoinNetwork`, `JoinTimeout`, `PingTimeout`, `Tick` and of
receiving some datagram. The event loop eventually runs every posted call,
expired timer and pending socket read. Loss has no fairness.

### Bounds

`Timeout` = 7 ticks is more than the three hops (`MaxDelay` = 2 each) of the
longest exchange, so in a timely run no timeout fires early. `PingBurst` = 4
is `joinPingsEmitted`, the ping count the joiner asks for. `MaxGen` = 2 lets the record be reverted
once and created again.

### Not modelled in `JoinProtocol`

* The `nonidentical` branch of `handlePing`. It is reached only when a peer
  reports an address that differs from the one the joiner pinged from, which
  these peers never do. It is listed as a hazard.
* `createNetwork`, role election, routes and exit. They are in
  `Membership`.
* Duplicated datagrams and `doPing` bursts of more than 16.

## 3c. What is modelled now: `Membership`

`Membership` is the overlay after the handshake: who is a member, who is a
master, and what each node's router holds. Every node runs the same
handlers on its own router. Encrypted packets are a set. With `Ordered`
= FALSE any two may arrive in either order, as UDP and the handshake gate
allow (`send_order`). With `Ordered` = TRUE each packet carries a number
`seq` on its channel (sender, receiver), `Emit` numbers a handler's
packets in the order the handler sends them, and `InOrder` lets only the
oldest packet of a channel be handled: the per-master order spec 5
assumes once keys are negotiated. None is lost. A packet for a process that stopped stays in the set
unhandled. A handler that dereferences NULL crashes its process, which
then stops without sending anything.

### Correspondence with the code

| TLA+ | Code |
|---|---|
| `st[n]` | the process: not started, registering (`joinStep` = JoinRegistration, no self node), joined (JoinFinished), `joinFailed`, exited, crashed |
| `isMaster[n]` | `router.getSelfNode()->isMaster()` |
| `view[n][x]` | the router's record for `x` and that SparkleNode's `isMaster()` ("none" = no record) |
| `net` | encrypted packets in flight; `flag` is the packet's one boolean field, `seq` its place on its channel when `Ordered` |
| `Live` | the process is inside `main`'s `app.exec()` (main.cpp 117-146): registering or joined |
| `Updates`, `RegisterAnswer` | `handleRegisterRequest`'s update list and its sends: the Routes to and about each update, the Route about itself, then the RegisterReply |
| `OtherNodes`, `OtherMasters`, `MasterCount`, `NodeCount`, `SelectMaster`, `WhiteSlaves` | the Router queries. Router is not under `src/`, so these follow the design: `getNodes()` holds the self node, `selectMaster()` returns another master if there is one, `selectWhiteSlave()` a slave not behind a NAT or NULL |
| `Init` | `createNetwork` at the founder |
| `Register` | `handleMasterNodeRequest` at a bootstrap and the joiner's `sendRegisterRequest`. The version check, pings and timers are in `JoinProtocol`. |
| `JoinTimeout` | `joinTimeout` + `revertJoin` during registration |
| `NewMaster`, `Insufficient` | the role decision of `handleRegisterRequest` |
| `HandleRegisterRequest` ... `HandleExitNotification` | the handler of the same name, including its slave check and its NULL self node |
| `ReincarnateSomeone` | `reincarnateSomeone` |
| `ExitNetwork` | `exitNetwork` |
| `SendRouteRequest` | `sendRouteRequest` from a slave, for a joined node it has no record of |

`rk < ik` compares two doubles. Both are correctly rounded quotients of
small integers, so for the counts here the comparison gives the same
answer as the rationals. `Insufficient` compares `masters * divisor` with
`nodes`.

### Runs

| Run | Result | What it shows |
|---|---|---|
| `membership` | pass | Four nodes: founder A, public B and C, D behind a NAT. Joiners are given A's or D's address, one node may exit and one slave may ask for a route. Every packet is addressed to a node other than its sender (`TypeOK`, the spec's never-send-to-self invariant). No router ever holds D as a master (`NatNeverRoutedAsMaster`): the role decision, the Route gossip and reincarnation together keep NAT nodes slaves. |
| `genesis` | pass | Founder A, joiners B and C, divisor 1, `Ordered` = TRUE, no exits. Every node that ends joined holds a route to every other master (`MastersKnown`, under `FairSpec`). A master sends the Route about itself before the RegisterReply, and with per-channel order the joiner is a member before it handles the reply. Without that order (a reply overtaking the Route) the joiner would drop the master's later Routes for ever; spec 5 rules that out, so the run checks the code under the spec's guarantee. |

Without a property, the `membership` run also reaches these states:

* A master crashes in `reincarnateSomeone` when every slave it knows is
  behind a NAT. This happens when founder A exits with only D as a slave:
  selectWhiteSlave returns NULL.
* A bootstrap sends a joiner to a node that is itself still registering.
  The bootstrap learned that node as a master from a Route that overtook
  the node's own RegisterReply, and the node crashes on the RegisterRequest.
* A node whose join timed out after its master registered it stays a
  member in every router that heard of it.

These are listed as hazards in `PROJECT.json`.

### Fairness

`FairSpec` adds weak fairness for handling a packet of each content (type, sender, receiver, subject, flag); fairness over the contents rather than over numbered packets keeps the set of fairness conditions finite. Qt's event loop
runs `handlePacket` for every datagram the socket delivers, one at a time,
and no packet is lost in these runs. Joins, exits and route requests get
no fairness, because the user or the application decides them. Only
`genesis` uses `FairSpec`.

### Bounds

* Four nodes: a founder, two public joiners and a NAT joiner. This is the
  smallest set where a public node joins as a slave (divisor 2, with two
  masters already), so reincarnation can promote someone, and where
  selectWhiteSlave can still come back empty.
* `Bootstraps` = {A, D}. A joiner may come through a slave, which is how
  a bootstrap with no master in its router is reached.
* `MaxExits` = 1 and `MaxRouteRequests` = 1. A second exit would reach a
  slave that never got its RoleUpdate receiving an ExitNotification, but
  it takes the run past the time bound.
* Symmetry over B and C, the two public joiners. No constant names either
  of them.
* `genesis`: three nodes, all public, so that the second joiner hears of
  the first from A's gossip and both become masters. A fourth node makes
  the fair liveness check far too slow. There is no symmetry there, since
  symmetry is unsound for liveness.

The `membership` run (`Ordered` = FALSE) has 1,742,495 distinct states; `genesis` has 190 and takes about two
minutes.

### Not modelled in `Membership`

* Datagram loss. With one lost packet allowed, the four-node state space
  grows past 4.6 million states. Loss is modelled in `Negotiation` and
  `JoinProtocol`.
* The handshake itself, and `handleIntroducePacket`. When a slave sends
  IntroducePacket is modelled in `Negotiation`. Whether the receiver
  decrypts it depends on gate state: a record deleted by ExitNotification
  or RouteInvalidate loses its session keys, and a late IntroducePacket
  from that peer is then dropped. `Membership` does not carry that state,
  so adding the handler would re-add departed nodes that the code never
  re-adds.
* A property that the network keeps a master while a public member is
  left. It is broken in the `membership` model by `reincarnateSomeone`'s
  NULL `selectWhiteSlave()` (LinkLayer.cpp:1031) and by an exit that hands
  over to a registrar's ghost master (LinkLayer.cpp:1054). Checking it
  needs a violation run, and all twelve runs are in use.
* The wait for pending negotiations in `exitNetwork`. It is in
  `Negotiation`.
* Overlay IP and MAC assignment. The route lookup by overlay IP is a lookup
  by node.
* `handleRegisterReply` rejects a second RegisterReply after the join. A
  node registers once, so this branch is never reached, and the slave
  branch of `handleExitNotification` needs a second exit. Both are in the
  module but do not fire within the bounds.

## 3d. What is modelled now: `RSAKeyPair`, `Startup`, `JoinerNode`

`main` (main.cpp 34-133) returns 1 at once when `--node` is missing. It
then generates the host key pair and writes it to
`~/.sparkle/<profile>/rsa_key` when that file does not exist, and reads it
otherwise; a failed generation or read ends the process with 1. Only then
does it build the LinkLayer and call `joinNetwork`, which fails, and
`main` returns 1, when `initTransport` cannot bind the port. The file outlives the process, so a
crash of one run is seen by the next.

### Correspondence with the code

| TLA+ | Code |
|---|---|
| `RawKey(k)`, `KeyStream`, `U32`, `MpiOut`, `MpiBytes` | `writeToFile`'s `QDataStream` (big-endian `quint32`/`qint32`, length-prefixed `QByteArray`) and `operator<<(QDataStream&, const mpi&)` (minimal big-endian bytes, empty for 0 or NULL) |
| `Base64Len`, `FromBase64Prefix` | `toBase64` (4 characters per 3 bytes) and `fromBase64` of a prefix of that text (3 bytes per 4 characters, padding skipped) |
| `ReadU32`, `ReadMpi`, `ReadKey`, `ReadFromFile` | `readFromFile`: the magic check, then every field read in order; a read past the end yields 0 or an empty array, which `operator>>` turns into a NULL mpi, and the call still returns true |
| `publicKey`, `setPublicKey` | the same layout restricted to ver, len, N, E, RN |
| `EncryptLoop`/`encrypt`, `decrypt` | the chunk loops; a block is its payload plus padding cells; `rsa_pkcs1_encrypt`'s ignored failure leaves the previous buffer |
| `phase`, `keyFile`, `hostKey`, `crashes` | where `main` is; `rsa_key` as (key, characters written); `hostPair`'s context; crashes so far |
| `Start` | lines 34-115: the `--node` check (phase `usage`), a fresh `RSAKeyPair`, `QFile::exists`, `readFromFile` |
| `Generate`, `WriteKeyFile` | `generate(keyLen)`, which may fail (exit 1, no file), and `writeToFile`'s open with `Truncate`; the `write` of the whole text and `close` |
| `BindFails` | `joinNetwork`'s `initTransport` (LinkLayer.cpp 128-142) failing to bind; `main` returns 1 |
| `Crash` | the process dying; in `writing` it leaves any prefix of the text |
| `StartupStep`, `LinkStep` | `JoinerNode`: startup steps happen before `joinNetwork`; the LinkLayer's steps (all of `JoinProtocol`'s `Next`) only once `phase = "ready"` |

Keys are small stand-ins: records with one- and two-byte mpis and NULL
`RN`/`RP`/`RQ`, as `rsa_gen_key` leaves them. Their `len` (12 and 14)
gives one and three plaintext bytes per RSA block, so the chunk loops meet
exact multiples and short last pieces within seven bytes.

### Runs

| Run | Result | What it shows |
|---|---|---|
| `joiner` | pass | A node started with or without `--node`, whose key generation may fail and whose port may be taken, and that crashes while generating its key pair or after writing `rsa_key` (at most twice) and is restarted, always loads the pair it wrote when it gets past the option check (`KeyFileLoadsGeneratedKey`); with that key, `decrypt(encrypt(p)) = p` (`CryptRoundTrip`); the join properties of section 3b hold in the composition. |
| `torn_key_file` | violation | A crash while `writeToFile` writes the text leaves a truncated `rsa_key`. The next start reads it: with fewer than the four magic bytes `readFromFile` fails and `main` exits on every start; with more, it returns true with zeros for the missing fields, and the node runs with a key pair it never generated (RSAKeyPair.cpp:98, 157). |

### Fairness

`JoinProtocol`'s fairness, restated over the composed actions, and weak
fairness of `Generate` and `WriteKeyFile`: `main` runs them without
waiting for anything. `Start` has no fairness: a restart after a crash is
up to the operator. `JoinNetwork` is fair only once `phase = "ready"`; a
fairness condition on `JoinNetwork` alone would rule out every behaviour in
which startup never finishes.

### Not modelled

* A crash after `joinNetwork`. The join's timers and datagrams in flight
  would have to be reset, which `JoinProtocol`'s bounds do not cover.
* The option values. `--key-length`, `--port` and `--profile` are
  abstracted to their outcomes: `generate` fails or succeeds, the bind
  fails or succeeds. The `--create` path is `Membership`'s `Init`; the TAP
  device is not modelled.
* `writeToFile`'s failure to open the file, and the "-----BEGIN" check of
  `readFromFile`, which base64 of a BMPI stream never matches.
* The RSA arithmetic. `rsa_gen_key`, `rsa_pkcs1_encrypt` and
  `rsa_pkcs1_decrypt` are PolarSSL functions outside this repository.

## 4. Bounds (`Negotiation`)

* `MaxSends` bounds, per node, the packets it hands to the gate. With 2,
  a node can send again after a negotiation; `negotiation` gives A 1 and
  B 2, since B's IntroducePackets already double the traffic.
* `MaxDuplicates` bounds the redeliveries of one behaviour: 1 in
  `negotiation_dup`, 0 elsewhere. One redelivery of a handshake datagram
  is what the duplicate handling has to survive; a second repeats it.
* `MaxRecords` bounds the SparkleNode objects a node allocates. 2 lets a
  record be deleted and created again; 3 is needed for the NAT duplicate.
* `Cookies` = {c1}: with two nodes a node has one peer, so one cookie
  value suffices and is reused after a timeout. In `nat_duplicate`, with
  three nodes, the single value makes two pending handshakes at one node
  share a cookie, which is how a `qrand()` collision looks.

Each run takes at most about two minutes.

## 5. Not modelled, and why

* **Overlay identity** (`SparkleNode::setPublicKey`, SparkleNode.cpp
  54-75). A pure function of the fingerprint. Its only open question is
  the byte order of the `char[4]` to `quint32` cast: on a little-endian
  host the address is `14.fp2.fp1.fp0`, not the spec's `fp0.fp1.fp2.14`.
  Showing that takes a violation run of its own; the project's twelve
  runs are spent on protocol findings, and no protocol property reads the
  overlay address.
* **`handleIntroducePacket`**, for the reason given under `Membership`.
* **Findings that need one more violation run each**: the network left
  without a master (LinkLayer.cpp:1031 and 1054) and a second
  `readyForShutdown` (LinkLayer.cpp:218). Both are reached by the passing
  models and listed as hazards with the trace that reaches them.
* **Router**, **the UDP socket**, **Log** and **Sippy**. Router is not in
  `src/`; its queries follow the design. The socket is the network of each
  model. Log only formats text. The Sippy files hold declarations and Qt
  documentation with no logic of this repository.
