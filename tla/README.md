# A TLA+ model of rsReticulum

rsReticulum is a Rust implementation of the Reticulum network stack: identities
and destinations, a transport that routes packets between interfaces, Links
between two destinations, and on a Link requests, packets, Channels and
Resources. This directory models its stateful components in TLA+, model-checks
them with TLC on small instances and proves the properties that matter most with
TLAPS for every value of the constants.

Every definition is translated from the code under `src/`; `PROJECT.json` maps
each of them to its lines, lists the components, the hazards with the properties
that would catch them, the runs, a mutant for each property, and the theorems.

## 1. The system

| Part | State | Operations | What makes it hard |
|---|---|---|---|
| Channel (`rns-protocol/channel.rs`, handlers in `rns-runtime/link_manager.rs`) | send ring, window, packet-hash map, receive ring, sequence numbers | send, proof, tick, receive, shutdown, Link close | loss, repetition, reordering, wrap of the sequence number, a window that moves while messages are in flight |
| Resource (`rns-protocol/resource.rs`) | parts, hash map, windows, retry budgets at both ends | advertise, request, part, hash-map update, proof, watchdogs, cancels | late and repeated packets of every kind, a request overtaken by a map update, budgets that refill |
| Resources of a Link (`link_manager.rs`) | segment queues, lifecycles, coordinators, events | start, accept, segment outcomes, cancel, close, tick | a transfer split into segments that end in any order, with an end at both sides |
| Keepalive (`rns-link/keepalive.rs`, `link.rs`) | last in/out, interval, stale state | tick, receive, close | two clocks, suppressed replies, a teardown that is lost |
| Link endpoints (`rns-transport/actor/link_endpoint.rs`, `link_endpoint_dispatch.rs`) | endpoints with a FIFO each, dispatch lane, receipts | bind, unbind, send in three ways, drain, terminate, cancel | tokens that outlive their binding, a full interface, interface replacement |
| Responder ownership (`link_manager.rs`, transport actor) | owned binding, tombstone, pending sends and cleanups, mailboxes | link request, close, teardown, tick, lifecycle event, shutdown drain | messages that do not name a generation, a second Link with the same id |
| Link session, initiator (`link_session.rs`, `rns-link/request.rs`) | receipts, callers, outbound queue, inbound Resources | request, Resource commands, packets, tick, end | answers, timeouts, reports of helper tasks and a close racing each other |
| Application authorities (`deferred_request.rs`, `inbound_link_packet.rs`, `link_manager.rs`) | tickets, leases, budgets | reserve, respond, resolve, drop, poll, close | worker threads against the manager, a Link replaced in between |
| Paths (`rns-transport`: announce, path table, path requests) | path, announce and tag tables of every node | announce, rebroadcast, request, response, expiry, restore | floods that overtake each other on a network of nodes, late and cached answers |
| Transit (`rns-transport/actor/inbound.rs`, link, reverse and hash tables) | the relays' tables | forward, prove, establish and use a Link | relays that overhear each other, loops of paths, tables that forget |
| Persistence (`rns-transport/persistence.rs`) | snapshots, files, announce cache | learn, save, sweep, stop, restart | writers that overtake each other, a kill between two files |
| Tunnels and TCP (`rns-interface/tcp.rs`, `rns-transport/tunnel.rs`) | connections, queue of the client, tunnel and routes of the server | connect, break, synthesize, announce, cull, restart | every connection is another interface with a task of its own |
| Searches (`path_request_admission.rs`, `recursive_discovery.rs`, `path_recovery.rs`) | searches, requesters, retained requests, waiters, attempts | request, announce, tick, interface changes | interfaces that refuse and are replaced while a search runs |
| Announce egress (`announce_admission.rs`, `announce_dispatch.rs`, `background_egress.rs`) | retained announces, spaced queues, offers to a background lane | publish, relay, answer, tick, writer's start | a writer on another task that starts what the actor is taking back |
| USB radio (`android_usb*.rs`) | lease, physical generation, writer and reader, gate | open, admit, write, read, stop, quarantine | threads that hang, deadlines, two drivers on one device |
| BLE peers (`ble_peer.rs`, `ble_connect.rs`) | peripherals, connections, loops, backoff | scan, connect, write, read, disconnect, stop | tasks that outlive their generation |
| Framing (`hdlc.rs`, `kiss.rs`, fragments of `ble_peer.rs`) | deframer, reassembly | read, lose, reconnect | pieces of any size, from any point on |
| Interface registry (`interface_registry.rs`, `reticulum.rs`) | records, permits, the actor's entries | register one or a batch, tear down, drain | callers that go, cancels, an actor that ends in the middle |

How they interact: the interfaces hand packets to the transport actor, which
relays them (`Transit`) along what announces have taught it (`Paths`,
`Discovery`, `Announces`), keeps that on disk (`Storage`) and moves it with a
client's connection (`Tunnels`). A Link is bound to an endpoint of that actor
(`LinkEndpoint`); its responder's manager owns the binding (`LinkOwnership`), its
initiator is a session (`LinkSession`). Over the Link run keepalives, Channels,
Resources (`ResourceTransfer` for one transfer, `ResourceSegments` for what the
managers keep of it) and the requests and packets whose answer is left to the
application (`LinkAuthority`). The runtime starts and drains the interfaces
(`Registry`); two of the drivers are modelled (`UsbLifecycle`,
`BlePeer`), of the stream interfaces the reconnecting client and the framing.

## 2. The modules

| Module | Models |
|---|---|
| `ChannelWindow`, `ResourceWindow`, `Windows` | the flow-control windows of channel.rs and resource.rs: open, grow, shrink, promotion between tiers; `Windows` drives each with the constants of its source file |
| `Channel` | one direction of a Channel: both ends and the network between them |
| `OrderedChannel` | what a Channel promises (abstract) |
| `ResourceTransfer` | one Resource between its two ends |
| `ResourceSegments` | what the LinkManagers keep for the Resources of a Link |
| `Keepalive` | both ends of a Link in discrete time |
| `LinkEndpoint` | the transport actor's endpoints and the dispatch lane |
| `LinkOwnership` | LinkManager and transport actor about one link id |
| `LinkSession` | the initiator's session actor |
| `LinkAuthority` | deferred requests and application-proved packets |
| `Paths` | a network of nodes that learn a path to one destination |
| `Transit` | a network of nodes that relay packets and a Link |
| `Storage` | the actor, its writers, its files and a restart |
| `Tunnels` | a TCP client, its connections and its server |
| `Discovery` | the searches of one node for one destination |
| `Announces` | one node that hands announces to its interfaces |
| `UsbLifecycle` | USB drivers, the threads of a device and the lease table |
| `BlePeer` | the central role of the BLE peer interface and the Bluetooth stack |
| `Framing` | the byte stuffing of HDLC and KISS, and BLE fragments |
| `Registry` | registrations, teardowns and drain of the runtime's interfaces |
| `MC*` | instances for TLC |
| `*Proofs` | theorems and their proofs |

State variables bear the names of the code's fields, actions those of its
handlers. Where the code is an actor or holds a lock a handler is one step; where
it awaits, hands over to another task or writes several files it is several.

**Channel.** A message is its number; a packet is the message, its sequence
number, type and attempt, and its hash is message and attempt. `packets` and
`proofs` hold everything ever sent, so any of it may arrive at any time, again or
never. `SendChannelMessage`, `LinkProof`, `on_tick`, `Receive`, `ShutdownTx/Rx`
and `CloseTx/RxLink` are the handlers. After the sequence number has wrapped, a
packet of the previous round would be taken for a new one. Nothing in the code
excludes that; the model assumes it away with `Horizon`: a packet arrives only
while it is within that many messages of the next one to deliver (`Timely`), and
the sender's ring spans at most that many messages (a guard of
`SendChannelMessage` that the code does not have). Both are assumptions on the
environment. The receive ring is a set: the code keeps it sorted and without
duplicates. A message the application queue has no room for is lost there, as the
source says; that queue is not modelled.

**ResourceTransfer.** Parts are numbers, their map hashes distinct. Parts and
proofs ever sent may arrive at any time, map updates too; a request is handled
once, and may be overtaken by at most `Horizon` map segments. `Faults` are the
refusals, failed sends, cancels and corrupt content the code handles.

**ResourceSegments.** The two LinkManagers of a Link, with messages between them
that may be repeated and late. The transfer of one segment is its outcome.

**Keepalive.** Time is counted in ticks of one second; a round-trip time gives
the interval by the code's formula, in milliseconds and integers. The phases of
the two ticks and the delay of each packet are free.

**LinkEndpoint.** Generations number the bindings, `wire[g]` is what the
interface took from binding `g`. An operation is a packet sent through a token:
in the lane, queued, sent, expired, cancelled or refused.

**LinkOwnership.** One link id. `of` is a ghost generation on every message: the
code's messages do not carry one, and the properties say that none is needed. The
manager's pass is split where it hands control to the actor. Control queue and
mailbox have room or not, at each attempt.

**LinkSession.** The actor handles one event at a time, so each event is one
action; the tasks it spawns to wait for a Resource report back through
`commands`, in any order. A failed send ends the session (`Close`).

**LinkAuthority.** A ticket is one authority. The worker's check and its send are
two steps; the manager's pass takes a step for each ticket; the end of a packet
(`Finish`) and the drop of its channel (`DropTicket`) are two steps, because
workers run on other threads in between.

**Paths.** One destination on a network of transport nodes. An announce is the
second of its emission and a number; packets overtake each other and may be lost.
A handler (`process_announce`, `handle_inbound_path_request`, the announce part of
`on_tick`) is one step. Faults expire a path, label it, drop it, or restart a node
from its saved snapshot; the ghost `disturbed` is the latest emission at such a
loss: a route learnt from a later one is fresh.

**Transit.** An initiator, a responder and relays between them on radios that all
nodes in reach hear. A packet keeps its hash while its hop count and next hop
change, as in the code. Faults forget: hash lists rotate, table entries are
culled, paths change, an interface refuses.

**Storage.** The actor takes a snapshot, a blocking thread writes its files one by
one, the queries and the shutdown save synchronously; the process may be killed
between any two writes. An announce stands for the path learnt from it. Interfaces are
configured or `Accepted` clients, whose paths are neither saved nor restored.

**Tunnels.** One client and one server that see a broken connection independently;
the read task of each connection feeds the actor's mailbox in its own order.
`born` of a queued packet is a ghost, the connection after which it was queued. Routes,
kept paths and the tunnel expire; a plan says how long a route lives.

**Discovery, Announces.** One node and one or two destinations. The actor is a record
`node`, a handler is a composition of operators from a node to a node, in the order
of the code's calls; interfaces refuse, close and are replaced between two of them.

**UsbLifecycle, BlePeer, Registry.** Tasks and threads with their program counters;
a deadline may pass whenever something waits under one. The Bluetooth stack and
Java's USB service are environments, modelled by how the drivers use them.

**Framing.** The deframers byte by byte, on streams that are cut anywhere; BLE
fragments with connections that end between two of them.

## 3. The runs

Components with little in common share a run: an `MC` module has a variable
`part` that says which of them a behaviour is about. One component (in
`MCSessions` two) is extended, so that the run checks the very definitions its
theorems are about, and rests in an initial state while the behaviour is about
another; the others are instances, and their properties are stated for their
part. Most components have a variable `instance`, `plan` or `net`, chosen once in
`Init` from a small set: one run covers several settings.

| Run | Checks | Bounds, and why they are enough |
|---|---|---|
| `channel` | `InOrder`, `ImplementsOrderedChannel`, `EveryMessageSettles` | window of one, four messages over three sequence numbers, two attempts: the sequence wraps, and the fourth message bears the number of the first |
| `transfers` | `WindowsBounded`, `TiersAreEarned`; `TransferSound`, `NeverIdle`, `BudgetNeedsProgress` | both windows with the constants of the source (only the highest Resource ceiling is lowered, from 75 to 30), every sequence of operations; five parts with one hash per map segment, four with two and a repeated advertisement: several map updates, windows that grow and shrink, all faults |
| `sessions` | `RingAheadOfGap`, `SettledWasProved`, `SenderExact`; `SessionSound`, `ToldOnce`; `EndpointsSound`, `TicksConclude`; `FramesExact` | a Channel with a window of two and an unregistered type: a gap, a retransmission and a refused message together; a session as sender (two requests, two Resources, queue of one), as receiver (a split answer, a split Resource) and with no room, with transfers and repeated advertisements that fail; endpoints with all kinds of packets on a queue of two, a key bound twice, two endpoints on an interface that fails or is replaced, an in-process Link; every pair of packets of up to two special bytes, and fragments of packets around the fragment size |
| `lifecycles` | `LiveLinkStaysUp`, `DeadLinkCloses`; `OwnershipExact`; `TicketsSound`; `DeviceSound`; `PeersSound` | round trips of 20 and 40 ms (equal and different intervals) without loss, with traffic of either end and of both, equal ones with loss; two Links in a row and an interface that comes back, with stale timeouts, and one Link with two sends without; two packets at once, two over two Links with room for one each, two requests of which one fits, a request and a packet over two Links; one and two drivers of one device, seven plans (two of them with opens and set-ups that fail, a device that is unplugged and connections that cannot be closed while the other driver is under way); one and two Bluetooth addresses with a limit of one peer, seven plans |
| `routing` | `RoutesRanked`; `RelaysSound` | a flood on a kite of four nodes, two floods on a triangle, with a fault, with a request, with loss and rate limits and two faults, a search on a star, with a limit of four hops; packets and Links over two relays on one, two and three radios, with every pair of faults |
| `services` | `FilesSound`; `SearchesSound`; `AnnouncesSound` | two destinations, a crash or an orderly stop, a configured interface and an accepted client, six plans (crash, sweep, drop of the table, requested save, retained entries); a node with two interfaces and six plans of requests and faults; a node with two interfaces, one with a background lane or closed to announces from internal ones, and five plans |
| `interfaces` | `FlapsSurvived`; `InterfacesSound` | up to three connections of a client, seven plans (flaps, a second announce, a radio that is farther or nearer, time until the tunnel ends, and a roaming server whose routes expire before, with a restart); the tunnel lives three units of time, a route two or four; two interface ids, up to two registrations and two teardowns, six plans |
| `progress` | `SegmentsSound`, `AllConclude`; `ClosedLinkReleased`, `DecisionsConclude`, `FloodSettles`, `LoopsDie`, `LearntIsSaved`, `StopAnswered`, `PeersReleased` | a three-segment Resource that may start twice, a split and a whole one together; the other components on smaller settings than in the runs above |
| `ownership_stale` | `ShutdownCompletes` (violated) | one Link whose peer falls silent |
| `authority_late` | `LateResolutionAnswered` (violated) | a request and a packet |
| `usb_race` | `ReservationsOwn` (violated) | two drivers, one of which fails to set its device up |
| `registry_tombstone` | `TombstonesMeanClosed` (violated) | a driver that ends, and the teardown of its interface |

For every property a mutant of the code (a dropped guard, a missing reset, a
swapped order, an off-by-one) is listed that TLC finds to break it.

**Deadlock** is not checked: every transfer, Link, session, flood or drain here may
come to rest. That nobody waits for what cannot come is stated where it matters
(`NeverIdle`, and parts of `SessionSound`, `TicketsSound`, `SearchesSound` and
`InterfacesSound`).

**Fairness**, with the reason in the code:

- Channel: for each message, a tick that finds its timer expired keeps coming while
  it is outstanding (the LinkManager ticks periodically); nothing is assumed of the
  network.
- Resources: weak fairness of the outbound and inbound watchdogs and of the deadline
  between segments (`Watchdogs`), all of which the LinkManager's tick runs.
- Ownership: weak fairness of the manager's passes and of the actor, which are tasks
  in loops; strong fairness of the control flush, which competes with others for room
  in the mailbox; weak fairness of an interface taking the final packet.
- Authorities: weak fairness of the manager's passes (it polls every 10 ms while
  anything is pending, `link_manager.rs:1110`), of deadlines and of the drop of a
  finished packet; none of workers or of the transport actor.
- Paths: weak fairness of ticks and of the delivery of packets on the air (`Progress`);
  in a lossy network a delivery may be a loss. Transit: weak fairness of reception.
- Storage: weak fairness of the writers, threads that run to their end, and of the tick
  that saves.
- USB: weak fairness of the opener, the pump and the driver's loop; strong fairness of
  the waits that end a stop. BLE: weak fairness of the end, claim and cleanup of a read
  loop, of a requested disconnect, of the drain and of the application's disconnect.

## 4. The proofs

`tlapm` checks every theorem and lemma to the last leaf. Constants are arbitrary
within named assumptions, which the runs evaluate on their instances. A safety
theorem is proved from an inductive invariant, one step per action and below it
one per conjunct the action can disturb.

| Module | Theorem | States |
|---|---|---|
| `ChannelProofs` | `ChannelTypeCorrect` | every reachable state is well typed |
| | `DeliversInOrder` | `InOrder`: handed up once each, in order, over any number of wraps |
| | `BuffersAheadOfGap` | `RingAheadOfGap`: nothing deliverable stays in the receive ring |
| | `SettlesOnlyProved` | `SettledWasProved`: a message is settled only by a proof of its own |
| | `SenderAccountsExactly` | `SenderExact`: hash map, ring, tries and window agree |
| | `ChannelRefinesOrdered` | `ImplementsOrderedChannel`: a Channel implements `OrderedChannel` |
| `TransferProofs` | `TransferIsSound` | `TransferSound`: complete means handed over, and every part asked for is in the sender's search range |
| | `ReceiverNeverIdle` | `NeverIdle`: an incomplete receiver waits for something it asked for |
| | `BudgetsNeedProgress` | `BudgetNeedsProgress`: a retry budget grows only with progress |
| `SegmentsProofs` | `SegmentsAreSound` | `SegmentsSound`: starts and conclusions, lifecycles, routes and segments agree |
| `KeepaliveProofs` | `DeadLinksClose` | `DeadLinkCloses`: a silent Link is closed in time, at both ends |
| | `LiveLinksStayUp` | `LiveLinkStaysUp`: a lossless Link is never closed and its responder never turns stale |
| `SessionProofs` | `SessionAccountsExactly` | `SessionSound`: receipts, callers, bodies, queue and events agree; the queue waits behind nothing only after a failed repetition of an advertisement |
| | `CallersToldOnce` | `ToldOnce`: no result is followed by another |
| `PathsProofs` | `FreshRoutesRanked` | `RoutesRanked`: a fresh path leads to a later announce or a lower hop count |
| | `NoLoops` | of any set of nodes with fresh paths, one sends to a node outside it |
| `StorageProofs` | `FilesAreSound` | `FilesSound`: saves a caller waited for are not undone, a stopped node's files hold its last state, the sweep spares what is served, no path through an accepted client is restored |
| `TunnelsProofs` | `LinkFlapsAreSurvived` | `FlapsSurvived`: routes name registered interfaces, what a tunnel keeps is followed while it lives, no expired route is restored where routes outlive the tunnel, an outage's packets are not replayed |

**Channel.** `ChannelInv` adds to the types: what is buffered has arrived
(`BufferedArrived`); every packet, also of earlier attempts, bears the sequence
number of its message (`SenderStamps`); what was delivered is a prefix
(`ReceiverInOrder`); a hash in the sender's map points to the message it belongs
to (`HashesPoint`). `BufferedArrived` with `Timely` and `ChannelAssumption`
(`Horizon + WINDOW_MAX <= SEQ_MODULUS`) is the heart of it: equal sequence numbers
then mean equal messages, by lemmas on modular arithmetic at the head of the
module. `SenderInv` adds that every hash tracked was transmitted, for
`SenderExact`. The refinement maps the messages sent, delivered and settled to
`OrderedChannel`'s; each action maps to one of its steps or a stutter.

**Transfers.** `TransferInv` is enough for what is complete and for `NeverIdle`: a
receiver that is not done waits for something (`ReceiverInv`), the advertisements
stay within their budget, a proof needs a delivery and a completion a proof
(`OwnerInv`). `ReachInv` is about the sender's search range: it begins a window
below a height that was reported and ends above all the receiver knows or may be
told (`RangeInv`); requests and map segments on their way report and continue
heights the receiver had (`AskedInv`). `ReachAssumption`
(`Horizon * hashes < WINDOW_MAX_FAST`) says how many map segments may overtake a
request. With the code's constants, 74 hashes per map segment
(`resource_adv.rs:321`) and a window of at most 75, that is one: the collision guard
(`resource_adv.rs:21`) is exactly wide enough. The run's second resource lies
outside this assumption (two hashes, window of two), where its short map keeps the
property true; on longer maps TLC violates it. The claim is about the transfer of
the first advertisement: one begun anew on a late copy asks for parts that the
sender no longer looks for, and is left to the watchdogs.

**Segments.** For every Resource separately: `NetworkShapes` (what may be on its
way), `SenderInv`, `ReceiverInv` and `HandedInv`, which ties a completion at the
sender to a hand-over at the receiver.

**Keepalive.** `DeadInv`: no timer is overdue by more than a tick (`Timely`), and what
a closed end sent it sent before it closed, so its peer has heard nothing since but
for the delay (`Silenced`). `LiveInv`: both ends are up and no close is on its way
(`BothUp`), the initiator is never silent for longer than its interval
(`InitiatorSends`), what the responder has not heard is on its way
(`ResponderHears`), the responder answers the next keepalive unless the initiator
hears from it anyway (`ResponderAnswers`), and a stale initiator has a keepalive or
an answer on its way (`RecoveryUnderway`). `TimingAssumption`: twice the delay is
less than the grace time and less than the interval, and one end's interval is at
most the other's stale time. It is tight, see section 6.

**Session.** `SessionInv` is a conjunct per role: `AskingInv` for requests,
receipts and callers, `SendingInv` for the outbound queue and its callers,
`ReceivingInv` for inbound Resources and their segments. `stalled` is a ghost: it is
set when an advertisement cannot be repeated, the one end of a Resource that does not
start the next (section 6), and reset by the next start. `QueueMoves` allows a queue
behind nothing in that window only.

**Paths.** A route is ranked by the second of its announce and, within that
second, by hops. `PathsInv` says that whoever offers a route younger than the last
loss stands behind it: it is the owner, or its own path is at least as good
(`PacketsBacked` for packets on the air, `EntriesBacked` for the announce table and
held announces, `RoutesBacked` for the next hops of paths). That needs `Remembered` (a
fresh path remembers a blob of its announce or a later one, so that only a later
announce replaces it), `NothingAhead` (no announce is from the future),
`PendingIsOld` (a restored path is older than the crash) and `OwnerApart`. `NoLoops`
follows by taking, in a set of nodes with fresh paths, one of the best rank.

**Storage.** `ThreadInv` is the protocol of the threads: a synchronous save makes a
queued snapshot out of date and outwaits one that is being written. `WrittenInv`
relates the files it is done with to its snapshot; `StoppedInv` says that the actor
stands still during and after a shutdown; `DroppedInv` that a dropped path is in no
table, file or snapshot that may still become a file; `ServedInv` that what must be
served has a file the sweep is not after; `ClientsInv` that a path through an accepted
client is in no file, snapshot or list of paths that wait for an interface.

**Tunnels.** The client's queue and both wires are in the order of their
connections (`OpenedOnce`, `QueueInOrder`, `WiresInOrder`, `OutageDropped`), a
connection is registered once and nothing is heard of it before (`NoneAhead`,
`RegisteredOnce`), the tables name registered children (`NamesRegistered`), and a
path kept in the tunnel is followed by a route, or by a newer announce
(`KeptIsFollowed`) until it expires. `KeptIsYoung` and `RouteOfKept` relate the expiry of
a kept path to that of the tunnel and of its route. The lifetimes are arbitrary.
`RoutesAlive` is for plans in which a path through the client lives longer than the
tunnel, as it does in every mode but that of a roaming interface (`constants.rs`: seven
days, or one day on an access point, against eight hours); a roaming one gives a path
six hours, and section 6 says what that leads to.

## 5. What is only model-checked

- Liveness (`EveryMessageSettles` and all of `progress` but `SegmentsSound`): fairness
  is outside the prover's reach.
- `InterfacesSound`: one conjunct (nobody is stuck) uses `ENABLED`.
- `FramesExact`: the deframers are recursive over bytes; what a recursion computes for
  every input needs an induction over data.
- `EndpointsSound` and `TicketsSound`: their accounting counts over filtered sequences
  and sums over sets, both recursive. `TicksConclude` needs the same accounting.
- `WindowsBounded`, `TiersAreEarned`: the windows have the constants of the source, and
  TLC exhausts their states. The bounds the proofs need are lemmas for all constants,
  in `ChannelProofs` and `TransferProofs`.
- `OwnershipExact`, `RelaysSound`, `SearchesSound`, `AnnouncesSound`, `DeviceSound`,
  `PeersSound`: in the prover's reach, not proved. Each is a conjunction over a long
  protocol of one node, and its inductive invariant would have to describe every
  intermediate state of it.

## 6. Findings and observations

Findings, each with a run that violates what the repository says:

1. `ownership_stale`: a Link closed by a stale timeout leaves a tombstone that is
   never retired (`link_manager.rs:4534`); later requests with its id are ignored,
   and the drain at shutdown does not end while the transport runs. The comment at
   `link_manager.rs:1075` has the caller "keep the transport running until this
   future completes", which presumes that it does.
2. `authority_late`: `PendingInboundPacket::finish` (`inbound_link_packet.rs:319`)
   looks for a late resolution without closing the channel first; one sent between
   that look and the drop of the packet gets no outcome. `PendingResponse::close`
   does it the other way round. The test at `inbound_link_packet.rs:438`, whose name
   says that a late resolution reports expiration, drops the receiver first and so
   does not meet the window.
3. `usb_race`: a failed open gives its reservation back twice, the second time by
   device name (`android_usb.rs:1419`), and may take away the reservation of a driver
   that came in between. The comment at `android_usb.rs:1486` says that the interface
   can retry "without leaking a claim or racing another opener". `DeviceSound` is
   qualified by it: a device never has two sessions, but where opens may fail a
   connection that is still being set up may lose its lease, and a third open may then
   connect beside it (`SessionsExclusive`). Where no open fails, one connection exists
   at a time.
4. `registry_tombstone`: the teardown of an interface whose driver deregistered itself
   is taken for a closed actor (`reticulum.rs:8223`), so that its id stays reserved.
   The warning at `reticulum.rs:8275` says "transport closed before interface
   deregistration; retaining ID tombstone".

Observations made while modelling. No listed run shows them; where a comment, a test
name or the changelog reads differently, that is said.

- Channel: a message beyond the receive window is proved before it is dropped, so
  the sender does not repeat it (`link_manager.rs:3095`). `CHANGELOG.md:77` reads
  differently: "until a retry falls inside the window".
- Resource: a late advertisement restarts a finished transfer; the sender's search
  range may move back, though the comment at `resource.rs:1849` says that a stale
  report cannot rewind it.
- Segments: a repeated advertisement that is late fails the logical transfer; an
  advertisement of a later segment without a lifecycle is refused silently.
- Keepalive: with round trips of 20 and 60 ms an end gives up a live Link on a
  lossless network, because the responder's interval (12 s) exceeds the initiator's
  stale time (10 s); likewise with a delay of three seconds and round trips of 20 ms.
  `TimingAssumption` excludes both.
- Ownership: a failed send of an old Link can close its successor, since results do
  not name the generation (the test at `link_manager.rs:9196` is named
  `responder_staged_send_rejection_closes_exact_link_owner`); a keepalive or a Channel
  retry dropped at a full queue is taken as a failed send (`link_manager.rs:5288`).
- Session: a split inbound Resource between two segments has no watchdog of its own
  in the session; a request may time out while its answer arrives as a Resource; a
  repeated advertisement after the answer starts a second transfer. An advertisement
  that the tick fails to repeat, for another reason than the transport
  (`link_session.rs:2023`), concludes its Resource without starting the next of the queue,
  as all other ends do; the queue waits for the next start, which overtakes it.
- Authority: a reply with a Resource whose acknowledgement was staged but whose
  Resource did not start is reported `Unavailable`, though the peer gets the
  acknowledgement.
- Paths: a held announce is stranded when a newer announce overwrites the pending
  response, a second path request overwrites the held rebroadcast; loops of two and
  more nodes are possible after a loss or after an unresponsive path was replaced, until
  the next fresh announce; a node does not record the tag of its own request.
- Transit: a proof heard on the wrong interface uses up the reverse entry and enters
  the hash list; the hash of a link proof is recorded before a send that may fail;
  packets of a responder's Link are not deduplicated while its registration exists;
  `deregister_interface` leaves the reverse table alone; echoes of Channel packets are
  handed to their sender, though a comment says that the hash list is seeded "so echoes
  looped back from the fabric aren't re-processed".
- Storage: paths whose interface has not come back are not in the snapshot, so the
  first save after a restart forgets them; a save on a falling edge is skipped while
  another is in flight; failed writes are logged and clear the dirty flag; a restart
  drops the pin of a retained destination; a kill while the table is dropped leaves
  old paths in the files. The grace of the sweep is documented as no transaction.
- Tunnels: an announce that comes before the synthesis of its connection is not kept
  in the tunnel and is lost with that connection; a tunnel without announce or
  synthesis for its timeout is culled and later announces are not kept; a late
  synthesis of an old connection moves the path to an interface about to be
  deregistered. On a roaming server a kept path may expire before its tunnel;
  `restore_tunnel_paths` looks at that only when no other route exists, so that an expired
  path can replace a live one that is no newer and no shorter, and is culled at the next
  tick. Its comment (`outbound.rs:925`) says that paths "superseded by a shorter live
  route, or expired, are discarded".
- Announces: a writer may start an offer between the actor's last look and the drop of
  its receipt; after an overflow or an expiry an offer stays startable until the next
  message or tick; a coalesced target answers `Expired` while others go on (documented).
- USB: the background lane may take the permit between the pump's check and the writer;
  opening has no timeout; a rejected writer leaves the radio attached; a background
  packet taken whole but late may be written again by a later generation.
- BLE: a setup that retries after the application's disconnect serves a connection that
  is in no registry, and one that retries just after a stop's drain leaves a device
  connected that nobody owns; the drain removes entries before the disconnects finish;
  a keepalive write has no timeout; the record of an old connection's end may come
  after the success of the next; a disconnect that timed out frees its address.
- Framing: a fragment without a start is handed up as a raw packet (documented).
- Registry: an interface that deregistered itself keeps its record and control until
  the drain; a deserted shared rollback leaves the actor's entry during the drain; a
  record that turns from active to stopping does not wake those who wait for it.

## 7. What is not modelled

Left out of the modelled components:

- everywhere: payloads, compression, encryption, statistics, progress events, logging,
  application queues that drop when full;
- the legacy completion channels of Resources; in-process routes in `LinkOwnership`;
  Resource activity in `Keepalive`; of the session, connecting, application packets and
  their proofs, the Channel commands and PHY statistics;
- `Paths`, `Transit`, `Discovery`, `Announces`: clients of a shared instance (and with
  them the exception for their announces in the rules between interface modes), IFAC, MTU
  clamping, cache requests, PLAIN and GROUP packets, blackholes, ingress holds, the cap
  of the tag table and of the inventories; unresponsive labels are in `Paths` only;
- `Storage`: failed writes, older formats, the files of tunnels and blackholes;
- `Tunnels`: what a used route adds to its life, a limit on reconnects, KISS mode, socket options, I2P's accepted peers;
- `UsbLifecycle`: the choice of a device, JNI, published snapshots; `BlePeer`: the
  peripheral role, the Apple and Android paths, the anti-loop map, events; `Framing`:
  the age limit of a reassembly and AX.25; `Registry`: what an interface kind adds to
  its stop, and configuration.

Components that are not modelled:

- stateful, and left for later: the Link handshake, connecting a session, packet
  receipts, ingress and rate limits, the subscriber of interface discovery, the
  runtime's tasks, shared instance and RPC, destinations at run time, ratchets and known
  destinations, buffers over a Channel, remote shell and file copy, the other stream and
  radio interfaces and the peripheral role of BLE;
- without state or out of a model checker's reach: wire formats, cryptography,
  configuration, hardware keys, device protocols, command-line tools.
