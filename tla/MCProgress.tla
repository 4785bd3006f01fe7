----------------------------- MODULE MCProgress -----------------------------
(***************************************************************************)
(* What must eventually happen, component by component: to Resources and   *)
(* their segments, and, on instances smaller than those of the safety      *)
(* runs, to what the other components promise.  A behaviour is about one   *)
(* component, and the fairness is that of its code.                        *)
(***************************************************************************)
EXTENDS ResourceSegments, TLC

CONSTANT Cases    \* what a configuration considers

VARIABLES
    part,  \* which of them the behaviour is about
    \* LinkOwnership
    lm, mode, generations, owner_of, mailbox, bind_result, acknowledged, lifecycle, endpoint,
    unbind_after_drain, registered, interface,
    \* LinkAuthority
    link, rejecting, stage, of, expired, worker, decision, channel, terminal, reply, dispatch,
    leases, counts, share, pass, closes, sent,
    \* Paths
    label, table, held, tags, asked, clock, emitted, requested, saved, disturbed,
    \* Transit
    current, previous, reverse, retired, session, bound, receipt, due, said, upset, handed,
    relayed, again, forgotten,
    \* Storage
    up, dirty, seen, files, seenFile, cache, writer, hasher, sweep, sync, crashes, ghost,
    \* UsbLifecycle
    plugged, lease, opener, conn, drv, io, pump, lane, written,
    \* BlePeer
    gen, running, registry, dev, conns, writers, fan, scan, churn, app, stop, late,
    \* LinkOwnership and LinkAuthority
    setting,
    \* LinkOwnership and Storage
    phase,
    \* LinkAuthority and Transit
    ties,
    \* Paths and Storage
    pending,
    \* Paths and Transit
    net, air,
    \* Paths and Transit and Storage
    path,
    \* Paths and UsbLifecycle and BlePeer
    faults,
    \* Storage and BlePeer
    recent,
    \* Storage and UsbLifecycle and BlePeer
    plan

ownershipVars == <<lm, mode, generations, owner_of, mailbox, bind_result, acknowledged,
                   lifecycle, endpoint, unbind_after_drain, registered, interface>>
authorityVars == <<link, rejecting, stage, of, expired, worker, decision, channel, terminal,
                   reply, dispatch, leases, counts, share, pass, closes, sent>>
pathsVars == <<label, table, held, tags, asked, clock, emitted, requested, saved, disturbed>>
transitVars == <<current, previous, reverse, retired, session, bound, receipt, due, said, upset,
                 handed, relayed, again, forgotten>>
storageVars == <<up, dirty, seen, files, seenFile, cache, writer, hasher, sweep, sync, crashes,
                 ghost>>
usbVars == <<plugged, lease, opener, conn, drv, io, pump, lane, written>>
bleVars == <<gen, running, registry, dev, conns, writers, fan, scan, churn, app, stop, late>>
ownershipAuthorityVars == <<setting>>
ownershipStorageVars == <<phase>>
authorityTransitVars == <<ties>>
pathsStorageVars == <<pending>>
pathsTransitVars == <<net, air>>
pathsTransitStorageVars == <<path>>
pathsUsbBleVars == <<faults>>
storageBleVars == <<recent>>
storageUsbBleVars == <<plan>>
all == <<vars, part, ownershipVars, authorityVars, pathsVars, transitVars, storageVars, usbVars,
         bleVars, ownershipAuthorityVars, ownershipStorageVars, authorityTransitVars,
         pathsStorageVars, pathsTransitVars, pathsTransitStorageVars, pathsUsbBleVars,
         storageBleVars, storageUsbBleVars>>

-----------------------------------------------------------------------------
(* The instances. *)

\* A Resource of three segments that may start twice; a split and a whole one.
SplitAndWhole ==
    {[segments |-> [r \in {"a"} |-> 3], adv_retries |-> 1, starts |-> 2],
     [segments |-> [r \in {"a", "b"} |-> IF r = "a" THEN 2 ELSE 1],
      adv_retries |-> 0, starts |-> 1]}

\* One Link, or two in a row, whose peer does not fall silent; one that does.
Bounds(made, stale) ==
    [generations |-> made, owners |-> 1, sends |-> 1, cleanups |-> 2, stale |-> stale]

O == INSTANCE LinkOwnership WITH
    Instances <- IF "silent" \in Cases THEN {Bounds(1, TRUE)} ELSE {Bounds(1, FALSE), Bounds(2, FALSE)},
    instance <- setting

\* A request and a packet over two Links in turn.
A == INSTANCE LinkAuthority WITH
    Instances <- {[kind |-> ("r" :> "request" @@ "p" :> "packet"), bytes |-> ("r" :> 1 @@ "p" :> 1),
                   slots |-> 1, budget |-> 1, link_slots |-> 1, link_budget |-> 1, links |-> 2]},
    instance <- setting, links <- ties

\* A flood that nothing disturbs, one that meets loss and a fault, and a search.
Calm ==
    [links |-> {<<"o", "a">>, <<"o", "b">>, <<"a", "b">>}, lossy |-> FALSE, limited |-> FALSE,
     elapsed |-> {0, 1}, askers |-> {}, frail |-> {}, announces |-> 2, requests |-> 0,
     faults |-> 0, retries |-> 0]
Rough ==
    [Calm EXCEPT !.links = {<<"o", "a">>, <<"a", "b">>}, !.elapsed = {1}, !.frail = {"a"},
                 !.askers = {"a"}, !.requests = 1, !.lossy = TRUE, !.limited = TRUE,
                 !.announces = 1, !.faults = 1]

Search ==
    [Calm EXCEPT !.links = {<<"o", "a">>, <<"a", "b">>}, !.elapsed = {1}, !.askers = {"a", "b"},
                 !.requests = 2, !.announces = 0]

P == INSTANCE Paths WITH
    Nodes <- {"o", "a", "b"}, Origin <- "o", Networks <- {Calm, Rough, Search},
    PATHFINDER_M <- 3, LOCAL_REBROADCASTS_MAX <- 2, MAX_RANDOM_BLOBS <- 2,
    PERSIST_RANDOM_BLOBS <- 1

\* a - x - y - d on three radios, where y learns a path back through x.
Hop(n, m, r) == {<<n, m, r>>, <<m, n, r>>}
Via(r, next, hops) == [state |-> "live", radio |-> r, next |-> next, hops |-> hops]
Loop ==
    [reach |-> Hop("a", "x", "r") \cup Hop("x", "y", "s") \cup Hop("y", "d", "t"),
     path |-> ("a" :> Via("r", "x", 3)) @@ ("x" :> Via("s", "y", 2)) @@ ("y" :> Via("t", "d", 1))
              @@ ("d" :> [state |-> "none", radio |-> "r", next |-> "d", hops |-> 0]),
     later |-> {<<"y", Via("s", "x", 3)>>}, data |-> TRUE, talk |-> {},
     kinds |-> {"reroute", "rotate", "churn"}, faults |-> 2]

Talk ==
    [Loop EXCEPT !.data = FALSE, !.kinds = {"reroute", "rotate", "cull"},
                 !.talk = {[from |-> e, context |-> "none"] : e \in {"a", "d"}}]

T == INSTANCE Transit WITH
    Nodes <- {"a", "x", "y", "d"}, Initiator <- "a", Responder <- "d", Radios <- {"r", "s", "t"},
    PATHFINDER_M <- 6, HASHLIST_HALF <- 3, Networks <- {Loop, Talk},
    links <- ties

\* Announces that are heard while the process stops, crashes or drops its table.
Heard(n) == [dest |-> "p", iface |-> "A", n |-> n]

S == INSTANCE Storage WITH
    Dests <- {"p"}, Ifaces <- {"A"}, Accepted <- {}, MaxCrashes <- 1, MaxHashes <- 1,
    Announces <- {Heard(1), Heard(2)},
    Plans <- {[heard |-> {Heard(1), Heard(2)}, kinds |-> {"drop", "stop"}],
              [heard |-> {Heard(1)}, kinds |-> {"crash", "interfaces"}]}

\* A stop in the middle of an attempt, of a late write and of a missed deadline.
Stopped(packets, frames, kinds) ==
    [drivers |-> {"a"}, app |-> packets, flow |-> FALSE, strict |-> FALSE, beacon |-> FALSE,
     background |-> FALSE, radio |-> frames, frames |-> 1, kinds |-> kinds, faults |-> 2]

U == INSTANCE UsbLifecycle WITH
    Drivers <- {"a"}, EventCapacity <- 1, MaxStarts <- 1,
    Plans <- {Stopped(<<1>>, {"ready"}, {"timeout", "late", "stop"}),
              Stopped(<<>>, {"rom"}, {"open", "setup", "stop", "abort"})}

\* A device that leaves or wedges, one that is released, and a session that stops.
Around(kinds) == [near |-> {"p"}, conns |-> 2, kinds |-> kinds, faults |-> 2]

B == INSTANCE BlePeer WITH
    Addr <- {"p"}, MAX_PEERS <- 1, RECONNECT_BACKOFF_FAILURES <- 2, KEEPALIVE_MAX_MISSES <- 2,
    CONNECT_ATTEMPTS <- 1, MaxConn <- 2, MaxGen <- 3,
    Plans <- {Around({"leave", "wedge"}), Around({"app", "hang"}), Around({"stop", "refuse"})}

ASSUME /\ SegmentsAssumption /\ O!OwnershipAssumption /\ A!AuthorityAssumption
       /\ P!PathsAssumption /\ T!TransitAssumption /\ S!StorageAssumption
       /\ U!UsbAssumption /\ B!BlePeerAssumption

Resting == Init /\ instance.starts = 1    \* Resources nobody advertises

ownershipIdle == lm = "idle" /\ mode = "idle" /\ generations = "idle" /\ owner_of = "idle" /\
                 mailbox = "idle" /\ bind_result = "idle" /\ acknowledged = "idle" /\
                 lifecycle = "idle" /\ endpoint = "idle" /\ unbind_after_drain = "idle" /\
                 registered = "idle" /\ interface = "idle"
authorityIdle == link = "idle" /\ rejecting = "idle" /\ stage = "idle" /\ of = "idle" /\
                 expired = "idle" /\ worker = "idle" /\ decision = "idle" /\ channel = "idle" /\
                 terminal = "idle" /\ reply = "idle" /\ dispatch = "idle" /\ leases = "idle" /\
                 counts = "idle" /\ share = "idle" /\ pass = "idle" /\ closes = "idle" /\
                 sent = "idle"
pathsIdle == label = "idle" /\ table = "idle" /\ held = "idle" /\ tags = "idle" /\
             asked = "idle" /\ clock = "idle" /\ emitted = "idle" /\ requested = "idle" /\
             saved = "idle" /\ disturbed = "idle"
transitIdle == current = "idle" /\ previous = "idle" /\ reverse = "idle" /\ retired = "idle" /\
               session = "idle" /\ bound = "idle" /\ receipt = "idle" /\ due = "idle" /\
               said = "idle" /\ upset = "idle" /\ handed = "idle" /\ relayed = "idle" /\
               again = "idle" /\ forgotten = "idle"
storageIdle == up = "idle" /\ dirty = "idle" /\ seen = "idle" /\ files = "idle" /\
               seenFile = "idle" /\ cache = "idle" /\ writer = "idle" /\ hasher = "idle" /\
               sweep = "idle" /\ sync = "idle" /\ crashes = "idle" /\ ghost = "idle"
usbIdle == plugged = "idle" /\ lease = "idle" /\ opener = "idle" /\ conn = "idle" /\
           drv = "idle" /\ io = "idle" /\ pump = "idle" /\ lane = "idle" /\ written = "idle"
bleIdle == gen = "idle" /\ running = "idle" /\ registry = "idle" /\ dev = "idle" /\
           conns = "idle" /\ writers = "idle" /\ fan = "idle" /\ scan = "idle" /\
           churn = "idle" /\ app = "idle" /\ stop = "idle" /\ late = "idle"
ownershipAuthorityIdle == setting = "idle"
ownershipStorageIdle == phase = "idle"
authorityTransitIdle == ties = "idle"
pathsStorageIdle == pending = "idle"
pathsTransitIdle == net = "idle" /\ air = "idle"
pathsTransitStorageIdle == path = "idle"
pathsUsbBleIdle == faults = "idle"
storageBleIdle == recent = "idle"
storageUsbBleIdle == plan = "idle"

MCInit ==
    \/ part = "segments" /\ "segments" \in Cases /\ Init /\ ownershipIdle /\ authorityIdle /\
         pathsIdle /\ transitIdle /\ storageIdle /\ usbIdle /\ bleIdle /\
         ownershipAuthorityIdle /\ ownershipStorageIdle /\ authorityTransitIdle /\
         pathsStorageIdle /\ pathsTransitIdle /\ pathsTransitStorageIdle /\ pathsUsbBleIdle /\
         storageBleIdle /\ storageUsbBleIdle
    \/ part = "ownership" /\ Cases \cap {"ownership", "silent"} # {} /\ O!Init /\ Resting /\
         authorityIdle /\ pathsIdle /\ transitIdle /\ storageIdle /\ usbIdle /\ bleIdle /\
         authorityTransitIdle /\ pathsStorageIdle /\ pathsTransitIdle /\
         pathsTransitStorageIdle /\ pathsUsbBleIdle /\ storageBleIdle /\ storageUsbBleIdle
    \/ part = "authority" /\ "authority" \in Cases /\ A!Init /\ Resting /\ ownershipIdle /\
         pathsIdle /\ transitIdle /\ storageIdle /\ usbIdle /\ bleIdle /\ ownershipStorageIdle /\
         pathsStorageIdle /\ pathsTransitIdle /\ pathsTransitStorageIdle /\ pathsUsbBleIdle /\
         storageBleIdle /\ storageUsbBleIdle
    \/ part = "paths" /\ "paths" \in Cases /\ P!Init /\ Resting /\ ownershipIdle /\
         authorityIdle /\ transitIdle /\ storageIdle /\ usbIdle /\ bleIdle /\
         ownershipAuthorityIdle /\ ownershipStorageIdle /\ authorityTransitIdle /\
         storageBleIdle /\ storageUsbBleIdle
    \/ part = "transit" /\ "transit" \in Cases /\ T!Init /\ Resting /\ ownershipIdle /\
         authorityIdle /\ pathsIdle /\ storageIdle /\ usbIdle /\ bleIdle /\
         ownershipAuthorityIdle /\ ownershipStorageIdle /\ pathsStorageIdle /\ pathsUsbBleIdle /\
         storageBleIdle /\ storageUsbBleIdle
    \/ part = "storage" /\ "storage" \in Cases /\ S!Init /\ Resting /\ ownershipIdle /\
         authorityIdle /\ pathsIdle /\ transitIdle /\ usbIdle /\ bleIdle /\
         ownershipAuthorityIdle /\ authorityTransitIdle /\ pathsTransitIdle /\ pathsUsbBleIdle
    \/ part = "usb" /\ "usb" \in Cases /\ U!Init /\ Resting /\ ownershipIdle /\ authorityIdle /\
         pathsIdle /\ transitIdle /\ storageIdle /\ bleIdle /\ ownershipAuthorityIdle /\
         ownershipStorageIdle /\ authorityTransitIdle /\ pathsStorageIdle /\ pathsTransitIdle /\
         pathsTransitStorageIdle /\ storageBleIdle
    \/ part = "ble" /\ "ble" \in Cases /\ B!Init /\ Resting /\ ownershipIdle /\ authorityIdle /\
         pathsIdle /\ transitIdle /\ storageIdle /\ usbIdle /\ ownershipAuthorityIdle /\
         ownershipStorageIdle /\ authorityTransitIdle /\ pathsStorageIdle /\ pathsTransitIdle /\
         pathsTransitStorageIdle

MCNext ==
    \/ part = "segments" /\ Next /\ UNCHANGED <<part, ownershipVars, authorityVars, pathsVars,
         transitVars, storageVars, usbVars, bleVars, ownershipAuthorityVars,
         ownershipStorageVars, authorityTransitVars, pathsStorageVars, pathsTransitVars,
         pathsTransitStorageVars, pathsUsbBleVars, storageBleVars, storageUsbBleVars>>
    \/ part = "ownership" /\ O!Next /\ UNCHANGED <<part, vars, authorityVars, pathsVars,
         transitVars, storageVars, usbVars, bleVars, authorityTransitVars, pathsStorageVars,
         pathsTransitVars, pathsTransitStorageVars, pathsUsbBleVars, storageBleVars,
         storageUsbBleVars>>
    \/ part = "authority" /\ A!Next /\ UNCHANGED <<part, vars, ownershipVars, pathsVars,
         transitVars, storageVars, usbVars, bleVars, ownershipStorageVars, pathsStorageVars,
         pathsTransitVars, pathsTransitStorageVars, pathsUsbBleVars, storageBleVars,
         storageUsbBleVars>>
    \/ part = "paths" /\ P!Next /\ UNCHANGED <<part, vars, ownershipVars, authorityVars,
         transitVars, storageVars, usbVars, bleVars, ownershipAuthorityVars,
         ownershipStorageVars, authorityTransitVars, storageBleVars, storageUsbBleVars>>
    \/ part = "transit" /\ T!Next /\ UNCHANGED <<part, vars, ownershipVars, authorityVars,
         pathsVars, storageVars, usbVars, bleVars, ownershipAuthorityVars, ownershipStorageVars,
         pathsStorageVars, pathsUsbBleVars, storageBleVars, storageUsbBleVars>>
    \/ part = "storage" /\ S!Next /\ UNCHANGED <<part, vars, ownershipVars, authorityVars,
         pathsVars, transitVars, usbVars, bleVars, ownershipAuthorityVars, authorityTransitVars,
         pathsTransitVars, pathsUsbBleVars>>
    \/ part = "usb" /\ U!Next /\ UNCHANGED <<part, vars, ownershipVars, authorityVars, pathsVars,
         transitVars, storageVars, bleVars, ownershipAuthorityVars, ownershipStorageVars,
         authorityTransitVars, pathsStorageVars, pathsTransitVars, pathsTransitStorageVars,
         storageBleVars>>
    \/ part = "ble" /\ B!Next /\ UNCHANGED <<part, vars, ownershipVars, authorityVars, pathsVars,
         transitVars, storageVars, usbVars, ownershipAuthorityVars, ownershipStorageVars,
         authorityTransitVars, pathsStorageVars, pathsTransitVars, pathsTransitStorageVars>>

-----------------------------------------------------------------------------
(* Fairness, as the components state it. *)

InOwnership == part = "ownership"
InAuthority == part = "authority"
InPaths == part = "paths"
InTransit == part = "transit"
InStorage == part = "storage"
InUsb == part = "usb"
InBle == part = "ble"

binding == O!system
tickets == A!system
routes == P!vars
relays == T!vars
stored == S!vars
radio == U!vars
peers == B!vars

Fairness ==
    /\ Watchdogs
    /\ WF_binding(InOwnership /\ O!Pass) /\ WF_binding(InOwnership /\ O!ShutdownDrained)
    /\ SF_binding(InOwnership /\ O!FlushSome)
    /\ WF_binding(InOwnership /\ O!Actor) /\ WF_binding(InOwnership /\ O!FinalPacketDrained)
    /\ WF_tickets(InAuthority /\ A!BeginPass("request"))
    /\ WF_tickets(InAuthority /\ A!BeginPass("packet"))
    /\ WF_tickets(InAuthority /\ A!EndPass) /\ WF_tickets(InAuthority /\ A!Polled)
    /\ WF_tickets(InAuthority /\ A!Dropped) /\ WF_tickets(InAuthority /\ A!TimePassed)
    /\ WF_routes(InPaths /\ P!Progress)
    /\ WF_relays(InTransit /\ T!Receive)
    /\ WF_stored(InStorage /\ S!Writers)
    /\ WF_stored(InStorage /\ S!SaveTick)
    /\ WF_radio(InUsb /\ U!OpenSteps("a")) /\ WF_radio(InUsb /\ U!PumpSteps("a"))
    /\ WF_radio(InUsb /\ U!DriverSteps("a")) /\ SF_radio(InUsb /\ U!StopsWaiting("a"))
    /\ \A i \in 1..2 : /\ WF_peers(InBle /\ B!ReaderEnds(i))
                       /\ WF_peers(InBle /\ B!ReaderClaims(i))
                       /\ WF_peers(InBle /\ B!ReaderFinishes(i))
    /\ WF_peers(InBle /\ B!Cut("p")) /\ WF_peers(InBle /\ B!Drain)
    /\ WF_peers(InBle /\ B!AppFinishes)

MCSpec == MCInit /\ [][MCNext]_all /\ Fairness

-----------------------------------------------------------------------------
(* Properties *)

\* The id of a Link that was closed becomes free again.
ClosedLinkReleased == []<>(InOwnership => O!IdReleased)

\* Shutdown drains: the manager's run ends while the transport keeps running.
ShutdownCompletes == []<>(InOwnership => mode # "draining")

\* Whoever has decided a request or a packet hears of it, and a Link that
\* rejects its packets closes.
DecisionsConclude == []<>(InAuthority => ~A!Undecided)

\* A flood dies out, and undisturbed it leaves every node a path of its second.
FloodSettles == <>[](InPaths => P!Settled)

\* What circulates in a loop of paths dies out.
LoopsDie == <>[](InTransit => air = {})

\* A path that is learnt and stays gets to disk.
LearntIsSaved == \A n \in 1..2 : []<>(InStorage => ~S!Unsaved(Heard(n)))

\* A USB driver that is asked to stop reports that it has, or is aborted.
StopAnswered == []<>(InUsb => ~U!StopPending("a"))

\* The address of a Bluetooth connection that is offline is released.
PeersReleased == \A i \in 1..2 : []<>(InBle => ~B!Lingering(i))
=============================================================================
