---------------------------- MODULE MCLifecycles ----------------------------
(***************************************************************************)
(* What Links and devices live by and have to let go, side by side: the    *)
(* keepalives of a Link, its binding in the transport, the requests and    *)
(* packets whose answer was left to the application, the USB radio driver, *)
(* and the Bluetooth peers.  A behaviour is about one of them.             *)
(***************************************************************************)
EXTENDS Keepalive, TLC

CONSTANT Cases    \* what a configuration considers

VARIABLES
    part,  \* which of them the behaviour is about
    \* LinkOwnership
    lm, phase, mode, generations, owner_of, mailbox, bind_result, acknowledged, lifecycle,
    endpoint, unbind_after_drain, registered, interface,
    \* LinkAuthority
    link, links, rejecting, stage, of, expired, worker, decision, channel, terminal, reply,
    dispatch, leases, counts, share, pass, closes, sent,
    \* UsbLifecycle
    plugged, lease, opener, conn, drv, io, pump, lane, written,
    \* BlePeer
    gen, running, registry, dev, conns, writers, fan, scan, recent, churn, app, stop, late,
    \* LinkOwnership and LinkAuthority
    setting,
    \* UsbLifecycle and BlePeer
    plan, faults

ownershipVars == <<lm, phase, mode, generations, owner_of, mailbox, bind_result, acknowledged,
                   lifecycle, endpoint, unbind_after_drain, registered, interface>>
authorityVars == <<link, links, rejecting, stage, of, expired, worker, decision, channel,
                   terminal, reply, dispatch, leases, counts, share, pass, closes, sent>>
usbVars == <<plugged, lease, opener, conn, drv, io, pump, lane, written>>
bleVars == <<gen, running, registry, dev, conns, writers, fan, scan, recent, churn, app, stop,
             late>>
ownershipAuthorityVars == <<setting>>
usbBleVars == <<plan, faults>>
all == <<vars, part, ownershipVars, authorityVars, usbVars, bleVars, ownershipAuthorityVars,
         usbBleVars>>

\* Two Links in a row, whose peers may fall silent, and an interface that comes back;
\* one Link whose peer does not.
Bounds(made, owners, sends, stale) ==
    [generations |-> made, owners |-> owners, sends |-> sends, cleanups |-> 2, stale |-> stale]
Bindings == {Bounds(2, 2, 1, TRUE), Bounds(1, 1, 2, FALSE)}

O == INSTANCE LinkOwnership WITH Instances <- Bindings, instance <- setting

\* Two packets of one Link at a time.
TwoPackets ==
    [kind |-> ("p" :> "packet" @@ "q" :> "packet"), bytes |-> ("p" :> 2 @@ "q" :> 1),
     slots |-> 2, budget |-> 3, link_slots |-> 2, link_budget |-> 3, links |-> 1]

\* Two packets, of which a Link may hold one: the other is for the next Link,
\* even while the first is still held.
LinkFull == [TwoPackets EXCEPT !.link_slots = 1, !.links = 2]

\* Two requests over two Links in turn; the second fits only once the first
\* is over, answer and all.
TwoRequests ==
    [kind |-> ("r" :> "request" @@ "s" :> "request"), bytes |-> ("r" :> 2 @@ "s" :> 2),
     slots |-> 2, budget |-> 3, link_slots |-> 1, link_budget |-> 1, links |-> 2]

\* A request and a packet over two Links in turn.
Mixed ==
    [kind |-> ("r" :> "request" @@ "p" :> "packet"), bytes |-> ("r" :> 1 @@ "p" :> 1),
     slots |-> 1, budget |-> 1, link_slots |-> 1, link_budget |-> 1, links |-> 2]

A == INSTANCE LinkAuthority WITH
    Instances <- IF "late" \in Cases THEN {Mixed} ELSE {TwoPackets, LinkFull, TwoRequests, Mixed},
    instance <- setting

\* A round trip time of 20 ms gives the least interval of 5 s, 40 ms gives 8 s.
Links == {[rtts |-> {20}, delay |-> 1, traffic |-> {"initiator"}, lossy |-> FALSE],
          [rtts |-> {20}, delay |-> 0, traffic |-> {"initiator", "responder"}, lossy |-> FALSE],
          [rtts |-> {20, 40}, delay |-> 1, traffic |-> {"responder"}, lossy |-> FALSE],
          [rtts |-> {20}, delay |-> 0, traffic |-> {"responder"}, lossy |-> TRUE]}

-----------------------------------------------------------------------------
(* The USB driver: one and two drivers of one device. *)

Calm ==
    [drivers |-> {"a"}, app |-> <<>>, flow |-> FALSE, strict |-> FALSE, beacon |-> FALSE,
     background |-> FALSE, radio |-> {}, frames |-> 0, kinds |-> {}, faults |-> 0]

\* Two drivers start on the device, with a failing worker, a hung one and an abort.
Contended ==
    [Calm EXCEPT !.drivers = {"a", "b"},
                 !.kinds = {"timeout", "write", "read", "close", "abort"}, !.faults = 2]

\* Two drivers that lose the device and come back, while the opens and set-ups of the
\* other fail; and two on a device that is unplugged.
Crossing ==
    [Calm EXCEPT !.drivers = {"a", "b"},
                 !.kinds = {"open", "setup", "close", "read"}, !.faults = 3]
Unplugged == [Crossing EXCEPT !.kinds = {"setup", "unplug", "close"}, !.faults = 2]

\* ROM admission, with a radio that may refuse, and a packet.
Admitting ==
    [Calm EXCEPT !.strict = TRUE, !.app = <<1>>,
                 !.radio = {"rom", "ready", "reject", "data"}, !.frames = 3,
                 !.kinds = {"timeout", "open", "setup", "stop", "consumer", "write"}, !.faults = 1]

\* Packets through late writes, missed deadlines and reconnects.
Sending ==
    [Calm EXCEPT !.app = <<1, 2>>, !.radio = {"ready"}, !.frames = 1,
                 !.kinds = {"timeout", "late", "stop"}, !.faults = 2]

\* A packet through a radio that is unplugged or falls silent, and a handle that goes.
Losing ==
    [Calm EXCEPT !.app = <<1>>, !.radio = {"ready", "lost"}, !.frames = 2,
                 !.kinds = {"silence", "unplug", "forget"}, !.faults = 1]

\* Flow control, the station's call sign and the background lane.
Permitted ==
    [Calm EXCEPT !.app = <<1>>, !.flow = TRUE, !.background = TRUE, !.beacon = TRUE,
                 !.radio = {"ready", "permit", "deny", "reset"}, !.frames = 3,
                 !.kinds = {"withdraw", "write", "forget"}, !.faults = 1]

\* Two drivers, one of which fails to set its device up.
Racing == [Calm EXCEPT !.drivers = {"a", "b"}, !.kinds = {"setup"}, !.faults = 1]

U == INSTANCE UsbLifecycle WITH
    Drivers <- {"a", "b"}, EventCapacity <- 1, MaxStarts <- 2,
    Plans <- IF "racing" \in Cases THEN {Racing}
             ELSE {Contended, Crossing, Unplugged, Admitting, Sending, Losing, Permitted}

-----------------------------------------------------------------------------
(* The Bluetooth peers: one and two addresses about, devices that come and *)
(* go, refuse and fail to be set up, an application that disconnects, and  *)
(* sessions that stop in the middle of it.                                 *)

Around(near, most, kinds, n) == [near |-> near, conns |-> most, kinds |-> kinds, faults |-> n]

B == INSTANCE BlePeer WITH
    Addr <- {"p", "q"}, MAX_PEERS <- 1, RECONNECT_BACKOFF_FAILURES <- 2,
    KEEPALIVE_MAX_MISSES <- 2, CONNECT_ATTEMPTS <- 2, MaxConn <- 3, MaxGen <- 4,
    Plans <- {Around({"p"}, 2, {"leave", "write", "keepalive", "wedge"}, 2),
              Around({"p"}, 3, {"leave", "time"}, 3),
              Around({"p", "q"}, 3, {"leave"}, 1),
              Around({"p"}, 3, {"refuse", "setup", "time"}, 4),
              Around({"p"}, 2, {"app", "leave", "hang"}, 2),
              Around({"p"}, 2, {"stop", "leave", "app"}, 2),
              Around({"p"}, 2, {"stop", "refuse"}, 2)}

-----------------------------------------------------------------------------
ASSUME /\ KeepaliveAssumption /\ TimingAssumption
       /\ O!OwnershipAssumption /\ A!AuthorityAssumption
       /\ U!UsbAssumption /\ B!BlePeerAssumption

\* A Link whose time stands still.
Resting == Init /\ instance.lossy /\ jittered = 5

ownershipIdle == lm = "idle" /\ phase = "idle" /\ mode = "idle" /\ generations = "idle" /\
                 owner_of = "idle" /\ mailbox = "idle" /\ bind_result = "idle" /\
                 acknowledged = "idle" /\ lifecycle = "idle" /\ endpoint = "idle" /\
                 unbind_after_drain = "idle" /\ registered = "idle" /\ interface = "idle"
authorityIdle == link = "idle" /\ links = "idle" /\ rejecting = "idle" /\ stage = "idle" /\
                 of = "idle" /\ expired = "idle" /\ worker = "idle" /\ decision = "idle" /\
                 channel = "idle" /\ terminal = "idle" /\ reply = "idle" /\ dispatch = "idle" /\
                 leases = "idle" /\ counts = "idle" /\ share = "idle" /\ pass = "idle" /\
                 closes = "idle" /\ sent = "idle"
usbIdle == plugged = "idle" /\ lease = "idle" /\ opener = "idle" /\ conn = "idle" /\
           drv = "idle" /\ io = "idle" /\ pump = "idle" /\ lane = "idle" /\ written = "idle"
bleIdle == gen = "idle" /\ running = "idle" /\ registry = "idle" /\ dev = "idle" /\
           conns = "idle" /\ writers = "idle" /\ fan = "idle" /\ scan = "idle" /\
           recent = "idle" /\ churn = "idle" /\ app = "idle" /\ stop = "idle" /\ late = "idle"
ownershipAuthorityIdle == setting = "idle"
usbBleIdle == plan = "idle" /\ faults = "idle"

MCInit ==
    \/ part = "keepalive" /\ "keepalive" \in Cases /\ Init /\ ownershipIdle /\ authorityIdle /\
         usbIdle /\ bleIdle /\ ownershipAuthorityIdle /\ usbBleIdle
    \/ part = "ownership" /\ "ownership" \in Cases /\ O!Init /\ Resting /\ authorityIdle /\
         usbIdle /\ bleIdle /\ usbBleIdle
    \/ part = "authority" /\ Cases \cap {"authority", "late"} # {} /\ A!Init /\ Resting /\
         ownershipIdle /\ usbIdle /\ bleIdle /\ usbBleIdle
    \/ part = "usb" /\ Cases \cap {"usb", "racing"} # {} /\ U!Init /\ Resting /\ ownershipIdle /\
         authorityIdle /\ bleIdle /\ ownershipAuthorityIdle
    \/ part = "ble" /\ "ble" \in Cases /\ B!Init /\ Resting /\ ownershipIdle /\ authorityIdle /\
         usbIdle /\ ownershipAuthorityIdle

MCNext ==
    \/ part = "keepalive" /\ Next /\ UNCHANGED <<part, ownershipVars, authorityVars, usbVars,
         bleVars, ownershipAuthorityVars, usbBleVars>>
    \/ part = "ownership" /\ O!Next /\ UNCHANGED <<part, vars, authorityVars, usbVars, bleVars,
         usbBleVars>>
    \/ part = "authority" /\ A!Next /\ UNCHANGED <<part, vars, ownershipVars, usbVars, bleVars,
         usbBleVars>>
    \/ part = "usb" /\ U!Next /\ UNCHANGED <<part, vars, ownershipVars, authorityVars, bleVars,
         ownershipAuthorityVars>>
    \/ part = "ble" /\ B!Next /\ UNCHANGED <<part, vars, ownershipVars, authorityVars, usbVars,
         ownershipAuthorityVars>>

MCSpec == MCInit /\ [][MCNext]_all

\* Whatever is bound, registered or on its way between the manager and the
\* transport belongs to the one generation of the Link on record, and a Link
\* does not outlive its endpoint.
OwnershipExact == part = "ownership" => O!OwnershipExact

\* What is sent for a ticket is what the application decided, in time, for the
\* Link it came from and once; the budgets are those of the tickets still held;
\* and whoever waits waits for something the manager still has.
TicketsSound == part = "authority" => A!TicketsSound

\* A resolution, however late, gets an outcome (the test
\* late_resolution_reports_expiration_without_reviving_authority).
LateResolutionAnswered == part = "authority" => A!LateResolutionAnswered

\* The device has one session at a time, whatever open, worker or set-up fails or
\* hangs, and, unless opens fail while others are under way, one connection;
\* packets reach it in order and once; and a radio that is said to be ready is
\* the one of the present connection.
DeviceSound == part = "usb" => U!DeviceSound

\* A driver gives up the reservation of its own attempt only (the lease table:
\* one owner of a device at a time).
ReservationsOwn == [][part = "usb" => U!ReservationStep]_all

\* A Bluetooth peer that is served is the one on record, and no connection,
\* reservation or writer is left without a task that will release it.
PeersSound == part = "ble" => B!PeersSound
=============================================================================
