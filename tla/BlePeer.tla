------------------------------ MODULE BlePeer -------------------------------
(***************************************************************************)
(* The central role of the BLE peer interface on Linux and Windows:        *)
(* ble_peer.rs of rns-interface, with the bounds of ble_connect.rs.        *)
(*                                                                         *)
(* A session is a generation of the process-wide driver.  Its scan loop    *)
(* connects the addresses it hears, one at a time; a connection that is    *)
(* set up gets a writer, a write loop and a read loop; the application may *)
(* disconnect an address, and stopping the interface drains the registry   *)
(* of peripherals and aborts the loops.  A step is what a task does        *)
(* between two awaits.  The Bluetooth stack is the environment: it keeps,  *)
(* for every device, the connection that is up, the connect it was asked   *)
(* for and the disconnects it was asked for, and a call of the driver      *)
(* returns when the stack has done it, or times out.                       *)
(***************************************************************************)
EXTENDS Integers, FiniteSets

CONSTANTS
    Addr,                        \* BLE addresses
    Plans,                       \* what is considered
    MAX_PEERS, RECONNECT_BACKOFF_FAILURES, KEEPALIVE_MAX_MISSES,
    CONNECT_ATTEMPTS,            \* attempts of connect_mesh_peer
    MaxConn, MaxGen              \* bounds on connections and on generations

\* A plan: the addresses that are about, the faults that may happen and how many, and how many
\* connections.
BlePeerAssumption ==
    /\ \A x \in Plans :
          /\ x.near \subseteq Addr
          /\ x.kinds \subseteq {"leave", "refuse", "setup", "write", "keepalive", "wedge", "hang",
                                "app", "stop", "time"}
          /\ x.faults \in Nat /\ x.conns \in 1..MaxConn
    /\ {MAX_PEERS, RECONNECT_BACKOFF_FAILURES, KEEPALIVE_MAX_MISSES, CONNECT_ATTEMPTS,
        MaxConn, MaxGen} \subseteq Nat \ {0}

VARIABLES
    plan, faults,
    gen,       \* BLE_PEER_GENERATION
    running,   \* BLE_PEER_RUNNING
    registry,  \* central_peripherals: the connection that has the address reserved
    dev,       \* the stack's view of every device
    conns,     \* connections by connection_id, which is also the id of the writer's lease
    writers,   \* peer_writers: the lease of every address, or 0
    fan,       \* closed writers that the fan-out task has seen
    scan,      \* the scan loop
    recent,    \* recently_disconnected
    churn,     \* churn_track
    app,       \* a call of disconnect_mesh_peer
    stop,      \* stop_ble_peer_interface
    late       \* addresses a setup called the stack for when they were no longer its own

vars == <<plan, faults, gen, running, registry, dev, conns, writers, fan, scan, recent, churn,
          app, stop, late>>

Ids == 1..MaxConn
None == 0
NoClaim == [addr |-> "none", id |-> None]

-----------------------------------------------------------------------------
(* Sessions, the registry and the backoff *)

generation_is_current(g) == running /\ gen = g

Free == [id |-> None, closing |-> FALSE]

\* reserve_central_peripheral: only a vacant address is reserved.
Vacant(a) == registry[a].id = None

\* claim_central_disconnect: one caller closes the connection that has the address.
Claims(a, i) == registry[a].id = i /\ ~registry[a].closing
Claimed(reg, a) == [reg EXCEPT ![a].closing = TRUE]

\* finish_central_disconnect
FinishedOpen(reg, a, i) ==
    IF reg[a].id = i /\ ~reg[a].closing THEN [reg EXCEPT ![a] = Free] ELSE reg
Finished(reg, a, i) == IF reg[a].id = i THEN [reg EXCEPT ![a] = Free] ELSE reg

remove_peer_writer_if_current(w, a, i) == IF w[a] = i THEN [w EXCEPT ![a] = None] ELSE w

Unknown == [in |-> FALSE, fails |-> 0, hot |-> FALSE]
Quiet == [up |-> "none", flaps |-> 0, hot |-> FALSE]

reconnect_in_backoff(a) ==
    \/ churn[a].flaps >= RECONNECT_BACKOFF_FAILURES /\ churn[a].hot
    \/ recent[a].fails >= RECONNECT_BACKOFF_FAILURES /\ recent[a].hot

Capped(n) == IF n < RECONNECT_BACKOFF_FAILURES THEN n + 1 ELSE n

\* record_reconnect_failure, record_reconnect_success with note_peer_connected, and
\* record_disconnect with note_peer_disconnected.
record_reconnect_failure(a) ==
    recent' = [recent EXCEPT ![a] = [in |-> TRUE, fails |-> Capped(@.fails), hot |-> TRUE]]
record_reconnect_success(a) ==
    /\ recent' = [recent EXCEPT ![a] = Unknown]
    /\ churn' = [churn EXCEPT ![a].up = "new", ![a].hot = TRUE]
record_disconnect(a) ==
    /\ recent' = [recent EXCEPT ![a].in = TRUE, ![a].hot = TRUE]
    /\ churn' = [churn EXCEPT ![a] =
                    [up |-> "none", hot |-> TRUE,
                     flaps |-> IF @.up = "new" THEN Capped(@.flaps) ELSE 0]]

-----------------------------------------------------------------------------
(* The stack *)

Idle == [link |-> None, pend |-> None, cut |-> {}, hung |-> FALSE, gone |-> {}]
Calls(d, i) == [d EXCEPT !.pend = i]                  \* Peripheral::connect
Hangs(d, i) == [d EXCEPT !.cut = @ \cup {i}]          \* Peripheral::disconnect

May(kind) == kind \in plan.kinds /\ faults < plan.faults
Befalls(kind) == May(kind) /\ faults' = faults + 1

\* Connections that a disconnect undoes and that nobody asked to undo.
Victims(d) == {d.link, d.pend} \ (d.cut \cup {None})

\* A connect is granted; one is refused; the disconnects that were asked for are done, all of
\* them at once, and undo the connect as well; a peer goes away.
Accept(a) ==
    /\ dev[a].pend # None /\ dev[a].cut = {}
    /\ dev' = [dev EXCEPT ![a].link = dev[a].pend, ![a].pend = None]
    /\ UNCHANGED <<plan, faults, gen, running, registry, conns, writers, fan, scan, recent,
                   churn, app, stop, late>>
Refuse(a) ==
    /\ dev[a].pend # None /\ Befalls("refuse")
    /\ dev' = [dev EXCEPT ![a].pend = None]
    /\ UNCHANGED <<plan, gen, running, registry, conns, writers, fan, scan, recent, churn, app,
                   stop, late>>
Cut(a) ==
    /\ dev[a].cut # {}
    /\ dev' = [dev EXCEPT ![a] = [@ EXCEPT !.link = None, !.pend = None, !.cut = {},
                                           !.gone = @ \cup Victims(dev[a])]]
    /\ UNCHANGED <<plan, faults, gen, running, registry, conns, writers, fan, scan, recent,
                   churn, app, stop, late>>
Leave(a) ==
    /\ dev[a].link # None /\ Befalls("leave")
    /\ dev' = [dev EXCEPT ![a].link = None]
    /\ UNCHANGED <<plan, gen, running, registry, conns, writers, fan, scan, recent, churn, app,
                   stop, late>>

\* A disconnect that was asked for has returned: the stack has done it, or the operation
\* timed out and the stack is still at it.
Returned(a) == \/ dev[a].cut = {} /\ UNCHANGED <<dev, faults>>
               \/ /\ dev[a].cut # {} /\ Befalls("hang")
                  /\ dev' = [dev EXCEPT ![a].hung = TRUE]

-----------------------------------------------------------------------------
(* The scan loop *)

NoScan == [pc |-> "none", gen |-> 0, left |-> {}, connected |-> [a \in Addr |-> None],
           addr |-> "none", id |-> None, tries |-> 0]
Current == generation_is_current(scan.gen)
Goto(pc) == scan' = [scan EXCEPT !.pc = pc]

\* The top of the loop: a stopped session ends; peers that are offline are dropped, what has
\* aged is forgotten, and a scan hears some of the addresses that are about.
Top ==
    /\ scan.pc = "top"
    /\ \/ ~Current /\ scan' = NoScan /\ UNCHANGED <<recent, churn>>
       \/ /\ Current
          /\ \E heard \in SUBSET plan.near :
                scan' = [scan EXCEPT !.pc = "peers", !.left = heard,
                            !.connected = [a \in Addr |->
                                IF @[a] # None /\ conns[@[a]].online THEN @[a] ELSE None]]
          /\ \E old \in SUBSET {a \in Addr : ~recent[a].hot} :
                recent' = [a \in Addr |-> IF a \in old THEN Unknown ELSE recent[a]]
          /\ \E old \in SUBSET {a \in Addr : ~churn[a].hot} :
                churn' = [a \in Addr |-> IF a \in old THEN Quiet ELSE churn[a]]
    /\ UNCHANGED <<plan, faults, gen, running, registry, dev, conns, writers, fan, app, stop,
                   late>>

NewId == 1 + Cardinality({i \in Ids : conns[i].addr # "none"})

Eligible(a) ==
    /\ Current
    /\ a \in scan.left
    /\ scan.connected[a] = None
    /\ Cardinality({b \in Addr : scan.connected[b] # None}) < MAX_PEERS
    /\ ~reconnect_in_backoff(a)

\* The next peer of the scan that may be connected; or none is left and the loop sleeps.
Pick(a) ==
    /\ scan.pc = "peers" /\ Eligible(a) /\ NewId <= plan.conns
    /\ scan' = [scan EXCEPT !.pc = "reserve", !.left = @ \ {a}, !.addr = a]
    /\ UNCHANGED <<plan, faults, gen, running, registry, dev, conns, writers, fan, recent, churn,
                   app, stop, late>>
Sleep ==
    /\ scan.pc = "peers" /\ \A a \in Addr : ~Eligible(a)
    /\ scan' = [scan EXCEPT !.pc = "top", !.left = {}, !.addr = "none", !.id = None]
    /\ UNCHANGED <<plan, faults, gen, running, registry, dev, conns, writers, fan, recent, churn,
                   app, stop, late>>

\* connect_mesh_peer up to the first connect: the address is reserved under the lock of the
\* registry, if the session is current and the previous connection has finished closing; or
\* that is not so, or the device is no longer visible.
ReservesAny == Current
Reserves == Current /\ Vacant(scan.addr)
Reserve ==
    /\ scan.pc = "reserve"
    /\ LET a == scan.addr IN
       \/ /\ Reserves
          /\ registry' = [registry EXCEPT ![a] = [id |-> NewId, closing |-> FALSE]]
          /\ dev' = [dev EXCEPT ![a] = Calls(@, NewId)]
          /\ conns' = [conns EXCEPT ![NewId].addr = a, ![NewId].gen = scan.gen]
          /\ scan' = [scan EXCEPT !.pc = "connecting", !.id = NewId, !.tries = 1]
          /\ UNCHANGED recent
          /\ UNCHANGED faults
       \/ /\ \/ ~Reserves /\ UNCHANGED faults
             \/ Befalls("refuse")
          /\ record_reconnect_failure(a)
          /\ Goto("peers")
          /\ UNCHANGED <<registry, dev, conns>>
    /\ UNCHANGED <<plan, gen, running, writers, fan, churn, app, stop, late>>

\* An attempt ends: the device is up and is set up; or the connect was refused and what is left
\* of it is reset; after the reset the loop pauses and tries again, without looking whether the
\* session is current and the address still its own, or gives up.
Notes == late' = IF Claims(scan.addr, scan.id) THEN late ELSE late \cup {scan.addr}
Attempted ==
    /\ scan.pc = "connecting" /\ dev[scan.addr].pend = None
    /\ \/ /\ dev[scan.addr].link = scan.id /\ Goto("setup")
          /\ UNCHANGED <<dev, late>>
       \/ /\ dev[scan.addr].link # scan.id /\ Goto("reset")
          /\ dev' = [dev EXCEPT ![scan.addr] = Hangs(@, scan.id)]
          /\ Notes
    /\ UNCHANGED <<plan, faults, gen, running, registry, conns, writers, fan, recent, churn, app,
                   stop>>
Retry ==
    /\ scan.pc = "reset" /\ dev[scan.addr].cut = {}
    /\ \/ /\ scan.tries < CONNECT_ATTEMPTS
          /\ scan' = [scan EXCEPT !.pc = "connecting", !.tries = @ + 1]
          /\ dev' = [dev EXCEPT ![scan.addr] = Calls(@, scan.id)]
          /\ Notes
       \/ /\ scan.tries = CONNECT_ATTEMPTS /\ Goto("failed")
          /\ UNCHANGED <<dev, late>>
    /\ UNCHANGED <<plan, faults, gen, running, registry, conns, writers, fan, recent, churn, app,
                   stop>>

\* The setup is done in a session that is still current; or it fails, because the device has
\* gone or a step failed; a session that has ended cancels it at the next tick; a reset that
\* times out ends the attempts.
SetUp ==
    /\ scan.pc = "setup" /\ Current /\ dev[scan.addr].link = scan.id /\ Goto("up")
    /\ UNCHANGED <<plan, faults, gen, running, registry, dev, conns, writers, fan, recent, churn,
                   app, stop, late>>
SetupFails ==
    /\ \/ scan.pc = "setup" /\ dev[scan.addr].link # scan.id /\ UNCHANGED faults
       \/ scan.pc = "setup" /\ Befalls("setup")
       \/ scan.pc \in {"connecting", "reset", "setup"} /\ ~Current /\ UNCHANGED faults
       \/ scan.pc = "reset" /\ dev[scan.addr].cut # {} /\ Befalls("hang")
    /\ Goto("failed")
    /\ UNCHANGED <<plan, gen, running, registry, dev, conns, writers, fan, recent, churn, app,
                   stop, late>>

\* A failed setup disconnects what it reserved, keeping the address until that has returned.
CleanUp ==
    /\ scan.pc = "failed"
    /\ \/ /\ Claims(scan.addr, scan.id)
          /\ registry' = Claimed(registry, scan.addr)
          /\ dev' = [dev EXCEPT ![scan.addr] = Hangs(@, scan.id)]
          /\ Goto("closing")
          /\ UNCHANGED recent
       \/ /\ ~Claims(scan.addr, scan.id)
          /\ record_reconnect_failure(scan.addr)
          /\ Goto("peers")
          /\ UNCHANGED <<registry, dev>>
    /\ UNCHANGED <<plan, faults, gen, running, conns, writers, fan, churn, app, stop, late>>
CleanedUp ==
    /\ scan.pc = "closing" /\ Returned(scan.addr)
    /\ registry' = Finished(registry, scan.addr, scan.id)
    /\ record_reconnect_failure(scan.addr)
    /\ Goto("peers")
    /\ UNCHANGED <<plan, gen, running, conns, writers, fan, churn, app, stop, late>>

\* A connection that is set up: its writer is published, the address counts as connected and
\* its two loops are spawned.
Install ==
    /\ scan.pc = "up"
    /\ record_reconnect_success(scan.addr)
    /\ writers' = [writers EXCEPT ![scan.addr] = scan.id]
    /\ conns' = [conns EXCEPT ![scan.id] = [@ EXCEPT !.online = TRUE, !.reader = "run",
                                                     !.writer = "run"]]
    /\ scan' = [scan EXCEPT !.pc = "peers", !.connected[scan.addr] = scan.id]
    /\ UNCHANGED <<plan, faults, gen, running, registry, dev, fan, app, stop, late>>

-----------------------------------------------------------------------------
(* The loops of a connection, and the fan-out *)

NoConn == [addr |-> "none", gen |-> 0, online |-> FALSE, missed |-> 0,
           reader |-> "none", writer |-> "none"]
Live(i) == dev[conns[i].addr].link = i
Offline(i, reader) == [conns EXCEPT ![i].online = FALSE, ![i].reader = reader]

\* The read loop ends: the connection was taken offline or its session has ended, which it sees
\* when a notification or a keepalive wakes it; the stream of notifications has ended; or the
\* last keepalive that may fail has failed.
ReaderEnds(i) ==
    /\ conns[i].reader = "run"
    /\ \/ ~conns[i].online \/ ~generation_is_current(conns[i].gen)
       \/ ~Live(i)
    /\ conns' = Offline(i, "ended")
    /\ UNCHANGED <<plan, faults, gen, running, registry, dev, writers, fan, scan, recent, churn,
                   app, stop, late>>
Keepalive(i) ==
    /\ conns[i].reader = "run" /\ conns[i].online /\ generation_is_current(conns[i].gen)
    /\ \/ /\ Live(i) /\ conns[i].missed > 0 /\ UNCHANGED faults
          /\ conns' = [conns EXCEPT ![i].missed = 0]
       \/ /\ \/ ~Live(i) /\ "keepalive" \in plan.kinds /\ UNCHANGED faults
             \/ Live(i) /\ Befalls("keepalive")
          /\ conns' = IF conns[i].missed + 1 >= KEEPALIVE_MAX_MISSES THEN Offline(i, "ended")
                      ELSE [conns EXCEPT ![i].missed = @ + 1]
       \/ /\ Befalls("wedge")
          /\ conns' = [conns EXCEPT ![i].reader = "wedged"]
    /\ UNCHANGED <<plan, gen, running, registry, dev, writers, fan, scan, recent, churn, app, stop,
                   late>>

\* The cleanup of the read loop: the peripheral is disconnected, unless another caller has
\* claimed that or the address is no longer this connection's; then the writer is withdrawn if
\* it is still this one, and the loss is recorded by the one that disconnected, in a current
\* session.
ReaderClaims(i) ==
    /\ conns[i].reader = "ended"
    /\ LET a == conns[i].addr IN
       \/ /\ Claims(a, i)
          /\ registry' = Claimed(registry, a)
          /\ dev' = [dev EXCEPT ![a] = Hangs(@, i)]
          /\ conns' = [conns EXCEPT ![i].reader = "closing"]
       \/ /\ ~Claims(a, i)
          /\ conns' = [conns EXCEPT ![i].reader = "other"]
          /\ UNCHANGED <<registry, dev>>
    /\ UNCHANGED <<plan, faults, gen, running, writers, fan, scan, recent, churn, app, stop, late>>
ReaderFinishes(i) ==
    /\ conns[i].reader = "closing" /\ Returned(conns[i].addr)
    /\ registry' = Finished(registry, conns[i].addr, i)
    /\ conns' = [conns EXCEPT ![i].reader = "owned"]
    /\ UNCHANGED <<plan, gen, running, writers, fan, scan, recent, churn, app, stop, late>>
ReaderRecords(i) ==
    /\ conns[i].reader \in {"owned", "other"}
    /\ writers' = remove_peer_writer_if_current(writers, conns[i].addr, i)
    /\ conns' = [conns EXCEPT ![i].reader = "done"]
    /\ IF conns[i].reader = "owned" /\ generation_is_current(conns[i].gen)
       THEN record_disconnect(conns[i].addr) ELSE UNCHANGED <<recent, churn>>
    /\ UNCHANGED <<plan, faults, gen, running, registry, dev, fan, scan, app, stop, late>>

\* The write loop ends when it sees the connection offline or the driver stopped (it looks at
\* the running flag and not at the generation), when a fragment cannot be written in time, or
\* when its writer has been withdrawn.
WriterEnds(i) ==
    /\ conns[i].writer = "run"
    /\ \/ /\ \/ (~conns[i].online \/ ~running \/ ~Live(i)) /\ UNCHANGED faults
             \/ Live(i) /\ Befalls("write")
          /\ conns' = [conns EXCEPT ![i].online = FALSE, ![i].writer = "done"]
       \/ /\ writers[conns[i].addr] # i /\ UNCHANGED faults
          /\ conns' = [conns EXCEPT ![i].writer = "done"]
    /\ UNCHANGED <<plan, gen, running, registry, dev, writers, fan, scan, recent, churn, app, stop,
                   late>>

\* The fan-out sends a packet to a snapshot of the writers and withdraws the closed ones.
FanOut ==
    /\ running /\ fan = {}
    /\ fan' = {i \in Ids : /\ conns[i].addr # "none" /\ writers[conns[i].addr] = i
                           /\ conns[i].writer = "done"}
    /\ fan' # {}
    /\ UNCHANGED <<plan, faults, gen, running, registry, dev, conns, writers, scan, recent, churn,
                   app, stop, late>>
FanPrune ==
    /\ fan # {}
    /\ writers' = [a \in Addr |-> IF \E i \in fan : conns[i].addr = a /\ writers[a] = i
                                  THEN None ELSE writers[a]]
    /\ fan' = {}
    /\ UNCHANGED <<plan, faults, gen, running, registry, dev, conns, scan, recent, churn, app, stop,
                   late>>

-----------------------------------------------------------------------------
(* The application and the runtime *)

\* disconnect_mesh_peer
AppDisconnects(a) ==
    /\ app = NoClaim /\ Claims(a, registry[a].id) /\ registry[a].id # None /\ Befalls("app")
    /\ app' = [addr |-> a, id |-> registry[a].id]
    /\ registry' = Claimed(registry, a)
    /\ dev' = [dev EXCEPT ![a] = Hangs(@, registry[a].id)]
    /\ UNCHANGED <<plan, gen, running, conns, writers, fan, scan, recent, churn, stop, late>>
AppFinishes ==
    /\ app # NoClaim /\ Returned(app.addr)
    /\ registry' = Finished(registry, app.addr, app.id)
    /\ app' = NoClaim
    /\ UNCHANGED <<plan, gen, running, conns, writers, fan, scan, recent, churn, stop, late>>

\* spawn_ble_peer_interface: a new generation with its own writers and its own wanted peers.
Spawn ==
    /\ stop.pc = "off" /\ gen + 2 <= MaxGen
    /\ gen' = gen + 1 /\ running' = TRUE
    /\ scan' = [NoScan EXCEPT !.pc = "top", !.gen = gen + 1]
    /\ writers' = [a \in Addr |-> None]
    /\ recent' = [a \in Addr |-> Unknown]
    /\ stop' = [pc |-> "on", drain |-> {}, at |-> "none"]
    /\ UNCHANGED <<plan, faults, registry, dev, conns, fan, churn, app, late>>

\* stop_ble_peer_interface: the session is invalidated; the registry is drained and its
\* peripherals are disconnected one after the other; the loops are aborted; and the runtime
\* aborts the scan loop.
Invalidate ==
    /\ stop.pc = "on" /\ Befalls("stop")
    /\ running' = FALSE /\ gen' = gen + 1
    /\ stop' = [stop EXCEPT !.pc = "drain"]
    /\ UNCHANGED <<plan, registry, dev, conns, writers, fan, scan, recent, churn, app, late>>
Drain ==
    /\ stop.pc = "drain"
    /\ stop' = [stop EXCEPT !.pc = "cut",
                            !.drain = {<<a, registry[a].id>> : a \in {b \in Addr : ~Vacant(b)}}]
    /\ registry' = [a \in Addr |-> Free]
    /\ UNCHANGED <<plan, faults, gen, running, dev, conns, writers, fan, scan, recent, churn, app,
                   late>>
DrainCuts ==
    /\ stop.pc = "cut" /\ stop.at = "none"
    /\ \E e \in stop.drain :
          /\ dev' = [dev EXCEPT ![e[1]] = Hangs(@, e[2])]
          /\ stop' = [stop EXCEPT !.at = e[1], !.drain = @ \ {e}]
    /\ UNCHANGED <<plan, faults, gen, running, registry, conns, writers, fan, scan, recent, churn,
                   app, late>>
DrainReturns ==
    /\ stop.pc = "cut" /\ stop.at # "none" /\ Returned(stop.at)
    /\ stop' = [stop EXCEPT !.at = "none"]
    /\ UNCHANGED <<plan, gen, running, registry, conns, writers, fan, scan, recent, churn, app,
                   late>>
Abort ==
    /\ stop.pc = "cut" /\ stop.at = "none" /\ stop.drain = {}
    /\ conns' = [i \in Ids |-> [conns[i] EXCEPT
                    !.reader = IF @ = "none" THEN @ ELSE "done",
                    !.writer = IF @ = "none" THEN @ ELSE "done"]]
    /\ fan' = {}
    /\ stop' = [stop EXCEPT !.pc = "abort"]
    /\ UNCHANGED <<plan, faults, gen, running, registry, dev, writers, scan, recent, churn, app,
                   late>>
Stopped ==
    /\ stop.pc = "abort"
    /\ scan' = NoScan
    /\ stop' = [stop EXCEPT !.pc = "off"]
    /\ UNCHANGED <<plan, faults, gen, running, registry, dev, conns, writers, fan, recent, churn,
                   app, late>>

\* Time passes: a session has lasted, or a backoff has.
Age(a) ==
    /\ Befalls("time")
    /\ \/ churn[a].up = "new" /\ churn' = [churn EXCEPT ![a].up = "old"] /\ UNCHANGED recent
       \/ churn[a].hot /\ churn' = [churn EXCEPT ![a].hot = FALSE] /\ UNCHANGED recent
       \/ recent[a].hot /\ recent' = [recent EXCEPT ![a].hot = FALSE] /\ UNCHANGED churn
    /\ UNCHANGED <<plan, gen, running, registry, dev, conns, writers, fan, scan, app, stop, late>>

-----------------------------------------------------------------------------
Init ==
    /\ plan \in Plans
    /\ faults = 0 /\ gen = 0 /\ running = FALSE
    /\ registry = [a \in Addr |-> Free]
    /\ dev = [a \in Addr |-> Idle]
    /\ conns = [i \in Ids |-> NoConn]
    /\ writers = [a \in Addr |-> None]
    /\ fan = {} /\ scan = NoScan
    /\ recent = [a \in Addr |-> Unknown]
    /\ churn = [a \in Addr |-> Quiet]
    /\ app = NoClaim
    /\ stop = [pc |-> "off", drain |-> {}, at |-> "none"]
    /\ late = {}

ScanStep == \/ Top \/ Sleep \/ Reserve \/ Attempted \/ Retry \/ SetUp \/ SetupFails
            \/ CleanUp \/ CleanedUp \/ Install
            \/ \E a \in Addr : Pick(a)
LoopStep(i) == \/ ReaderEnds(i) \/ Keepalive(i) \/ ReaderClaims(i) \/ ReaderFinishes(i)
               \/ ReaderRecords(i) \/ WriterEnds(i)
StackStep(a) == Accept(a) \/ Cut(a)
StopStep == Spawn \/ Invalidate \/ Drain \/ DrainCuts \/ DrainReturns \/ Abort \/ Stopped

Next ==
    \/ ScanStep \/ StopStep \/ FanOut \/ FanPrune \/ AppFinishes
    \/ \E i \in Ids : LoopStep(i)
    \/ \E a \in Addr : StackStep(a) \/ Refuse(a) \/ Leave(a) \/ AppDisconnects(a) \/ Age(a)

Spec == Init /\ [][Next]_vars

\* The loops are polled, a call to the stack returns or times out, and a stop that was begun
\* goes on.
Fairness ==
    /\ \A i \in Ids : /\ WF_vars(ReaderEnds(i)) /\ WF_vars(ReaderClaims(i))
                      /\ WF_vars(ReaderFinishes(i))
    /\ \A a \in Addr : WF_vars(Cut(a))
    /\ WF_vars(Drain)
    /\ WF_vars(AppFinishes)
FairSpec == Spec /\ Fairness

-----------------------------------------------------------------------------
(* Properties *)

TypeOK ==
    /\ plan \in Plans /\ faults \in 0..plan.faults /\ gen \in 0..MaxGen /\ running \in BOOLEAN
    /\ registry \in [Addr -> [id : 0..MaxConn, closing : BOOLEAN]]
    /\ dev \in [Addr -> [link : 0..MaxConn, pend : 0..MaxConn, cut : SUBSET Ids,
                         hung : BOOLEAN, gone : SUBSET Ids]]
    /\ conns \in [Ids -> [addr : Addr \cup {"none"}, gen : 0..MaxGen, online : BOOLEAN,
                          missed : 0..KEEPALIVE_MAX_MISSES, writer : {"none", "run", "done"},
                          reader : {"none", "run", "ended", "wedged", "closing", "owned",
                                    "other", "done"}]]
    /\ writers \in [Addr -> 0..MaxConn] /\ fan \subseteq Ids /\ late \subseteq Addr
    /\ scan.pc \in {"none", "top", "peers", "reserve", "connecting", "reset", "setup", "up",
                    "failed", "closing"}
    /\ stop.pc \in {"off", "on", "drain", "cut", "abort"}

\* A device that is connected, or is being connected, has an owner that will disconnect it: the
\* connection the registry holds for its address, a disconnect that is under way, or the drain
\* of a stop; and no disconnect made for one connection takes down another.  Except for devices
\* that a setup resets and tries again after a stop or the application closed them, and for
\* disconnects that timed out.
ConnectionsOwned ==
    \A a \in Addr : LET d == dev[a] IN
        \/ d.hung \/ a \in late
        \/ /\ d.gone = {}
           /\ \A i \in {d.link, d.pend} \ {None} :
                 registry[a].id = i \/ i \in d.cut \/ <<a, i>> \in stop.drain

Serving(i) == /\ conns[i].reader = "run" /\ conns[i].writer = "run" /\ conns[i].online
              /\ generation_is_current(conns[i].gen)

\* A connection whose loops run in the current session is the one that packets are fanned out
\* to and that the scan loop counts, whatever an earlier connection of its address still has to
\* clean up; and there are at most MAX_PEERS of them.
PeersServed ==
    /\ TypeOK
    /\ \A i \in Ids : Serving(i) => LET a == conns[i].addr IN
          writers[a] = i /\ scan.connected[a] = i
    /\ Cardinality({i \in Ids : Serving(i)}) <= MAX_PEERS

\* The address of a connection that has gone offline is released, so that it can be connected
\* again, unless the keepalive write of its read loop never returns.
Lingering(i) ==
    \E a \in Addr : registry[a].id = i /\ conns[i].reader \notin {"none", "wedged"} /\ ~conns[i].online
PeersReleased == \A i \in Ids : []<>(~Lingering(i))

\* A connection that serves is the one on record, and every device has an owner.
PeersSound == PeersServed /\ ConnectionsOwned

=============================================================================
