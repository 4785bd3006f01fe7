---------------------------- MODULE UsbLifecycle ----------------------------
(***************************************************************************)
(* The Android USB driver of an RNode radio (android_usb.rs and            *)
(* android_usb_lifecycle.rs).  Interfaces ("drivers") that are configured  *)
(* for one USB device compete for its lease.  The one that holds it owns a *)
(* physical generation: the Java connection, a writer thread with its      *)
(* queue, a reader thread, the channel of their events, and the gate that  *)
(* says whether the radio may be given a packet.  An application pump, and *)
(* the optional background lane, feed the writer.                          *)
(*                                                                         *)
(* Everything that waits in the code waits under a deadline; a deadline    *)
(* may pass here at any time.  A transfer that never returns is a thread   *)
(* that takes no further step.                                             *)
(***************************************************************************)
EXTENDS Naturals, Sequences, FiniteSets, SequencesExt

CONSTANTS Drivers, Plans, EventCapacity, MaxStarts

UsbAssumption == EventCapacity \in Nat \ {0} /\ MaxStarts \in Nat

VARIABLES
    plan,     \* what this behaviour may do, fixed at the start
    plugged,  \* whether the device is attached
    lease,    \* the UsbLeaseTable's entry for the device
    opener,   \* the blocking task that opens the device
    conn,     \* whether a driver's Java connection is open
    drv,      \* the driver's task
    io,       \* its physical generation
    pump,     \* the task that feeds the writer
    lane,     \* the application's queue and the background packet
    faults,   \* how many faults have happened
    written   \* packets the device is known to have taken, in order

vars == <<plan, plugged, lease, opener, conn, drv, io, pump, lane, faults, written>>

StationId == 0
Background == 99
NoPacket == 98

May(kind) == kind \in plan.kinds /\ faults < plan.faults
Fault == faults' = faults + 1

\* A failure that the state explains, or that is one of the plan's faults.
Befalls(due, kind) == IF due THEN UNCHANGED faults ELSE May(kind) /\ Fault

\* A wait of the startup, of a packet or of the drain runs out of time.
Deadline == "timeout" \in plan.kinds

\* UsbWriteRequest: `waited` while somebody holds the acknowledgement's receiver.
Request(phase, packet) == [phase |-> phase, packet |-> packet, waited |-> TRUE]
NoRequest == [phase |-> "none", packet |-> NoPacket, waited |-> FALSE]

\* UsbTxGate::new and the rest of spawn_owned_usb_io.
NewGate == [ready |-> FALSE, permit |-> TRUE, closed |-> FALSE]
NewIo ==
    [running |-> TRUE, writer |-> "idle", req |-> NoRequest, detachOnly |-> FALSE,
     reqs |-> <<>>, accepting |-> TRUE, cancelled |-> FALSE, ack |-> "none",
     reader |-> "reading", asked |-> FALSE, held |-> <<>>, frames |-> 0,
     events |-> <<>>, open |-> TRUE, gate |-> NewGate, lane |-> FALSE,
     inited |-> FALSE, stale |-> FALSE]
NoIo == [NewIo EXCEPT !.running = FALSE, !.writer = "gone", !.reader = "gone",
                      !.accepting = FALSE, !.cancelled = TRUE, !.open = FALSE]

NoPending == [packet |-> NoPacket, done |-> FALSE]

Init ==
    /\ plan \in Plans
    /\ plugged = TRUE
    /\ lease = "none"
    /\ opener = [d \in Drivers |-> "none"]
    /\ conn = [d \in Drivers |-> FALSE]
    /\ drv = [d \in Drivers |->
                [at |-> IF d \in plan.drivers THEN "start" ELSE "failed", first |-> TRUE,
                 starts |-> 0, stop |-> FALSE, why |-> "lost", drain |-> FALSE,
                 status |-> "none"]]
    /\ io = [d \in Drivers |-> NoIo]
    /\ pump = [d \in Drivers |-> "none"]
    /\ lane = [d \in Drivers |->
                 [app |-> plan.app, open |-> TRUE, pending |-> NoPending,
                  first |-> FALSE, bg |-> "none"]]
    /\ faults = 0
    /\ written = [d \in Drivers |-> <<>>]

-----------------------------------------------------------------------------
(* The writer's queue, the gate and the reader's boundary, as operators on *)
(* a generation i.                                                         *)

\* UsbTxGate::can_send, which take_permit evaluates again under its lock.
CanSend(i) == ~i.gate.closed /\ i.gate.ready /\ (~plan.flow \/ i.gate.permit)
TakePermit(i) == [i EXCEPT !.gate.permit = @ /\ ~plan.flow]
Closed(i) == [i EXCEPT !.gate = [ready |-> FALSE, permit |-> FALSE, closed |-> TRUE]]

\* The frames of the radio: its settings hold ("ready"), they no longer do
\* ("lost"), READY with and without permission, a reset, the answer to ROM_READ
\* ("rom"), settings the radio rejects ("reject"), and a packet ("data").
Ready(was, kind) == kind = "ready" \/ (was /\ kind \notin {"lost", "reset", "reject"})

\* UsbTxGate::observe.
Observe(i, frame) ==
    IF i.gate.closed THEN i
    ELSE LET ready == Ready(i.gate.ready, frame.kind)
             kept == i.gate.permit /\ ~(i.gate.ready /\ ~ready)
         IN [i EXCEPT !.gate.ready = ready,
                      !.gate.permit = CASE frame.kind = "permit" -> TRUE
                                        [] frame.kind \in {"deny", "reset"} -> FALSE
                                        [] OTHER -> kept,
                      !.stale = @ \/ ~frame.fresh]

\* The waiter of the outstanding request goes: its oneshot is dropped.
Leave(i) ==
    [i EXCEPT !.reqs = [k \in 1..Len(@) |-> [@[k] EXCEPT !.waited = FALSE]],
              !.req.waited = FALSE, !.ack = "none"]

Waited(i) == i.req.waited \/ \E k \in 1..Len(i.reqs) : i.reqs[k].waited
Succeeded(i) == i.ack = "ok"
Refused(i) == i.ack = "err" \/ (i.ack = "none" /\ ~Waited(i))

\* enqueue_with_failure_policy: a closed queue drops the request, and the
\* waiter finds its acknowledgement gone.
Enqueue(i, request) ==
    [i EXCEPT !.reqs = IF i.accepting THEN Append(@, request) ELSE @, !.ack = "none"]

\* request_worker_stop.
StopWorkers(i) ==
    [i EXCEPT !.running = FALSE, !.asked = FALSE, !.accepting = FALSE,
              !.cancelled = TRUE, !.reqs = <<>>]

\* The writer ends: UsbWriteWorkerGuard marks the queue closed.
WriterEnds(i) ==
    [i EXCEPT !.writer = "posting", !.req = NoRequest, !.accepting = FALSE,
              !.cancelled = TRUE, !.reqs = <<>>]

Acknowledged(i, result) == IF i.req.waited THEN [i EXCEPT !.ack = result] ELSE i

Room(i) == Len(i.events) < EventCapacity
Event(kind, fresh) == [kind |-> kind, fresh |-> fresh]

-----------------------------------------------------------------------------
(* Opening the device.                                                     *)

\* A generation that was not started: the spawn fails, or the loop will retry.
NotStarted(d) ==
    drv' = [drv EXCEPT ![d].at = IF drv[d].first THEN "failed" ELSE "waiting"]

\* resolve_android_usb_selector and reserve_android_usb_opening.
Reserve(d) ==
    /\ drv[d].at = "start"
    /\ \/ /\ ~plugged \/ lease # "none"
          /\ NotStarted(d)
          /\ UNCHANGED <<lease, opener>>
       \/ /\ plugged /\ lease = "none"
          /\ lease' = "opening"
          /\ opener' = [opener EXCEPT ![d] = "run"]
          /\ drv' = [drv EXCEPT ![d].at = "opening"]
    /\ UNCHANGED <<plan, plugged, conn, io, pump, lane, faults, written>>

\* openDevice.
OpenDevice(d) ==
    /\ opener[d] = "run"
    /\ \/ /\ plugged
          /\ conn' = [conn EXCEPT ![d] = TRUE]
          /\ opener' = [opener EXCEPT ![d] = "opened"]
          /\ UNCHANGED faults
       \/ /\ Befalls(~plugged, "open")
          /\ opener' = [opener EXCEPT ![d] = "trailing"]
          /\ UNCHANGED conn
    /\ UNCHANGED <<plan, plugged, lease, drv, io, pump, lane, written>>

\* release_and_close: close, then give the lease of this phase back, or keep
\* the device quarantined.
CloseConnection(d, phase) ==
    /\ conn' = [conn EXCEPT ![d] = FALSE]
    /\ lease' = IF lease = phase THEN "none" ELSE "quarantined"

\* A device that did not close is given back all the same.
ReleaseUnclosed ==
    /\ lease' = "none"
    /\ UNCHANGED conn

\* quarantine: a device that did not close is kept out of use.
KeepConnection ==
    /\ lease' = "quarantined"
    /\ UNCHANGED conn

\* The rest of open_usb_serial_attached, and cleanup_failed_android_usb_open.
SetUp(d) ==
    /\ opener[d] = "opened"
    /\ \/ /\ lease = "opening"
          /\ lease' = "active"
          /\ opener' = [opener EXCEPT ![d] = "done"]
          /\ UNCHANGED <<conn, faults>>
       \/ /\ Befalls(lease # "opening", "setup")
          /\ CloseConnection(d, "opening")
          /\ opener' = [opener EXCEPT ![d] = "trailing"]
       \/ /\ May("close") /\ Fault
          /\ KeepConnection
          /\ opener' = [opener EXCEPT ![d] = "trailing"]
    /\ UNCHANGED <<plan, plugged, drv, io, pump, lane, written>>

\* Every failed open ends with one more release of the Opening lease.
TrailingRelease(d) ==
    /\ opener[d] = "trailing"
    /\ lease' = IF lease = "opening" THEN "none" ELSE lease
    /\ opener' = [opener EXCEPT ![d] = "failed"]
    /\ UNCHANGED <<plan, plugged, conn, drv, io, pump, lane, faults, written>>

OpenFailed(d) ==
    /\ drv[d].at = "opening" /\ opener[d] = "failed"
    /\ opener' = [opener EXCEPT ![d] = "none"]
    /\ NotStarted(d)
    /\ UNCHANGED <<plan, plugged, lease, conn, io, pump, lane, faults, written>>

\* The outcome reaches the driver: the workers start, DETECT is queued.
Opened(d) ==
    /\ drv[d].at = "opening" /\ opener[d] = "done"
    /\ opener' = [opener EXCEPT ![d] = "none"]
    /\ io' = [io EXCEPT ![d] = Enqueue(NewIo, Request("detect", NoPacket))]
    /\ drv' = [drv EXCEPT ![d].at = "detect", ![d].starts = @ + 1,
                          ![d].why = "startup", ![d].drain = FALSE]
    /\ UNCHANGED <<plan, plugged, lease, conn, pump, lane, faults, written>>

\* PendingAndroidUsbOpen::drop: nobody is left to take the outcome.
Abandoned(d) ==
    /\ drv[d].at = "aborted" /\ opener[d] = "done"
    /\ opener' = [opener EXCEPT ![d] = "none"]
    /\ \/ CloseConnection(d, "active") /\ UNCHANGED faults
       \/ May("close") /\ Fault /\ KeepConnection
    /\ UNCHANGED <<plan, plugged, drv, io, pump, lane, written>>

-----------------------------------------------------------------------------
(* run_usb_rnode_startup and run_usb_rnode_capability_startup.             *)

\* OwnedUsbIo::shutdown: the terminal request takes the place of the queue, if
\* one is wanted and the worker lives; then both workers are asked to leave.
Shutdown(i, detach) ==
    IF detach /\ ~i.cancelled
    THEN [Leave(i) EXCEPT !.accepting = FALSE,
                          !.reqs = <<Request("detach", NoPacket)>>, !.ack = "none"]
    ELSE [StopWorkers(Leave(i)) EXCEPT !.open = FALSE]

Leaving(d, detach) == IF detach /\ ~io[d].cancelled THEN "detaching" ELSE "joining"

\* shutdown_failed_android_usb_startup: without ROM admission the radio is always
\* detached, with it only when Init may have started.
StartupFails(d, why) ==
    LET detach == ~plan.strict \/ drv[d].at = "init"
    IN /\ io' = [io EXCEPT ![d] = Shutdown(@, detach)]
       /\ drv' = [drv EXCEPT ![d].at = Leaving(d, detach), ![d].why = why]

Advance(d, at, i) ==
    /\ io' = [io EXCEPT ![d] = i]
    /\ drv' = [drv EXCEPT ![d].at = at]

\* request_reader_boundary.
AskPause(i) == [i EXCEPT !.asked = TRUE]

Acked(d) ==
    /\ Succeeded(io[d])
    /\ \/ /\ drv[d].at = "detect" /\ plan.strict
          /\ Advance(d, "capability", Enqueue(io[d], Request("capability", NoPacket)))
       \/ /\ drv[d].at = "detect" /\ ~plan.strict
          /\ Advance(d, "boundary", AskPause(io[d]))
       \/ /\ drv[d].at = "capability"
          /\ Advance(d, "response", io[d])
    /\ UNCHANGED <<plan, plugged, lease, opener, conn, pump, lane, faults, written>>

\* A phase that was refused, or that was not acknowledged in time.
NotAcked(d) ==
    /\ drv[d].at \in {"detect", "capability", "init"}
    /\ \/ Refused(io[d]) /\ UNCHANGED faults
       \/ ~Succeeded(io[d]) /\ Deadline
    /\ StartupFails(d, "startup")
    /\ UNCHANGED <<plan, plugged, lease, opener, conn, pump, lane, faults, written>>

IsExit(event) == event.kind \in {"writer", "reader"}
Rejects(event) == plan.strict /\ event.kind = "reject"
Consumed(i) == [i EXCEPT !.events = Tail(@)]

\* An event before Init: the worker's exit, or the radio's refusal, ends the
\* startup; the ROM answer admits it; anything else is dropped.
StartupReads(d) ==
    /\ drv[d].at = "response" \/ (drv[d].at = "boundary" /\ io[d].reader # "paused")
    /\ io[d].events # <<>>
    /\ LET event == Head(io[d].events)
       IN CASE IsExit(event) -> StartupFails(d, "startup")
            [] Rejects(event) -> StartupFails(d, "capability")
            [] event.kind = "rom" /\ drv[d].at = "response" ->
                 Advance(d, "boundary", AskPause(Consumed(io[d])))
            [] OTHER -> Advance(d, drv[d].at, Consumed(io[d]))
    /\ UNCHANGED <<plan, plugged, lease, opener, conn, pump, lane, faults, written>>

NoAnswer(d) ==
    /\ Deadline
    /\ \/ drv[d].at = "response" /\ StartupFails(d, "capability")
       \/ drv[d].at = "boundary" /\ StartupFails(d, "startup")
    /\ UNCHANGED <<plan, plugged, lease, opener, conn, pump, lane, faults, written>>

\* The reader has paused after an idle read: what it queued is dropped and Init
\* is written while it stays paused.
Boundary(d) ==
    /\ drv[d].at = "boundary" /\ io[d].reader = "paused"
    /\ LET queued == io[d].events
           bad == {k \in 1..Len(queued) : IsExit(queued[k]) \/ Rejects(queued[k])}
       IN IF bad = {}
          THEN Advance(d, "init", Enqueue([io[d] EXCEPT !.events = <<>>],
                                          Request("initialise", NoPacket)))
          ELSE StartupFails(d, IF IsExit(queued[CHOOSE k \in bad : \A j \in bad : k <= j])
                               THEN "startup" ELSE "capability")
    /\ UNCHANGED <<plan, plugged, lease, opener, conn, pump, lane, faults, written>>

\* Init acknowledged: the reader resumes, the gate and the pump start; the first
\* time this is where the interface is published.
Initialised(d) ==
    /\ drv[d].at = "init" /\ Succeeded(io[d])
    /\ io' = [io EXCEPT ![d].asked = FALSE, ![d].ack = "none", ![d].gate = NewGate]
    /\ drv' = [drv EXCEPT ![d].at = "running", ![d].first = FALSE, ![d].why = "lost",
                          ![d].status = "running"]
    /\ pump' = [pump EXCEPT ![d] = "start"]
    /\ UNCHANGED <<plan, plugged, lease, opener, conn, lane, faults, written>>

-----------------------------------------------------------------------------
(* The writer thread: UsbWriteQueue::recv, run_usb_writer, write_request.  *)

\* ordinary_is_empty and the ordinary_pending flag.
OrdinaryIdle(d) == lane[d].app = <<>> /\ lane[d].open /\ lane[d].pending = NoPending

WriterReceives(d) ==
    LET i == io[d]
    IN /\ i.writer = "idle"
       /\ \/ /\ ~i.running \/ i.cancelled
             /\ io' = [io EXCEPT ![d] = WriterEnds(i)]
          \/ /\ i.running /\ i.reqs # <<>>
             /\ io' = [io EXCEPT ![d].writer = "taken", ![d].req = Head(i.reqs),
                                 ![d].reqs = Tail(@)]
          \/ /\ i.running /\ i.reqs = <<>> /\ i.accepting /\ i.lane
             /\ OrdinaryIdle(d) /\ lane[d].bg # "none"
             /\ io' = [io EXCEPT ![d].writer = "looking"]
       /\ UNCHANGED <<plan, plugged, lease, opener, conn, drv, pump, lane, faults, written>>

\* Still under the queue's lock: the offer and the radio's permission are taken.
TakesBackground(d) ==
    LET i == io[d]
    IN /\ i.writer = "looking"
       /\ IF CanSend(i) /\ lane[d].bg # "none"
          THEN /\ io' = [io EXCEPT ![d] =
                           [TakePermit(i) EXCEPT !.writer = "taken",
                              !.req = [NoRequest EXCEPT !.phase = "background",
                                                        !.packet = Background]]]
               /\ lane' = [lane EXCEPT ![d].bg = "started"]
          ELSE /\ io' = [io EXCEPT ![d].writer = "idle"]
               /\ UNCHANGED lane
       /\ UNCHANGED <<plan, plugged, lease, opener, conn, drv, pump, faults, written>>

\* What run_usb_writer checks before it writes.
WriterAdmits(d) ==
    LET i == io[d]
        refused == \/ i.detachOnly /\ i.req.phase # "detach"
                   \/ i.req.phase = "packet" /\ ~CanSend(i)
    IN /\ i.writer = "taken"
       /\ io' = [io EXCEPT ![d] =
                   CASE ~i.running -> WriterEnds(i)
                     [] i.running /\ refused -> WriterEnds(Acknowledged(i, "err"))
                     [] OTHER -> [(IF i.req.phase = "packet" THEN TakePermit(i) ELSE i)
                                  EXCEPT !.writer = "writing"]]
       /\ UNCHANGED <<plan, plugged, lease, opener, conn, drv, pump, lane, faults, written>>

\* The end of an acknowledged request.
WriterFinishes(i, result) ==
    LET told == Acknowledged(i, result)
        idle == [told EXCEPT !.writer = "idle", !.req = NoRequest]
    IN CASE result = "ok" /\ i.req.phase = "detach" -> WriterEnds(told)
         [] result = "ok" /\ i.req.phase # "detach" ->
              [idle EXCEPT !.inited = @ \/ i.req.phase = "initialise"]
         [] result = "err" /\ i.req.phase = "initialise" ->
              [idle EXCEPT !.detachOnly = TRUE]
         [] OTHER -> WriterEnds(told)

\* Every byte was taken.  The completion is published whatever the deadline says;
\* the background packet is only retired by a write that was in time.
WritesAll(d, result) ==
    LET i == io[d]
    IN /\ i.writer = "writing" /\ plugged
       /\ written' = [written EXCEPT ![d] = IF i.req.packet = NoPacket THEN @
                                            ELSE Append(@, i.req.packet)]
       /\ lane' = [lane EXCEPT ![d].pending.done = @ \/ i.req.phase = "packet",
                               ![d].bg = IF i.req.phase = "background" /\ result = "ok"
                                         THEN "none" ELSE @]
       /\ io' = [io EXCEPT ![d] = WriterFinishes(i, result)]

WriterWrites(d) ==
    /\ \/ WritesAll(d, "ok") /\ UNCHANGED faults
       \/ May("late") /\ Fault /\ WritesAll(d, "err")
    /\ UNCHANGED <<plan, plugged, lease, opener, conn, drv, pump>>

\* A transfer fails, makes no progress or has no time left.
WriterFails(d) ==
    /\ io[d].writer = "writing"
    /\ Befalls(~plugged, "write")
    /\ io' = [io EXCEPT ![d] = WriterFinishes(@, "err")]
    /\ UNCHANGED <<plan, plugged, lease, opener, conn, drv, pump, lane, written>>

\* The exit is the last event, and is sent when there is room or nobody listens.
Posts(d) ==
    /\ ~io[d].open \/ Room(io[d])
    /\ LET said(kind) == IF io[d].open THEN <<Event(kind, FALSE)>> ELSE <<>>
       IN \/ /\ io[d].writer = "posting"
             /\ io' = [io EXCEPT ![d].writer = "gone", ![d].events = @ \o said("writer")]
          \/ /\ io[d].reader = "posting"
             /\ io' = [io EXCEPT ![d].reader = "gone", ![d].events = @ \o said("reader")]
    /\ UNCHANGED <<plan, plugged, lease, opener, conn, drv, pump, lane, faults, written>>

-----------------------------------------------------------------------------
(* The reader thread: run_usb_reader and UsbReaderBoundary.                *)

ReaderEnds(d) ==
    /\ \/ /\ io[d].reader = "reading" /\ ~io[d].running /\ UNCHANGED faults
       \/ /\ io[d].reader = "reading" /\ io[d].running
          /\ Befalls(~plugged, "read")
       \/ io[d].reader = "sending" /\ ~io[d].open /\ UNCHANGED faults
    /\ io' = [io EXCEPT ![d].reader = "posting", ![d].held = <<>>]
    /\ UNCHANGED <<plan, plugged, lease, opener, conn, drv, pump, lane, written>>

\* A read that completed is sent on, in order, even when a stop was just asked.
ReaderReads(d) ==
    /\ io[d].reader = "reading" /\ io[d].running /\ plugged
    /\ io[d].frames < plan.frames
    /\ \E kind \in plan.radio :
         /\ kind = "rom" => drv[d].at = "response"
         /\ io' = [io EXCEPT ![d].reader = "sending", ![d].frames = @ + 1,
                             ![d].held = <<Event(kind, io[d].inited)>>]
    /\ UNCHANGED <<plan, plugged, lease, opener, conn, drv, pump, lane, faults, written>>

ReaderSends(d) ==
    /\ io[d].reader = "sending" /\ io[d].open /\ Room(io[d])
    /\ io' = [io EXCEPT ![d].reader = "reading", ![d].held = <<>>,
                        ![d].events = @ \o io[d].held]
    /\ UNCHANGED <<plan, plugged, lease, opener, conn, drv, pump, lane, faults, written>>

\* pause_after_idle_if_requested.
ReaderPauses(d) ==
    /\ \/ /\ io[d].reader = "reading" /\ io[d].running /\ plugged /\ io[d].asked
          /\ io' = [io EXCEPT ![d].reader = "paused"]
       \/ /\ io[d].reader = "paused" /\ (~io[d].asked \/ ~io[d].running)
          /\ io' = [io EXCEPT ![d].reader = "reading"]
    /\ UNCHANGED <<plan, plugged, lease, opener, conn, drv, pump, lane, faults, written>>

-----------------------------------------------------------------------------
(* run_usb_tx_pump.  However it exits, its guard closes the gate.          *)

PumpExits(d, how) ==
    /\ pump' = [pump EXCEPT ![d] = how]
    /\ io' = [io EXCEPT ![d] = Closed(Leave(@))]
    /\ UNCHANGED <<plan, plugged, lease, opener, conn, drv, faults, written>>

\* The stop of the driver, or its disappearance, ends every wait of the pump.
PumpStops(d) ==
    /\ pump[d] \in {"start", "loop", "offer", "sending"}
    /\ drv[d].at \in {"closing", "aborted"}
    /\ PumpExits(d, "stopped")
    /\ UNCHANGED lane

\* The queue is borrowed; what was offered to the old generation is discarded.
PumpStarts(d) ==
    /\ pump[d] = "start"
    /\ pump' = [pump EXCEPT ![d] = "loop"]
    /\ lane' = [lane EXCEPT ![d].bg = IF @ = "offered" THEN "none" ELSE @]
    /\ io' = [io EXCEPT ![d].lane = TRUE]
    /\ UNCHANGED <<plan, plugged, lease, opener, conn, drv, faults, written>>

\* A completed packet is retired, also one whose acknowledgement was missed.
PumpRetires(d) ==
    /\ pump[d] = "loop" /\ lane[d].pending.done
    /\ lane' = [lane EXCEPT ![d].pending = NoPending,
                            ![d].first = lane[d].pending.packet # StationId]
    /\ UNCHANGED <<plan, plugged, lease, opener, conn, drv, io, pump, faults, written>>

PumpGivesUp(d) ==
    /\ pump[d] = "loop" /\ ~lane[d].pending.done
    /\ \/ /\ lane[d].pending = NoPending /\ lane[d].app = <<>> /\ ~lane[d].open
          /\ PumpExits(d, "closed")
       \/ /\ ~io[d].gate.closed /\ ~io[d].gate.ready /\ "silence" \in plan.kinds
          /\ PumpExits(d, "unready")
    /\ UNCHANGED lane

\* The next packet: the station's call sign when it is due, else the application's.
PumpTakes(d) ==
    /\ pump[d] = "loop" /\ CanSend(io[d]) /\ lane[d].pending = NoPending
    /\ \/ /\ plan.beacon /\ lane[d].first
          /\ lane' = [lane EXCEPT ![d].pending.packet = StationId]
       \/ /\ lane[d].app # <<>>
          /\ lane' = [lane EXCEPT ![d].pending.packet = Head(lane[d].app),
                                  ![d].app = Tail(@)]
    /\ UNCHANGED <<plan, plugged, lease, opener, conn, drv, io, pump, faults, written>>

\* can_send, and then the queue, whose lock the writer may hold.
PumpOffers(d) ==
    /\ \/ /\ pump[d] = "loop" /\ CanSend(io[d])
          /\ lane[d].pending # NoPending /\ ~lane[d].pending.done
          /\ pump' = [pump EXCEPT ![d] = "offer"]
          /\ UNCHANGED io
       \/ /\ pump[d] = "offer" /\ io[d].writer # "looking"
          /\ pump' = [pump EXCEPT ![d] = "sending"]
          /\ io' = [io EXCEPT ![d] = Enqueue(@, Request("packet", lane[d].pending.packet))]
    /\ UNCHANGED <<plan, plugged, lease, opener, conn, drv, lane, faults, written>>

PumpSent(d) ==
    /\ pump[d] = "sending" /\ Succeeded(io[d])
    /\ pump' = [pump EXCEPT ![d] = "loop"]
    /\ io' = [io EXCEPT ![d].ack = "none"]
    /\ UNCHANGED <<plan, plugged, lease, opener, conn, drv, lane, faults, written>>

\* Refused, or not acknowledged within USB_PACKET_WRITE_DEADLINE.
PumpRejected(d) ==
    /\ pump[d] = "sending" /\ ~Succeeded(io[d])
    /\ Refused(io[d]) \/ Deadline
    /\ PumpExits(d, "rejected")
    /\ UNCHANGED lane

-----------------------------------------------------------------------------
(* The driver's loop over one generation.                                  *)

PumpOver(d) == pump[d] \in {"stopped", "closed", "unready", "rejected"}

\* The select loop is left: the gate closes before anything else.
LeaveLoop(d, why, drain) ==
    /\ drv' = [drv EXCEPT ![d].at = "closing", ![d].why = why, ![d].drain = drain,
                          ![d].stop = @ /\ why # "stop"]
    /\ io' = [io EXCEPT ![d] = Closed(@)]

DriverStops(d) ==
    /\ drv[d].at \in {"running", "forwarding"} /\ drv[d].stop
    /\ LeaveLoop(d, "stop", FALSE)
    /\ UNCHANGED <<plan, plugged, lease, opener, conn, pump, lane, faults, written>>

DriverSeesPump(d) ==
    /\ drv[d].at \in {"running", "forwarding"} /\ PumpOver(d)
    /\ drv[d].at = "running" => ~drv[d].stop
    /\ CASE pump[d] = "closed" -> LeaveLoop(d, "consumer", FALSE)
         [] pump[d] = "unready" -> LeaveLoop(d, "lost", FALSE)
         [] OTHER -> LeaveLoop(d, "lost", TRUE)
    /\ UNCHANGED <<plan, plugged, lease, opener, conn, pump, lane, faults, written>>

\* forward_usb_read_chunk: the gate and the publisher see every frame; a packet
\* is then forwarded to the transport.
DriverReads(d) ==
    /\ drv[d].at = "running" /\ ~drv[d].stop /\ ~PumpOver(d)
    /\ io[d].events # <<>>
    /\ LET event == Head(io[d].events)
           seen == Observe(Consumed(io[d]), event)
       IN CASE IsExit(event) ->
                 /\ drv' = [drv EXCEPT ![d].at = "closing", ![d].why = "lost",
                                       ![d].drain = event.kind = "writer"]
                 /\ io' = [io EXCEPT ![d] = Closed(Consumed(@))]
            [] event.kind = "reject" ->
                 /\ drv' = [drv EXCEPT ![d].at = "closing", ![d].why = "rejected",
                                       ![d].drain = FALSE]
                 /\ io' = [io EXCEPT ![d] = Closed(seen)]
            [] OTHER -> Advance(d, IF event.kind = "data" THEN "forwarding" ELSE "running",
                                seen)
    /\ UNCHANGED <<plan, plugged, lease, opener, conn, pump, lane, faults, written>>

\* The transport takes the packet, or is gone.
DriverForwards(d) ==
    /\ drv[d].at = "forwarding" /\ ~PumpOver(d) /\ ~drv[d].stop
    /\ \/ Advance(d, "running", io[d]) /\ UNCHANGED faults
       \/ May("consumer") /\ Fault /\ LeaveLoop(d, "consumer", FALSE)
    /\ UNCHANGED <<plan, plugged, lease, opener, conn, pump, lane, written>>

\* The pump has joined: drain the reader's tail, or shut down.
DriverJoinsPump(d) ==
    /\ drv[d].at = "closing" /\ PumpOver(d)
    /\ pump' = [pump EXCEPT ![d] = "none"]
    /\ IF drv[d].drain
       THEN Advance(d, "draining", StopWorkers(io[d]))
       ELSE Advance(d, Leaving(d, TRUE), Shutdown(io[d], TRUE))
    /\ UNCHANGED <<plan, plugged, lease, opener, conn, lane, faults, written>>

\* drain_usb_reader_tail, and then the shutdown.
Drained(d, why) ==
    /\ drv' = [drv EXCEPT ![d].at = Leaving(d, TRUE), ![d].why = why,
                          ![d].stop = @ /\ why # "stop"]
    /\ io' = [io EXCEPT ![d] = Shutdown(@, TRUE)]

DriverDrains(d) ==
    /\ drv[d].at = "draining"
    /\ \/ /\ drv[d].stop
          /\ Drained(d, "stop") /\ UNCHANGED faults
       \/ /\ ~drv[d].stop /\ io[d].events # <<>>
          /\ LET event == Head(io[d].events)
             IN \/ /\ event.kind # "reader"
                   /\ Advance(d, "draining", Observe(Consumed(io[d]), event))
                   /\ UNCHANGED faults
                \/ event.kind = "reader" /\ Drained(d, drv[d].why) /\ UNCHANGED faults
                \/ event.kind = "data" /\ May("consumer") /\ Fault /\ Drained(d, "consumer")
       \/ /\ ~drv[d].stop                       \* the deadline, or both senders gone
          /\ io[d].events = <<>> \/ Deadline
          /\ Drained(d, drv[d].why) /\ UNCHANGED faults
    /\ UNCHANGED <<plan, plugged, lease, opener, conn, pump, lane, written>>

\* The wait for the acknowledgement without its deadline.
DetachWaits(d) ==
    /\ drv[d].at = "detaching"
    /\ Succeeded(io[d]) \/ Refused(io[d])
    /\ Advance(d, "joining", Shutdown(io[d], FALSE))
    /\ UNCHANGED <<plan, plugged, lease, opener, conn, pump, lane, faults, written>>

\* Acknowledged, refused, or not within USB_DETACH_ACK_DEADLINE.
DetachEnds(d) ==
    /\ drv[d].at = "detaching"
    /\ Advance(d, "joining", Shutdown(io[d], FALSE))
    /\ UNCHANGED <<plan, plugged, lease, opener, conn, pump, lane, faults, written>>

\* What follows a generation that ended for `why`.
After(d, quarantined) ==
    LET terminal == drv[d].why \in {"stop", "consumer", "rejected"}
        ends == terminal \/ (quarantined /\ drv[d].why = "lost")
                \/ (drv[d].why = "capability" /\ ~drv[d].first)
    IN drv' = [drv EXCEPT ![d].at = IF ends THEN "ended"
                                    ELSE IF drv[d].first THEN "failed" ELSE "waiting",
                          ![d].status = IF ends THEN "complete" ELSE @]

\* Both workers join, or one of them does not within USB_WORKER_JOIN_DEADLINE and
\* the device stays quarantined with its connection.
Joins(d) ==
    /\ drv[d].at = "joining"
    /\ \/ /\ io[d].writer = "gone" /\ io[d].reader = "gone"
          /\ \/ CloseConnection(d, "active") /\ After(d, FALSE) /\ UNCHANGED faults
             \/ May("close") /\ Fault /\ KeepConnection /\ After(d, TRUE)
       \/ /\ io[d].writer # "gone" \/ io[d].reader # "gone"
          /\ KeepConnection /\ After(d, TRUE) /\ UNCHANGED faults
    /\ UNCHANGED <<plan, plugged, opener, io, pump, lane, written>>

\* USB_RECONNECT_DELAY passes, or the attached devices change.
Reconnects(d) ==
    /\ drv[d].at = "waiting" /\ drv[d].starts < MaxStarts
    /\ drv' = [drv EXCEPT ![d].at = "start"]
    /\ UNCHANGED <<plan, plugged, lease, opener, conn, io, pump, lane, faults, written>>

\* The stop that the wait for the next attempt also listens to.
StopsWaiting(d) ==
    /\ drv[d].at = "waiting" /\ drv[d].stop
    /\ drv' = [drv EXCEPT ![d].at = "ended", ![d].stop = FALSE, ![d].status = "complete"]
    /\ UNCHANGED <<plan, plugged, lease, opener, conn, io, pump, lane, faults, written>>

-----------------------------------------------------------------------------
(* The surroundings.                                                       *)

\* The driver's task is aborted: OwnedUsbIo::drop keeps the device quarantined.
Abort(d) ==
    /\ drv[d].at \notin {"failed", "ended", "aborted", "start"}
    /\ May("abort") /\ Fault
    /\ drv' = [drv EXCEPT ![d].at = "aborted"]
    /\ IF drv[d].at \in {"opening", "waiting"}
       THEN UNCHANGED <<io, lease>>
       ELSE /\ io' = [io EXCEPT ![d] = [StopWorkers(Leave(@)) EXCEPT !.open = FALSE]]
            /\ lease' = "quarantined"
    /\ UNCHANGED <<plan, plugged, opener, conn, pump, lane, written>>

\* request_android_usb_rnode_stop.
RequestStop(d) ==
    /\ May("stop") /\ drv[d].status = "running" /\ ~drv[d].stop
    /\ drv' = [drv EXCEPT ![d].stop = TRUE]
    /\ Fault
    /\ UNCHANGED <<plan, plugged, lease, opener, conn, io, pump, lane, written>>

\* The interface's handle goes: nobody can send any more.
Forget(d) ==
    /\ May("forget") /\ lane[d].open /\ drv[d].status = "running"
    /\ lane' = [lane EXCEPT ![d].open = FALSE]
    /\ Fault
    /\ UNCHANGED <<plan, plugged, lease, opener, conn, drv, io, pump, written>>

\* The scheduler offers one background packet, and may take the offer back.
Offer(d) ==
    /\ drv[d].status = "running"
    /\ \/ /\ plan.background /\ lane[d].bg = "none" /\ Background \notin Range(written[d])
          /\ lane' = [lane EXCEPT ![d].bg = "offered"]
          /\ UNCHANGED faults
       \/ /\ May("withdraw") /\ lane[d].bg = "offered"
          /\ lane' = [lane EXCEPT ![d].bg = "none"]
          /\ Fault
    /\ UNCHANGED <<plan, plugged, lease, opener, conn, drv, io, pump, written>>

Plug ==
    /\ \/ plugged /\ May("unplug") /\ Fault /\ plugged' = FALSE
       \/ ~plugged /\ plugged' = TRUE /\ UNCHANGED faults
    /\ UNCHANGED <<plan, lease, opener, conn, drv, io, pump, lane, written>>

-----------------------------------------------------------------------------
OpenSteps(d) ==
    \/ OpenDevice(d) \/ SetUp(d) \/ TrailingRelease(d) \/ Abandoned(d)
WriterSteps(d) ==
    \/ WriterReceives(d) \/ TakesBackground(d) \/ WriterAdmits(d) \/ WriterWrites(d)
    \/ WriterFails(d)
ReaderSteps(d) ==
    \/ ReaderEnds(d) \/ ReaderReads(d) \/ ReaderSends(d) \/ ReaderPauses(d)
PumpSteps(d) ==
    \/ PumpStops(d) \/ PumpStarts(d) \/ PumpRetires(d) \/ PumpGivesUp(d)
    \/ PumpTakes(d) \/ PumpOffers(d) \/ PumpSent(d) \/ PumpRejected(d)
DriverSteps(d) ==
    \/ Reserve(d) \/ OpenFailed(d) \/ Opened(d)
    \/ Acked(d) \/ NotAcked(d) \/ StartupReads(d) \/ NoAnswer(d) \/ Boundary(d)
    \/ Initialised(d)
    \/ DriverStops(d) \/ DriverSeesPump(d) \/ DriverReads(d) \/ DriverForwards(d)
    \/ DriverJoinsPump(d) \/ DriverDrains(d) \/ DetachEnds(d) \/ Joins(d)
    \/ Reconnects(d) \/ StopsWaiting(d)

Next ==
    \/ \E d \in Drivers :
         \/ OpenSteps(d) \/ WriterSteps(d) \/ ReaderSteps(d) \/ Posts(d) \/ PumpSteps(d)
         \/ DriverSteps(d) \/ Abort(d) \/ RequestStop(d) \/ Forget(d) \/ Offer(d)
    \/ Plug

Spec == Init /\ [][Next]_vars

\* Tasks of the runtime are scheduled, their deadlines pass, and the JNI calls
\* that open a device return.  The select of a waiting driver does not prefer the
\* next attempt to the stop for ever.  Nothing is assumed of the transfers of the
\* two worker threads.
FairSpec ==
    /\ Spec
    /\ \A d \in Drivers :
         /\ WF_vars(OpenSteps(d))
         /\ WF_vars(PumpSteps(d))
         /\ WF_vars(DriverSteps(d))
         /\ SF_vars(StopsWaiting(d))

-----------------------------------------------------------------------------
TypeOK ==
    /\ plan \in Plans /\ plugged \in BOOLEAN
    /\ lease \in {"none", "opening", "active", "quarantined"}
    /\ \A d \in Drivers :
         /\ conn[d] \in BOOLEAN
         /\ opener[d] \in {"none", "run", "opened", "trailing", "done", "failed"}
         /\ Len(io[d].events) <= EventCapacity
         /\ Len(io[d].reqs) <= 1
         /\ drv[d].starts <= MaxStarts

\* A driver has something of the device: its connection or a worker on it.
Physical(d) == conn[d] \/ io[d].writer # "gone" \/ io[d].reader # "gone"
Busy(d) == drv[d].at \notin {"failed", "ended", "waiting", "start", "aborted"}

\* A driver works with the device: an open has made it the holder, or a worker lives.
Session(d) == opener[d] = "done" \/ io[d].writer # "gone" \/ io[d].reader # "gone"
OpensMayFail == plan.kinds \cap {"open", "setup", "unplug"} # {}

\* Two sessions never work with the device at once, and a device that may be opened
\* is held by nobody, whatever opens race each other, but for a connection that is
\* still being set up.  That one is alone, too, only as long as no open fails while
\* another is under way: the second release of a failed open is by the name of the
\* device and gives back whichever reservation it finds, so that a third open may
\* connect beside the second (ReservationStep).  A lease that is neither free nor
\* quarantined belongs to a driver or an open that is still at work: every failed
\* start and every shutdown has resolved its ownership (UsbLeaseTable,
\* OwnedUsbIo::shutdown and drop).
SessionsExclusive ==
    /\ TypeOK
    /\ \A d, e \in Drivers : Session(d) /\ Session(e) => d = e
    /\ lease = "none" => \A d \in Drivers : Physical(d) => opener[d] = "opened"
    /\ ~OpensMayFail =>
         /\ \A d, e \in Drivers : Physical(d) /\ Physical(e) => d = e
         /\ lease = "none" => \A d \in Drivers : ~Physical(d)
    /\ lease \in {"opening", "active"} =>
         \E d \in Drivers : Busy(d) \/ opener[d] \notin {"none", "failed"}

\* Through reconnects, late and cancelled writes, the application's packets reach
\* the device in order, and none that it is known to have taken whole is given to
\* it again (write_request's completed flag, and the join before the next pump).
WrittenOnce ==
    \A d \in Drivers :
      IsPrefix(SelectSeq(written[d], LAMBDA p : p \notin {Background, StationId}), plan.app)

\* What the radio said before Init was acknowledged never counts for its readiness
\* or for permission to send (UsbReaderBoundary and the drain before Init).
FreshReadiness == \A d \in Drivers : ~io[d].stale

\* A driver that is asked to stop reports that it has, or is aborted, whatever its
\* workers do: stop_android_usb_rnode_interface_and_wait returns.
StopPending(d) ==
    drv[d].stop /\ drv[d].status = "running" /\ drv[d].at # "aborted"
StopAnswered == \A d \in Drivers : []<>(~StopPending(d))

\* The device has one session, what it takes it takes once, and its readiness is fresh.
DeviceSound == SessionsExclusive /\ WrittenOnce /\ FreshReadiness

\* An open that fails gives back its own reservation only: it never takes that of
\* another driver.
ReservationStep ==
    \A d \in Drivers : opener[d] = "run" /\ lease = "opening" /\ lease' = "none"
                          => opener'[d] # "run"
ReservationsOwn == [][ReservationStep]_vars

=============================================================================
