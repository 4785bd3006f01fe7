------------------------------ MODULE Registry ------------------------------
(***************************************************************************)
(* The life of an interface in the runtime: interface_registry.rs of       *)
(* rns-runtime, and the transactions of its reticulum.rs that register     *)
(* interfaces, tear them down and drain the runtime.                       *)
(*                                                                         *)
(* A job registers the interfaces of one spawn, one of them or a batch.    *)
(* Its worker reserves every id in the registry, publishes every entry to  *)
(* the transport actor, commits them together and waits for its caller to  *)
(* take the result; a caller that has gone, a cancelled reservation or a   *)
(* closed actor roll it back.  A teardown leases an active record, joins   *)
(* its task, deregisters it and forgets the id.  The drain closes the      *)
(* registry, waits for the workers, joins every task and stops the actor.  *)
(* A step is what a task does between two awaits, or under one lock.  The  *)
(* actor is its mailbox, in order, and the owners it knows.                *)
(***************************************************************************)
EXTENDS Integers, Sequences, FiniteSets

CONSTANTS
    Ids,      \* interface ids
    Jobs,     \* registrations
    Tears,    \* calls of teardown_interface
    Plans     \* what is considered

\* A plan: the ids every job registers, in order, and how it comes about; the id of every teardown;
\* what may happen, and how often a caller goes or a driver ends.
RegistryAssumption ==
    /\ Jobs \cap Tears = {} /\ "none" \notin Jobs \cup Tears \cup Ids
    /\ \A x \in Plans :
          /\ \A j \in DOMAIN x.jobs :
                /\ j \in Jobs
                /\ x.jobs[j].ids \in Seq(Ids) \ {<<>>}
                /\ x.jobs[j].how \in {"spawn", "child", "shared"}
          /\ \A t \in DOMAIN x.tears : t \in Tears /\ x.tears[t] \in Ids
          /\ x.kinds \subseteq {"cancel", "end", "refuse", "crash", "stop", "attach"}
          /\ x.faults \in Nat

VARIABLES
    plan, faults,
    admission, permits,   \* RegistryState: its admission and in_flight_spawns
    records,              \* RegistryState.records
    controls,             \* interface_controls: the registry owner of every id
    task,                 \* the read task of every interface of a job
    epoch, epochs,        \* the transport owner's epoch of every job, and the last one given
    job,                  \* the workers
    caller,               \* who waits for them
    lease,                \* what a teardown or a worker's cleanup holds
    pump,                 \* run_accepted_child_registration_pump
    coord,                \* RuntimeShutdownCoordinator
    box, table, stopped,  \* the actor: its mailbox, its interfaces, whether it has stopped
    registered, retired,  \* transport owners
    replaced              \* an owner that was live was replaced in the table

vars == <<plan, faults, admission, permits, records, controls, task, epoch, epochs, job, caller,
          lease, pump, coord, box, table, stopped, registered, retired, replaced>>

None == "none"
Holders == Jobs \cup Tears
NoRecord == [owner |-> None, state |-> "none", cancel |-> FALSE, abandoned |-> FALSE]
NoLease == [step |-> "none", id |-> None, owner |-> None, known |-> FALSE]

IdsOf(j) == plan.jobs[j].ids
Interfaces == {w \in Jobs \X Ids : w[1] \in DOMAIN plan.jobs
                                    /\ \E k \in 1..Len(IdsOf(w[1])) : IdsOf(w[1])[k] = w[2]}
May(kind) == kind \in plan.kinds /\ faults < plan.faults
Shutdown == coord.pc # "idle"    \* the shutdown signal has been triggered

-----------------------------------------------------------------------------
(* interface_registry.rs *)

\* remove_exact
Removed(i, o) == IF records[i].owner = o THEN [records EXCEPT ![i] = NoRecord] ELSE records

\* remove_interface_control_if_owner
ControlsWithout(i, o) ==
    IF controls[i] = o THEN [controls EXCEPT ![i] = None] ELSE controls

\* wait_for_any_cancel_requested
CancelRequested(tokens) ==
    \E k \in tokens :
        \/ records[k[1]].owner # k[2]
        \/ records[k[1]].state = "pending" /\ records[k[1]].cancel
        \/ records[k[1]].state \in {"stopping", "abandoned"}

\* A reservation that is dropped when its task has been joined (mark_abandoned_pending).
AbandonedPending(rs, i, o) ==
    IF rs[i].owner # o \/ rs[i].state # "pending" THEN rs
    ELSE [rs EXCEPT ![i].abandoned = TRUE,
                    ![i].state = IF admission # "open" THEN "abandoned" ELSE @]

\* A lease that is dropped when its task has been joined (mark_abandoned_shutdown).
AbandonedShutdown(i, o) ==
    IF records[i].owner = o /\ records[i].state = "stopping"
    THEN [records EXCEPT ![i].state = "abandoned"] ELSE records

-----------------------------------------------------------------------------
(* The transport owners *)

Live(w) == w \in registered \ retired

\* InterfaceTransportSender::ready: it waits for the actor to have taken the registration.
ReadyKnown(w) == stopped \/ w \in retired \/ w \in registered
Ready(w) == ~stopped /\ Live(w)

Post(m) == box' = Append(box, m)
Register(w) == [kind |-> "register", id |-> w[2], owner |-> w[1]]
Deregister(w) == [kind |-> "deregister", id |-> w[2], owner |-> w[1]]
ShutdownMessage == [kind |-> "shutdown", id |-> None, owner |-> None]

-----------------------------------------------------------------------------
(* Registering *)

Goto(j, pc) == job' = [job EXCEPT ![j].pc = pc]

Started(j) ==
    /\ task' = [w \in DOMAIN task |-> IF w[1] = j THEN "running" ELSE task[w]]
    /\ epochs' = epochs + 1 /\ epoch' = [epoch EXCEPT ![j] = epochs + 1]

\* A spawn takes a permit before it starts anything; without one there is nothing to undo.
Spawn(j) ==
    /\ j \in DOMAIN plan.jobs /\ job[j].pc = "idle" /\ plan.jobs[j].how # "child"
    /\ \/ /\ admission = "open"
          /\ permits' = permits + 1 /\ Started(j) /\ Goto(j, "prepare")
          /\ UNCHANGED caller
       \/ /\ admission # "open"
          /\ Goto(j, "done") /\ caller' = [caller EXCEPT ![j] = "err"]
          /\ UNCHANGED <<permits, task, epoch, epochs>>
    /\ UNCHANGED <<plan, faults, admission, records, controls, lease, pump, coord, box, table,
                   stopped, registered, retired, replaced>>

\* A server accepts a child and hands it to the pump, which may have gone.
Accept(j) ==
    /\ j \in DOMAIN plan.jobs /\ job[j].pc = "idle" /\ plan.jobs[j].how = "child"
    /\ \/ pump # "closed" /\ Started(j) /\ Goto(j, "queued") /\ UNCHANGED caller
       \/ /\ pump = "closed"
          /\ Goto(j, "done") /\ caller' = [caller EXCEPT ![j] = "err"]
          /\ UNCHANGED <<task, epoch, epochs>>
    /\ UNCHANGED <<plan, faults, admission, permits, records, controls, lease, pump, coord, box,
                   table, stopped, registered, retired, replaced>>

\* The pump takes the next child, unless the runtime shuts down; then it reclaims those that wait.
PumpTakes(j) ==
    /\ pump = "idle" /\ ~Shutdown /\ job[j].pc = "queued"
    /\ pump' = j /\ Goto(j, "prepare")
    /\ UNCHANGED <<plan, faults, admission, permits, records, controls, task, epoch, epochs,
                   caller, lease, coord, box, table, stopped, registered, retired, replaced>>

PumpResumes ==
    /\ pump \in Jobs /\ caller[pump] # "waiting"
    /\ pump' = IF caller[pump] = "err" /\ job[pump].fatal THEN "draining" ELSE "idle"
    /\ UNCHANGED <<plan, faults, admission, permits, records, controls, task, epoch, epochs, job,
                   caller, lease, coord, box, table, stopped, registered, retired, replaced>>

PumpCloses ==
    /\ pump = "draining" \/ (pump = "idle" /\ Shutdown)
    /\ LET left == {j \in Jobs : job[j].pc = "queued"} IN
          /\ pump' = "closed"
          /\ job' = [j \in Jobs |-> IF j \in left THEN [job[j] EXCEPT !.pc = "done"] ELSE job[j]]
          /\ caller' = [j \in Jobs |-> IF j \in left THEN "err" ELSE caller[j]]
          /\ task' = [w \in DOMAIN task |-> IF w[1] \in left THEN "stopped" ELSE task[w]]
    /\ UNCHANGED <<plan, faults, admission, permits, records, controls, epoch, epochs, lease,
                   coord, box, table, stopped, registered, retired, replaced>>

Reserved(j) == {<<IdsOf(j)[k], j>> : k \in 1..(job[j].at - 1)}

\* reserve_with_online for the next interface of the batch, and its control; a rejection stops that
\* interface and undoes the batch.
Prepare(j) ==
    /\ job[j].pc = "prepare"
    /\ LET i == IdsOf(j)[job[j].at] IN
       \/ /\ admission = "open" /\ records[i] = NoRecord
          /\ records' = [records EXCEPT ![i] = [NoRecord EXCEPT !.owner = j, !.state = "pending"]]
          /\ controls' = [controls EXCEPT ![i] = j]
          /\ job' = [job EXCEPT ![j] = IF @.at = Len(IdsOf(j))
                                       THEN [@ EXCEPT !.at = @ + 1, !.pc = "publish"]
                                       ELSE [@ EXCEPT !.at = @ + 1]]
       \/ /\ admission # "open" \/ records[i] # NoRecord
          /\ job' = [job EXCEPT ![j].pc = "rollback", ![j].fatal = admission # "open"]
          /\ UNCHANGED <<records, controls>>
    /\ UNCHANGED <<plan, faults, admission, permits, task, epoch, epochs, caller, lease, pump,
                   coord, box, table, stopped, registered, retired, replaced>>

Published(j) == Cardinality(job[j].sent)

\* send_register for the next interface: it looks for a cancellation first.
Publish(j) ==
    /\ job[j].pc = "publish"
    /\ LET i == IdsOf(j)[Published(j) + 1] IN
       \/ /\ caller[j] = "gone" \/ CancelRequested(Reserved(j))
          /\ Goto(j, "rollback") /\ UNCHANGED box
       \/ /\ caller[j] # "gone" /\ ~CancelRequested(Reserved(j)) /\ stopped
          /\ job' = [job EXCEPT ![j].pc = "rollback", ![j].fatal = TRUE] /\ UNCHANGED box
       \/ /\ caller[j] # "gone" /\ ~CancelRequested(Reserved(j)) /\ ~stopped
          /\ Post(Register(<<j, i>>))
          /\ job' = [job EXCEPT ![j].sent = @ \cup {i},
                                ![j].pc = IF Published(j) + 1 = Len(IdsOf(j)) THEN "commit" ELSE @]
    /\ UNCHANGED <<plan, faults, admission, permits, records, controls, task, epoch, epochs,
                   caller, lease, pump, coord, table, stopped, registered, retired, replaced>>

\* What commit and commit_batch ask of every reservation.
Committable(j) ==
    /\ caller[j] # "gone" /\ admission = "open"
    /\ \A k \in Reserved(j) : records[k[1]] = [NoRecord EXCEPT !.owner = j, !.state = "pending"]

\* commit and commit_batch: all of the batch is active, or none of it.
Commit(j) ==
    /\ job[j].pc = "commit"
    /\ \/ /\ Committable(j)
          /\ records' = [i \in Ids |-> IF <<i, j>> \in Reserved(j)
                                       THEN [records[i] EXCEPT !.state = "active"] ELSE records[i]]
          /\ job' = [job EXCEPT ![j].pc = "permit", ![j].ok = TRUE]
       \/ ~Committable(j) /\ Goto(j, "rollback") /\ UNCHANGED records
    /\ UNCHANGED <<plan, faults, admission, permits, controls, task, epoch, epochs, caller, lease,
                   pump, coord, box, table, stopped, registered, retired, replaced>>

\* Every rollback: the interfaces go offline, their controls are removed, their tasks joined.
Rollback(j) ==
    /\ job[j].pc = "rollback"
    /\ task' = [w \in DOMAIN task |-> IF w[1] = j THEN "stopped" ELSE task[w]]
    /\ controls' = [i \in Ids |-> IF <<i, j>> \in Reserved(j) THEN ControlsWithout(i, j)[i]
                                  ELSE controls[i]]
    /\ Goto(j, "unpublish")
    /\ UNCHANGED <<plan, faults, admission, permits, records, epoch, epochs, caller, lease, pump,
                   coord, box, table, stopped, registered, retired, replaced>>

\* Mutant: only what was committed is deregistered.
WasCommitted(j, i) == job[j].ok

\* The entries a rollback treats as published.
WasPublished(j, i) == i \in job[j].sent

\* Then those that were published are deregistered, and every id is released; with a closed actor
\* a published id is not, and its reservation is dropped as it is.
Unpublish(j) ==
    /\ job[j].pc = "unpublish"
    /\ \/ /\ Reserved(j) = {}
          /\ Goto(j, "permit") /\ UNCHANGED <<records, box>>
       \/ \E k \in Reserved(j) :
             LET i == k[1] IN
             /\ i = IdsOf(j)[1 + job[j].undone]
             /\ job' = [job EXCEPT ![j].undone = @ + 1,
                                   ![j].pc = IF job[j].undone + 1 = Cardinality(Reserved(j))
                                             THEN "permit" ELSE @]
             /\ \/ /\ WasPublished(j, i) /\ ~stopped
                   /\ Post(Deregister(<<j, i>>)) /\ records' = Removed(i, j)
                \/ /\ ~WasPublished(j, i)
                   /\ records' = Removed(i, j) /\ UNCHANGED box
                \/ /\ WasPublished(j, i) /\ stopped
                   /\ records' = AbandonedPending(records, i, j) /\ UNCHANGED box
    /\ UNCHANGED <<plan, faults, admission, permits, controls, task, epoch, epochs, caller, lease,
                   pump, coord, table, stopped, registered, retired, replaced>>

\* The permit is given back when the tasks belong to the registry, or to nobody.
ReleasePermit(j) ==
    /\ job[j].pc = "permit"
    /\ permits' = IF plan.jobs[j].how = "child" THEN permits ELSE permits - 1
    /\ Goto(j, "reply")
    /\ UNCHANGED <<plan, faults, admission, records, controls, task, epoch, epochs, caller, lease,
                   pump, coord, box, table, stopped, registered, retired, replaced>>

\* finish_registration_worker: what was committed for a caller that has gone is torn down.
Reply(j) ==
    /\ job[j].pc = "reply"
    /\ \/ ~job[j].ok /\ Goto(j, "done")
          /\ caller' = [caller EXCEPT ![j] = IF @ = "gone" THEN @ ELSE "err"]
       \/ job[j].ok /\ caller[j] = "gone" /\ Goto(j, "cleanup") /\ UNCHANGED caller
       \/ /\ job[j].ok /\ caller[j] # "gone"
          /\ Goto(j, IF plan.jobs[j].how = "shared" THEN "attach" ELSE "done")
          /\ caller' = [caller EXCEPT ![j] = IF plan.jobs[j].how = "shared" THEN @ ELSE "ok"]
    /\ UNCHANGED <<plan, faults, admission, permits, records, controls, task, epoch, epochs, lease,
                   pump, coord, box, table, stopped, registered, retired, replaced>>

\* The future that waits for a registration is dropped.
CallerGoes(j) ==
    /\ May("cancel") /\ caller[j] = "waiting" /\ job[j].pc \notin {"idle", "attach"}
    /\ plan.jobs[j].how = "spawn"
    /\ caller' = [caller EXCEPT ![j] = "gone"] /\ faults' = faults + 1
    /\ UNCHANGED <<plan, admission, permits, records, controls, task, epoch, epochs, job, lease,
                   pump, coord, box, table, stopped, registered, retired, replaced>>

-----------------------------------------------------------------------------
(* Joining another instance: adopt_shared_instance_client *)

\* The initial state has been applied by the actor, which the answer to a query shows.
Attach(j) ==
    /\ job[j].pc = "attach"
    /\ Ready(<<j, IdsOf(j)[1]>>)
    /\ Goto(j, "done") /\ caller' = [caller EXCEPT ![j] = "ok"]
    /\ UNCHANGED <<plan, faults, admission, permits, records, controls, task, epoch, epochs, lease,
                   pump, coord, box, table, stopped, registered, retired, replaced>>

\* The answer does not come in time.
AttachTimesOut(j) ==
    /\ job[j].pc = "attach" /\ May("attach") /\ faults' = faults + 1
    /\ Goto(j, "cleanup")
    /\ UNCHANGED <<plan, admission, permits, records, controls, task, epoch, epochs, caller, lease,
                   pump, coord, box, table, stopped, registered, retired, replaced>>

\* The owner was retired, or the runtime shuts down.
AttachFails(j) ==
    /\ job[j].pc = "attach"
    /\ \/ CancelRequested({<<IdsOf(j)[1], j>>})
       \/ Shutdown \/ stopped
    /\ Goto(j, "cleanup")
    /\ UNCHANGED <<plan, faults, admission, permits, records, controls, task, epoch, epochs,
                   caller, lease, pump, coord, box, table, stopped, registered, retired, replaced>>

\* Its rollback has five seconds, whether it waits for the actor or for a teardown that
\* got there first; then its lease, if it has one, is dropped and the runtime shuts down.
\* (The client's task, once aborted, is joined at once.)
Desert(j) ==
    /\ lease[j].step \in {"wait", "deregister"} /\ plan.jobs[j].how = "shared"
    /\ May("attach") /\ faults' = faults + 1
    /\ \/ /\ lease[j].step = "deregister"
          /\ records' = AbandonedShutdown(lease[j].id, lease[j].owner)
       \/ lease[j].step = "wait" /\ UNCHANGED records
    /\ lease' = [lease EXCEPT ![j] = NoLease]
    /\ coord' = IF coord.pc = "idle" THEN [coord EXCEPT !.pc = "drain"] ELSE coord
    /\ Goto(j, "done") /\ caller' = [caller EXCEPT ![j] = "err"]
    /\ UNCHANGED <<plan, admission, permits, controls, task, epoch, epochs, pump, box, table,
                   stopped, registered, retired, replaced>>

-----------------------------------------------------------------------------
(* Tearing down *)

Leased(p, i, o, known) ==
    lease' = [lease EXCEPT ![p] = [step |-> "stop", id |-> i, owner |-> o, known |-> known]]
Waits(p, i, o) ==
    lease' = [lease EXCEPT ![p] = [NoLease EXCEPT !.step = "wait", !.id = i, !.owner = o]]

\* What a holder does when it is done with an id: a teardown returns, a cleanup takes the next one.
Onward(p) ==
    /\ lease' = [lease EXCEPT ![p] = IF p \in Tears THEN [NoLease EXCEPT !.step = "returned"]
                                     ELSE NoLease]
    /\ IF p \in Tears THEN UNCHANGED <<job, caller>>
       ELSE /\ job' = [job EXCEPT ![p].cleaned = @ + 1,
                                  ![p].pc = IF job[p].cleaned + 1 = Len(IdsOf(p)) THEN "done" ELSE @]
            /\ caller' = [caller EXCEPT ![p] = IF @ = "waiting" THEN "err" ELSE @]

Stopping(i) == records' = [records EXCEPT ![i].state = "stopping"]

\* begin_shutdown
TearDown(t) ==
    /\ t \in DOMAIN plan.tears /\ lease[t].step = "none"
    /\ LET i == plan.tears[t]
           r == records[i]
       IN \/ /\ r = NoRecord /\ admission # "open"
             /\ lease' = [lease EXCEPT ![t].step = "returned"] /\ UNCHANGED records
          \/ /\ r = NoRecord /\ admission = "open"
             /\ records' = [records EXCEPT ![i] = [NoRecord EXCEPT !.owner = t,
                                                                   !.state = "stopping"]]
             /\ Leased(t, i, t, FALSE)
          \/ /\ r.state = "pending"
             /\ records' = [records EXCEPT ![i].cancel = TRUE] /\ Waits(t, i, r.owner)
          \/ /\ r.state \in {"stopping", "abandoned"}
             /\ Waits(t, i, r.owner) /\ UNCHANGED records
          \/ r.state = "active" /\ Stopping(i) /\ Leased(t, i, r.owner, TRUE)
    /\ UNCHANGED <<plan, faults, admission, permits, controls, task, epoch, epochs, job, caller,
                   pump, coord, box, table, stopped, registered, retired, replaced>>

\* begin_shutdown_exact, for what a worker committed
CleanUp(j) ==
    /\ job[j].pc = "cleanup" /\ lease[j] = NoLease
    /\ LET i == IdsOf(j)[1 + job[j].cleaned]
           r == records[i]
       IN \/ /\ r.owner # j \/ r.state = "pending"
             /\ Onward(j) /\ UNCHANGED records
          \/ /\ r.owner = j /\ r.state \in {"stopping", "abandoned"}
             /\ Waits(j, i, j) /\ UNCHANGED <<records, job, caller>>
          \/ /\ r.owner = j /\ r.state = "active"
             /\ Stopping(i) /\ Leased(j, i, j, TRUE) /\ UNCHANGED <<job, caller>>
    /\ UNCHANGED <<plan, faults, admission, permits, controls, task, epoch, epochs, pump, coord,
                   box, table, stopped, registered, retired, replaced>>

\* wait_until_not_owner
WaitEnds(p) ==
    /\ lease[p].step = "wait" /\ records[lease[p].id].owner # lease[p].owner
    /\ Onward(p)
    /\ UNCHANGED <<plan, faults, admission, permits, records, controls, task, epoch, epochs, pump,
                   coord, box, table, stopped, registered, retired, replaced>>

\* finish_interface_shutdown: the interface goes offline and its task is joined, ...
StopTask(p) ==
    /\ lease[p].step = "stop"
    /\ task' = [w \in DOMAIN task |-> IF w = <<lease[p].owner, lease[p].id>> THEN "stopped"
                                      ELSE task[w]]
    /\ lease' = [lease EXCEPT ![p].step = "control"]
    /\ UNCHANGED <<plan, faults, admission, permits, records, controls, epoch, epochs, job, caller,
                   pump, coord, box, table, stopped, registered, retired, replaced>>

\* ... its control is taken; without one nothing of it was published, ...
TakeControl(p) ==
    /\ lease[p].step = "control"
    /\ LET i == lease[p].id
           has == controls[i] # None /\ (lease[p].known => controls[i] = lease[p].owner)
       IN \/ /\ has
             /\ controls' = [controls EXCEPT ![i] = None]
             /\ lease' = [lease EXCEPT ![p].step = "deregister"]
             /\ UNCHANGED <<records, job, caller>>
          \/ /\ ~has
             /\ records' = Removed(i, lease[p].owner) /\ Onward(p) /\ UNCHANGED controls
    /\ UNCHANGED <<plan, faults, admission, permits, task, epoch, epochs, pump, coord, box, table,
                   stopped, registered, retired, replaced>>

\* ... and it is deregistered.  The id is free when that has been sent, and kept when it cannot be.
SendDeregister(p) ==
    /\ lease[p].step = "deregister"
    /\ LET i == lease[p].id
           w == <<lease[p].owner, i>>
       IN /\ ReadyKnown(w)
          /\ \/ /\ Ready(w)
                /\ Post(Deregister(w)) /\ records' = Removed(i, lease[p].owner)
             \/ /\ ~Ready(w)
                /\ records' = AbandonedShutdown(i, lease[p].owner) /\ UNCHANGED box
    /\ Onward(p)
    /\ UNCHANGED <<plan, faults, admission, permits, controls, task, epoch, epochs, pump, coord,
                   table, stopped, registered, retired, replaced>>

-----------------------------------------------------------------------------
(* Draining the runtime: RuntimeShutdownCoordinator *)

Coordinated(pc) == coord' = [coord EXCEPT !.pc = pc]

\* The application asks for it, or the process is told to end.
StartShutdown ==
    /\ coord.pc = "idle" /\ "stop" \in plan.kinds
    /\ Coordinated("drain")
    /\ UNCHANGED <<plan, faults, admission, permits, records, controls, task, epoch, epochs, job,
                   caller, lease, pump, box, table, stopped, registered, retired, replaced>>

Owned(state) == {<<i, records[i].owner>> : i \in {k \in Ids : records[k].state = state}}

\* begin_drain: under one lock the registry is closed, what is active is leased, and what is pending
\* is cancelled.
BeginDrain ==
    /\ coord.pc = "drain"
    /\ admission' = "draining"
    /\ LET left == {k \in Owned("pending") : records[k[1]].abandoned} IN
          /\ coord' = [pc |-> "pump", leases |-> Owned("active"),
                       waiters |-> (Owned("pending") \ left) \cup Owned("stopping"),
                       claimed |-> left \cup Owned("abandoned")]
          /\ records' = [i \in Ids |->
                CASE records[i].state = "pending" ->
                        [records[i] EXCEPT !.cancel = TRUE,
                                           !.state = IF records[i].abandoned THEN "abandoned"
                                                     ELSE @]
                  [] records[i].state = "active" -> [records[i] EXCEPT !.state = "stopping"]
                  [] OTHER -> records[i]]
    /\ UNCHANGED <<plan, faults, permits, controls, task, epoch, epochs, job, caller, lease, pump,
                   box, table, stopped, registered, retired, replaced>>

\* wait_for_spawns, behind the join of the pump
ProducersGone == pump = "closed" /\ permits = 0

\* It waits for the pump and for the permits, then signals and joins every leased task.
JoinProducers ==
    /\ coord.pc = "pump" /\ ProducersGone
    /\ task' = [w \in DOMAIN task |-> IF <<w[2], w[1]>> \in coord.leases THEN "stopped"
                                      ELSE task[w]]
    /\ Coordinated("waiters")
    /\ UNCHANGED <<plan, faults, admission, permits, records, controls, epoch, epochs, job, caller,
                   lease, pump, box, table, stopped, registered, retired, replaced>>

\* wait_or_claim_abandoned
AwaitOwners ==
    /\ coord.pc = "waiters"
    /\ \/ coord.waiters = {} /\ Coordinated("abandoned")
       \/ \E k \in coord.waiters :
             /\ records[k[1]].owner # k[2] \/ records[k[1]].state = "abandoned"
             /\ coord' = [coord EXCEPT !.waiters = @ \ {k},
                                       !.claimed = IF records[k[1]].owner = k[2] THEN @ \cup {k}
                                                   ELSE @]
    /\ UNCHANGED <<plan, faults, admission, permits, records, controls, task, epoch, epochs, job,
                   caller, lease, pump, box, table, stopped, registered, retired, replaced>>

\* What was abandoned may have been published: it is deregistered before its id is released.
Reclaim ==
    /\ coord.pc = "abandoned"
    /\ \E k \in coord.claimed :
          LET w == <<k[2], k[1]>>
              has == controls[k[1]] = k[2]
          IN /\ has /\ ~stopped => ReadyKnown(w)
             /\ controls' = ControlsWithout(k[1], k[2])
             /\ IF has /\ Ready(w) THEN Post(Deregister(w)) ELSE UNCHANGED box
             /\ records' = Removed(k[1], k[2])
             /\ coord' = [coord EXCEPT !.claimed = @ \ {k}]
    /\ UNCHANGED <<plan, faults, admission, permits, task, epoch, epochs, job, caller, lease, pump,
                   table, stopped, registered, retired, replaced>>

\* The actor is told to stop last, so that it saves its routes with their interfaces.
StopActor ==
    /\ coord.pc = "abandoned" /\ coord.claimed = {}
    /\ IF stopped THEN UNCHANGED box ELSE Post(ShutdownMessage)
    /\ Coordinated("transport")
    /\ UNCHANGED <<plan, faults, admission, permits, records, controls, task, epoch, epochs, job,
                   caller, lease, pump, table, stopped, registered, retired, replaced>>

\* try_finish_drain: what is left is exactly what was leased.
FinishDrain ==
    /\ coord.pc = "transport" /\ stopped
    /\ {<<i, records[i].owner>> : i \in {k \in Ids : records[k] # NoRecord}} = coord.leases
    /\ \A k \in coord.leases : records[k[1]].state = "stopping"
    /\ permits = 0
    /\ admission' = "closed" /\ records' = [i \in Ids |-> NoRecord]
    /\ controls' = [i \in Ids |-> None]
    /\ Coordinated("done")
    /\ UNCHANGED <<plan, faults, permits, task, epoch, epochs, job, caller, lease, pump, box,
                   table, stopped, registered, retired, replaced>>

-----------------------------------------------------------------------------
(* The drivers and the actor *)

\* A driver gives up, which it tells the actor as soon as it is registered, and ends.
DriverEnds(w) ==
    /\ May("end") /\ faults' = faults + 1
    /\ task[w] = "running" /\ ReadyKnown(w)
    /\ task' = [task EXCEPT ![w] = "ended"]
    /\ IF Ready(w) THEN Post(Deregister(w)) ELSE UNCHANGED box
    /\ UNCHANGED <<plan, admission, permits, records, controls, epoch, epochs, job, caller, lease,
                   pump, coord, table, stopped, registered, retired, replaced>>

Newer(j, old) == IF old = None THEN TRUE ELSE epoch[old] < epoch[j]

\* RegisterInterface: an owner that is retired is refused, and one older than the one in the table;
\* a newer one takes its place.
ActorRegisters(m) ==
    LET w == <<m.owner, m.id>>
        old == table[m.id]
        taken == w \notin retired /\ Newer(m.owner, old)
    IN /\ retired' = IF taken /\ old # None THEN retired \cup {<<old, m.id>>}
                     ELSE IF ~taken /\ old # m.owner THEN retired \cup {w} ELSE retired
       /\ replaced' = (replaced \/ (taken /\ old # None))
       /\ table' = IF taken THEN [table EXCEPT ![m.id] = m.owner] ELSE table
       /\ registered' = IF taken THEN registered \cup {w} ELSE registered

\* An event counts only if it comes from the owner in the table (handle_message).
ActorDeregisters(m) ==
    LET w == <<m.owner, m.id>> IN
    /\ IF w \notin retired /\ table[m.id] = m.owner
       THEN table' = [table EXCEPT ![m.id] = None] /\ retired' = retired \cup {w}
       ELSE UNCHANGED <<table, retired>>
    /\ UNCHANGED <<registered, replaced>>

ActorHandles ==
    /\ ~stopped /\ box # <<>>
    /\ LET m == Head(box) IN
       \/ /\ m.kind = "register" /\ ActorRegisters(m)
          /\ box' = Tail(box) /\ UNCHANGED stopped
       \/ /\ m.kind = "deregister" /\ ActorDeregisters(m)
          /\ box' = Tail(box) /\ UNCHANGED stopped
       \/ /\ m.kind = "shutdown"
          /\ stopped' = TRUE /\ box' = <<>>
          /\ UNCHANGED <<table, registered, retired, replaced>>
    /\ UNCHANGED <<plan, faults, admission, permits, records, controls, task, epoch, epochs, job,
                   caller, lease, pump, coord>>

\* A registration that the actor refuses: its capacity is invalid, or a local client has gone already.
ActorRefuses ==
    /\ ~stopped /\ box # <<>> /\ Head(box).kind = "register"
    /\ May("refuse") /\ faults' = faults + 1
    /\ retired' = retired \cup {<<Head(box).owner, Head(box).id>>}
    /\ box' = Tail(box)
    /\ UNCHANGED <<plan, admission, permits, records, controls, task, epoch, epochs, job, caller,
                   lease, pump, coord, table, stopped, registered, replaced>>

\* The actor ends by itself, and what ends with it starts the drain.
ActorCrashes ==
    /\ ~stopped /\ May("crash") /\ faults' = faults + 1
    /\ stopped' = TRUE /\ box' = <<>>
    /\ coord' = IF coord.pc = "idle" THEN [coord EXCEPT !.pc = "drain"] ELSE coord
    /\ UNCHANGED <<plan, admission, permits, records, controls, task, epoch, epochs, job, caller,
                   lease, pump, table, registered, retired, replaced>>

-----------------------------------------------------------------------------
Init ==
    /\ plan \in Plans /\ faults = 0
    /\ admission = "open" /\ permits = 0
    /\ records = [i \in Ids |-> NoRecord] /\ controls = [i \in Ids |-> None]
    /\ task = [w \in Interfaces |-> "none"]
    /\ epoch = [j \in Jobs |-> 0] /\ epochs = 0
    /\ job = [j \in Jobs |-> [pc |-> "idle", at |-> 1, sent |-> {}, undone |-> 0, cleaned |-> 0,
                              ok |-> FALSE, fatal |-> FALSE]]
    /\ caller = [j \in Jobs |-> "waiting"]
    /\ lease = [p \in Holders |-> NoLease]
    /\ pump = "idle"
    /\ coord = [pc |-> "idle", leases |-> {}, waiters |-> {}, claimed |-> {}]
    /\ box = <<>> /\ table = [i \in Ids |-> None] /\ stopped = FALSE
    /\ registered = {} /\ retired = {} /\ replaced = FALSE

JobStep(j) ==
    \/ PumpTakes(j) \/ Prepare(j) \/ Publish(j) \/ Commit(j) \/ Rollback(j) \/ Unpublish(j)
    \/ ReleasePermit(j) \/ Reply(j) \/ Attach(j) \/ AttachFails(j) \/ CleanUp(j)

HolderStep(p) == WaitEnds(p) \/ StopTask(p) \/ TakeControl(p) \/ SendDeregister(p)

CoordStep ==
    \/ BeginDrain \/ JoinProducers \/ AwaitOwners \/ Reclaim \/ StopActor \/ FinishDrain

\* What the tasks of the runtime do: the workers, the teardowns, the pump, the coordinator, the actor.
TaskStep ==
    \/ \E j \in Jobs : JobStep(j)
    \/ \E p \in Holders : HolderStep(p)
    \/ PumpResumes \/ PumpCloses \/ CoordStep \/ ActorHandles

Next ==
    \/ \E j \in Jobs : Spawn(j) \/ Accept(j) \/ CallerGoes(j) \/ AttachTimesOut(j) \/ Desert(j)
    \/ \E t \in Tears : TearDown(t)
    \/ StartShutdown
    \/ \E w \in DOMAIN task : DriverEnds(w)
    \/ ActorRefuses \/ ActorCrashes
    \/ TaskStep

Spec == Init /\ [][Next]_vars

-----------------------------------------------------------------------------
(* Properties *)

Pcs == {"idle", "queued", "prepare", "publish", "commit", "rollback", "unpublish", "permit",
        "reply", "attach", "cleanup", "done"}
Steps == {"none", "wait", "stop", "control", "deregister", "returned"}
Tokens == Ids \X Holders

TypeOK ==
    /\ admission \in {"open", "draining", "closed"} /\ permits \in 0..Cardinality(Jobs)
    /\ records \in [Ids -> [owner : Holders \cup {None}, cancel : BOOLEAN, abandoned : BOOLEAN,
                            state : {"none", "pending", "active", "stopping", "abandoned"}]]
    /\ controls \in [Ids -> Jobs \cup {None}]
    /\ task \in [Interfaces -> {"none", "running", "stopped", "ended"}]
    /\ epoch \in [Jobs -> 0..Cardinality(Jobs)] /\ epochs \in 0..Cardinality(Jobs)
    /\ job \in [Jobs -> [pc : Pcs, at : Nat, sent : SUBSET Ids, undone : Nat, cleaned : Nat,
                         ok : BOOLEAN, fatal : BOOLEAN]]
    /\ caller \in [Jobs -> {"waiting", "gone", "ok", "err"}]
    /\ lease \in [Holders -> [step : Steps, id : Ids \cup {None}, owner : Holders \cup {None},
                              known : BOOLEAN]]
    /\ pump \in Jobs \cup {"idle", "draining", "closed"}
    /\ coord.pc \in {"idle", "drain", "pump", "waiters", "abandoned", "transport", "done"}
    /\ coord.leases \cup coord.waiters \cup coord.claimed \subseteq Tokens
    /\ table \in [Ids -> Jobs \cup {None}] /\ stopped \in BOOLEAN /\ replaced \in BOOLEAN
    /\ registered \cup retired \subseteq Interfaces

InBox(m) == \E k \in 1..Len(box) : box[k] = m

\* Somebody will stop the task: its worker or the pump, the registry, a lease or the drain.
Kept(w) ==
    \/ job[w[1]].pc \in {"queued", "prepare", "publish", "commit", "rollback"}
    \/ records[w[2]].owner = w[1] /\ records[w[2]].state = "active"
    \/ \E p \in Holders : lease[p].step = "stop" /\ <<lease[p].owner, lease[p].id>> = w
    \/ <<w[2], w[1]>> \in coord.leases /\ coord.pc = "pump"

\* A registration belongs to somebody at every moment.  A task that runs is kept by its worker, by
\* the record that was committed for it, or by whoever leased that record; the actor knows of no
\* interface that the runtime has forgotten without a deregistration on its way; and an id is used
\* again only when the actor is told that its last owner is gone, so that a registration never
\* replaces a live one.
InterfacesOwned ==
    /\ TypeOK
    /\ ~replaced
    /\ \A w \in DOMAIN task : task[w] = "running" => Kept(w)
    /\ admission = "open" /\ ~stopped => \A i \in Ids : table[i] # None =>
          records[i].owner = table[i] \/ InBox(Deregister(<<table[i], i>>))
    /\ ~stopped => \A i \in Ids : records[i].state = "active" =>
          LET w == <<records[i].owner, i>> IN
             table[i] = w[1] \/ InBox(Register(w)) \/ w \in retired

\* When shutdown_and_wait returns nothing of the runtime is left: every task that any spawn, pump or
\* teardown had to do with has been joined, the actor has saved its state and stopped, and nothing
\* was admitted behind the drain's back.
DrainedMeansGone ==
    coord.pc = "done" =>
        /\ stopped /\ permits = 0 /\ pump = "closed"
        /\ \A w \in DOMAIN task : task[w] # "running"
        /\ \A i \in Ids : records[i] = NoRecord /\ controls[i] = None

\* Nobody waits for somebody who waits for them.  No step can be taken twice, so a run of the tasks
\* ends; where it ends the drain, once begun, is complete, every caller of a registration has its
\* answer, and a teardown still waits only for an id that was kept as a tombstone.
NobodyStuck ==
    ~ENABLED TaskStep =>
        /\ coord.pc \in {"idle", "done"}
        /\ \A j \in Jobs : job[j].pc = "idle" \/ (job[j].pc = "done" /\ caller[j] # "waiting")
                             \/ (lease[j].step = "wait" /\ records[lease[j].id].state = "abandoned")
        /\ \A t \in Tears :
              \/ lease[t].step \in {"none", "returned"}
              \/ lease[t].step = "wait" /\ records[lease[t].id].state = "abandoned"

\* Every interface is owned until it is gone, and the drain leaves nothing.
InterfacesSound == InterfacesOwned /\ DrainedMeansGone /\ NobodyStuck

\* An id is kept out of use after its interface is gone only if the actor closed before it could be
\* told ("transport closed before interface deregistration; retaining ID tombstone").
TombstonesMeanClosed ==
    \A i \in Ids : records[i].state = "abandoned" => stopped

=============================================================================
