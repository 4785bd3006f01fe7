---------------------------- MODULE LinkOwnership ----------------------------
(***************************************************************************)
(* How a LinkManager owns the transport endpoint of a responder Link, from *)
(* the link request to the release: the endpoint part of                   *)
(* crates/rns-runtime/src/link_manager.rs, against the transport actor's   *)
(* side of the same messages.                                              *)
(*                                                                         *)
(* The model is about one link id.  A request seen again after the Link    *)
(* with that id is gone makes a new Link, a new generation; the messages   *)
(* to the transport and its lifecycle events name the link id, the role    *)
(* and at most the interface registration, never the generation.  Field    *)
(* `of` of a message, an event or a send records the generation it was     *)
(* made for; the code does not see it, except in cleanups.                 *)
(*                                                                         *)
(* The manager polls for answers in passes (poll_link_endpoints).  The     *)
(* actor runs in a task of its own, so each part of a pass is a step here. *)
(***************************************************************************)
EXTENDS Integers, Sequences, FiniteSets

CONSTANT Instances      \* the bounds considered

\* An instance bounds the Links made with this link id, the registrations of
\* the interface, the unanswered sends and the unanswered unbinds, and says
\* whether the peer may fall silent for good.
OwnershipAssumption ==
    \A x \in Instances :
        /\ {x.generations, x.owners, x.sends, x.cleanups} \subseteq Nat \ {0}
        /\ x.stale \in BOOLEAN

VARIABLES
    instance,
    lm,                 \* the manager's records of this link id
    phase,              \* the next part of the manager's pass
    mode,               \* "running", then "draining", then "done"
    generations,        \* Links made so far
    owner_of,           \* generation |-> registration its binding names
    mailbox,            \* the transport's message queue
    bind_result,        \* the answer to the pending Bind
    acknowledged,       \* generations whose barrier was answered
    lifecycle,          \* lifecycle events not yet received
    endpoint,           \* generation that is bound, 0 if none
    unbind_after_drain, \* its final packet waits for the interface
    registered,         \* generation whose RegisterLink stands, 0 if none
    interface           \* the registration of the interface, and if it is up

MaxGenerations == instance.generations
MaxOwners == instance.owners
MaxSends == instance.sends
MaxCleanups == instance.cleanups
StaleTimeouts == instance.stale
Generations == 1 .. MaxGenerations

transportVars == <<endpoint, unbind_after_drain, registered, interface>>
system == <<lm, phase, mode, generations, owner_of, mailbox, bind_result,
            acknowledged, lifecycle, transportVars>>
vars == <<instance, system>>

\* EndpointCleanupKind: "accepted" is Atomic { accepted: true }.
Tombstone == [of : Generations, kind : {"explicit", "atomic", "accepted"},
              lifecycle_seen : BOOLEAN, lifecycle_required : BOOLEAN,
              barrier_acknowledged : BOOLEAN, finalizing : BOOLEAN]
NoTombstone == [of |-> 0]

Message == [type : {"register", "proof", "deregister", "barrier"}, of : Generations]
      \cup [type : {"send", "final", "unbind"}, of : Generations, id : Nat]
Send == [of : Generations, final : BOOLEAN, result : {"none", "ok", "failed"}]
Cleanup == [of : Generations, deregister : BOOLEAN,
            result : {"none", "Unbound", "NotBound"}]
Partial(N, R) == UNION {[S -> R] : S \in SUBSET (1 .. N)}

Init ==
    /\ instance \in Instances
    /\ lm = [link |-> 0, bind |-> 0, owned |-> 0, tombstone |-> NoTombstone,
             sends |-> <<>>, cleanups |-> <<>>, control |-> <<>>]
    /\ phase = "idle" /\ mode = "running"
    /\ generations = 0
    /\ owner_of = [g \in Generations |-> 1]
    /\ mailbox = <<>> /\ bind_result = "none"
    /\ acknowledged = {} /\ lifecycle = <<>>
    /\ endpoint = 0 /\ unbind_after_drain = FALSE /\ registered = 0
    /\ interface = [owner |-> 1, up |-> TRUE]

-----------------------------------------------------------------------------
(* What handlers do to the manager's records m.  They push onto m.control; *)
(* Stage decides how much of it the transport's queue takes at once.       *)

NewKey(f) == CHOOSE n \in 1 .. Cardinality(DOMAIN f) + 1 : n \notin DOMAIN f
With(f, k, v) == [x \in DOMAIN f \cup {k} |-> IF x = k THEN v ELSE f[x]]
Without(f, S) == [x \in DOMAIN f \ S |-> f[x]]

Pushed(m, messages) == [m EXCEPT !.control = @ \o messages]

\* stage_required_link_control: straight to the transport when nothing waits
\* before it and there is room.
Stage(m) ==
    \E n \in 0 .. (IF lm.control = <<>> THEN Len(m.control) ELSE 0) :
        /\ lm' = [m EXCEPT !.control = SubSeq(@, n + 1, Len(@))]
        /\ mailbox' = mailbox \o SubSeq(m.control, 1, n)

\* install_endpoint_tombstone and stage_endpoint_cleanup.
WithTombstone(m, g) ==
    IF m.tombstone # NoTombstone THEN m
    ELSE [m EXCEPT !.tombstone =
            [of |-> g, kind |-> "explicit", lifecycle_seen |-> FALSE,
             lifecycle_required |-> FALSE, barrier_acknowledged |-> FALSE,
             finalizing |-> FALSE]]

CleanedUp(m, g, deregister) ==
    LET id == NewKey(m.cleanups)
    IN  Pushed([m EXCEPT !.cleanups =
                  With(@, id, [of |-> g, deregister |-> deregister, result |-> "none"])],
               <<[type |-> "unbind", of |-> g, id |-> id]>>)

\* begin_endpoint_finalization: the release of the destination, if it is the
\* manager's to make, and a query whose answer shows that the actor is past it.
FinalizedUnordered(m, g, deregister, required) ==
    IF m.tombstone.of # g \/ m.tombstone.finalizing THEN m
    ELSE Pushed([m EXCEPT !.tombstone.barrier_acknowledged = TRUE,
                          !.tombstone.lifecycle_required = @ \/ required],
                IF deregister THEN <<[type |-> "deregister", of |-> g]>> ELSE <<>>)
Finalized(m, g, deregister, required) ==
    IF m.tombstone.of # g \/ m.tombstone.finalizing THEN m
    ELSE Pushed([m EXCEPT !.tombstone.finalizing = TRUE,
                          !.tombstone.lifecycle_required = @ \/ required],
                (IF deregister THEN <<[type |-> "deregister", of |-> g]>> ELSE <<>>)
                \o <<[type |-> "barrier", of |-> g]>>)

\* close_active_link_inner without a teardown packet; `closing`: a final send
\* that unbinds is already on its way.
Closed(m, closing) ==
    LET g == m.owned
        gone == [m EXCEPT !.link = 0, !.owned = 0]
    IN  CASE m.link = 0 -> m
          [] m.link # 0 /\ g = 0 -> gone
          [] m.link # 0 /\ g # 0 ->
               IF closing THEN WithTombstone(gone, g)
               ELSE CleanedUp(WithTombstone(gone, g), g, TRUE)

\* A final send of the owned endpoint, on its way or (at the limit of
\* stage_link_control) dropped, which its result channel shows at once.
FinalSent(m, staged) ==
    LET id == NewKey(m.sends)
        s == [of |-> m.owned, final |-> TRUE,
              result |-> IF staged THEN "none" ELSE "failed"]
        noted == [m EXCEPT !.sends = With(@, id, s)]
    IN  IF staged THEN Pushed(noted, <<[type |-> "final", of |-> m.owned, id |-> id]>>)
        ELSE noted

-----------------------------------------------------------------------------
(* The manager between passes.                                             *)

unchangedByManager == <<transportVars, bind_result, acknowledged>>
Idle == mode = "running" /\ phase = "idle"

\* handle_link_request: only when nothing is left of an earlier Link with the
\* same id.  (A request whose Bind cannot be queued leaves nothing behind.)
Free == lm.link = 0 /\ lm.bind = 0 /\ lm.owned = 0 /\ lm.tombstone = NoTombstone

HandleLinkRequest ==
    /\ Idle /\ Free
    /\ generations < MaxGenerations
    /\ generations' = generations + 1
    /\ owner_of' = [owner_of EXCEPT ![generations'] = interface.owner]
    /\ lm' = [lm EXCEPT !.link = generations', !.bind = generations']
    /\ UNCHANGED <<unchangedByManager, phase, mode, mailbox, lifecycle>>

\* The application, the peer or an error closes the Link.
Close ==
    /\ Idle /\ lm.link # 0
    /\ Stage(Closed(lm, FALSE))
    /\ UNCHANGED <<unchangedByManager, phase, mode, generations, owner_of, lifecycle>>

\* ... with a teardown packet, the endpoint's last.
KindUnchanged == "explicit"
TeardownKind == "atomic"
CloseWithTeardown ==
    /\ Idle /\ lm.owned # 0
    /\ Cardinality(DOMAIN lm.sends) < MaxSends
    /\ LET sent == FinalSent(lm, TRUE)
           gone == Closed(sent, TRUE)
       IN  \/ Stage([gone EXCEPT !.tombstone.kind = TeardownKind])
           \/ /\ lm.control # <<>>
              /\ Stage(Closed(FinalSent(lm, FALSE), FALSE))
    /\ UNCHANGED <<unchangedByManager, phase, mode, generations, owner_of, lifecycle>>

\* on_tick: a stale Link's last packet is staged before the Link is closed.
StaleTimeout ==
    /\ Idle /\ lm.owned # 0 /\ StaleTimeouts
    /\ Cardinality(DOMAIN lm.sends) < MaxSends
    /\ \/ Stage(Closed(FinalSent(lm, TRUE), TRUE))
       \/ lm.control # <<>> /\ Stage(Closed(FinalSent(lm, FALSE), FALSE))
    /\ UNCHANGED <<unchangedByManager, phase, mode, generations, owner_of, lifecycle>>

\* A packet: behind the waiting control messages, or past them (keepalives and
\* channel retries are offered to the transport directly, and lost if it has
\* no room).
SendPacket ==
    /\ Idle /\ lm.owned # 0
    /\ Cardinality(DOMAIN lm.sends) < MaxSends
    /\ LET id == NewKey(lm.sends)
           Noted(result) == [lm EXCEPT !.sends =
               With(@, id, [of |-> lm.owned, final |-> FALSE, result |-> result])]
           message == <<[type |-> "send", of |-> lm.owned, id |-> id]>>
       IN  \/ Stage(Pushed(Noted("none"), message))
           \/ lm' = Noted("none") /\ mailbox' = mailbox \o message
           \/ lm' = Noted("failed") /\ UNCHANGED mailbox
    /\ UNCHANGED <<unchangedByManager, phase, mode, generations, owner_of, lifecycle>>

\* handle_endpoint_terminal.  Bindings are compared, not generations.
Matches(event, g) == g # 0 /\ event.owner = owner_of[g]
TerminalHandled(m, event) ==
    LET seen == IF Matches(event, m.tombstone.of)
                THEN [m EXCEPT !.tombstone.lifecycle_seen = TRUE] ELSE m
    IN  CASE Matches(event, m.tombstone.of) /\ m.tombstone.kind = "accepted" ->
               Finalized(seen, m.tombstone.of, FALSE, TRUE)
          [] \E g \in {m.bind, m.owned} : g = m.link /\ Matches(event, g) ->
               Closed(seen, FALSE)
          [] OTHER -> seen

\* The run loop receives one event while it waits.
EndpointTerminal ==
    /\ Idle /\ lifecycle # <<>>
    /\ Stage(TerminalHandled(lm, Head(lifecycle)))
    /\ lifecycle' = Tail(lifecycle)
    /\ UNCHANGED <<unchangedByManager, phase, mode, generations, owner_of>>

\* The loops end: close_all_active_links, then only passes, until nothing is
\* left (drain_shutdown_link_ownership).
Shutdown ==
    /\ Idle
    /\ Stage(Closed(lm, FALSE))
    /\ mode' = "draining"
    /\ UNCHANGED <<unchangedByManager, phase, generations, owner_of, lifecycle>>

NothingOwned ==
    /\ lm.bind = 0 /\ lm.tombstone = NoTombstone
    /\ lm.sends = <<>> /\ lm.cleanups = <<>> /\ lm.control = <<>>

ShutdownDrained ==
    /\ mode = "draining" /\ phase = "idle" /\ NothingOwned
    /\ mode' = "done"
    /\ UNCHANGED <<unchangedByManager, lm, phase, generations, owner_of, mailbox,
                   lifecycle>>

-----------------------------------------------------------------------------
(* A pass: poll_link_endpoints, and the flush that follows it everywhere.  *)

unchangedByPass == <<transportVars, mode, generations, owner_of>>

PollBinds ==
    /\ phase = "idle" /\ phase' = "sends"
    /\ mode = "running" \/ (mode = "draining" /\ ~ NothingOwned)
    /\ LET g == lm.bind
           m == IF bind_result = "none" THEN lm ELSE [lm EXCEPT !.bind = 0]
       IN  Stage(CASE bind_result = "none" -> m
                   [] bind_result = "Bound" /\ m.link = g ->
                        Pushed([m EXCEPT !.owned = g],
                               <<[type |-> "register", of |-> g], [type |-> "proof", of |-> g]>>)
                   [] bind_result = "Bound" /\ m.link # g ->
                        CleanedUp(WithTombstone(m, g), g, FALSE)
                   [] bind_result = "refused" -> Closed(m, FALSE))
    /\ bind_result' = "none"
    /\ UNCHANGED <<unchangedByPass, acknowledged, lifecycle>>

\* accept_atomic_endpoint_cleanup.
Accepted(m) ==
    IF m.tombstone = NoTombstone \/ m.tombstone.kind # "atomic" THEN m
    ELSE LET a == [m EXCEPT !.tombstone.kind = "accepted"]
         IN  IF a.tombstone.lifecycle_seen THEN Finalized(a, a.tombstone.of, FALSE, TRUE)
             ELSE a

\* A final send that failed leaves the release to an explicit cleanup; any
\* other failed send closes the Link.
FinalFailed(m) ==
    IF m.tombstone = NoTombstone THEN m
    ELSE CleanedUp([m EXCEPT !.tombstone.kind = "explicit"], m.tombstone.of, TRUE)

AnsweredSends(final, result) ==
    {k \in DOMAIN lm.sends : lm.sends[k].final = final /\ lm.sends[k].result = result}

PollSends ==
    /\ phase = "sends" /\ phase' = "cleanups"
    /\ LET answered == {k \in DOMAIN lm.sends : lm.sends[k].result # "none"}
           m0 == [lm EXCEPT !.sends = Without(@, answered)]
           m1 == IF AnsweredSends(TRUE, "ok") # {} THEN Accepted(m0) ELSE m0
           m2 == IF AnsweredSends(TRUE, "failed") # {} THEN FinalFailed(m1) ELSE m1
       IN  Stage(IF AnsweredSends(FALSE, "failed") # {} THEN Closed(m2, FALSE) ELSE m2)
    /\ UNCHANGED <<unchangedByPass, bind_result, acknowledged, lifecycle>>

\* Of the answers for the tombstone's generation the first one counts.  (The
\* list is not kept in order.)
PollCleanups ==
    /\ phase = "cleanups" /\ phase' = "barriers"
    /\ LET answered == {k \in DOMAIN lm.cleanups : lm.cleanups[k].result # "none"}
           mine == {k \in answered : lm.cleanups[k].of = lm.tombstone.of}
           m == [lm EXCEPT !.cleanups = Without(@, answered)]
       IN  \/ mine = {} /\ Stage(m)
           \/ \E k \in mine :
                Stage(Finalized(m, m.tombstone.of, lm.cleanups[k].deregister,
                                lm.cleanups[k].result = "Unbound"))
    /\ UNCHANGED <<unchangedByPass, bind_result, acknowledged, lifecycle>>

\* poll_endpoint_finalizations.
PollBarriers ==
    /\ phase = "barriers" /\ phase' = "lifecycle"
    /\ IF lm.tombstone.of \in acknowledged
       THEN /\ lm' = [lm EXCEPT !.tombstone.barrier_acknowledged = TRUE,
                                !.tombstone.finalizing = FALSE]
            /\ acknowledged' = acknowledged \ {lm.tombstone.of}
       ELSE UNCHANGED <<lm, acknowledged>>
    /\ UNCHANGED <<unchangedByPass, bind_result, mailbox, lifecycle>>

\* drain_endpoint_lifecycle, one event after the other until none is left.
DrainOne ==
    /\ phase = "lifecycle" /\ lifecycle # <<>>
    /\ Stage(TerminalHandled(lm, Head(lifecycle)))
    /\ lifecycle' = Tail(lifecycle)
    /\ UNCHANGED <<unchangedByPass, phase, bind_result, acknowledged>>

Drained ==
    /\ phase = "lifecycle" /\ lifecycle = <<>> /\ phase' = "retire"
    /\ UNCHANGED <<unchangedByPass, lm, bind_result, mailbox, acknowledged, lifecycle>>

\* retire_endpoint_tombstones.
MayRetire(t) ==
    /\ t # NoTombstone /\ t.barrier_acknowledged
    /\ t.lifecycle_required => t.lifecycle_seen

RetireTombstones ==
    /\ phase = "retire" /\ phase' = "flush"
    /\ lm' = IF MayRetire(lm.tombstone) THEN [lm EXCEPT !.tombstone = NoTombstone] ELSE lm
    /\ UNCHANGED <<unchangedByPass, bind_result, mailbox, acknowledged, lifecycle>>

\* flush_pending_link_control.
Flush ==
    /\ phase = "flush" /\ phase' = "idle"
    /\ \E n \in 0 .. Len(lm.control) :
         /\ lm' = [lm EXCEPT !.control = SubSeq(@, n + 1, Len(@))]
         /\ mailbox' = mailbox \o SubSeq(lm.control, 1, n)
    /\ UNCHANGED <<unchangedByPass, bind_result, acknowledged, lifecycle>>

-----------------------------------------------------------------------------
(* The transport actor.                                                    *)

unchangedByActor == <<phase, mode, generations, owner_of>>

\* terminate_link_endpoint and finish_link_endpoint_terminal.
EndpointEnds(release) ==
    /\ endpoint' = 0 /\ unbind_after_drain' = FALSE
    /\ lifecycle' = IF endpoint = 0 THEN lifecycle
                    ELSE Append(lifecycle, [of |-> endpoint, owner |-> owner_of[endpoint]])
    /\ registered' = IF release \/ unbind_after_drain THEN 0 ELSE registered
EndpointStays == UNCHANGED <<endpoint, unbind_after_drain, lifecycle, registered>>

\* Bind arrives on a lane of its own (or ahead of the control messages).
BindLinkEndpoint ==
    /\ lm.bind # 0 /\ bind_result = "none"
    /\ IF endpoint = 0 /\ interface = [owner |-> owner_of[lm.bind], up |-> TRUE]
       THEN endpoint' = lm.bind /\ bind_result' = "Bound"
       ELSE bind_result' = "refused" /\ UNCHANGED endpoint
    /\ UNCHANGED <<unchangedByActor, lm, mailbox, acknowledged, lifecycle,
                   unbind_after_drain, registered, interface>>

Receive(type) ==
    /\ mailbox # <<>> /\ Head(mailbox).type = type
    /\ mailbox' = Tail(mailbox)

\* RegisterLink makes the link id a destination of this node, if the interface
\* is still the one of the request; the proof goes out on it.
RegisterLink ==
    /\ Receive("register")
    /\ registered' =
         IF interface = [owner |-> owner_of[Head(mailbox).of], up |-> TRUE]
         THEN Head(mailbox).of ELSE registered
    /\ UNCHANGED <<unchangedByActor, lm, bind_result, acknowledged, lifecycle,
                   endpoint, unbind_after_drain, interface>>

OutboundProof ==
    /\ Receive("proof")
    /\ UNCHANGED <<unchangedByActor, transportVars, lm, bind_result, acknowledged,
                   lifecycle>>

SendAnswered(result) ==
    lm' = [lm EXCEPT !.sends[Head(mailbox).id].result = result]

\* send_link_endpoint: taken or queued, refused as invalid, or the end of the
\* endpoint (its queue is full, or its interface cannot send).
SendLinkEndpoint ==
    /\ Receive("send")
    /\ \/ /\ endpoint # 0 /\ ~ unbind_after_drain
          /\ SendAnswered("ok") /\ EndpointStays
       \/ SendAnswered("failed") /\ EndpointStays
       \/ /\ endpoint # 0 /\ ~ unbind_after_drain
          /\ SendAnswered("failed") /\ EndpointEnds(FALSE)
    /\ UNCHANGED <<unchangedByActor, bind_result, acknowledged, interface>>

\* send_link_endpoint_and_unbind: taken, the endpoint and its destination go
\* at once; queued, they go with the last packet.
SendLinkEndpointAndUnbind ==
    /\ Receive("final")
    /\ \/ /\ endpoint # 0 /\ ~ unbind_after_drain
          /\ SendAnswered("ok")
          /\ \/ EndpointEnds(TRUE)
             \/ unbind_after_drain' = TRUE /\ UNCHANGED <<endpoint, lifecycle, registered>>
       \/ SendAnswered("failed") /\ EndpointStays
       \/ /\ endpoint # 0 /\ ~ unbind_after_drain
          /\ SendAnswered("failed") /\ EndpointEnds(FALSE)
    /\ UNCHANGED <<unchangedByActor, bind_result, acknowledged, interface>>

\* drain_one_link_endpoint: the interface took the last packet.
FinalPacketDrained ==
    /\ unbind_after_drain
    /\ EndpointEnds(TRUE)
    /\ UNCHANGED <<unchangedByActor, lm, mailbox, bind_result, acknowledged, interface>>

UnbindLinkEndpoint ==
    /\ Receive("unbind")
    /\ lm' = [lm EXCEPT !.cleanups[Head(mailbox).id].result =
                IF endpoint # 0 THEN "Unbound" ELSE "NotBound"]
    /\ EndpointEnds(FALSE)
    /\ UNCHANGED <<unchangedByActor, bind_result, acknowledged, interface>>

DeregisterDestination ==
    /\ Receive("deregister")
    /\ registered' = 0
    /\ UNCHANGED <<unchangedByActor, lm, bind_result, acknowledged, lifecycle,
                   endpoint, unbind_after_drain, interface>>

\* The HasPath query that serves as barrier; the tombstone may be gone.
AnswerBarrier ==
    /\ Receive("barrier")
    /\ acknowledged' = IF lm.tombstone.of = Head(mailbox).of
                       THEN acknowledged \cup {Head(mailbox).of} ELSE acknowledged
    /\ UNCHANGED <<unchangedByActor, transportVars, lm, bind_result, lifecycle>>

\* The interface is removed, with the endpoints bound to it; another
\* registration of it may follow.
InterfaceRemoved ==
    /\ interface.up
    /\ interface' = [interface EXCEPT !.up = FALSE]
    /\ IF endpoint # 0 /\ owner_of[endpoint] = interface.owner
       THEN EndpointEnds(FALSE) ELSE EndpointStays
    /\ UNCHANGED <<unchangedByActor, lm, mailbox, bind_result, acknowledged>>

InterfaceRegistered ==
    /\ ~ interface.up /\ interface.owner < MaxOwners
    /\ interface' = [owner |-> interface.owner + 1, up |-> TRUE]
    /\ UNCHANGED <<unchangedByActor, lm, mailbox, bind_result, acknowledged, lifecycle,
                   endpoint, unbind_after_drain, registered>>

-----------------------------------------------------------------------------
Pass == \/ PollBinds \/ PollSends \/ PollCleanups \/ PollBarriers
        \/ DrainOne \/ Drained \/ RetireTombstones \/ Flush
Actor == \/ BindLinkEndpoint \/ RegisterLink \/ OutboundProof \/ SendLinkEndpoint
         \/ SendLinkEndpointAndUnbind \/ UnbindLinkEndpoint
         \/ DeregisterDestination \/ AnswerBarrier

Same == UNCHANGED instance

Next ==
    \/ HandleLinkRequest /\ Same
    \/ Close /\ Same
    \/ CloseWithTeardown /\ Same
    \/ StaleTimeout /\ Same
    \/ SendPacket /\ Same
    \/ EndpointTerminal /\ Same
    \/ Shutdown /\ Same
    \/ ShutdownDrained /\ Same
    \/ Pass /\ Same
    \/ Actor /\ Same
    \/ FinalPacketDrained /\ Same
    \/ InterfaceRemoved /\ Same
    \/ InterfaceRegistered /\ Same

Spec == Init /\ [][Next]_vars

\* The manager's loop makes a pass at least once a tick; the actor takes the
\* next message; its queue, shared with others, has room again and again; an
\* interface takes the packets waiting for it or is removed.
FlushSome == lm.control # <<>> /\ Flush /\ lm'.control # lm.control
Fairness ==
    /\ WF_system(Pass) /\ WF_system(ShutdownDrained) /\ SF_system(FlushSome)
    /\ WF_system(Actor) /\ WF_system(FinalPacketDrained)
FairSpec == Spec /\ Fairness

-----------------------------------------------------------------------------
(* Properties.                                                             *)

TypeOK ==
    /\ {lm.link, lm.bind, lm.owned, endpoint, registered} \subseteq 0 .. MaxGenerations
    /\ lm.tombstone = NoTombstone \/ lm.tombstone \in Tombstone
    /\ lm.sends \in Partial(MaxSends, Send)
    /\ lm.cleanups \in Partial(MaxCleanups, Cleanup)
    /\ \A q \in {lm.control, mailbox} : \A i \in DOMAIN q : q[i] \in Message
    /\ phase \in {"idle", "sends", "cleanups", "barriers", "lifecycle", "retire", "flush"}
    /\ mode \in {"running", "draining", "done"}
    /\ bind_result \in {"none", "Bound", "refused"}
    /\ acknowledged \subseteq Generations
    /\ unbind_after_drain \in BOOLEAN

OfAll(q) == {q[i].of : i \in DOMAIN q}
InFlight == (OfAll(lm.control) \cup OfAll(mailbox) \cup OfAll(lifecycle)
               \cup {endpoint, registered}) \ {0}
OnRecord == {lm.link, lm.bind, lm.owned, lm.tombstone.of} \ {0}

\* Whatever is bound, registered or on its way between manager and transport
\* belongs to the one generation the manager has on record.  So nothing is
\* leaked when the record is gone, and the unbind, the release or the
\* lifecycle event of an old Link cannot hit a new one with the same id,
\* though none of them names the generation.
OneOwner == InFlight \subseteq OnRecord /\ Cardinality(OnRecord) <= 1

\* A Link does not outlive its endpoint: when the endpoint of an owned binding
\* is gone, the event that closes the Link is on its way, also when the
\* endpoint ended before the manager had read the answer to Bind.
LinkFollowsEndpoint ==
    (lm.owned # 0 /\ endpoint # lm.owned) => lm.owned \in OfAll(lifecycle)

\* Once a Link is closed, whatever happens to its endpoint, its interface and
\* its last packet, the link id becomes free again.  Stated for the settings in
\* which no Link is closed by a stale timeout.
IdReleased == Free \/ lm.link # 0 \/ StaleTimeouts
ClosedLinkReleased == []<>IdReleased

\* Shutdown drains: the manager's run ends while the transport keeps running.
ShutdownCompletes == []<>(mode # "draining")

\* The manager's records are well typed and own all there is of the link id.
OwnershipExact == TypeOK /\ OneOwner /\ LinkFollowsEndpoint
=============================================================================
