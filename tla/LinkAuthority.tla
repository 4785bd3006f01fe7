--------------------------- MODULE LinkAuthority ---------------------------
(***************************************************************************)
(* What the LinkManager asks its application, and how it hears back: a     *)
(* request whose answer a worker computes                                  *)
(* (crates/rns-runtime/src/deferred_request.rs), and an ordinary packet    *)
(* that is proved only if the application accepts it                       *)
(* (crates/rns-runtime/src/inbound_link_packet.rs).  Both hand out a       *)
(* one-shot authority, a ticket here, that holds a lease on a bounded      *)
(* budget, belongs to one generation of the Link, and expires.             *)
(*                                                                         *)
(* Workers run on other threads than the manager.  Their steps, and those  *)
(* of the transport actor that sends the proofs, interleave with the       *)
(* manager's; a pass of the manager over its tickets is a step for each.   *)
(***************************************************************************)
EXTENDS Integers, FiniteSets, FiniteSetsExt

CONSTANT Instances      \* the tickets considered

\* An instance: the kind of each ticket and the bytes it reserves, the slots
\* and the bytes there are for each kind and for the packets of each Link, and
\* how many Links there are in turn (a bound).
AuthorityAssumption ==
    \A x \in Instances :
        /\ x.kind \in [DOMAIN x.kind -> {"request", "packet"}]
        /\ x.bytes \in [DOMAIN x.kind -> Nat]
        /\ {x.slots, x.budget, x.link_slots, x.link_budget, x.links} \subseteq Nat

VARIABLE instance       \* chosen at the start, the same ever after

Tickets == DOMAIN instance.kind
Deferred == {t \in Tickets : instance.kind[t] = "request"}
Packets == Tickets \ Deferred

VARIABLES
    link, links,    \* the generation of the Link, or 0; the last one used
    rejecting,      \* rejecting_packet_links
    stage,          \* where the manager has each ticket
    of,             \* the generation each belongs to
    expired,        \* its deadline has passed
    worker,         \* what the application does with it
    decision,       \* what it decided
    channel,        \* the one-shot channel from the worker to the manager
    terminal,       \* what the manager recorded as the end
    reply,          \* what the worker was told
    dispatch,       \* the proof or rejection handed to the transport actor
    leases,         \* who still holds a lease of it
    counts, share,  \* the slots and the bytes in use, by kind and by Link
    pass, closes,   \* the tickets this pass has still to look at; whether it
                    \* will close the Link
    sent            \* what was sent: the ticket, the Link of the time, and
                    \* whether the deadline had passed

manager == <<link, links, rejecting, stage, of, terminal, pass, closes>>
workers == <<worker, decision, channel, reply>>
credit == <<leases, counts, share>>
system == <<manager, workers, credit, expired, dispatch, sent>>
vars == <<instance, system>>

Outcomes == {"Sent", "Expired", "Closed", "Dropped", "Unavailable"}

TypeOK ==
    /\ {link, links} \subseteq 0 .. instance.links
    /\ {rejecting, closes} \subseteq BOOLEAN
    /\ stage \in [Tickets -> {"new", "pending", "dispatching", "finished", "gone"}]
    /\ of \in [Tickets -> 0 .. instance.links]
    /\ expired \in [Tickets -> BOOLEAN]
    /\ worker \in [Tickets -> {"none", "holding", "checked", "done"}]
    /\ decision \in [Tickets -> {"none", "Reply", "Resource", "Accept",
                                 "Reject", "Close", "Drop"}]
    /\ channel \in [Tickets -> {"empty", "resolved", "hungup", "closed"}]
    /\ terminal \in [Tickets -> {"none"} \cup Outcomes]
    /\ reply \in [Tickets -> {"none", "owed", "refused", "lost"} \cup Outcomes]
    /\ dispatch \in [Tickets -> {"none", "queued", "Cancelled"} \cup Outcomes]
    /\ leases \in [Tickets -> SUBSET {"manager", "worker", "payload", "Resource"}]
    /\ counts \in [{"request", "packet"} -> [slots : Nat, bytes : Nat]]
    /\ share \in [1 .. instance.links -> [slots : Nat, bytes : Nat]]
    /\ pass \subseteq Tickets
    /\ sent \subseteq [ticket : Tickets, link : Nat, late : BOOLEAN]

Init ==
    /\ instance \in Instances
    /\ link = 1 /\ links = 1
    /\ rejecting = FALSE /\ closes = FALSE
    /\ stage = [t \in Tickets |-> "new"]
    /\ of = [t \in Tickets |-> 0]
    /\ expired = [t \in Tickets |-> FALSE]
    /\ worker = [t \in Tickets |-> "none"]
    /\ decision = [t \in Tickets |-> "none"]
    /\ channel = [t \in Tickets |-> "empty"]
    /\ terminal = [t \in Tickets |-> "none"]
    /\ reply = [t \in Tickets |-> "none"]
    /\ dispatch = [t \in Tickets |-> "none"]
    /\ leases = [t \in Tickets |-> {}]
    /\ counts = [k \in {"request", "packet"} |-> [slots |-> 0, bytes |-> 0]]
    /\ share = [n \in 1 .. instance.links |-> [slots |-> 0, bytes |-> 0]]
    /\ pass = {}
    /\ sent = {}

----------------------------------------------------------------------------
(* The budget.                                                             *)

Fits(used, slots, budget, bytes) ==
    used.slots < slots /\ bytes <= budget - used.bytes

Charge(used, ts) ==
    [slots |-> used.slots + Cardinality(ts),
     bytes |-> used.bytes + MapThenSumSet(LAMBDA t : instance.bytes[t], ts)]

Refund(used, ts) ==
    [slots |-> used.slots - Cardinality(ts),
     bytes |-> used.bytes - MapThenSumSet(LAMBDA t : instance.bytes[t], ts)]

\* reserve_with_deadline; reserve of inbound_link_packet.rs, which also keeps
\* each Link to a share.
Reservable(t) ==
    LET bytes == instance.bytes[t]
    IN  /\ Fits(counts[instance.kind[t]], instance.slots, instance.budget, bytes)
        /\ t \in Packets =>
               Fits(share[link], instance.link_slots, instance.link_budget, bytes)

Reserve(t, holders) ==
    /\ leases' = [leases EXCEPT ![t] = holders]
    /\ counts' = [counts EXCEPT ![instance.kind[t]] = Charge(@, {t})]
    /\ share' = IF t \in Packets THEN [share EXCEPT ![link] = Charge(@, {t})]
                ELSE share

\* The budget given back as soon as the manager is done with the ticket.
DropLeasesEarly(held) ==
    LET freed == {t \in Tickets : "manager" \in leases[t] \ held[t]}
    IN  /\ leases' = held
        /\ counts' = [k \in DOMAIN counts |->
               Refund(counts[k], {t \in freed : instance.kind[t] = k})]
        /\ share' = [n \in DOMAIN share |->
               Refund(share[n], {t \in freed \cap Packets : of[t] = n})]

\* Drop for RequestLease and PacketLease, when the last holder lets go: held
\* is who holds what afterwards.
DropLeases(held) ==
    LET freed == {t \in Tickets : leases[t] # {} /\ held[t] = {}}
    IN  /\ leases' = held
        /\ counts' = [k \in DOMAIN counts |->
               Refund(counts[k], {t \in freed : instance.kind[t] = k})]
        /\ share' = [n \in DOMAIN share |->
               Refund(share[n], {t \in freed \cap Packets : of[t] = n})]

LetGo(t, holder) == DropLeases([leases EXCEPT ![t] = @ \ {holder}])

----------------------------------------------------------------------------
(* The workers.                                                            *)

\* respond looks whether the request is still alive before anything else ...
WorkerChecks(t) ==
    /\ t \in Deferred /\ worker[t] = "holding"
    /\ IF terminal[t] # "none" \/ expired[t]
       THEN /\ worker' = [worker EXCEPT ![t] = "done"]
            /\ reply' = [reply EXCEPT ![t] = "refused"]
            /\ channel' = [channel EXCEPT ![t] = IF @ = "empty" THEN "hungup" ELSE @]
            /\ LetGo(t, "worker")
       ELSE /\ worker' = [worker EXCEPT ![t] = "checked"]
            /\ UNCHANGED <<reply, channel, credit>>
    /\ UNCHANGED <<manager, decision, expired, dispatch, sent>>

\* ... and sends the result, if the manager has not closed the channel.
WorkerResponds(t, d) ==
    /\ worker[t] = "checked" /\ d \in {"Reply", "Resource", "Drop"}
    /\ worker' = [worker EXCEPT ![t] = "done"]
    /\ IF channel[t] = "closed"
       THEN /\ reply' = [reply EXCEPT ![t] = "refused"]
            /\ UNCHANGED <<decision, channel>>
       ELSE /\ reply' = [reply EXCEPT ![t] = "owed"]
            /\ decision' = [decision EXCEPT ![t] = d]
            /\ channel' = [channel EXCEPT ![t] = "resolved"]
    /\ LetGo(t, "worker")
    /\ UNCHANGED <<manager, expired, dispatch, sent>>

\* Drop for DeferredRequestResponder; a response that is too large is one.
WorkerDrops(t) ==
    /\ t \in Deferred /\ worker[t] \in {"holding", "checked"}
    /\ worker' = [worker EXCEPT ![t] = "done"]
    /\ channel' = [channel EXCEPT ![t] = IF @ = "empty" THEN "hungup" ELSE @]
    /\ LetGo(t, "worker")
    /\ UNCHANGED <<manager, decision, reply, expired, dispatch, sent>>

\* LinkPacketReceipt::resolve: accept, reject_and_close, close_without_proof.
\* A resolution the manager no longer takes is answered with what the manager
\* recorded.
ReceiptResolves(t, d) ==
    /\ t \in Packets /\ worker[t] = "holding" /\ d \in {"Accept", "Reject", "Close"}
    /\ worker' = [worker EXCEPT ![t] = "done"]
    /\ IF channel[t] = "closed"
       THEN /\ reply' = [reply EXCEPT ![t] = IF terminal[t] = "none" THEN "Closed"
                                             ELSE terminal[t]]
            /\ UNCHANGED <<decision, channel>>
       ELSE /\ reply' = [reply EXCEPT ![t] = "owed"]
            /\ decision' = [decision EXCEPT ![t] = d]
            /\ channel' = [channel EXCEPT ![t] = "resolved"]
    /\ LetGo(t, "worker")
    /\ UNCHANGED <<manager, expired, dispatch, sent>>

\* Drop for LinkPacketReceipt: a resolution that expects no reply.
ReceiptDrops(t) ==
    /\ t \in Packets /\ worker[t] = "holding"
    /\ worker' = [worker EXCEPT ![t] = "done"]
    /\ IF channel[t] = "closed" THEN UNCHANGED <<decision, channel>>
       ELSE /\ decision' = [decision EXCEPT ![t] = "Drop"]
            /\ channel' = [channel EXCEPT ![t] = "resolved"]
    /\ LetGo(t, "worker")
    /\ UNCHANGED <<manager, reply, expired, dispatch, sent>>

\* The application is done with the payload, which has a lease of its own.
PayloadDrops(t) ==
    /\ "payload" \in leases[t]
    /\ LetGo(t, "payload")
    /\ UNCHANGED <<manager, workers, expired, dispatch, sent>>

Expires(t) ==
    /\ stage[t] \in {"pending", "dispatching"} /\ ~expired[t]
    /\ expired' = [expired EXCEPT ![t] = TRUE]
    /\ UNCHANGED <<manager, workers, credit, dispatch, sent>>

----------------------------------------------------------------------------
(* The manager: what it takes in.                                          *)

Free == pass = {} /\ ~closes /\ \A t \in Tickets : stage[t] # "finished"

\* handle_parsed_request with a deferred handler.  Without budget the request
\* is ignored, and without an endpoint it never gets here.
DeferRequest(t) ==
    /\ Free /\ link # 0
    /\ t \in Deferred /\ stage[t] = "new"
    /\ Reservable(t)
    /\ Reserve(t, {"manager", "worker"})
    /\ stage' = [stage EXCEPT ![t] = "pending"]
    /\ of' = [of EXCEPT ![t] = link]
    /\ worker' = [worker EXCEPT ![t] = "holding"]
    /\ UNCHANGED <<link, links, rejecting, terminal, pass, closes, decision,
                   channel, reply, expired, dispatch, sent>>

\* handle_ordinary_link_packet under ProveApp.  A packet the application has
\* no room for is dropped, and its lease with it.
ReceivePacket(t) ==
    /\ Free /\ link # 0 /\ ~rejecting
    /\ t \in Packets /\ stage[t] = "new"
    /\ Reservable(t)
    /\ Reserve(t, {"manager", "worker", "payload"})
    /\ stage' = [stage EXCEPT ![t] = "pending"]
    /\ of' = [of EXCEPT ![t] = link]
    /\ worker' = [worker EXCEPT ![t] = "holding"]
    /\ UNCHANGED <<link, links, rejecting, terminal, pass, closes, decision,
                   channel, reply, expired, dispatch, sent>>

----------------------------------------------------------------------------
(* The manager: how tickets end.                                           *)

\* PendingResponse::close: no result is taken any more, and one that made it
\* into the channel is answered.
CloseRequest(t, outcome) ==
    /\ stage' = [stage EXCEPT ![t] = "gone"]
    /\ terminal' = [terminal EXCEPT ![t] = outcome]
    /\ channel' = [channel EXCEPT ![t] = "closed"]
    /\ reply' = [reply EXCEPT ![t] = IF @ = "owed" THEN outcome ELSE @]

\* PendingInboundPacket::finish: the end is recorded, a dispatch is cancelled
\* unless it was the success, and the reply of the dispatch, or of a
\* resolution in the channel, is given.  The channel stays open until the
\* ticket is dropped.
Finish(t, outcome) ==
    /\ stage' = [stage EXCEPT ![t] = "finished"]
    /\ terminal' = [terminal EXCEPT ![t] = outcome]
    /\ channel' = [channel EXCEPT ![t] = IF @ = "resolved" THEN "hungup" ELSE @]
    /\ reply' = [reply EXCEPT ![t] = IF @ = "owed" THEN outcome ELSE @]
    /\ dispatch' = [dispatch EXCEPT ![t] = IF @ = "queued" /\ outcome # "Sent"
                                           THEN "Cancelled" ELSE @]

\* The finished ticket goes out of scope, and its receiver with it: what a
\* worker sent since is lost, and so is the reply it waits for.
DropTicket(t) ==
    /\ stage[t] = "finished"
    /\ stage' = [stage EXCEPT ![t] = "gone"]
    /\ channel' = [channel EXCEPT ![t] = "closed"]
    /\ reply' = [reply EXCEPT ![t] = IF @ = "owed" THEN "lost" ELSE @]
    /\ LetGo(t, "manager")
    /\ UNCHANGED <<link, links, rejecting, of, terminal, pass, closes, worker,
                   decision, expired, dispatch, sent>>

\* close_active_link_inner: CloseRequest and Finish of every ticket of the
\* Link, as Closed, and its response Resources let go.
CloseLink ==
    LET open == {t \in Tickets : stage[t] \in {"pending", "dispatching"}}
        rs == open \cap Deferred
        ps == open \cap Packets
    IN  /\ link' = 0
        /\ rejecting' = FALSE
        /\ closes' = FALSE
        /\ terminal' = [t \in Tickets |-> IF t \in open THEN "Closed" ELSE terminal[t]]
        /\ stage' = [t \in Tickets |-> IF t \in rs THEN "gone"
                                       ELSE IF t \in ps THEN "finished" ELSE stage[t]]
        /\ channel' = [t \in Tickets |->
                          IF t \in rs THEN "closed"
                          ELSE IF t \in ps /\ channel[t] = "resolved" THEN "hungup"
                          ELSE channel[t]]
        /\ reply' = [t \in Tickets |->
                        IF t \in open /\ reply[t] = "owed" THEN "Closed" ELSE reply[t]]
        /\ dispatch' = [t \in Tickets |->
                           IF t \in ps /\ dispatch[t] = "queued" THEN "Cancelled"
                           ELSE dispatch[t]]
        /\ DropLeases([t \in Tickets |->
                          leases[t] \ (IF t \in rs THEN {"manager", "Resource"}
                                       ELSE {"Resource"})])
        /\ UNCHANGED <<links, of, pass, worker, decision, expired, sent>>

\* The Link ends for any other reason: the peer, a timeout, its endpoint.
LinkCloses == Free /\ link # 0 /\ CloseLink

\* Another Link with the same id.
LinkOpens ==
    /\ Free /\ link = 0 /\ links < instance.links
    /\ links' = links + 1 /\ link' = links'
    /\ UNCHANGED <<rejecting, stage, of, terminal, pass, closes, workers, credit,
                   expired, dispatch, sent>>

----------------------------------------------------------------------------
(* The manager: a pass over the tickets of a kind.                         *)

BeginPass(kind) ==
    /\ Free
    /\ pass' = {t \in Tickets : /\ instance.kind[t] = kind
                                /\ stage[t] \in {"pending", "dispatching"}}
    /\ pass' # {}
    /\ UNCHANGED <<link, links, rejecting, stage, of, terminal, closes, workers,
                   credit, expired, dispatch, sent>>

NoneFinished == \A t \in Tickets : stage[t] # "finished"

Sending(t) == [ticket |-> t, link |-> link, late |-> expired[t]]

\* Why the request can no longer be answered, if so.
RequestOver(t) ==
    IF of[t] # link THEN "Closed" ELSE IF expired[t] THEN "Expired" ELSE "none"

\* complete_request_response: the answer, or the acknowledgement of a
\* Resource, is staged as a packet or as a Resource of its own; then the
\* Resource is started.  What is reported is Sent only if all of it went.
CompleteRequest(t) ==
    \E answered, large, started \in BOOLEAN :
        LET fetch == decision[t] = "Resource"
            went == answered \/ (fetch /\ started)
            kept == (answered /\ large) \/ (fetch /\ started)
        IN  /\ decision[t] = "Drop" => ~answered /\ ~large /\ ~started
            /\ ~fetch => ~started
            /\ CloseRequest(t, IF decision[t] = "Drop" THEN "Dropped"
                               ELSE IF answered /\ (fetch => started) THEN "Sent"
                               ELSE "Unavailable")
            /\ sent' = IF went THEN sent \cup {Sending(t)} ELSE sent
            /\ DropLeases([leases EXCEPT ![t] =
                   (@ \ {"manager"}) \cup (IF kept THEN {"Resource"} ELSE {})])

\* poll_deferred_requests, for one of them.
PollRequest(t) ==
    /\ t \in pass \cap Deferred
    /\ pass' = pass \ {t}
    /\ \/ /\ RequestOver(t) # "none"
          /\ CloseRequest(t, RequestOver(t))
          /\ LetGo(t, "manager")
          /\ UNCHANGED sent
       \/ /\ RequestOver(t) = "none" /\ channel[t] = "empty"
          /\ UNCHANGED <<stage, terminal, channel, reply, credit, sent>>
       \/ /\ RequestOver(t) = "none" /\ channel[t] = "hungup"
          /\ CloseRequest(t, "Closed")
          /\ LetGo(t, "manager")
          /\ UNCHANGED sent
       \/ /\ RequestOver(t) = "none" /\ channel[t] = "resolved"
          /\ CompleteRequest(t)
    /\ UNCHANGED <<link, links, rejecting, of, closes, worker, decision, expired,
                   dispatch>>

\* The next poll after the Resource of an answer has ended.
ResourceEnds(t) ==
    /\ Free /\ "Resource" \in leases[t]
    /\ LetGo(t, "Resource")
    /\ UNCHANGED <<manager, workers, expired, dispatch, sent>>

\* A dispatch that never comes back is waited for.
DispatchWaits(t) == IF dispatch[t] = "queued" THEN "none" ELSE dispatch[t]

\* What became of the proof or the rejection, if that is known.
DispatchOutcome(t) ==
    IF dispatch[t] # "queued" THEN dispatch[t]
    ELSE IF expired[t] THEN "Expired" ELSE "none"

\* Why the packet is over, if it is.
PacketOver(t) ==
    IF of[t] # link THEN "Closed"
    ELSE IF stage[t] = "dispatching" THEN DispatchOutcome(t)
    ELSE IF expired[t] THEN "Expired" ELSE "none"

\* The proof or the rejection is given to the endpoint, with a deadline of
\* its own, or cannot be made or given.
Dispatch(t) ==
    \/ /\ stage' = [stage EXCEPT ![t] = "dispatching"]
       /\ dispatch' = [dispatch EXCEPT ![t] = "queued"]
       /\ expired' = [expired EXCEPT ![t] = FALSE]
       /\ channel' = [channel EXCEPT ![t] = "hungup"]
       /\ UNCHANGED <<terminal, reply, closes>>
    \/ /\ Finish(t, "Unavailable")
       /\ closes' = (closes \/ decision[t] = "Reject")
       /\ UNCHANGED expired

\* poll_inbound_packet_receipts, for one of them.
PollPacket(t) ==
    /\ NoneFinished
    /\ t \in pass \cap Packets
    /\ pass' = pass \ {t}
    /\ \/ /\ PacketOver(t) # "none"
          /\ Finish(t, PacketOver(t))
          /\ closes' = (closes \/ (/\ stage[t] = "dispatching" /\ of[t] = link
                                  /\ decision[t] = "Reject"))
          /\ UNCHANGED <<rejecting, expired>>
       \/ /\ PacketOver(t) = "none"
          /\ stage[t] = "dispatching" \/ channel[t] = "empty"
          /\ UNCHANGED <<rejecting, stage, terminal, channel, reply, dispatch,
                         closes, expired>>
       \/ /\ PacketOver(t) = "none" /\ channel[t] = "resolved"
          /\ rejecting \/ decision[t] = "Drop"
          /\ Finish(t, IF decision[t] = "Drop" THEN "Dropped" ELSE "Closed")
          /\ UNCHANGED <<rejecting, closes, expired>>
       \/ /\ PacketOver(t) = "none" /\ channel[t] = "resolved" /\ ~rejecting
          /\ decision[t] = "Close"
          /\ rejecting' = TRUE /\ closes' = TRUE
          /\ Finish(t, "Closed")
          /\ UNCHANGED expired
       \/ /\ PacketOver(t) = "none" /\ channel[t] = "resolved" /\ ~rejecting
          /\ decision[t] \in {"Accept", "Reject"}
          /\ rejecting' = (decision[t] = "Reject")
          /\ Dispatch(t)
    /\ UNCHANGED <<link, links, of, worker, decision, credit, sent>>

\* The Links to close, once every ticket has been looked at.
EndPass ==
    /\ NoneFinished /\ pass = {} /\ closes
    /\ CloseLink

----------------------------------------------------------------------------
(* The transport actor sends the proof or the rejection, unless it was     *)
(* cancelled or is late, or cannot (LinkEndpoint has the actor itself).    *)

ActorSends(t) ==
    /\ dispatch[t] = "queued" /\ ~expired[t]
    /\ dispatch' = [dispatch EXCEPT ![t] = "Sent"]
    /\ sent' = sent \cup {Sending(t)}
    /\ UNCHANGED <<manager, workers, credit, expired>>

ActorFails(t) ==
    /\ dispatch[t] = "queued"
    /\ dispatch' = [dispatch EXCEPT ![t] = IF expired[t] THEN "Expired"
                                           ELSE "Unavailable"]
    /\ UNCHANGED <<manager, workers, credit, expired, sent>>

----------------------------------------------------------------------------

Same == UNCHANGED instance

Next ==
    \/ \E t \in Tickets : WorkerChecks(t) /\ Same
    \/ \E t \in Tickets, d \in {"Reply", "Resource", "Drop"} :
           WorkerResponds(t, d) /\ Same
    \/ \E t \in Tickets : WorkerDrops(t) /\ Same
    \/ \E t \in Tickets, d \in {"Accept", "Reject", "Close"} :
           ReceiptResolves(t, d) /\ Same
    \/ \E t \in Tickets : ReceiptDrops(t) /\ Same
    \/ \E t \in Tickets : PayloadDrops(t) /\ Same
    \/ \E t \in Tickets : Expires(t) /\ Same
    \/ \E t \in Tickets : DeferRequest(t) /\ Same
    \/ \E t \in Tickets : ReceivePacket(t) /\ Same
    \/ \E t \in Tickets : DropTicket(t) /\ Same
    \/ LinkCloses /\ Same
    \/ LinkOpens /\ Same
    \/ \E kind \in {"request", "packet"} : BeginPass(kind) /\ Same
    \/ \E t \in Tickets : PollRequest(t) /\ Same
    \/ \E t \in Tickets : PollPacket(t) /\ Same
    \/ \E t \in Tickets : ResourceEnds(t) /\ Same
    \/ EndPass /\ Same
    \/ \E t \in Tickets : ActorSends(t) /\ Same
    \/ \E t \in Tickets : ActorFails(t) /\ Same

\* The manager polls every 10 ms while anything is pending, and finishes what
\* it begins; time passes.  Workers and the transport actor owe nothing.
Polled == \E t \in Tickets : PollRequest(t) \/ PollPacket(t)
Dropped == \E t \in Tickets : DropTicket(t)
TimePassed == \E t \in Tickets : Expires(t)
Fairness ==
    /\ \A kind \in {"request", "packet"} : WF_system(BeginPass(kind))
    /\ WF_system(EndPass) /\ WF_system(Polled) /\ WF_system(Dropped) /\ WF_system(TimePassed)

Spec == Init /\ [][Next]_vars /\ Fairness

----------------------------------------------------------------------------
(* Properties.                                                             *)

\* What is sent for a ticket (an answer, a proof, a rejection) is what the
\* application decided, is sent while the Link the ticket came from is the
\* one in place and before the ticket's deadline, and at most once; and the
\* application is told Sent only if something was.  (respond's "No response
\* is emitted for a closed/replaced Link, dropped manager or expired request",
\* and LinkPacketReceipt's "Sent only after matching endpoint dispatch".)
SentInTime ==
    /\ \A e \in sent :
           /\ e.link = of[e.ticket] /\ ~e.late
           /\ decision[e.ticket] \in IF e.ticket \in Deferred
                                     THEN {"Reply", "Resource"}
                                     ELSE {"Accept", "Reject"}
           /\ \A f \in sent : f.ticket = e.ticket => f = e
    /\ \A t \in Tickets : reply[t] = "Sent" => \E e \in sent : e.ticket = t

AuthoritySound == TypeOK /\ SentInTime

\* The budgets in use are those of the tickets some part still holds a lease
\* of, be it only a worker of a Link long closed or a payload somebody keeps,
\* and never exceed what there is, for all Links and for each.
CreditsExact ==
    LET held(ts) == {t \in ts : leases[t] # {}}
        used(ts) == Charge([slots |-> 0, bytes |-> 0], held(ts))
    IN  /\ counts["request"] = used(Deferred)
        /\ counts["packet"] = used(Packets)
        /\ \A n \in DOMAIN share :
               /\ share[n] = used({t \in Packets : of[t] = n})
               /\ share[n].slots <= instance.link_slots
               /\ share[n].bytes <= instance.link_budget
        /\ \A k \in DOMAIN counts : /\ counts[k].slots <= instance.slots
                                    /\ counts[k].bytes <= instance.budget

\* A Link that rejects its packets (rejecting_packet_links) is about to be
\* closed: a rejection is on its way to the endpoint, or the pass under way
\* closes it.  And a worker that waits to hear what became of its decision
\* waits for something the manager still has.
NothingForgotten ==
    /\ rejecting => \/ closes
                    \/ \E t \in Packets : /\ stage[t] = "dispatching"
                                          /\ decision[t] = "Reject"
                                          /\ of[t] = link
    /\ \A t \in Tickets : reply[t] = "owed" =>
           /\ stage[t] \in {"pending", "dispatching", "finished"}
           /\ channel[t] = "resolved" \/ stage[t] = "dispatching"

\* What is sent, what is reserved and what is still owed agree.
TicketsSound == AuthoritySound /\ CreditsExact /\ NothingForgotten

Undecided == rejecting \/ \E t \in Tickets : reply[t] = "owed"

\* Whatever the transport actor does, the workers that decided all hear of it
\* (or find that nobody will tell them), and a Link that rejects its packets
\* closes.
DecisionsConclude == []<>(~Undecided)

\* A resolution, however late, gets an outcome: resolve answers one that the
\* manager no longer takes with the recorded end, and finish answers one that
\* is in the channel (the test
\* late_resolution_reports_expiration_without_reviving_authority).
LateResolutionAnswered == \A t \in Packets : reply[t] # "lost"

============================================================================
