---------------------------- MODULE LinkEndpoint ----------------------------
(***************************************************************************)
(* Egress of established Links in the transport actor:                     *)
(* crates/rns-transport/src/actor/link_endpoint.rs, with the dispatch lane *)
(* of crates/rns-transport/src/link_endpoint_dispatch.rs.                  *)
(*                                                                         *)
(* An endpoint, named by its key (link id and role), is bound to one exact *)
(* interface registration or, for a Link between two destinations of this  *)
(* process, to the in-process route.  Packets its interface has no room    *)
(* for wait in a bounded FIFO.  Each binding is a generation of its own.   *)
(* Packets are numbered, per generation, in the order the actor accepts    *)
(* them; a packet with a receipt also names its operation.                 *)
(*                                                                         *)
(* Actions are the actor's handlers, each one atomic, the calls of the     *)
(* owners of receipts and cancellation handles, and what drivers do.  How  *)
(* many packets a driver queue takes before it is full is left open.       *)
(***************************************************************************)
EXTENDS Integers, Sequences, FiniteSets

CONSTANTS
    Interfaces,         \* physical interfaces
    Local,              \* the in-process interface of either role
    DISPATCH_QUEUE_CAPACITY,
    Instances           \* the Links and the bounds considered

\* An instance: its keys, (link id, role) pairs, with the link id of each, the
\* Links between two destinations of this process, the capacity of an egress
\* FIFO, and the bounds of the model: bindings made, packets accepted per
\* binding, packets sent with a receipt, bindings asked for through the lane,
\* interface registrations.
EndpointAssumption ==
    /\ DISPATCH_QUEUE_CAPACITY \in Nat \ {0}
    /\ Local \notin Interfaces
    /\ \A x \in Instances :
         /\ DOMAIN x.link = x.keys
         /\ x.local \subseteq {x.link[key] : key \in x.keys}
         /\ x.capacity \in Nat \ {0}
         /\ {x.generations, x.packets, x.operations, x.receipts, x.owners} \subseteq Nat

VARIABLE instance       \* chosen at the start, the same ever after

Keys == instance.keys
LinkOf == instance.link
LocalLinks == instance.local
LINK_ENDPOINT_EGRESS_QUEUE_CAPACITY == instance.capacity
MaxGenerations == instance.generations
MaxPackets == instance.packets
MaxOperations == instance.operations
MaxReceipts == instance.receipts
MaxOwners == instance.owners

Links == {LinkOf[key] : key \in Keys}
Generations == 1 .. MaxGenerations

VARIABLES
    running,            \* the actor has not shut down
    interfaces,         \* registered interface |-> its registration
    owners,             \* registrations so far
    closed_peers,       \* keys whose in-process peer queue is closed
    local_link_routes,  \* links with an in-process route
    destinations,       \* links whose destination is registered
    link_endpoints,     \* bound key |-> entry
    generations,        \* bindings so far
    lane,               \* the dispatch queue
    receipts,           \* bind receipts, in the order they were asked for
    ops,                \* packet operations, likewise
    accepted,           \* generation |-> packets accepted
    wire,               \* generation |-> packets the interface took, in order
    dropped,            \* generation |-> dropped_packets of its last event
    events              \* generation |-> lifecycle events sent

actorVars == <<running, generations, accepted, wire, dropped, events>>
vars == <<instance, actorVars, interfaces, owners, closed_peers, local_link_routes,
          destinations, link_endpoints, lane, receipts, ops>>

Queued == [n : Nat, op : Nat]       \* op = 0: nobody waits for it
Entry == [interface : Interfaces \cup {Local}, owner : Nat, generation : Nat,
          receipt : Nat, egress : Seq(Queued), unbind_after_drain : BOOLEAN]

\* The reply a bind receipt holds: none yet, a refusal, or a token (the
\* generation it has authority over).
NoReply == 0
Refused == -1

\* A packet operation: the generation its token has authority over, where it
\* is, whether it was ever in a queue, and why it must not be sent any more
\* (cancellation counts before expiry).
OpStates == {"lane", "queued", "sent", "rejected", "expired", "cancelled"}
Operation == [generation : Nat, state : OpStates, held : BOOLEAN,
              doom : {"none", "cancelled", "expired"}]

Init ==
    /\ instance \in Instances
    /\ running = TRUE
    /\ interfaces = [i \in Interfaces |->
                       [owner |-> 0, status |-> "up"]]
    /\ owners = 0
    /\ closed_peers = {}
    /\ local_link_routes = {}
    /\ destinations = Links
    /\ link_endpoints = <<>>
    /\ generations = 0
    /\ lane = <<>> /\ receipts = <<>> /\ ops = <<>>
    /\ accepted = [g \in Generations |-> 0]
    /\ wire = [g \in Generations |-> <<>>]
    /\ dropped = [g \in Generations |-> 0]
    /\ events = [g \in Generations |-> 0]

-----------------------------------------------------------------------------
(* The parts handlers are made of.                                         *)

Bound == DOMAIN link_endpoints
Operations(queue) == {queue[j].op : j \in DOMAIN queue} \ {0}

\* The owner of the bind receipt dropped it before taking the token.
Never(key) == FALSE
Unpublished(key) ==
    /\ key \in Bound
    /\ link_endpoints[key].receipt # 0
    /\ receipts[link_endpoints[key].receipt].publication = 2

\* LinkEndpointDispatchCompletion::terminal_before_admission.
Doomed(op) == op # 0 /\ ops[op].doom # "none"

\* Expiry and cancellation apply to every packet of the queue, also to those
\* behind one the driver has no room for.
Prune(queue) == SelectSeq(queue, LAMBDA p : ~ Doomed(p.op))

\* What stops an endpoint's packets, other than a full queue.  (An interface
\* one could bind to is outbound, and a packet too large for it is refused as
\* invalid before it is offered.)
Outcome(key) ==
    LET e == link_endpoints[key]
        i == e.interface
    IN  IF i = Local
        THEN CASE LinkOf[key] \notin local_link_routes -> "Missing"
               [] key \in closed_peers -> "Closed"
               [] OTHER -> "Sent"
        ELSE CASE i \notin DOMAIN interfaces -> "Missing"
               [] interfaces[i].status = "retired" -> "Missing"
               [] interfaces[i].status = "closed" -> "Closed"
               [] OTHER -> "Sent"

\* A closed or offline interface goes with the endpoint that noticed.
Condemned(key) ==
    IF link_endpoints[key].interface # Local /\ Outcome(key) = "Closed"
    THEN {link_endpoints[key].interface} ELSE {}

\* A handler's effect: the queues it works on (`queue`, pruned and with the
\* new packet), how much of each the interface took (`admit`), the endpoints
\* whose final packet now waits (`final`), the ones that end (`end`), the
\* interfaces that go (`drop`), the destinations deregistered (`release`), the
\* operations refused (`refuse`), the entry bound (`new`).
Nothing == [queue |-> <<>>, admit |-> <<>>, final |-> {}, end |-> {},
            drop |-> {}, release |-> {}, refuse |-> {}, new |-> <<>>]

Worked(c) ==
    [k \in Bound |->
        [link_endpoints[k] EXCEPT
            !.egress = IF k \in DOMAIN c.queue
                       THEN SubSeq(c.queue[k], c.admit[k] + 1, Len(c.queue[k]))
                       ELSE @,
            !.unbind_after_drain = @ \/ k \in c.final]]

\* terminate_link_endpoint, finish_link_endpoint_terminal and
\* deregister_destination: an endpoint that goes down with its final packet
\* releases its temporary destination, and an in-process route that goes with
\* it takes both ends of the Link.
Ending(c) ==
    c.end \cup {k \in Bound : link_endpoints[k].interface \in c.drop}
Released(c) ==
    c.release \cup {LinkOf[k] : k \in {j \in Ending(c) : Worked(c)[j].unbind_after_drain}}
EndingAll(c) ==
    Ending(c) \cup {k \in Bound : LinkOf[k] \in Released(c) \cap local_link_routes}

\* notify_link_endpoint_terminal: whose owners hear of it, whose packets'
\* receipts are answered, and what is counted as dropped.
Told(c, ending) == ending
Answered(told) == told
Dropped(entry) == Len(entry.egress)

Fate(c, worked, told, o) ==
    LET held == {k \in Bound : o \in Operations(worked[k].egress)}
    IN  CASE \E k \in DOMAIN c.queue :
               o \in Operations(SubSeq(c.queue[k], 1, c.admit[k])) -> "sent"
          [] held # {} -> IF held \subseteq Answered(told) THEN "rejected" ELSE "queued"
          [] o \in c.refuse -> "rejected"
          [] held = {} /\ ops[o].state = "queued" -> ops[o].doom
          [] OTHER -> ops[o].state

LastNumber(queue, least) ==
    IF queue # <<>> /\ queue[Len(queue)].n > least THEN queue[Len(queue)].n ELSE least

Apply(c) ==
    LET worked == Worked(c)
        ending == EndingAll(c)
        told   == Told(c, ending)
        gone   == Released(c)
        Of(g)  == CHOOSE k \in Bound : link_endpoints[k].generation = g
        busy   == {link_endpoints[k].generation : k \in DOMAIN c.queue}
        over   == {link_endpoints[k].generation : k \in told}
    IN  /\ link_endpoints' =
             [k \in (Bound \ ending) \cup DOMAIN c.new |->
                IF k \in DOMAIN c.new THEN c.new[k] ELSE worked[k]]
        /\ wire' = [g \in Generations |->
             IF g \notin busy THEN wire[g]
             ELSE wire[g] \o SubSeq(c.queue[Of(g)], 1, c.admit[Of(g)])]
        /\ accepted' = [g \in Generations |->
             IF g \notin busy THEN accepted[g]
             ELSE LastNumber(c.queue[Of(g)], accepted[g])]
        /\ dropped' = [g \in Generations |->
             IF g \notin over THEN dropped[g] ELSE Dropped(worked[Of(g)])]
        /\ events' = [g \in Generations |->
             IF g \notin over THEN events[g] ELSE events[g] + 1]
        /\ ops' = [o \in DOMAIN ops |->
             [ops[o] EXCEPT !.state = Fate(c, worked, told, o),
                            !.held = @ \/ \E k \in DOMAIN c.queue :
                                            o \in Operations(c.queue[k])]]
        /\ local_link_routes' = local_link_routes \ gone
        /\ destinations' = destinations \ gone

Commit(c) ==
    /\ Apply(c)
    /\ interfaces' = [i \in DOMAIN interfaces \ c.drop |-> interfaces[i]]

End(K) == Commit([Nothing EXCEPT !.end = K])

\* drain_one_link_endpoint: the effect of offering an endpoint's queue, of
\* which the interface takes n, and of finding that it can take none.
Drained(key, n) ==
    [Nothing EXCEPT !.queue = [k \in {key} |-> Prune(link_endpoints[k].egress)],
                    !.admit = [k \in {key} |-> n]]
Failed(key) ==
    [Drained(key, 0) EXCEPT !.end = {key}, !.drop = Condemned(key)]

unchangedBySend == <<running, owners, closed_peers, generations, receipts>>

-----------------------------------------------------------------------------
(* Sending.                                                                *)

Full(length) == length >= LINK_ENDPOINT_EGRESS_QUEUE_CAPACITY

\* The common part of send_link_endpoint (op = 0) and of a dispatched send:
\* drain; end an endpoint whose queue is still full; refuse an invalid packet;
\* otherwise queue it behind the rest, or hand it over when nothing is before
\* it.  A dispatched send drains once more afterwards.
Transmit(key, op, valid, final) ==
    LET e == link_endpoints[key]
        q == Prune(e.egress)
        usable == Outcome(key) = "Sent"
        p == [n |-> accepted[e.generation] + 1, op |-> op]
        behind == [k \in {key} |-> Append(q, p)]
    IN  /\ accepted[e.generation] < MaxPackets
        /\ \/ /\ ~ usable /\ q # <<>>
              /\ Commit([Failed(key) EXCEPT !.refuse = {op}])
           \/ \E n \in 0 .. Len(q) :
                /\ usable \/ q = <<>>
                /\ \/ /\ Full(Len(q) - n)
                      /\ Commit([Drained(key, n) EXCEPT !.end = {key}, !.refuse = {op}])
                   \/ /\ ~ Full(Len(q) - n) /\ ~ valid
                      /\ Commit([Drained(key, n) EXCEPT !.refuse = {op}])
                   \/ /\ ~ Full(Len(q) - n) /\ valid /\ ~ usable
                      /\ Commit([Failed(key) EXCEPT
                                   !.queue = IF op = 0 THEN @ ELSE behind])
                   \/ /\ ~ Full(Len(q) - n) /\ valid /\ usable
                      /\ \E m \in n .. Len(q) + 1 :
                           /\ op = 0 => m = n \/ (n = Len(q) /\ m = n + 1)
                           /\ Commit([Nothing EXCEPT
                                !.queue = behind,
                                !.admit = [k \in {key} |-> m],
                                !.final = IF final THEN {key} ELSE {},
                                !.end = IF final /\ m = Len(q) + 1 THEN {key} ELSE {}])

\* send_link_endpoint, or send_link_endpoint_and_unbind when `final`.  A key
\* that is not bound, or waits for its final packet, is refused.
SendLinkEndpoint(key, valid, final) ==
    /\ running /\ key \in Bound
    /\ IF Unpublished(key) THEN End({key})
       ELSE /\ ~ link_endpoints[key].unbind_after_drain
            /\ Transmit(key, 0, valid, final)
    /\ UNCHANGED <<unchangedBySend, lane>>

\* SendLinkEndpointExact: the same with a token.
CurrentAnyGeneration(key, generation) == key \in Bound
Current(key, generation) ==
    key \in Bound /\ link_endpoints[key].generation = generation

SendLinkEndpointExact(r, valid) ==
    LET key == receipts[r].key
    IN  /\ running
        /\ receipts[r].publication = 1 /\ receipts[r].reply > 0
        /\ IF Unpublished(key) THEN End({key})
           ELSE /\ Current(key, receipts[r].reply)
                /\ ~ link_endpoints[key].unbind_after_drain
                /\ Transmit(key, 0, valid, FALSE)
        /\ UNCHANGED <<unchangedBySend, lane>>

\* send_link_endpoint_best_effort.  With packets waiting, or no room, the
\* packet is dropped; it never waits.
NothingWaits(key) == link_endpoints[key].egress = <<>>

SendLinkEndpointBestEffort(key) ==
    /\ running /\ key \in Bound
    /\ IF Unpublished(key) THEN End({key})
       ELSE LET e == link_endpoints[key]
                p == [n |-> accepted[e.generation] + 1, op |-> 0]
            IN  /\ ~ e.unbind_after_drain
                /\ NothingWaits(key)
                /\ accepted[e.generation] < MaxPackets
                /\ IF Outcome(key) = "Sent"
                   THEN Commit([Nothing EXCEPT
                          !.queue = [k \in {key} |-> <<p>> \o e.egress],
                          !.admit = [k \in {key} |-> 1]])
                   ELSE Commit(Failed(key))
    /\ UNCHANGED <<unchangedBySend, lane>>

\* on_tick: drain_link_endpoint_egress offers every queue in some order; the
\* interface takes n[k] packets of queue k.  Endpoints in `missed` end, with a
\* sibling, before their turn comes.
TickWith(n, missed) ==
    LET retired == {k \in Bound : Unpublished(k)}
        worked  == Bound \ (retired \cup missed)
        q       == [k \in worked |-> Prune(link_endpoints[k].egress)]
        failing == {k \in worked : q[k] # <<>> /\ Outcome(k) # "Sent"}
        done    == {k \in worked : /\ link_endpoints[k].unbind_after_drain
                                   /\ n[k] = Len(q[k])}
        c == [Nothing EXCEPT !.queue = q,
                             !.admit = [k \in worked |-> n[k]],
                             !.end = retired \cup failing \cup done,
                             !.drop = UNION {Condemned(k) : k \in failing}]
    IN  /\ running
        /\ \A k \in worked : n[k] <= (IF k \in failing THEN 0 ELSE Len(q[k]))
        /\ missed \subseteq EndingAll(c)
        /\ Commit(c)
        /\ UNCHANGED <<unchangedBySend, lane>>

OnTick ==
    \E n \in [Bound -> 0 .. LINK_ENDPOINT_EGRESS_QUEUE_CAPACITY], missed \in SUBSET Bound :
        TickWith(n, missed)

-----------------------------------------------------------------------------
(* Binding.                                                                *)

\* bind_link_endpoint, for receipt r of the lane or for a message (r = 0).
Bind(key, i, owner, r) ==
    LET retire == [Nothing EXCEPT !.end = IF Unpublished(key) THEN {key} ELSE {}]
        available ==
            IF i = Local
            THEN LinkOf[key] \in local_link_routes \ Released(retire)
            ELSE /\ i \in DOMAIN interfaces
                 /\ interfaces[i] = [owner |-> owner, status |-> "up"]
        bound == key \notin Bound \ EndingAll(retire) /\ available
        entry == [interface |-> i, owner |-> owner, generation |-> generations + 1,
                  receipt |-> r, egress |-> <<>>, unbind_after_drain |-> FALSE]
    IN  /\ generations < MaxGenerations
        /\ Commit([retire EXCEPT
                     !.new = IF bound THEN [k \in {key} |-> entry] ELSE <<>>])
        /\ generations' = IF bound THEN generations + 1 ELSE generations
        /\ receipts' =
             IF r = 0 THEN receipts
             ELSE [receipts EXCEPT ![r].reply = IF bound THEN generations + 1 ELSE Refused]

\* The interface and owner come from the packet that established the Link:
\* by now the registration may be another.
BindLinkEndpoint(key, i, owner) ==
    /\ running
    /\ owner \in 0 .. owners /\ (i = Local => owner = 0)
    /\ Bind(key, i, owner, 0)
    /\ UNCHANGED <<running, owners, closed_peers, lane>>

UnbindLinkEndpoint(key) ==
    /\ running /\ key \in Bound
    /\ End({key})
    /\ UNCHANGED <<unchangedBySend, lane>>
-----------------------------------------------------------------------------
(* The dispatch lane.                                                      *)

\* LinkEndpointDispatchHandle::try_bind, and what becomes of its receipt.
TryBind(key, i, owner) ==
    /\ running
    /\ Len(receipts) < MaxReceipts
    /\ Len(lane) < DISPATCH_QUEUE_CAPACITY
    /\ owner \in 0 .. owners /\ (i = Local => owner = 0)
    /\ receipts' = Append(receipts, [key |-> key, publication |-> 0, reply |-> NoReply])
    /\ lane' = Append(lane, [type |-> "bind", key |-> key, interface |-> i,
                             owner |-> owner, receipt |-> Len(receipts) + 1])
    /\ UNCHANGED <<actorVars, interfaces, owners, closed_peers, local_link_routes,
                   destinations, link_endpoints, ops>>

unchangedByClient == <<actorVars, interfaces, owners, closed_peers,
                       local_link_routes, destinations, link_endpoints>>

\* Taking the reply (try_recv or awaiting) publishes; dropping an unread
\* receipt asks for retirement.
TakeReply(r) ==
    /\ receipts[r].publication = 0 /\ receipts[r].reply # NoReply
    /\ receipts' = [receipts EXCEPT ![r].publication = 1]
    /\ UNCHANGED <<unchangedByClient, lane, ops>>

DropReceipt(r) ==
    /\ receipts[r].publication = 0
    /\ receipts' = [receipts EXCEPT ![r].publication = 2]
    /\ UNCHANGED <<unchangedByClient, lane, ops>>

\* LinkEndpointDispatchToken::try_send_cancellable with the token of receipt r.
TrySend(r, valid) ==
    /\ running
    /\ receipts[r].publication = 1 /\ receipts[r].reply > 0
    /\ Len(ops) < MaxOperations
    /\ Len(lane) < DISPATCH_QUEUE_CAPACITY
    /\ ops' = Append(ops, [generation |-> receipts[r].reply, state |-> "lane",
                           held |-> FALSE, doom |-> "none"])
    /\ lane' = Append(lane, [type |-> "send", key |-> receipts[r].key, valid |-> valid,
                             generation |-> receipts[r].reply, op |-> Len(ops) + 1])
    /\ UNCHANGED <<unchangedByClient, receipts>>

\* The owner cancels (or drops the receipt); the deadline passes.
Cancel(o) ==
    /\ ops[o].state \in {"lane", "queued"} /\ ops[o].doom # "cancelled"
    /\ ops' = [ops EXCEPT ![o].doom = "cancelled"]
    /\ UNCHANGED <<unchangedByClient, lane, receipts>>

DeadlinePasses(o) ==
    /\ ops[o].state \in {"lane", "queued"} /\ ops[o].doom = "none"
    /\ ops' = [ops EXCEPT ![o].doom = "expired"]
    /\ UNCHANGED <<unchangedByClient, lane, receipts>>

\* handle_link_endpoint_dispatch.  A bind whose receipt is gone is ignored.
\* (The check repeated after the reply was sent can only retire an endpoint
\* that the next handler to look at it would.)
DispatchBind ==
    /\ running /\ lane # <<>> /\ Head(lane).type = "bind"
    /\ LET b == Head(lane)
       IN  IF receipts[b.receipt].publication = 2
           THEN UNCHANGED <<unchangedByClient, receipts, ops>>
           ELSE /\ Bind(b.key, b.interface, b.owner, b.receipt)
                /\ UNCHANGED <<running, owners, closed_peers>>
    /\ lane' = Tail(lane)

DispatchSend ==
    /\ running /\ lane # <<>> /\ Head(lane).type = "send"
    /\ LET b == Head(lane)
           refused == [Nothing EXCEPT !.refuse = {b.op}]
       IN  CASE Doomed(b.op) ->
                  /\ ops' = [ops EXCEPT ![b.op].state = ops[b.op].doom]
                  /\ UNCHANGED <<interfaces, local_link_routes, destinations,
                                 link_endpoints, accepted, wire, dropped, events>>
             [] ~ Doomed(b.op) /\ Unpublished(b.key) ->
                  Commit([refused EXCEPT !.end = {b.key}])
             [] ~ Doomed(b.op) /\ ~ Unpublished(b.key) ->
                  IF /\ Current(b.key, b.generation)
                     /\ ~ link_endpoints[b.key].unbind_after_drain
                  THEN Transmit(b.key, b.op, b.valid, FALSE)
                  ELSE Commit(refused)
    /\ lane' = Tail(lane)
    /\ UNCHANGED unchangedBySend

-----------------------------------------------------------------------------
(* Interfaces, in-process routes and the actor's end.                      *)

unchangedByDriver == <<actorVars, local_link_routes, destinations,
                       link_endpoints, lane, receipts, ops>>

\* A driver's queue closes or its local client goes offline (the effect is the
\* same, only the reason reported differs), or a producer retires its
\* registration before the actor hears of it.
CloseTx(i) ==
    /\ i \in DOMAIN interfaces /\ interfaces[i].status = "up"
    /\ interfaces' = [interfaces EXCEPT ![i].status = "closed"]
    /\ UNCHANGED <<unchangedByDriver, owners, closed_peers>>

RetireOwner(i) ==
    /\ i \in DOMAIN interfaces /\ interfaces[i].status # "retired"
    /\ interfaces' = [interfaces EXCEPT ![i].status = "retired"]
    /\ UNCHANGED <<unchangedByDriver, owners, closed_peers>>

\* The queue an in-process endpoint sends to is closed.
ClosePeer(key) ==
    /\ key \notin closed_peers /\ LinkOf[key] \in local_link_routes
    /\ closed_peers' = closed_peers \cup {key}
    /\ UNCHANGED <<unchangedByDriver, interfaces, owners>>

\* RegisterInterface with a newer registration replaces the entry.
Replaced(i) == {k \in Bound : link_endpoints[k].interface = i}

RegisterInterface(i) ==
    /\ running /\ owners < MaxOwners
    /\ owners' = owners + 1
    /\ Apply([Nothing EXCEPT !.end = Replaced(i)])
    /\ interfaces' = [j \in DOMAIN interfaces \cup {i} |->
         IF j = i THEN [owner |-> owners + 1, status |-> "up"] ELSE interfaces[j]]
    /\ UNCHANGED <<running, closed_peers, generations, lane, receipts>>

\* DeregisterInterface, or any other traffic that finds the queue closed.
DeregisterInterface(i) ==
    /\ running
    /\ i \in DOMAIN interfaces /\ interfaces[i].status # "retired"
    /\ Commit([Nothing EXCEPT !.drop = {i}])
    /\ UNCHANGED <<unchangedBySend, lane>>

\* The request of an in-process Link is delivered to its responder.
RouteLocalLink(link) ==
    /\ running
    /\ link \in (LocalLinks \cap destinations) \ local_link_routes
    /\ local_link_routes' = local_link_routes \cup {link}
    /\ UNCHANGED <<actorVars, interfaces, owners, closed_peers, destinations,
                   link_endpoints, lane, receipts, ops>>

\* DeregisterDestination for a Link's temporary destination.
DeregisterDestination(link) ==
    /\ running
    /\ link \in destinations
    /\ Commit([Nothing EXCEPT !.release = {link}])
    /\ UNCHANGED <<unchangedBySend, lane>>

\* terminate_shared_peer_link_endpoints: the shared instance was lost or came
\* back on interface i.
SharedConnectionChanged(i) ==
    /\ running
    /\ i \in DOMAIN interfaces
    /\ End(Replaced(i))
    /\ UNCHANGED <<unchangedBySend, lane>>

OnShutdown ==
    /\ running
    /\ running' = FALSE
    /\ End(Bound)
    /\ UNCHANGED <<owners, closed_peers, generations, receipts, lane>>

-----------------------------------------------------------------------------
Same == UNCHANGED instance

Next ==
    \/ \E key \in Keys, valid, final \in BOOLEAN :
         SendLinkEndpoint(key, valid, final) /\ Same
    \/ \E key \in Keys : SendLinkEndpointBestEffort(key) /\ Same
    \/ \E r \in DOMAIN receipts, valid \in BOOLEAN :
         SendLinkEndpointExact(r, valid) /\ Same
    \/ \E key \in Keys, i \in Interfaces \cup {Local}, owner \in 0 .. owners :
         BindLinkEndpoint(key, i, owner) /\ Same
    \/ \E key \in Keys : UnbindLinkEndpoint(key) /\ Same
    \/ \E key \in Keys, i \in Interfaces \cup {Local}, owner \in 0 .. owners :
         TryBind(key, i, owner) /\ Same
    \/ \E r \in DOMAIN receipts : TakeReply(r) /\ Same
    \/ \E r \in DOMAIN receipts : DropReceipt(r) /\ Same
    \/ \E r \in DOMAIN receipts, valid \in BOOLEAN : TrySend(r, valid) /\ Same
    \/ \E o \in DOMAIN ops : Cancel(o) /\ Same
    \/ \E o \in DOMAIN ops : DeadlinePasses(o) /\ Same
    \/ DispatchBind /\ Same
    \/ DispatchSend /\ Same
    \/ OnTick /\ Same
    \/ \E i \in Interfaces : CloseTx(i) /\ Same
    \/ \E i \in Interfaces : RetireOwner(i) /\ Same
    \/ \E i \in Interfaces : RegisterInterface(i) /\ Same
    \/ \E i \in Interfaces : DeregisterInterface(i) /\ Same
    \/ \E i \in Interfaces : SharedConnectionChanged(i) /\ Same
    \/ \E key \in Keys : ClosePeer(key) /\ Same
    \/ \E link \in Links : RouteLocalLink(link) /\ Same
    \/ \E link \in Links : DeregisterDestination(link) /\ Same
    \/ OnShutdown /\ Same

Spec == Init /\ [][Next]_vars

-----------------------------------------------------------------------------
(* Properties.                                                             *)

TypeOK ==
    /\ running \in BOOLEAN
    /\ DOMAIN interfaces \subseteq Interfaces
    /\ \A i \in DOMAIN interfaces :
         interfaces[i] \in [owner : Nat, status : {"up", "closed", "retired"}]
    /\ owners \in Nat /\ generations \in 0 .. MaxGenerations
    /\ closed_peers \subseteq Keys
    /\ local_link_routes \subseteq Links /\ destinations \subseteq Links
    /\ Bound \subseteq Keys
    /\ \A k \in Bound : link_endpoints[k] \in Entry
    /\ receipts \in Seq([key : Keys, publication : 0 .. 2,
                         reply : {NoReply, Refused} \cup Nat])
    /\ ops \in Seq(Operation)
    /\ accepted \in [Generations -> Nat]
    /\ wire \in [Generations -> Seq(Queued)]
    /\ dropped \in [Generations -> Nat]
    /\ events \in [Generations -> Nat]

\* "retained per Link and retried in FIFO order": an interface takes the
\* packets of an endpoint in the order the actor accepted them, whichever way
\* they were sent, and what waits comes after what has gone.
Ascending(s) == \A i, j \in DOMAIN s : i < j => s[i].n < s[j].n
FifoOrder ==
    /\ \A g \in Generations : Ascending(wire[g])
    /\ \A k \in Bound : Ascending(wire[link_endpoints[k].generation]
                                    \o link_endpoints[k].egress)

\* No packet an endpoint accepted disappears: it was taken by the interface,
\* still waits, was withdrawn by its own expiry or cancellation, or is counted
\* in the dropped_packets of the endpoint's terminal event.
NoPacketUnaccounted ==
    \A g \in 1 .. generations :
        LET live      == {k \in Bound : link_endpoints[k].generation = g}
            waiting   == IF live = {} THEN 0
                         ELSE Len(link_endpoints[CHOOSE k \in live : TRUE].egress)
            withdrawn == {o \in DOMAIN ops :
                            /\ ops[o].generation = g /\ ops[o].held
                            /\ ops[o].state \in {"expired", "cancelled"}}
        IN  accepted[g] = Len(wire[g]) + waiting + dropped[g] + Cardinality(withdrawn)

\* A receipt says Sent exactly when the interface took the packet, and an
\* operation without an outcome is in the lane or in exactly one live queue.
ReceiptsAreExact ==
    \A o \in DOMAIN ops :
        /\ ops[o].state = "sent" <=>
             \E g \in Generations : \E j \in DOMAIN wire[g] : wire[g][j].op = o
        /\ ops[o].state = "queued" <=>
             \E k \in Bound : o \in Operations(link_endpoints[k].egress)

\* "Complete one endpoint owner exactly once": every binding that ended sent
\* one lifecycle event, one that lives sent none.
OneLifecycleEvent ==
    \A g \in Generations :
        events[g] = IF g <= generations /\ ~ \E k \in Bound : link_endpoints[k].generation = g
                    THEN 1 ELSE 0

\* "A later bind with the same Link ID, role and interface cannot revive an
\* old token": a packet goes out under the generation its token was for.
TokensAreExact ==
    \A g \in Generations : \A j \in DOMAIN wire[g] :
        wire[g][j].op # 0 => ops[wire[g][j].op].generation = g

\* A bound endpoint stands for the very registration it was bound to, or for a
\* route that exists: its packets never leave through a replacement.
BoundToRegistration ==
    \A k \in Bound :
        LET e == link_endpoints[k]
        IN  IF e.interface = Local THEN LinkOf[k] \in local_link_routes
            ELSE /\ e.interface \in DOMAIN interfaces
                 /\ interfaces[e.interface].owner = e.owner

\* The final packet is the last: an endpoint that waits for it accepts nothing,
\* and when it ends, however it does, its temporary destination goes too.
FinalIsLast ==
    \A k \in Bound :
        LET e == link_endpoints[k]
        IN  e.unbind_after_drain =>
              /\ accepted'[e.generation] = accepted[e.generation]
              /\ \/ k \in Bound' /\ link_endpoints'[k].generation = e.generation
                 \/ LinkOf[k] \notin destinations'

\* Dropping an unread bind receipt, also one whose reply is ready or is being
\* made, unbinds the endpoint: no tick of the actor leaves an endpoint bound
\* whose token nobody can hold.
DroppedBindIsRetired ==
    (\E k \in Bound' : /\ link_endpoints'[k].receipt # 0
                       /\ receipts'[link_endpoints'[k].receipt].publication = 2)
      => ~ OnTick

\* A packet operation that was cancelled or expired is answered by the next
\* tick, although the interface stays full for ever and packets nobody waits
\* for are ahead of it.
OperationsConclude ==
    (\E o \in DOMAIN ops : ops'[o].state = "queued" /\ Doomed(o)) => ~ OnTick

\* The queues of well-typed endpoints lose no packet and answer every receipt
\* truly.
PacketsAccounted == TypeOK /\ NoPacketUnaccounted /\ ReceiptsAreExact

\* An endpoint lives with its registration or route, and its end is told once.
EndpointsOwned == OneLifecycleEvent /\ BoundToRegistration

\* The queues and the endpoints are exact: order, accounting, receipts, tokens
\* and lifecycle events.
EndpointsSound == PacketsAccounted /\ FifoOrder /\ TokensAreExact /\ EndpointsOwned

\* A tick leaves neither an abandoned endpoint nor a doomed operation behind,
\* and nothing follows a final packet.
ConcludingStep == DroppedBindIsRetired /\ OperationsConclude /\ FinalIsLast
TicksConclude == [][ConcludingStep]_vars
=============================================================================
