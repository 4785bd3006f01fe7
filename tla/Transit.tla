------------------------------ MODULE Transit -------------------------------
(***************************************************************************)
(* How packets cross relays: the packet filter and the hash list of        *)
(* on_inbound_inner, process_data, process_link_request, process_proof and *)
(* route_link_packet_via_link_table of rns-transport/src/actor/inbound.rs, *)
(* with link_table.rs, reverse_table.rs and hashlist.rs, on a network of   *)
(* radios.                                                                 *)
(*                                                                         *)
(* One end sends a packet that the other proves, or opens a Link to it     *)
(* over which both then send.  All nodes in reach of a radio hear what is  *)
(* sent on it; packets overtake each other, and may miss any of the nodes  *)
(* in reach.  A packet keeps its hash when its hop count and its next hop  *)
(* change.  Deadlines are nondeterministic: time may pass in any step.     *)
(***************************************************************************)
EXTENDS Integers, FiniteSets

CONSTANTS
    Nodes,         \* the nodes
    Initiator,     \* the end that sends packets and opens the Link
    Responder,     \* the end whose destination they are for
    Radios,        \* the radios, which name a node's interfaces
    Networks,      \* the networks considered
    PATHFINDER_M,  \* the hop count from which packets are dropped
    HASHLIST_HALF  \* hashes in a generation of the hash list

Ends == {Initiator, Responder}
Relays == Nodes \ Ends

\* next = Responder with hops = 1: the destination itself is next.
Routes == [state : {"none", "live"}, radio : Radios, next : Nodes, hops : Nat]

Kinds == {"loss", "full", "timeout", "cull", "rotate", "churn", "retire", "reroute"}

\* A network: who hears whom on which radio, the path of every node to the
\* responder, paths that a node may learn later, what the ends do, the faults
\* that may occur, and how many of them.
TransitAssumption ==
    /\ Initiator \in Nodes /\ Responder \in Nodes /\ Initiator # Responder
    /\ \A x \in Networks :
          /\ x.reach \subseteq Nodes \X Nodes \X Radios
          /\ x.path \in [Nodes -> Routes]
          /\ x.later \subseteq Nodes \X Routes
          /\ x.talk \subseteq [from : Ends, context : {"none", "channel"}]
          /\ x.data \in BOOLEAN
          /\ x.kinds \subseteq Kinds /\ x.faults \in Nat
    /\ PATHFINDER_M \in Nat /\ HASHLIST_HALF \in Nat \ {0}

VARIABLES
    net,       \* the network
    path,      \* path_table
    current,   \* packet_hashlist.current
    previous,  \* packet_hashlist.previous
    links,     \* link_table: each node's entry for the Link
    reverse,   \* reverse_table: each node's entry for the packet
    retired,   \* interfaces whose driver has gone, not yet deregistered
    session,   \* the initiator's Link
    bound,     \* the interfaces the ends' Links are bound to
    receipt,   \* the initiator's receipt for the packet
    due,       \* what the ends' applications have been handed and must answer
    said,      \* packets of the Link sent by its ends
    air,       \* packets on their way to a node
    upset,     \* the faults so far
    handed,    \* (ghost) what a node has handed to its end of the Link
    relayed,   \* (ghost) what a node has sent on
    again,     \* (ghost) what a node has handed over or sent on repeatedly
    forgotten  \* (ghost) what a node's hash list has dropped

tables == <<path, links, reverse, retired>>
ends == <<session, bound, receipt, due, said>>
hashes == <<current, previous, forgotten>>
ghosts == <<handed, relayed, again>>
vars == <<net, tables, hashes, ends, air, upset, ghosts>>

\* What a packet's hash covers.  An "lrproof" is the proof of the "request", a
\* "proof" that of the "data"; "link" packets go either way over the Link, and
\* those of a Channel may repeat.
Packets ==
    [type : {"data", "proof", "request", "lrproof", "link"}, from : Ends,
     context : {"none", "channel", "rtt"}]
Packet(type, from, context) ==
    [type |-> type, from |-> from, context |-> context]

Airborne ==
    [at : Nodes, radio : Radios, what : Packets, to : Nodes \cup {"any"}, hops : Nat]

\* "local": the entry that RegisterLink makes for the responder's own Link.
\* "late": a pending entry after its proof_timeout.
LinkEntries ==
    [state : {"none", "pending", "late", "validated", "local"},
     out : Radios \cup {"-"}, in : Radios \cup {"-"}, remaining : Nat, taken : Nat]
NoLink ==
    [state |-> "none", out |-> "-", in |-> "-", remaining |-> 0, taken |-> 0]
NoReverse == [state |-> "none", out |-> "-", in |-> "-"]

Hears(n, radio) == {m \in Nodes : <<n, m, radio>> \in net.reach}

Fault(kind) ==
    /\ kind \in net.kinds /\ upset.count < net.faults
    /\ upset' = [kinds |-> upset.kinds \cup {kind}, count |-> upset.count + 1]

\* adjusted_inbound_hops.
\* Mutant: the count stops short of the limit.
AdjustedCapped(hops) == IF hops + 1 < PATHFINDER_M THEN hops + 1 ELSE hops
Adjusted(hops) == hops + 1

\* send_to_interface when the interface takes the packet: it reaches the nodes
\* that hear the sender, or in a lossy network any part of them.
Transmit(rest, n, radio, what, to, hops) ==
    \E nodes \in IF "loss" \in net.kinds THEN SUBSET Hears(n, radio)
                 ELSE {Hears(n, radio)} :
        /\ air' = rest \cup {[at |-> k, radio |-> radio, what |-> what, to |-> to,
                              hops |-> hops] : k \in nodes}
        /\ \/ nodes = Hears(n, radio) /\ UNCHANGED upset
           \/ nodes # Hears(n, radio) /\ Fault("loss")

\* A relay sends m on.  The interface may be gone, or its queue full.
SendOn(m, radio, to, sent) ==
    LET rest == air \ {m}
        n == m.at
    IN \/ /\ sent /\ radio \notin retired[n]
          /\ Transmit(rest, n, radio, m.what, to, Adjusted(m.hops))
          /\ relayed' = [relayed EXCEPT ![n] = @ \cup {m.what}]
          /\ again' = IF m.what \in relayed[n] THEN again \cup {<<n, m.what>>} ELSE again
          /\ UNCHANGED handed
       \/ /\ ~sent /\ air' = rest
          /\ IF radio \in retired[n] THEN UNCHANGED upset ELSE Fault("full")
          /\ UNCHANGED ghosts

\* m goes no further.
Drop(m) == air' = air \ {m} /\ UNCHANGED <<upset, ghosts>>

-----------------------------------------------------------------------------

(* The hash list *)

Known(n, what) == what \in current[n] \cup previous[n]

\* A full generation takes the place of the previous one.
Rotates(n) == Cardinality(current[n]) >= HASHLIST_HALF
Remember(n, what) ==
    IF Known(n, what) THEN UNCHANGED hashes
    ELSE /\ forgotten' = IF Rotates(n) THEN forgotten \cup ({n} \X previous[n]) ELSE forgotten
         /\ current' = [current EXCEPT ![n] =
                           IF Rotates(n) THEN {what} ELSE @ \cup {what}]
         /\ previous' = [previous EXCEPT ![n] =
                           IF Rotates(n) THEN current[n] ELSE @]

RepeatsAllowed(what) == what.context = "channel"
OfLink(what) == what.type \in {"lrproof", "link"}

\* Mutant: the packets of a relayed Link are looked up before they are claimed.
DeferredNever(n, what) == what.type = "request"
Deferred(n, what) ==
    \/ (OfLink(what) /\ links[n].state # "none")
    \/ what.type \in {"request", "lrproof"}

\* What on_inbound_inner lets through, and what it then enters in the list.
Admitted(n, m) ==
    /\ m.radio \notin retired[n]
    /\ m.hops < PATHFINDER_M
    /\ m.to \in {n, "any"}
    /\ \/ RepeatsAllowed(m.what)
       \/ Deferred(n, m.what)
       \/ ~Known(n, m.what)
Enter(n, what) ==
    IF RepeatsAllowed(what) \/ Deferred(n, what)
    THEN UNCHANGED hashes ELSE Remember(n, what)

-----------------------------------------------------------------------------

(* What a node does with a packet that reaches it *)

\* Early returns of on_inbound_inner.
Filter(m) ==
    /\ ~Admitted(m.at, m)
    /\ Drop(m) /\ UNCHANGED <<net, tables, hashes, ends>>

\* transport_forward_candidate: the packet names this relay and there is a path.
Forwards(m) == m.at \in Relays /\ m.to = m.at /\ path[m.at].state = "live"
NextHop(n) == IF path[n].hops > 1 THEN path[n].next ELSE "any"

\* process_data: the destination's application is handed the packet, a relay
\* notes the way back and sends it on.
ReceiveData(m, sent) ==
    LET n == m.at
        p == path[n]
    IN /\ m.what.type = "data" /\ Admitted(n, m)
       /\ Enter(n, m.what)
       /\ \/ /\ n = Responder
             /\ due' = due \cup {[act |-> "prove", radio |-> m.radio]}
             /\ Drop(m) /\ UNCHANGED <<tables, session, bound, receipt, said>>
          \/ /\ n # Responder /\ Forwards(m)
             /\ reverse' = [reverse EXCEPT ![n] =
                               [state |-> "live", out |-> p.radio, in |-> m.radio]]
             /\ SendOn(m, p.radio, NextHop(n), sent)
             /\ UNCHANGED <<path, links, retired, ends>>
          \/ /\ n # Responder /\ ~Forwards(m)
             /\ Drop(m) /\ UNCHANGED <<tables, ends>>
       /\ UNCHANGED net

\* process_proof for the proof of a packet: the sender's receipt is settled; a
\* relay consumes the way back, and uses it if the proof came the right way.
ReceiveProof(m, sent) ==
    LET n == m.at
        r == reverse[n]
    IN /\ m.what.type = "proof" /\ Admitted(n, m)
       /\ Enter(n, m.what)
       /\ receipt' = IF n = Initiator /\ receipt = "sent" THEN "delivered" ELSE receipt
       /\ reverse' = [reverse EXCEPT ![n] = NoReverse]
       /\ IF n \in Relays /\ r.state = "live" /\ r.out = m.radio
          THEN SendOn(m, r.in, "any", sent) ELSE Drop(m)
       /\ UNCHANGED <<net, path, links, retired, session, bound, due, said>>

\* process_link_request: a relay enters the Link once the request is sent.
ReceiveRequest(m, sent) ==
    LET n == m.at
        p == path[n]
        entry == [state |-> "pending", out |-> p.radio, in |-> m.radio,
                  remaining |-> p.hops, taken |-> Adjusted(m.hops)]
        admits == Forwards(m) /\ links[n].state = "none"
    IN /\ m.what.type = "request" /\ Admitted(n, m)
       /\ Enter(n, m.what)
       /\ \/ /\ n = Responder
             /\ due' = due \cup {[act |-> "accept", radio |-> m.radio]}
             /\ Drop(m) /\ UNCHANGED <<links, session, bound, receipt, said>>
          \/ /\ n # Responder /\ admits
             /\ SendOn(m, p.radio, NextHop(n), sent)
             /\ links' = IF sent THEN [links EXCEPT ![n] = entry] ELSE links
             /\ UNCHANGED ends
          \/ /\ n # Responder /\ ~admits
             /\ Drop(m) /\ UNCHANGED <<links, ends>>
       /\ UNCHANGED <<net, path, reverse, retired>>

\* link_registration_is_current
Registered(n) == links[n].out \notin retired[n] /\ links[n].in \notin retired[n]

\* process_proof for the proof of a Link request.  The initiator takes it from
\* an interface on which its request went out.
ReceiveLinkProof(m, sent) ==
    LET n == m.at
        l == links[n]
        claims == /\ n \in Relays /\ l.state \in {"pending", "validated"}
                  /\ Adjusted(m.hops) = l.remaining /\ m.radio = l.out
                  /\ Registered(n) /\ ~Known(n, m.what)
        awaited == /\ n = Initiator /\ session[n] = "requested"
                   /\ m.radio \in bound[n]
    IN /\ m.what.type = "lrproof" /\ Admitted(n, m)
       /\ \/ /\ claims
             /\ Remember(n, m.what)
             /\ SendOn(m, l.in, "any", sent)
             /\ links' = IF sent THEN [links EXCEPT ![n].state = "validated"] ELSE links
             /\ UNCHANGED <<session, bound, due>>
          \/ /\ awaited
             /\ session' = [session EXCEPT ![n] = "up"]
             /\ bound' = [bound EXCEPT ![n] = {m.radio}]
             /\ due' = due \cup {[act |-> "rtt", radio |-> m.radio]}
             /\ Drop(m) /\ UNCHANGED <<hashes, links>>
          \/ /\ ~claims /\ ~awaited
             /\ Drop(m) /\ UNCHANGED <<hashes, links, session, bound, due>>
       /\ UNCHANGED <<net, path, reverse, retired, receipt, said>>

\* The interface route_link_packet_via_link_table sends m on, if any.
Onward(m) ==
    LET l == links[m.at]
        hops == Adjusted(m.hops)
    IN IF l.in = l.out
       THEN {r \in {l.out} : hops \in {l.remaining, l.taken}}
       ELSE {r \in {l.out} : m.radio = l.in /\ hops = l.taken}
            \cup {r \in {l.in} : m.radio = l.out /\ hops = l.remaining}
RoutesLink(m) ==
    /\ m.at \in Relays /\ links[m.at].state \in {"pending", "validated"}
    /\ Registered(m.at) /\ Onward(m) # {}
    /\ RepeatsAllowed(m.what) \/ ~Known(m.at, m.what)
Note(m) == IF RepeatsAllowed(m.what) THEN UNCHANGED hashes ELSE Remember(m.at, m.what)

\* A packet of the Link, at a relay and at one of its ends.
RouteLinkPacket(m, sent) ==
    /\ m.what.type = "link" /\ Admitted(m.at, m) /\ m.at \in Relays
    /\ IF RoutesLink(m)
       THEN /\ Note(m)
            /\ \E radio \in Onward(m) : SendOn(m, radio, "any", sent)
       ELSE Enter(m.at, m.what) /\ Drop(m)
    /\ UNCHANGED <<net, tables, ends>>

HandOver(m) ==
    LET n == m.at
        mine == session[n] \in {"handshake", "up"}
    IN /\ m.what.type = "link" /\ Admitted(n, m) /\ n \in Ends
       /\ Enter(n, m.what)
       /\ air' = air \ {m}
       /\ handed' = IF mine THEN [handed EXCEPT ![n] = @ \cup {m.what}] ELSE handed
       /\ again' = IF mine /\ m.what \in handed[n] THEN again \cup {<<n, m.what>>} ELSE again
       /\ session' = IF n = Responder /\ mine /\ m.what.context = "rtt"
                     THEN [session EXCEPT ![n] = "up"] ELSE session
       /\ UNCHANGED <<net, tables, bound, receipt, due, said, upset, relayed>>

-----------------------------------------------------------------------------

(* The ends *)

\* on_outbound: along the path, or on every interface.
Outbound(what) ==
    LET p == path[Initiator]
        heard == {h \in net.reach : h[1] = Initiator}
    IN /\ Remember(Initiator, what)
       /\ IF p.state = "live"
          THEN Transmit(air, Initiator, p.radio, what, NextHop(Initiator), 0)
          ELSE /\ air' = air \cup {[at |-> h[2], radio |-> h[3], what |-> what,
                                    to |-> "any", hops |-> 0] : h \in heard}
               /\ UNCHANGED upset

SendData ==
    /\ net.data /\ receipt = "none"
    /\ receipt' = "sent"
    /\ Outbound(Packet("data", Initiator, "none"))
    /\ UNCHANGED <<net, tables, session, bound, due, said, ghosts>>

RequestLink ==
    /\ net.talk # {} /\ session[Initiator] = "none"
    /\ session' = [session EXCEPT ![Initiator] = "requested"]
    /\ bound' = [bound EXCEPT ![Initiator] =
                    IF path[Initiator].state = "live" THEN {path[Initiator].radio}
                    ELSE {r \in Radios : Hears(Initiator, r) # {}}]
    /\ Outbound(Packet("request", Initiator, "none"))
    /\ UNCHANGED <<net, tables, receipt, due, said, ghosts>>

\* on_outbound_attached and the Link endpoints: on the given interface.
Attached(n, radio, what) ==
    /\ Remember(n, what)
    /\ Transmit(air, n, radio, what, "any", 0)

\* The destination's application proves the packet.
Prove(d) ==
    /\ d \in due /\ d.act = "prove"
    /\ due' = due \ {d}
    /\ Attached(Responder, d.radio, Packet("proof", Responder, "none"))
    /\ UNCHANGED <<net, tables, session, bound, receipt, said, ghosts>>

\* The responder takes the Link, registers it and proves the request.  A
\* repeated request is ignored.
Accept(d) ==
    /\ d \in due /\ d.act = "accept"
    /\ due' = due \ {d}
    /\ IF session[Responder] = "none"
       THEN /\ session' = [session EXCEPT ![Responder] = "handshake"]
            /\ bound' = [bound EXCEPT ![Responder] = {d.radio}]
            /\ links' = [links EXCEPT ![Responder] =
                            [NoLink EXCEPT !.state = "local", !.out = d.radio,
                                           !.in = d.radio]]
            /\ Attached(Responder, d.radio, Packet("lrproof", Responder, "none"))
       ELSE UNCHANGED <<session, bound, links, hashes, air, upset>>
    /\ UNCHANGED <<net, path, reverse, retired, receipt, said, ghosts>>

\* The initiator measures the round trip.
Confirm(d) ==
    /\ d \in due /\ d.act = "rtt"
    /\ due' = due \ {d}
    /\ Attached(Initiator, d.radio, Packet("link", Initiator, "rtt"))
    /\ UNCHANGED <<net, tables, session, bound, receipt, said, ghosts>>

\* An end sends a packet over the Link.
Speak(t) ==
    LET what == Packet("link", t.from, t.context)
    IN /\ t \in net.talk /\ what \notin said
       /\ session[t.from] = "up"
       /\ said' = said \cup {what}
       /\ \E radio \in bound[t.from] : Attached(t.from, radio, what)
       /\ UNCHANGED <<net, tables, session, bound, receipt, due, ghosts>>

\* The initiator's deadline for the proof passes.
GiveUp ==
    /\ session[Initiator] = "requested"
    /\ Fault("timeout")
    /\ session' = [session EXCEPT ![Initiator] = "closed"]
    /\ UNCHANGED <<net, tables, hashes, bound, receipt, due, said, air, ghosts>>

-----------------------------------------------------------------------------

(* Time, drivers and routes *)

\* The proof_timeout of a pending entry passes; cull_stale removes such entries,
\* and validated ones that have been idle for LINK_TIMEOUT.
Overdue(n) ==
    /\ links[n].state = "pending" /\ Fault("cull")
    /\ links' = [links EXCEPT ![n].state = "late"]
    /\ UNCHANGED <<net, path, reverse, retired, hashes, ends, air, ghosts>>
CullLink(n) ==
    /\ \/ links[n].state = "late" /\ UNCHANGED upset
       \/ links[n].state \in {"validated", "local"} /\ Fault("cull")
    /\ links' = [links EXCEPT ![n] = NoLink]
    /\ UNCHANGED <<net, path, reverse, retired, hashes, ends, air, ghosts>>
CullReverse(n) ==
    /\ reverse[n].state = "live" /\ Fault("cull")
    /\ reverse' = [reverse EXCEPT ![n] = NoReverse]
    /\ UNCHANGED <<net, path, links, retired, hashes, ends, air, ghosts>>

\* force_rotate, when the cache is cleaned.
Rotate(n) ==
    /\ n \in Relays /\ current[n] \cup previous[n] # {}
    /\ IF "churn" \in net.kinds THEN UNCHANGED upset ELSE Fault("rotate")
    /\ forgotten' = forgotten \cup ({n} \X previous[n])
    /\ previous' = [previous EXCEPT ![n] = current[n]]
    /\ current' = [current EXCEPT ![n] = {}]
    /\ UNCHANGED <<net, tables, ends, air, ghosts>>

\* A driver goes; its successor registers, and deregister_interface takes down
\* what used the interface, except the ways back.
Retire(n, radio) ==
    /\ n \in Relays /\ Hears(n, radio) # {} /\ radio \notin retired[n]
    /\ Fault("retire")
    /\ retired' = [retired EXCEPT ![n] = @ \cup {radio}]
    /\ UNCHANGED <<net, path, links, reverse, hashes, ends, air, ghosts>>
Reregister(n, radio) ==
    /\ radio \in retired[n]
    /\ retired' = [retired EXCEPT ![n] = @ \ {radio}]
    /\ links' = IF radio \in {links[n].out, links[n].in}
                THEN [links EXCEPT ![n] = NoLink] ELSE links
    /\ path' = IF path[n].radio = radio
               THEN [path EXCEPT ![n].state = "none"] ELSE path
    /\ UNCHANGED <<net, reverse, hashes, ends, air, upset, ghosts>>

\* process_announce replaces the path.
Reroute(n, route) ==
    /\ <<n, route>> \in net.later /\ path[n] # route
    /\ Fault("reroute")
    /\ path' = [path EXCEPT ![n] = route]
    /\ UNCHANGED <<net, links, reverse, retired, hashes, ends, air, ghosts>>

-----------------------------------------------------------------------------

Init ==
    /\ net \in Networks
    /\ path = net.path
    /\ current = [n \in Nodes |-> {}] /\ previous = [n \in Nodes |-> {}]
    /\ links = [n \in Nodes |-> NoLink]
    /\ reverse = [n \in Nodes |-> NoReverse]
    /\ retired = [n \in Nodes |-> {}]
    /\ session = [e \in Ends |-> "none"]
    /\ bound = [e \in Ends |-> {}]
    /\ receipt = "none" /\ due = {} /\ said = {} /\ air = {}
    /\ upset = [kinds |-> {}, count |-> 0]
    /\ handed = [n \in Ends |-> {}] /\ relayed = [n \in Relays |-> {}]
    /\ again = {} /\ forgotten = {}

Receive ==
    \E m \in air :
        \/ Filter(m) \/ HandOver(m)
        \/ \E sent \in IF net.kinds \cap {"full", "retire"} = {} THEN {TRUE} ELSE BOOLEAN :
              \/ ReceiveData(m, sent) \/ ReceiveProof(m, sent)
              \/ ReceiveRequest(m, sent) \/ ReceiveLinkProof(m, sent)
              \/ RouteLinkPacket(m, sent)

Answer == \E d \in due : Prove(d) \/ Accept(d) \/ Confirm(d)

Disturb ==
    \/ GiveUp
    \/ \E n \in Nodes :
          \/ Overdue(n) \/ CullLink(n) \/ CullReverse(n) \/ Rotate(n)
          \/ \E radio \in Radios : Retire(n, radio) \/ Reregister(n, radio)
    \/ \E x \in net.later : Reroute(x[1], x[2])

Next == SendData \/ RequestLink \/ (\E t \in net.talk : Speak(t)) \/ Receive \/ Answer \/ Disturb

Spec == Init /\ [][Next]_vars

\* The actor handles what reaches it.
FairSpec == Spec /\ WF_vars(Receive)

-----------------------------------------------------------------------------

\* The type invariant.
TypeOK ==
    /\ net \in Networks /\ path \in [Nodes -> Routes]
    /\ \A n \in Nodes : current[n] \subseteq Packets /\ previous[n] \subseteq Packets
    /\ links \in [Nodes -> LinkEntries]
    /\ \A n \in Nodes : reverse[n].state \in {"none", "live"} /\ retired[n] \subseteq Radios
    /\ session \in [Ends -> {"none", "requested", "handshake", "up", "closed"}]
    /\ bound \in [Ends -> SUBSET Radios]
    /\ receipt \in {"none", "sent", "delivered"}
    /\ due \subseteq [act : {"prove", "accept", "rtt"}, radio : Radios]
    /\ said \subseteq Packets /\ air \subseteq Airborne
    /\ upset \in [kinds : SUBSET Kinds, count : Nat]
    /\ \A x \in again \cup forgotten : x[1] \in Nodes /\ x[2] \in Packets

Quiet == air = {} /\ due = {}

\* Where nothing is lost and no route changes, the packet or the request reaches
\* its destination and the proof comes back to the sender, whatever else the
\* relays overhear on the way (the filter of on_inbound_inner, reverse_table,
\* link_table).
ProofsReturn ==
    (Quiet /\ upset.kinds = {}) => receipt # "sent" /\ session[Initiator] # "requested"

\* Once the initiator has the proof of its request, every packet sent over the
\* Link reaches the other end, in both directions, although paths change and
\* relays overhear each other: the entries made on the way out agree with the
\* way the proof has come back (route_link_packet_via_link_table).
EstablishedWorks ==
    (Quiet /\ upset.kinds \subseteq {"reroute", "rotate"}) =>
        \A what \in said : what \in handed[CHOOSE e \in Ends : e # what.from]

\* No node sends a packet on twice, or hands it over twice, even if the paths
\* form a loop, as long as its hash list remembers it (PacketHashlist).  The
\* exceptions: packets of a Channel, a request whose entry has been removed, and
\* the responder's Link, whose packets are not looked up.
HandledOnce ==
    /\ TypeOK
    /\ \A x \in again :
           \/ x \in forgotten
           \/ x[2].context = "channel"
           \/ x[2].type = "request" /\ upset.kinds \cap {"cull", "retire"} # {}
           \/ x[1] = Responder /\ x[2].type = "link"

\* Relays bring a packet to its destination and the proof back, once each.
RelaysSound == ProofsReturn /\ EstablishedWorks /\ HandledOnce

\* What circulates dies out, even where paths form a loop and hash lists forget:
\* the hop count grows until the packet is dropped (adjusted_inbound_hops).
LoopsDie == <>[](air = {})

=============================================================================
