------------------------------- MODULE Paths --------------------------------
(***************************************************************************)
(* How transport nodes learn, keep and lose their path to one destination: *)
(* process_announce, handle_inbound_path_request and the announce part of  *)
(* on_tick of rns-transport/src/actor, with path_table.rs, announce.rs and *)
(* the recursive discovery they share, on a network of point-to-point      *)
(* interfaces.                                                             *)
(*                                                                         *)
(* An announce is its random blob: the second in which it was emitted and  *)
(* a number that no other announce has.  A packet is on the air from the   *)
(* moment it is admitted for egress; packets overtake each other, and in a *)
(* lossy network one may reach any part of the neighbours it was meant     *)
(* for.  What the egress queue drops as obsolete is not put on the air.    *)
(* Deadlines are nondeterministic: a deadline may pass in any step that    *)
(* reads it.                                                               *)
(***************************************************************************)
EXTENDS Integers, Sequences

CONSTANTS
    Nodes,                  \* the nodes, all with transport enabled
    Origin,                 \* the node whose local destination is announced
    Networks,               \* the networks considered
    PATHFINDER_M,           \* the hop count from which announces are dropped
    LOCAL_REBROADCASTS_MAX, \* neighbours' rebroadcasts that cancel ours
    MAX_RANDOM_BLOBS,       \* blobs remembered with a path
    PERSIST_RANDOM_BLOBS    \* blobs saved with a path

\* A network: its links, whether it loses packets, whether its interfaces limit
\* the rate of announces, which of its nodes ask for paths and which may lose
\* routes, the seconds that may pass between two emissions, and how many announces, path requests and faults are considered.
\* retries is PATHFINDER_R, 1 in the source.
PathsAssumption ==
    /\ Origin \in Nodes
    /\ \A x \in Networks :
          /\ x.links \subseteq Nodes \X Nodes
          /\ {x.lossy, x.limited} \subseteq BOOLEAN
          /\ x.elapsed \subseteq Nat
          /\ x.askers \cup x.frail \subseteq Nodes \ {Origin}
          /\ {x.announces, x.requests, x.faults, x.retries} \subseteq Nat
    /\ {PATHFINDER_M, LOCAL_REBROADCASTS_MAX} \subseteq Nat
    /\ {MAX_RANDOM_BLOBS, PERSIST_RANDOM_BLOBS} \subseteq Nat \ {0}

VARIABLES
    net,       \* the network
    path,      \* path_table: each node's path to the destination
    label,     \* path_table.states: its path-state label
    table,     \* announce_table: each node's entry for the destination
    held,      \* held_announces: the entry a path response has displaced
    tags,      \* discovery_pr_tags: request tags seen
    asked,     \* discovery_path_requests: neighbours waiting for a path
    air,       \* packets on their way
    clock,     \* the second of the latest emission
    emitted,   \* announces emitted
    requested, \* path requests made
    saved,     \* the path in each node's last routing snapshot
    pending,   \* pending_path_entries: a restored path without its interface
    faults,    \* faults so far
    disturbed  \* (ghost) the latest emission when a route was last lost

vars == <<net, path, label, table, held, tags, asked, air, clock, emitted,
          requested, saved, pending, faults, disturbed>>

Blobs == [time : Nat, id : Nat]
NoBlob == [time |-> 0, id |-> 0]

\* "none": no entry.  "expired": an entry past its deadline, not yet culled.
PathEntries ==
    [state : {"none", "live", "expired"}, via : Nodes, hops : Nat,
     blobs : Seq(Blobs), packet : Blobs]
NoPath ==
    [state |-> "none", via |-> Origin, hops |-> 0, blobs |-> <<>>, packet |-> NoBlob]

\* A "response" has block_rebroadcast set and goes to its attached interface.
AnnounceEntries ==
    [kind : {"none", "rebroadcast", "response"}, blob : Blobs, hops : Nat,
     retries : Nat, heard : Nat, to : Nodes]
NoEntry ==
    [kind |-> "none", blob |-> NoBlob, hops |-> 0, retries |-> 0, heard |-> 0,
     to |-> Origin]

Packets ==
    [kind : {"announce", "response", "request"}, from : Nodes, to : Nodes,
     blob : Blobs, hops : Nat, tag : Nat]

Announcement(kind, n, m, blob, hops) ==
    [kind |-> kind, from |-> n, to |-> m, blob |-> blob, hops |-> hops, tag |-> 0]
Request(n, m, tag) ==
    [kind |-> "request", from |-> n, to |-> m, blob |-> NoBlob, hops |-> 0, tag |-> tag]

Neighbours(n) == {m \in Nodes : <<n, m>> \in net.links \/ <<m, n>> \in net.links}

\* Which of the intended neighbours a packet reaches.  The owner drops its own
\* announces, so they are not followed there.
Reached(meant) == IF net.lossy THEN SUBSET meant ELSE {meant}
Others(n) == Neighbours(n) \ {Origin}

Init ==
    /\ net \in Networks
    /\ path = [n \in Nodes |-> NoPath]
    /\ label = [n \in Nodes |-> "unknown"]
    /\ table = [n \in Nodes |-> NoEntry]
    /\ held = [n \in Nodes |-> NoEntry]
    /\ tags = [n \in Nodes |-> {}]
    /\ asked = [n \in Nodes |-> {}]
    /\ air = {}
    /\ clock = 1
    /\ emitted = 0
    /\ requested = 0
    /\ saved = [n \in Nodes |-> NoPath]
    /\ pending = [n \in Nodes |-> NoPath]
    /\ faults = 0
    /\ disturbed = 0

-----------------------------------------------------------------------------
(* The origin *)

\* The owner announces, in the same second as before or in a later one.  The
\* announce leaves with zero hops.
Announce(elapsed, reached) ==
    /\ emitted < net.announces
    /\ LET blob == [time |-> clock + elapsed, id |-> emitted + 1]
       IN  air' = air \cup
                {Announcement("announce", Origin, m, blob, 0) : m \in reached}
    /\ clock' = clock + elapsed
    /\ emitted' = emitted + 1
    /\ UNCHANGED <<net, path, label, table, held, tags, asked, requested, saved,
                   pending, faults, disturbed>>

-----------------------------------------------------------------------------
(* process_announce *)

\* announce_emitted > path_timebase, and their equality.
Newer(p, b) == \A i \in DOMAIN p.blobs : b.time > p.blobs[i].time
Level(p, b) ==
    /\ \A i \in DOMAIN p.blobs : b.time >= p.blobs[i].time
    /\ ~Newer(p, b)

Seen(p, b) == \E i \in DOMAIN p.blobs : p.blobs[i] = b

\* Mutant: an announce of the same second also replaces the path.
ShouldAddLevel(p, state, b, hops) ==
    p.state = "none" \/ (~Seen(p, b) /\ \A i \in DOMAIN p.blobs : b.time >= p.blobs[i].time)

\* should_add for a path interface that is not suppressed.
ShouldAdd(p, state, b, hops) ==
    \/ p.state = "none"
    \/ /\ p.state # "none"
       /\ hops <= p.hops
       /\ ~Seen(p, b) /\ Newer(p, b)
    \/ /\ p.state # "none"
       /\ hops > p.hops
       /\ \/ (p.state = "expired" \/ Newer(p, b)) /\ ~Seen(p, b)
          \/ /\ p.state = "live" /\ Level(p, b)
             /\ state = "unresponsive"

\* The blobs kept with the path once b is among them.
Remember(blobs, b) ==
    IF \E i \in DOMAIN blobs : blobs[i] = b
    THEN blobs
    ELSE Append(IF Len(blobs) >= MAX_RANDOM_BLOBS THEN Tail(blobs) ELSE blobs, b)

\* What hearing an announce at this many hops leaves of our own entry: it is
\* dropped once enough neighbours have sent it on beside us, or, before its
\* next retransmission, once one has carried it further.
Heard(e, hops, early) ==
    IF e.kind = "none" \/ e.retries = 0 THEN e
    ELSE IF hops - 1 = e.hops THEN
        IF e.heard + 1 >= LOCAL_REBROADCASTS_MAX THEN NoEntry
        ELSE [e EXCEPT !.heard = @ + 1]
    ELSE IF hops - 1 = e.hops + 1 /\ early THEN NoEntry
    ELSE e

Learn(m, hops) ==
    [state |-> "live", via |-> m.from, hops |-> hops,
     blobs |-> Remember(path[m.to].blobs, m.blob), packet |-> m.blob]

Rebroadcast(m, hops) ==
    [kind |-> "rebroadcast", blob |-> m.blob, hops |-> hops, retries |-> 0,
     heard |-> 0, to |-> Origin]

\* An announce or a path response arrives.  A suppressed interface only
\* updates the entry; an installed path answers the
\* neighbours that asked for it, and an announce that is no response and not
\* blocked by its rate is queued for rebroadcast.
ReceiveAnnounce(m, early, suppressed, blocked, reached) ==
    LET n == m.to
        hops == m.hops + 1
        own == Heard(table[n], hops, early)
        add == ~suppressed /\ ShouldAdd(path[n], label[n], m.blob, hops)
    IN  /\ m \in air /\ m.kind # "request" /\ n # Origin
        /\ (blocked => net.limited) /\ (suppressed => n \in net.frail)
        /\ IF hops >= PATHFINDER_M
           THEN /\ air' = air \ {m}
                /\ UNCHANGED <<path, label, table, asked, disturbed>>
           ELSE IF ~add
           THEN /\ air' = air \ {m}
                /\ table' = [table EXCEPT ![n] = own]
                /\ UNCHANGED <<path, label, asked, disturbed>>
           ELSE /\ air' = (air \ {m}) \cup
                      {Announcement("response", n, w, m.blob, hops) : w \in reached}
                /\ table' = [table EXCEPT ![n] =
                      IF m.kind = "announce" /\ ~blocked /\ hops < PATHFINDER_M
                      THEN Rebroadcast(m, hops) ELSE own]
                /\ path' = [path EXCEPT ![n] = Learn(m, hops)]
                /\ label' = [label EXCEPT ![n] = "unknown"]
                /\ asked' = [asked EXCEPT ![n] = {}]
                /\ disturbed' = IF /\ path[n].state = "live" /\ Level(path[n], m.blob)
                                   /\ label[n] = "unresponsive"
                                THEN clock ELSE disturbed
        /\ UNCHANGED <<net, held, tags, clock, emitted, requested, saved, pending,
                       faults>>

-----------------------------------------------------------------------------
(* on_tick: due entries of the announce table *)

\* A rebroadcast goes to every neighbour, the one it came from included; the
\* egress queue lets it out while the live path still rests on its packet.
Retransmit(n, reached) ==
    LET e == table[n]
        current == path[n].state = "live" /\ path[n].packet = e.blob
    IN  /\ e.kind = "rebroadcast"
        /\ air' = IF current
                  THEN air \cup {Announcement("announce", n, m, e.blob, e.hops) :
                                    m \in reached}
                  ELSE air
        /\ table' = [table EXCEPT ![n] =
              IF e.retries + 1 > net.retries THEN NoEntry
              ELSE [e EXCEPT !.retries = @ + 1]]
        /\ UNCHANGED <<net, path, label, held, tags, asked, clock, emitted,
                       requested, saved, pending, faults, disturbed>>

\* Mutant: a response whose deadline has passed stays in the table.
RespondOrStay(n, reached) ==
    LET e == table[n]
    IN  /\ e.kind = "response" /\ reached # {}
        /\ air' = air \cup {Announcement("response", n, m, e.blob, e.hops) : m \in reached}
        /\ table' = [table EXCEPT ![n] = IF held[n].kind = "none" THEN e ELSE held[n]]
        /\ held' = [held EXCEPT ![n] = NoEntry]
        /\ UNCHANGED <<net, path, label, tags, asked, clock, emitted, requested,
                       saved, pending, faults, disturbed>>

\* A path response goes to the interface it was asked on (or misses its
\* deadline), and the entry it had displaced is put back.
Respond(n, reached) ==
    LET e == table[n]
    IN  /\ e.kind = "response"
        /\ air' = air \cup {Announcement("response", n, m, e.blob, e.hops) : m \in reached}
        /\ table' = [table EXCEPT ![n] = held[n]]
        /\ held' = [held EXCEPT ![n] = NoEntry]
        /\ UNCHANGED <<net, path, label, tags, asked, clock, emitted, requested,
                       saved, pending, faults, disturbed>>

-----------------------------------------------------------------------------
(* Path requests *)

\* A node asks all its neighbours, under a tag of its own.
AskForPath(n, reached) ==
    /\ n \in net.askers
    /\ requested < net.requests
    /\ requested' = requested + 1
    /\ air' = air \cup {Request(n, m, requested + 1) : m \in reached}
    /\ UNCHANGED <<net, path, label, table, held, tags, asked, clock, emitted,
                   saved, pending, faults, disturbed>>

\* The tag gate of handle_inbound_path_request.
Admit(m) ==
    /\ m \in air /\ m.kind = "request"
    /\ air' = air \ {m}
    /\ tags' = [tags EXCEPT ![m.to] = @ \cup {m.tag}]

IgnoreRequest(m) ==
    /\ m.tag \in tags[m.to]
    /\ Admit(m)
    /\ UNCHANGED <<net, path, label, table, held, asked, clock, emitted, requested,
                   saved, pending, faults, disturbed>>

\* The owner answers with an announce made for the request, in the interface
\* it came from, if its event channel has room.
AnswerAsOwner(m, elapsed, reached) ==
    /\ m \in air /\ m.kind = "request"
    /\ m.to = Origin /\ m.tag \notin tags[Origin]
    /\ reached \subseteq {m.from}
    /\ LET blob == [time |-> clock + elapsed, id |-> emitted + 1]
       IN  air' = (air \ {m}) \cup
                {Announcement("response", Origin, w, blob, 0) : w \in reached}
    /\ tags' = [tags EXCEPT ![Origin] = @ \cup {m.tag}]
    /\ clock' = clock + elapsed
    /\ emitted' = emitted + 1
    /\ UNCHANGED <<net, path, label, table, held, asked, requested, saved,
                   pending, faults, disturbed>>

\* A node with a live path keeps quiet towards the path's own next hop;
\* otherwise it queues the announce its path rests on as a path response, and
\* sets aside whatever it was about to send for the destination.
AnswerFromPath(m) ==
    LET n == m.to
        p == path[n]
    IN  /\ n # Origin /\ m.tag \notin tags[n]
        /\ p.state = "live"
        /\ Admit(m)
        /\ IF p.via = m.from /\ p.hops > 1
           THEN UNCHANGED <<table, held>>
           ELSE /\ held' = IF table[n].kind = "none" THEN held
                           ELSE [held EXCEPT ![n] = table[n]]
                /\ table' = [table EXCEPT ![n] =
                      [kind |-> "response", blob |-> p.packet, hops |-> p.hops,
                       retries |-> 0, heard |-> 0, to |-> m.from]]
        /\ UNCHANGED <<net, path, label, asked, clock, emitted, requested, saved,
                       pending, faults, disturbed>>

\* Without a path (or without the cached announce it rests on) the first
\* requester starts a discovery, under the same tag on every other interface;
\* a later one joins it.
Discover(m, reached) ==
    LET n == m.to
    IN  /\ m \in air /\ m.kind = "request"
        /\ n # Origin /\ m.tag \notin tags[n]
        /\ path[n].state = "live" => path[n].via # m.from \/ path[n].hops = 1
        /\ tags' = [tags EXCEPT ![n] = @ \cup {m.tag}]
        /\ asked' = [asked EXCEPT ![n] = @ \cup {m.from}]
        /\ air' = (air \ {m}) \cup
              IF asked[n] = {} THEN {Request(n, w, m.tag) : w \in reached} ELSE {}
        /\ UNCHANGED <<net, path, label, table, held, clock, emitted, requested,
                       saved, pending, faults, disturbed>>

\* ... unless too many requests came in on the interface.
RefuseRequest(m) ==
    /\ m.to # Origin /\ m.tag \notin tags[m.to]
    /\ path[m.to].state # "live" /\ net.limited
    /\ Admit(m)
    /\ UNCHANGED <<net, path, label, table, held, asked, clock, emitted, requested,
                   saved, pending, faults, disturbed>>

\* A discovery that nothing has answered is culled at its deadline.
DiscoveryTimeout(n) ==
    /\ asked[n] # {}
    /\ asked' = [asked EXCEPT ![n] = {}]
    /\ UNCHANGED <<net, path, label, table, held, tags, air, clock, emitted,
                   requested, saved, pending, faults, disturbed>>

-----------------------------------------------------------------------------
(* Losing routes, saving and restoring them *)

Fault(n) == n \in net.frail /\ faults < net.faults /\ faults' = faults + 1

\* drop_path, drop_all_via, a deregistered interface, cull_dead_interfaces.
DropPath(n) ==
    /\ path[n].state # "none" /\ Fault(n)
    /\ path' = [path EXCEPT ![n] = NoPath]
    /\ disturbed' = clock
    /\ \E kept \in BOOLEAN :
          label' = IF kept THEN label ELSE [label EXCEPT ![n] = "unknown"]
    /\ UNCHANGED <<net, table, held, tags, asked, air, clock, emitted, requested,
                   saved, pending>>

\* The path's lifetime ends.
Expire(n) ==
    /\ path[n].state = "live" /\ Fault(n)
    /\ path' = [path EXCEPT ![n].state = "expired"]
    /\ disturbed' = clock
    /\ UNCHANGED <<net, label, table, held, tags, asked, air, clock, emitted,
                   requested, saved, pending>>

\* cull_expired_batch, and the expiry of what was never rebound.
Cull(n) ==
    /\ path[n].state = "expired"
    /\ path' = [path EXCEPT ![n] = NoPath]
    /\ label' = [label EXCEPT ![n] = "unknown"]
    /\ UNCHANGED <<net, table, held, tags, asked, air, clock, emitted, requested,
                   saved, pending, faults, disturbed>>

\* A Link over the path could not be established.
MarkUnresponsive(n) ==
    /\ path[n].state = "live" /\ label[n] # "unresponsive" /\ Fault(n)
    /\ label' = [label EXCEPT ![n] = "unresponsive"]
    /\ UNCHANGED <<net, path, table, held, tags, asked, air, clock, emitted,
                   requested, saved, pending, disturbed>>

\* blobs_for_persist.
Persisted(p) ==
    [p EXCEPT !.blobs =
        IF Len(@) <= PERSIST_RANDOM_BLOBS THEN @
        ELSE SubSeq(@, Len(@) - PERSIST_RANDOM_BLOBS + 1, Len(@))]

\* One snapshot of each node's path is followed, while faults are to come.
Save(n) ==
    /\ n \in net.frail /\ faults < net.faults
    /\ path[n].state # "none" /\ saved[n].state = "none"
    /\ saved' = [saved EXCEPT ![n] = Persisted(path[n])]
    /\ UNCHANGED <<net, path, label, table, held, tags, asked, air, clock, emitted,
                   requested, pending, faults, disturbed>>

\* A crash and a restart: only the snapshot is left, and what of it has not
\* expired waits for its interface.
Crash(n) ==
    /\ Fault(n)
    /\ path' = [path EXCEPT ![n] = NoPath]
    /\ label' = [label EXCEPT ![n] = "unknown"]
    /\ table' = [table EXCEPT ![n] = NoEntry]
    /\ held' = [held EXCEPT ![n] = NoEntry]
    /\ tags' = [tags EXCEPT ![n] = {}]
    /\ asked' = [asked EXCEPT ![n] = {}]
    /\ \E lapsed \in BOOLEAN :
          pending' = [pending EXCEPT ![n] =
              IF lapsed \/ saved[n].state = "expired" THEN NoPath ELSE saved[n]]
    /\ disturbed' = clock
    /\ UNCHANGED <<net, air, clock, emitted, requested, saved>>

\* drain_pending_for_interface: the interface is back; a path learned in the
\* meantime stays.
Rebind(n) ==
    /\ pending[n].state = "live"
    /\ pending' = [pending EXCEPT ![n] = NoPath]
    /\ IF path[n].state = "live"
       THEN UNCHANGED <<path, label>>
       ELSE /\ path' = [path EXCEPT ![n] = pending[n]]
            /\ label' = [label EXCEPT ![n] = "unknown"]
    /\ UNCHANGED <<net, table, held, tags, asked, air, clock, emitted, requested,
                   saved, faults, disturbed>>

-----------------------------------------------------------------------------
\* What the actors do with what they have received, and on their ticks.
Progress ==
    \/ \E m \in air, early, suppressed, blocked \in BOOLEAN :
          \E reached \in Reached(asked[m.to]) :
             ReceiveAnnounce(m, early, suppressed, blocked, reached)
    \/ \E n \in Nodes : \E reached \in Reached(Others(n)) : Retransmit(n, reached)
    \/ \E n \in Nodes : \E reached \in Reached({table[n].to}) : Respond(n, reached)
    \/ \E m \in air : IgnoreRequest(m)
    \/ \E m \in air, elapsed \in net.elapsed : \E reached \in SUBSET {m.from} :
          AnswerAsOwner(m, elapsed, reached)
    \/ \E m \in air : AnswerFromPath(m)
    \/ \E m \in air : \E reached \in Reached(Neighbours(m.to) \ {m.from}) :
          Discover(m, reached)
    \/ \E m \in air : RefuseRequest(m)
    \/ \E n \in Nodes : DiscoveryTimeout(n)

\* What the owner, applications, disks and failures add.
Disturb ==
    \/ \E elapsed \in net.elapsed : \E reached \in Reached(Neighbours(Origin)) :
          Announce(elapsed, reached)
    \/ \E n \in Nodes : \E reached \in Reached(Neighbours(n)) : AskForPath(n, reached)
    \/ \E n \in Nodes : DropPath(n)
    \/ \E n \in Nodes : Expire(n)
    \/ \E n \in Nodes : Cull(n)
    \/ \E n \in Nodes : MarkUnresponsive(n)
    \/ \E n \in Nodes : Save(n)
    \/ \E n \in Nodes : Crash(n)
    \/ \E n \in Nodes : Rebind(n)

Next == Progress \/ Disturb

Spec == Init /\ [][Next]_vars

\* An admitted packet is sent and received, and the tick comes.
FairSpec == Spec /\ WF_vars(Progress)

-----------------------------------------------------------------------------
(* Properties *)

TypeOK ==
    /\ net \in Networks
    /\ path \in [Nodes -> PathEntries]
    /\ label \in [Nodes -> {"unknown", "unresponsive"}]
    /\ table \in [Nodes -> AnnounceEntries] /\ held \in [Nodes -> AnnounceEntries]
    /\ tags \in [Nodes -> SUBSET Nat] /\ asked \in [Nodes -> SUBSET Nodes]
    /\ air \subseteq Packets
    /\ saved \in [Nodes -> PathEntries] /\ pending \in [Nodes -> PathEntries]
    /\ {clock, emitted, requested, faults, disturbed} \subseteq Nat

\* A live path that rests on an announce emitted after a route was last lost.
Fresh(n) == path[n].state = "live" /\ path[n].packet.time > disturbed

\* Fresh routes form no loop, whatever was lost, delayed, overtaken, restored
\* from a snapshot or answered from a cache, because process_announce keeps them
\* in order: the next hop of a fresh path is the owner itself, one hop away, or
\* a node whose own path is live and rests on a later announce, or on one of the
\* same second that came over one hop less.
Ranked(n) ==
    LET next == path[n].via
    IN  \/ next = Origin /\ path[n].hops = 1
        \/ /\ next # Origin /\ path[next].state = "live"
           /\ \/ path[next].packet.time > path[n].packet.time
              \/ /\ path[next].packet.time = path[n].packet.time
                 /\ path[next].hops + 1 = path[n].hops
RoutesRanked == TypeOK /\ \A n \in Nodes : Fresh(n) => Ranked(n)

\* A flood dies out: every rebroadcast and every response is disposed of, and
\* where nothing is lost, limited or faulty every node then has a path from the
\* latest second in which an announce was made.
Settled ==
    /\ air = {}
    /\ \A n \in Nodes : table[n].kind = "none" /\ asked[n] = {}
    /\ ~net.lossy /\ ~net.limited /\ net.faults = 0 /\ net.requests = 0 /\ emitted > 0 =>
          \A n \in Nodes \ {Origin} : Neighbours(n) # {} =>
             Fresh(n) /\ path[n].packet.time = clock
FloodSettles == <>[]Settled

=============================================================================
