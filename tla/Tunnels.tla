------------------------------ MODULE Tunnels -------------------------------
(***************************************************************************)
(* A TCP client that reconnects, and the tunnel its server keeps for it:   *)
(* tcp.rs and traits.rs of rns-interface, tunnel.rs and the tunnels of the *)
(* actor of rns-transport.                                                 *)
(*                                                                         *)
(* Every connection is a new interface of the server, so its routes die    *)
(* with it.  The client opens each connection with a tunnel synthesis, and *)
(* the server then moves the routes learned through the tunnel to the new  *)
(* interface.  The two ends learn of a broken connection independently,    *)
(* the read task of every connection feeds the server's actor by itself,   *)
(* and a destination is announced through the client and over a radio.     *)
(***************************************************************************)
EXTENDS Integers, Sequences

CONSTANTS
    Conns,                \* how many connections are considered
    Plans,                \* what happens around them
    TUNNEL_TIMEOUT        \* also TUNNEL_PATH_TIMEOUT

\* A plan: how many connections, how often the destination announces itself, its hops through
\* the client and over the radio (0 for no radio), how long a path through either lives, how far
\* time goes, and what may happen how often.  A path lives longer than the time between two ticks.
TunnelsAssumption ==
    /\ Conns \in Nat \ {0} /\ TUNNEL_TIMEOUT \in Nat \ {0}
    /\ \A x \in Plans :
          /\ x.conns \in 1..Conns /\ x.announces \in Nat /\ x.horizon \in Nat
          /\ x.hops \in Nat \ {0} /\ x.radio \in Nat
          /\ x.life \in Nat \ {0, 1} /\ x.radio_life \in Nat \ {0, 1}
          /\ x.kinds \subseteq {"break", "refuse", "restart"} /\ x.faults \in Nat

VARIABLES
    plan, faults,
    client,     \* the read task of spawn_tcp_client: where it is, and its connection
    synths,     \* the SynthesizeTunnel messages in the client's mailbox
    queue,      \* the packets its actor has queued for the interface
    conn,       \* every connection: what is not read, broken, and the server's task for it
    box,        \* the mailbox of the server's actor
    ifs,        \* its interfaces that are such connections
    path,       \* path_table: the entry of the destination
    tunnel,     \* tunnel_table: the entry of the client's tunnel
    by,         \* by_interface: the interfaces whose last synthesis named it
    now,
    relayed, heard, \* the last announce that the client relayed, and that came over the radio
    newest, late              \* the newest connection whose synthesis was handled, and whether
                              \* an announce or a synthesis of another was handled after it

vars == <<plan, faults, client, synths, queue, conn, box, ifs, path, tunnel, by, now,
          relayed, heard, newest, late>>

Ids == 1..Conns
Radio == Conns + 1
NoPath == [via |-> 0, hops |-> 0, time |-> 0, expires |-> 0]
NoTunnelPath == [since |-> 0, hops |-> 0, time |-> 0, expires |-> 0]
NoTunnel == [held |-> FALSE, iface |-> 0, path |-> NoTunnelPath, expires |-> 0]
NoConn == [wire |-> <<>>, broken |-> FALSE, task |-> "none"]

May(kind) == kind \in plan.kinds /\ faults < plan.faults
Announce(t) == [kind |-> "announce", time |-> t, born |-> client.opened]
Synthesis == [kind |-> "synthesis", time |-> 0, born |-> client.opened]

-----------------------------------------------------------------------------
(* The client *)

\* It connects, and the server accepts a child.
Connect ==
    /\ client.pc = "connect" /\ client.conn < plan.conns
    /\ client' = [client EXCEPT !.pc = "open", !.conn = @ + 1]
    /\ conn' = [conn EXCEPT ![client.conn + 1].task = "accepted"]
    /\ UNCHANGED <<plan, faults, synths, queue, box, ifs, path, tunnel, by, now, relayed, heard,
                   newest, late>>

\* It cannot connect, which is an outage too.
Refused ==
    /\ client.pc = "connect" /\ May("refuse") /\ faults' = faults + 1
    /\ client' = [client EXCEPT !.attempted = TRUE]
    /\ UNCHANGED <<plan, synths, queue, conn, box, ifs, path, tunnel, by, now, relayed, heard,
                   newest, late>>

\* Mutant: what was queued is kept.
Kept(after_outage) == queue

\* Packets queued during an outage are dropped.
Drained(after_outage) == IF after_outage THEN <<>> ELSE queue

\* open_client_connection
Open ==
    /\ client.pc = "open"
    /\ queue' = Drained(client.attempted)
    /\ synths' = synths + 1
    /\ client' = [client EXCEPT !.pc = "up", !.opened = client.conn, !.attempted = TRUE]
    /\ UNCHANGED <<plan, faults, conn, box, ifs, path, tunnel, by, now, relayed, heard, newest,
                   late>>

\* The actor sends the synthesis to the interface.
SynthesizeTunnel ==
    /\ synths > 0
    /\ synths' = synths - 1 /\ queue' = Append(queue, Synthesis)
    /\ UNCHANGED <<plan, faults, client, conn, box, ifs, path, tunnel, by, now, relayed,
                   heard, newest, late>>

\* It rebroadcasts an announce, whether the interface is connected or not.
Relay(t) ==
    /\ relayed < t
    /\ relayed' = t /\ queue' = Append(queue, Announce(t))
    /\ UNCHANGED <<plan, faults, client, synths, conn, box, ifs, path, tunnel, by, now, heard,
                   newest, late>>

\* The forwarder and the writer of the connection, into the void if it is broken.
Write ==
    /\ client.pc = "up" /\ queue # <<>>
    /\ conn' = [conn EXCEPT ![client.conn].wire =
                              IF conn[client.conn].broken THEN @ ELSE Append(@, Head(queue))]
    /\ queue' = Tail(queue)
    /\ UNCHANGED <<plan, faults, client, synths, box, ifs, path, tunnel, by, now, relayed, heard,
                   newest, late>>

\* The connection breaks, and neither end knows.
Break ==
    /\ client.pc \in {"open", "up"} /\ May("break") /\ faults' = faults + 1
    /\ conn' = [conn EXCEPT ![client.conn].broken = TRUE]
    /\ UNCHANGED <<plan, client, synths, queue, box, ifs, path, tunnel, by, now, relayed, heard,
                   newest, late>>

\* The client's read loop ends, and it tries again.
Notice ==
    /\ client.pc = "up" /\ conn[client.conn].broken
    /\ client' = [client EXCEPT !.pc = "connect"]
    /\ UNCHANGED <<plan, faults, synths, queue, conn, box, ifs, path, tunnel, by, now, relayed,
                   heard, newest, late>>

-----------------------------------------------------------------------------
(* The connections of the server *)

Event(m, k) == [m EXCEPT !.born = k]
Register(k) == [kind |-> "register", time |-> 0, born |-> k]
Deregister(k) == [kind |-> "deregister", time |-> 0, born |-> k]

\* The pump registers the accepted child.
PumpRegisters(k) ==
    /\ conn[k].task = "accepted"
    /\ box' = Append(box, Register(k)) /\ conn' = [conn EXCEPT ![k].task = "running"]
    /\ UNCHANGED <<plan, faults, client, synths, queue, ifs, path, tunnel, by, now, relayed,
                   heard, newest, late>>

\* tcp_read_loop: a packet goes to the actor once the interface is registered.
TcpReads(k) ==
    /\ conn[k].task = "running" /\ k \in ifs /\ conn[k].wire # <<>>
    /\ box' = Append(box, Event(Head(conn[k].wire), k))
    /\ conn' = [conn EXCEPT ![k].wire = Tail(@)]
    /\ UNCHANGED <<plan, faults, client, synths, queue, ifs, path, tunnel, by, now, relayed,
                   heard, newest, late>>

\* The server learns of the broken connection, sooner or later; what was not read is lost.
TcpEnds(k) ==
    /\ conn[k].task = "running" /\ k \in ifs /\ conn[k].broken
    /\ box' = Append(box, Deregister(k)) /\ conn' = [conn EXCEPT ![k].task = "ended", ![k].wire = <<>>]
    /\ UNCHANGED <<plan, faults, client, synths, queue, ifs, path, tunnel, by, now, relayed,
                   heard, newest, late>>

-----------------------------------------------------------------------------
(* The server's actor *)

\* Mutant: the tunnel that the interface named is unbound, wherever it is bound.
VoidedNamed(k) == IF k \in by THEN [tunnel EXCEPT !.iface = 0] ELSE tunnel

\* void_interface
Voided(k) == IF tunnel.iface = k THEN [tunnel EXCEPT !.iface = 0] ELSE tunnel

\* deregister_interface
Deregistered(k) ==
    /\ ifs' = ifs \ {k} /\ by' = by \ {k}
    /\ tunnel' = Voided(k)
    /\ path' = IF path.via = k THEN NoPath ELSE path
    /\ UNCHANGED <<newest, late>>

\* path_expiry of the mode of the interface: shortest for one that roams.
Lifetime(k) == IF k = Radio THEN plan.radio_life ELSE plan.life

\* process_announce, for a destination that is responsive: what is newer is learned, and kept for
\* the tunnel that the interface named.
Learned(k, t, hops) ==
    LET add == path = NoPath \/ t > path.time
        until == now + Lifetime(k)
        kept == [since |-> now, hops |-> hops, time |-> t, expires |-> until]
    IN /\ path' = IF add THEN [via |-> k, hops |-> hops, time |-> t, expires |-> until] ELSE path
       /\ tunnel' = IF add /\ k \in by /\ tunnel.held
                    THEN [tunnel EXCEPT !.path = kept, !.expires = now + TUNNEL_TIMEOUT] ELSE tunnel
       /\ late' = (late \/ (k \in Ids /\ k # newest))
       /\ UNCHANGED <<ifs, by, newest>>

\* restore_tunnel_paths: whether the path of the tunnel is installed.
Restorable ==
    IF path # NoPath
    THEN (tunnel.path.hops <= path.hops \/ now > path.expires) /\ tunnel.path.time >= path.time
    ELSE now < tunnel.path.expires

\* handle_tunnel and restore_tunnel_paths: a path that is not installed is forgotten.
Synthesized(k) ==
    LET has == tunnel.held /\ tunnel.path # NoTunnelPath
        p == tunnel.path
    IN /\ tunnel' = [held |-> TRUE, iface |-> k, expires |-> now + TUNNEL_TIMEOUT,
                     path |-> IF has /\ Restorable THEN p ELSE NoTunnelPath]
       /\ path' = IF has /\ Restorable
                  THEN [via |-> k, hops |-> p.hops, time |-> p.time, expires |-> p.expires]
                  ELSE path
       /\ by' = by \cup {k}
       /\ newest' = IF k > newest THEN k ELSE newest
       /\ late' = (k <= newest /\ (late \/ k # newest))
       /\ UNCHANGED ifs

\* An event counts only while its interface is registered.
Handle ==
    /\ box # <<>> /\ box' = Tail(box)
    /\ LET m == Head(box)
           k == m.born
       IN \/ /\ m.kind = "register" /\ ifs' = ifs \cup {k}
             /\ UNCHANGED <<path, tunnel, by, newest, late>>
          \/ m.kind = "deregister" /\ k \in ifs /\ Deregistered(k)
          \/ m.kind = "announce" /\ k \in ifs /\ Learned(k, m.time, plan.hops)
          \/ m.kind = "announce" /\ k = Radio /\ Learned(k, m.time, plan.radio)
          \/ m.kind = "synthesis" /\ k \in ifs /\ Synthesized(k)
          \/ /\ m.kind # "register" /\ k \notin ifs \cup {Radio}
             /\ UNCHANGED <<ifs, path, tunnel, by, newest, late>>
    /\ UNCHANGED <<plan, faults, client, synths, queue, conn, now, relayed, heard>>

\* A packet for a connection whose writer has gone: the interface is dropped at once, and its read
\* task ends with its next packet.
SendFails(k) ==
    /\ k \in ifs /\ conn[k].broken
    /\ Deregistered(k)
    /\ conn' = [conn EXCEPT ![k].task = "ended", ![k].wire = <<>>]
    /\ UNCHANGED <<plan, faults, client, synths, queue, box, now, relayed, heard>>

\* on_tick culls the tables: expired paths and tunnels, and paths of a tunnel that are old or older
\* than the path in use.
Tick ==
    /\ now < plan.horizon /\ now' = now + 1
    /\ LET live == IF path.expires <= now + 1 THEN NoPath ELSE path
           old == \/ now + 1 > tunnel.path.since + TUNNEL_TIMEOUT
                  \/ live # NoPath /\ live.time > tunnel.path.time
       IN /\ path' = live
          /\ tunnel' = IF tunnel.held /\ tunnel.expires <= now + 1 THEN NoTunnel
                       ELSE IF old THEN [tunnel EXCEPT !.path = NoTunnelPath] ELSE tunnel
    /\ UNCHANGED <<plan, faults, client, synths, queue, conn, box, ifs, by, relayed,
                   heard, newest, late>>

\* The server stops and starts: a tunnel is loaded unbound, if its path is; of the interfaces only
\* the radio gets its paths back.
Restart ==
    /\ May("restart") /\ faults' = faults + 1
    /\ ifs' = {} /\ by' = {} /\ box' = <<>> /\ newest' = 0 /\ late' = FALSE
    /\ tunnel' = IF tunnel.held /\ tunnel.path # NoTunnelPath
                    /\ tunnel.expires > now /\ tunnel.path.expires > now
                 THEN [tunnel EXCEPT !.iface = 0] ELSE NoTunnel
    /\ path' = IF path.via = Radio THEN path ELSE NoPath
    /\ conn' = [k \in Ids |-> IF conn[k].task = "none" THEN conn[k]
                              ELSE [conn[k] EXCEPT !.task = "ended", !.broken = TRUE, !.wire = <<>>]]
    /\ UNCHANGED <<plan, client, synths, queue, now, relayed, heard>>

-----------------------------------------------------------------------------
(* The destination *)

\* An announce comes over the radio.
Hear(t) ==
    /\ plan.radio > 0 /\ heard < t
    /\ heard' = t
    /\ box' = Append(box, [kind |-> "announce", time |-> t, born |-> Radio])
    /\ UNCHANGED <<plan, faults, client, synths, queue, conn, ifs, path, tunnel, by, now, relayed,
                   newest, late>>

Init ==
    /\ plan \in Plans /\ faults = 0
    /\ client = [pc |-> "connect", conn |-> 0, opened |-> 0, attempted |-> FALSE] /\ synths = 0 /\ queue = <<>>
    /\ conn = [k \in Ids |-> NoConn] /\ box = <<>> /\ ifs = {}
    /\ path = NoPath /\ tunnel = NoTunnel /\ by = {} /\ now = 0
    /\ relayed = 0 /\ heard = 0 /\ newest = 0 /\ late = FALSE

Next ==
    \/ Connect \/ Refused \/ Open \/ SynthesizeTunnel \/ Write \/ Break \/ Notice
    \/ \E t \in 1..plan.announces : Relay(t) \/ Hear(t)
    \/ \E k \in Ids : PumpRegisters(k) \/ TcpReads(k) \/ TcpEnds(k) \/ SendFails(k)
    \/ Handle \/ Tick \/ Restart

Spec == Init /\ [][Next]_vars

-----------------------------------------------------------------------------
(* Properties *)

TypeOK ==
    /\ client.pc \in {"connect", "open", "up"} /\ client.opened <= client.conn
    /\ synths \in 0..Conns /\ ifs \subseteq Ids /\ by \subseteq Ids /\ newest \in 0..Conns
    /\ path.via \in 0..Radio /\ tunnel.iface \in 0..Conns

\* The destination is reached through the newest connection, or by a route that is newer than the
\* one the tunnel keeps.
Followed ==
    /\ path # NoPath
    /\ path.via = newest \/ path.time > tunnel.path.time

\* Routes survive a flap of the link.  Whatever the order in which the server learns of broken and
\* of new connections, its routes and its tunnel name only interfaces that are registered; once the
\* synthesis of the newest connection has been handled the tunnel stays bound to it, and what the
\* tunnel has kept leads there until it expires, unless something of another connection was
\* handled behind it.
RoutesFollow ==
    /\ TypeOK
    /\ path.via \in ifs \cup {0, Radio} /\ by \subseteq ifs
    /\ tunnel.iface \in ifs \cup {0}
    /\ newest \in ifs /\ ~late /\ tunnel.held =>
          /\ tunnel.iface = newest
          /\ tunnel.path # NoTunnelPath /\ now < tunnel.path.expires => Followed

\* No route that has expired is put into the table, or stays there beyond a tick, if a path through
\* the client lives longer than the tunnel: restore_tunnel_paths looks at the expiry of a kept path
\* only when it finds no other route.  Every mode but that of a roaming interface is such a mode.
RoutesAlive == plan.life > TUNNEL_TIMEOUT /\ path # NoPath => path.expires > now

\* Traffic queued during an outage is dropped: what a connection after the first carries was queued
\* after that connection was opened, and every connection carries it in the order of the queue.
OutageDropped ==
    \A k \in Ids : \A a \in 1..Len(conn[k].wire) :
        /\ k > 1 => conn[k].wire[a].born >= k
        /\ \A b \in 1..(a - 1) : conn[k].wire[b].born <= conn[k].wire[a].born

\* A flap of the link loses no route and brings back no old traffic.
FlapsSurvived == RoutesFollow /\ RoutesAlive /\ OutageDropped

=============================================================================
