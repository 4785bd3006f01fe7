--------------------------- MODULE TunnelsProofs ---------------------------
(***************************************************************************)
(* Proofs about the tunnel of a TCP client that reconnects, for any number *)
(* of connections, announces and faults, any timeout of the tunnel and any *)
(* lifetimes of paths beyond a tick: routes follow the client to its       *)
(* newest connection, and what was queued during an outage is not sent     *)
(* after it.                                                               *)
(***************************************************************************)
EXTENDS Tunnels, TLAPS

PathType == [via : 0 .. Radio, hops : Nat, time : Nat, expires : Nat]
TunnelPathType == [since : Nat, hops : Nat, time : Nat, expires : Nat]
TunnelType == [held : BOOLEAN, iface : 0 .. Conns, path : TunnelPathType, expires : Nat]
ClientType ==
    [pc : {"connect", "open", "up"}, conn : 0 .. Conns, opened : 0 .. Conns, attempted : BOOLEAN]
Carried == [kind : {"announce", "synthesis"}, time : Nat, born : 0 .. Conns]
Messages ==
    [kind : {"register", "deregister", "announce", "synthesis"}, time : Nat, born : 1 .. Radio]
ConnType ==
    [wire : Seq(Carried), broken : BOOLEAN, task : {"none", "accepted", "running", "ended"}]

\* What the client, the connections and the server's tables hold.
ClientTypes ==
    /\ plan \in Plans /\ faults \in Nat
    /\ client \in ClientType /\ synths \in Nat /\ queue \in Seq(Carried)
    /\ conn \in [Ids -> ConnType]
ServerTypes ==
    /\ box \in Seq(Messages) /\ ifs \subseteq Ids /\ by \subseteq Ids
    /\ path \in PathType /\ tunnel \in TunnelType /\ now \in Nat
    /\ newest \in 0 .. Conns /\ late \in BOOLEAN

\* The client opens each connection once and asks for one synthesis for each,
\* and an outage has gone before every one but the first.
OpenedOnce ==
    /\ synths <= client.opened
    /\ client.conn = IF client.pc = "open" THEN client.opened + 1 ELSE client.opened
    /\ client.opened > 0 => client.attempted
    /\ client.pc # "connect" => client.conn > 0

\* What is queued is in order, and belongs to the connection that is open unless
\* that is the first one.
QueueInOrder ==
    /\ \A a \in 1 .. Len(queue) :
          /\ queue[a].born <= client.opened
          /\ client.pc = "up" /\ client.conn > 1 => queue[a].born = client.conn
    /\ \A a \in 1 .. Len(queue) : \A b \in 1 .. (a - 1) : queue[b].born <= queue[a].born

\* A connection carries what was queued before what still is.
WiresInOrder ==
    /\ \A k \in Ids : k > client.opened => conn[k].wire = <<>>
    /\ \A k \in Ids : \A a \in 1 .. Len(conn[k].wire) : conn[k].wire[a].born <= client.opened
    /\ client.pc = "up" =>
          \A a \in 1 .. Len(conn[client.conn].wire) : \A b \in 1 .. Len(queue) :
              conn[client.conn].wire[a].born <= queue[b].born

\* Connections that are yet to come have no task.
NoneAhead == \A k \in Ids : k > client.conn => conn[k].task = "none"

\* A connection is registered once, and nothing is heard of it before.
RegisteredOnce ==
    /\ \A k \in Ids : conn[k].task \in {"none", "accepted"} =>
          k \notin ifs /\ k # newest /\ \A a \in 1 .. Len(box) : box[a].born # k
    /\ \A a \in 1 .. Len(box) :
          /\ box[a].kind # "announce" => box[a].born \in Ids
          /\ box[a].kind = "register" =>
                /\ box[a].born \notin ifs /\ box[a].born # newest
                /\ \A b \in 1 .. Len(box) :
                      box[b].kind = "register" /\ box[b].born = box[a].born => b = a

\* The tables name interfaces that are registered.
NamesRegistered ==
    /\ path.via \in ifs \cup {0, Radio} /\ by \subseteq ifs
    /\ tunnel.iface \in ifs \cup {0}
    /\ newest \in ifs => newest \in by

\* What the tunnel keeps was learned a tunnel's timeout ago at most.
KeptIsYoung ==
    tunnel.path # NoTunnelPath =>
        /\ now <= tunnel.path.since + TUNNEL_TIMEOUT
        /\ tunnel.path.expires = tunnel.path.since + plan.life

\* It has a route that lives as long, through the newest connection; or the radio
\* has brought a later announce, and the next tick, which makes the tunnel forget
\* its own, comes before that one expires.
RouteOfKept ==
    \/ /\ path.via = newest /\ path.time >= tunnel.path.time
       /\ path.expires >= tunnel.path.expires
    \/ path.via = Radio /\ path.time > tunnel.path.time /\ path.expires > now + 1

KeptIsFollowed ==
    /\ KeptIsYoung /\ RoutesAlive
    /\ newest \in ifs /\ ~late /\ tunnel.held =>
          /\ tunnel.iface = newest
          /\ tunnel.path # NoTunnelPath /\ now < tunnel.path.expires => RouteOfKept

\* The inductive invariant.  The server's part says why a route never names an
\* interface that has gone, although connections register, are read and end in
\* tasks of their own.
TunnelsInv ==
    /\ ClientTypes /\ OpenedOnce /\ QueueInOrder /\ WiresInOrder /\ OutageDropped
    /\ NoneAhead /\ ServerTypes /\ RegisteredOnce /\ NamesRegistered /\ KeptIsFollowed

-----------------------------------------------------------------------------
(* Sequences *)

LEMMA AppendFacts ==
  ASSUME NEW S, NEW s \in Seq(S), NEW e \in S
  PROVE  /\ Append(s, e) \in Seq(S) /\ Len(Append(s, e)) = Len(s) + 1 /\ Len(s) \in Nat
         /\ \A i \in 1 .. Len(s) : Append(s, e)[i] = s[i]
         /\ Append(s, e)[Len(s) + 1] = e
OBVIOUS

LEMMA TailFacts ==
  ASSUME NEW S, NEW s \in Seq(S), s # <<>>
  PROVE  /\ Tail(s) \in Seq(S) /\ Len(Tail(s)) = Len(s) - 1 /\ Len(s) \in Nat \ {0}
         /\ \A i \in 1 .. Len(Tail(s)) : Tail(s)[i] = s[i + 1] /\ i + 1 \in 1 .. Len(s)
         /\ Head(s) = s[1] /\ Head(s) \in S
OBVIOUS

LEMMA EmptyFacts == \A S : <<>> \in Seq(S) /\ Len(<<>>) = 0
OBVIOUS

LEMMA ElementFacts ==
  ASSUME NEW s \in Seq(Carried), NEW a \in 1 .. Len(s)
  PROVE  s[a] \in Carried /\ s[a].born \in 0 .. Conns
<1>1. s[a] \in Carried OBVIOUS
<1> QED BY <1>1, Zenon DEF Carried

-----------------------------------------------------------------------------
(* Types *)

LEMMA ConstantFacts ==
  ASSUME TunnelsAssumption
  PROVE  /\ Conns \in Nat \ {0} /\ Radio = Conns + 1 /\ Radio \notin Ids /\ 0 \notin Ids
         /\ Ids \subseteq 1 .. Radio /\ Ids \subseteq 0 .. Conns /\ Radio \in 1 .. Radio
         /\ TUNNEL_TIMEOUT \in Nat
         /\ \A x \in Plans : /\ x.conns \in 1 .. Conns /\ x.announces \in Nat
                             /\ x.hops \in Nat /\ x.radio \in Nat
                             /\ x.life \in Nat /\ x.life > 1
                             /\ x.radio_life \in Nat /\ x.radio_life > 1
BY DEF TunnelsAssumption, Ids, Radio

\* What an update of one connection does to the others.
LEMMA ConnWire ==
  ASSUME NEW k \in Ids, NEW w \in Seq(Carried), conn \in [Ids -> ConnType],
         conn' = [conn EXCEPT ![k].wire = w]
  PROVE  /\ conn' \in [Ids -> ConnType]
         /\ \A j \in Ids : /\ conn'[j].wire = IF j = k THEN w ELSE conn[j].wire
                           /\ conn'[j].task = conn[j].task
<1>1. \A j \in Ids : conn'[j] = IF j = k THEN [conn[k] EXCEPT !.wire = w] ELSE conn[j]
  OBVIOUS
<1>2. [conn[k] EXCEPT !.wire = w] \in ConnType
  BY Zenon DEF ConnType
<1>3. conn' = [j \in Ids |-> conn'[j]] BY Zenon
<1> QED BY <1>1, <1>2, <1>3, Zenon DEF ConnType

LEMMA ConnTask ==
  ASSUME NEW k \in Ids, NEW t \in {"none", "accepted", "running", "ended"},
         conn \in [Ids -> ConnType], conn' = [conn EXCEPT ![k].task = t]
  PROVE  /\ conn' \in [Ids -> ConnType]
         /\ \A j \in Ids : /\ conn'[j].wire = conn[j].wire
                           /\ conn'[j].task = IF j = k THEN t ELSE conn[j].task
<1>1. \A j \in Ids : conn'[j] = IF j = k THEN [conn[k] EXCEPT !.task = t] ELSE conn[j]
  OBVIOUS
<1>2. [conn[k] EXCEPT !.task = t] \in ConnType
  BY Zenon DEF ConnType
<1>3. conn' = [j \in Ids |-> conn'[j]] BY Zenon
<1> QED BY <1>1, <1>2, <1>3, Zenon DEF ConnType

LEMMA ConnBroken ==
  ASSUME NEW k \in Ids, conn \in [Ids -> ConnType], conn' = [conn EXCEPT ![k].broken = TRUE]
  PROVE  /\ conn' \in [Ids -> ConnType]
         /\ \A j \in Ids : conn'[j].wire = conn[j].wire /\ conn'[j].task = conn[j].task
<1>1. \A j \in Ids : conn'[j] = IF j = k THEN [conn[k] EXCEPT !.broken = TRUE] ELSE conn[j]
  OBVIOUS
<1>2. [conn[k] EXCEPT !.broken = TRUE] \in ConnType
  BY Zenon DEF ConnType
<1>3. conn' = [j \in Ids |-> conn'[j]] BY Zenon
<1> QED BY <1>1, <1>2, <1>3, Zenon DEF ConnType

LEMMA ConnEnds ==
  ASSUME NEW k \in Ids, conn \in [Ids -> ConnType],
         conn' = [conn EXCEPT ![k].task = "ended", ![k].wire = <<>>]
  PROVE  /\ conn' \in [Ids -> ConnType]
         /\ \A j \in Ids : /\ conn'[j].wire = IF j = k THEN <<>> ELSE conn[j].wire
                           /\ conn'[j].task = IF j = k THEN "ended" ELSE conn[j].task
<1>1. \A j \in Ids : conn'[j] = IF j = k THEN [conn[k] EXCEPT !.task = "ended", !.wire = <<>>]
                                ELSE conn[j]
  OBVIOUS
<1>2. [conn[k] EXCEPT !.task = "ended", !.wire = <<>>] \in ConnType
  BY EmptyFacts, Zenon DEF ConnType
<1>3. conn' = [j \in Ids |-> conn'[j]] BY Zenon
<1> QED BY <1>1, <1>2, <1>3 DEF ConnType

-----------------------------------------------------------------------------
(* The client and its connections *)

ClientInv == ClientTypes /\ OpenedOnce /\ QueueInOrder /\ WiresInOrder /\ OutageDropped

\* What is taken from a connection leaves the rest in order.
LEMMA WiresShrink ==
  ASSUME ClientInv, UNCHANGED <<plan, client, synths, queue>>, faults' \in Nat,
         conn' \in [Ids -> ConnType],
         \A k \in Ids : \/ conn'[k].wire = conn[k].wire
                        \/ conn'[k].wire = <<>>
                        \/ conn[k].wire # <<>> /\ conn'[k].wire = Tail(conn[k].wire)
  PROVE  ClientInv'
<1>1. \A k \in Ids : conn[k].wire \in Seq(Carried) /\ Len(conn[k].wire) \in Nat
  BY DEF ClientInv, ClientTypes, ConnType
<1>2. ASSUME NEW k \in Ids
      PROVE  /\ conn[k].wire = <<>> => conn'[k].wire = <<>>
             /\ \E d \in Nat :
                   \A a \in 1 .. Len(conn'[k].wire) :
                       /\ a + d \in 1 .. Len(conn[k].wire)
                       /\ conn'[k].wire[a] = conn[k].wire[a + d]
  <2>1. CASE conn'[k].wire = conn[k].wire
    <3>1. \A a \in 1 .. Len(conn'[k].wire) :
             /\ a + 0 \in 1 .. Len(conn[k].wire)
             /\ conn'[k].wire[a] = conn[k].wire[a + 0]
      BY <2>1, <1>1
    <3> QED BY <2>1, <3>1, Zenon
  <2>2. CASE conn'[k].wire = <<>>
    <3>1. \A a \in 1 .. Len(conn'[k].wire) : FALSE BY <2>2
    <3>2. 0 \in Nat OBVIOUS
    <3> QED BY <2>2, <3>1, <3>2, Zenon
  <2>3. CASE conn[k].wire # <<>> /\ conn'[k].wire = Tail(conn[k].wire)
    <3>1. \A a \in 1 .. Len(conn'[k].wire) :
             /\ a + 1 \in 1 .. Len(conn[k].wire)
             /\ conn'[k].wire[a] = conn[k].wire[a + 1]
      BY <2>3, <1>1, TailFacts
    <3> QED BY <2>3, <3>1, Zenon
  <2> QED BY <2>1, <2>2, <2>3, Zenon
<1>3. WiresInOrder'
  <2>1. \A k \in Ids : (k > client.opened => conn[k].wire = <<>>)'
    BY <1>2, Zenon DEF ClientInv, WiresInOrder
  <2>2. \A k \in Ids : \A a \in 1 .. Len(conn'[k].wire) :
           conn'[k].wire[a].born <= client.opened
    BY <1>2, Zenon DEF ClientInv, WiresInOrder
  <2>3. ASSUME client.pc = "up", NEW a \in 1 .. Len(conn'[client.conn].wire),
               NEW b \in 1 .. Len(queue)
        PROVE  conn'[client.conn].wire[a].born <= queue[b].born
    <3>1. client.conn \in Ids
      BY <2>3 DEF ClientInv, ClientTypes, ClientType, OpenedOnce, Ids
    <3> QED BY <2>3, <3>1, <1>2, Zenon DEF ClientInv, WiresInOrder
  <2> QED BY <2>1, <2>2, <2>3, Zenon DEF WiresInOrder
<1>4. OutageDropped'
  <2> SUFFICES ASSUME NEW k \in Ids, NEW a \in 1 .. Len(conn'[k].wire)
               PROVE  /\ k > 1 => conn'[k].wire[a].born >= k
                      /\ \A b \in 1 .. (a - 1) : conn'[k].wire[b].born <= conn'[k].wire[a].born
    BY Zenon DEF OutageDropped
  <2>1. PICK d \in Nat : \A c \in 1 .. Len(conn'[k].wire) :
                            /\ c + d \in 1 .. Len(conn[k].wire)
                            /\ conn'[k].wire[c] = conn[k].wire[c + d]
    BY <1>2, Zenon
  <2>2. Len(conn'[k].wire) \in Nat BY DEF ConnType
  <2>3. k > 1 => conn'[k].wire[a].born >= k
    BY <2>1, Zenon DEF ClientInv, OutageDropped
  <2>4. ASSUME NEW b \in 1 .. (a - 1)
        PROVE  conn'[k].wire[b].born <= conn'[k].wire[a].born
    <3>1. b \in 1 .. Len(conn'[k].wire) BY <2>2
    <3>2. b + d \in 1 .. (a + d - 1) BY <2>2, <3>1
    <3>3. conn[k].wire[b + d].born <= conn[k].wire[a + d].born
      <4>1. a + d \in 1 .. Len(conn[k].wire) BY <2>1, Zenon
      <4> DEFINE x == a + d
                 y == b + d
      <4>2. x \in 1 .. Len(conn[k].wire) /\ y \in 1 .. (x - 1) BY <4>1, <3>2
      <4> HIDE DEF x, y
      <4>3. conn[k].wire[y].born <= conn[k].wire[x].born
        BY <4>2, Zenon DEF ClientInv, OutageDropped
      <4> QED BY <4>3, Zenon DEF x, y
    <3> QED BY <2>1, <3>1, <3>3, Zenon
  <2> QED BY <2>3, <2>4, Zenon
<1> QED BY <1>3, <1>4, Zenon DEF ClientInv, ClientTypes, OpenedOnce, QueueInOrder

\* The actor of the client queues a packet: it is of the connection opened last.
LEMMA QueueGrows ==
  ASSUME ClientInv, NEW e \in Carried, e.born = client.opened, queue' = Append(queue, e),
         synths' \in Nat, synths' <= client.opened, UNCHANGED <<plan, faults, client, conn>>
  PROVE  ClientInv'
<1>1. queue \in Seq(Carried) /\ client \in ClientType
  BY Zenon DEF ClientInv, ClientTypes
<1>2. /\ queue' \in Seq(Carried) /\ Len(queue') = Len(queue) + 1 /\ Len(queue) \in Nat
      /\ \A i \in 1 .. Len(queue) : queue'[i] = queue[i]
      /\ queue'[Len(queue) + 1] = e
  BY <1>1, AppendFacts
<1>3. client.opened \in Nat /\ client.conn \in Nat BY <1>1 DEF ClientType
<1>4. client.pc = "up" => client.conn = client.opened
  BY Zenon DEF ClientInv, OpenedOnce
<1>5. \A a \in 1 .. Len(queue') : a \in 1 .. Len(queue) \/ (a = Len(queue) + 1 /\ queue'[a] = e)
  BY <1>2
<1>6. QueueInOrder'
  <2>1. \A a \in 1 .. Len(queue') :
           /\ queue'[a].born <= client.opened
           /\ client.pc = "up" /\ client.conn > 1 => queue'[a].born = client.conn
    BY <1>2, <1>3, <1>4, <1>5 DEF ClientInv, QueueInOrder
  <2>2. ASSUME NEW a \in 1 .. Len(queue'), NEW b \in 1 .. (a - 1)
        PROVE  queue'[b].born <= queue'[a].born
    <3>1. b \in 1 .. Len(queue) BY <1>2
    <3>2. CASE a \in 1 .. Len(queue)
      BY <3>1, <3>2, <1>2, Zenon DEF ClientInv, QueueInOrder
    <3>3. CASE queue'[a] = e
      BY <3>1, <3>3, <1>2, Zenon DEF ClientInv, QueueInOrder
    <3> QED BY <1>5, <3>2, <3>3, Zenon
  <2> QED BY <2>1, <2>2, Zenon DEF QueueInOrder
<1>7. WiresInOrder'
  <2>1. ASSUME client.pc = "up", NEW a \in 1 .. Len(conn[client.conn].wire),
               NEW b \in 1 .. Len(queue')
        PROVE  conn[client.conn].wire[a].born <= queue'[b].born
    <3>1. client.conn \in Ids
      BY <2>1 DEF ClientInv, ClientTypes, ClientType, OpenedOnce, Ids
    <3>2. CASE b \in 1 .. Len(queue)
      BY <2>1, <3>2, <1>2, Zenon DEF ClientInv, WiresInOrder
    <3>3. CASE queue'[b] = e
      BY <2>1, <3>1, <3>3, Zenon DEF ClientInv, WiresInOrder
    <3> QED BY <1>5, <3>2, <3>3, Zenon
  <2> QED BY <2>1, Zenon DEF ClientInv, WiresInOrder
<1>8. ClientTypes' /\ OpenedOnce' /\ OutageDropped'
  BY <1>2 DEF ClientInv, ClientTypes, OpenedOnce, OutageDropped
<1> QED BY <1>6, <1>7, <1>8, Zenon DEF ClientInv

LEMMA OpenStep ==
  ASSUME TunnelsAssumption, ClientInv, Open
  PROVE  ClientInv'
<1>1. /\ queue \in Seq(Carried) /\ client \in ClientType /\ client.pc = "open" /\ synths \in Nat
      /\ client.conn = client.opened + 1 /\ synths <= client.opened
      /\ client.opened > 0 => client.attempted
      /\ UNCHANGED <<plan, faults, conn>> /\ synths' = synths + 1
  BY Zenon DEF ClientInv, ClientTypes, Open, OpenedOnce
<1>2. /\ client' \in ClientType /\ client'.pc = "up" /\ client'.opened = client.conn
      /\ client'.conn = client.conn /\ client'.attempted
  <2>1. client' = [client EXCEPT !.pc = "up", !.opened = client.conn, !.attempted = TRUE]
    BY Zenon DEF Open
  <2> QED BY <2>1, <1>1, Zenon DEF ClientType
<1>3. /\ client.conn \in Ids /\ client.opened \in Nat /\ client.conn \in Nat
      /\ client.conn > client.opened
  BY <1>1 DEF ClientType, Ids
<1>4. /\ queue' \in Seq(Carried)
      /\ queue' = <<>> \/ (queue' = queue /\ client.opened = 0)
  BY <1>1, <1>3, EmptyFacts DEF Open, Drained
<1>5. conn[client.conn].wire = <<>>
  BY <1>3, Zenon DEF ClientInv, WiresInOrder
<1>6. ClientTypes' /\ OpenedOnce'
  BY <1>1, <1>2, <1>3, <1>4 DEF ClientInv, ClientTypes, OpenedOnce
<1>7. QueueInOrder'
  <2>1. CASE queue' = <<>>
    BY <2>1, EmptyFacts DEF QueueInOrder
  <2>2. CASE queue' = queue /\ client.opened = 0
    <3>1. client'.conn = 1 /\ client'.opened = 1 BY <2>2, <1>1, <1>2
    <3>2. \A a \in 1 .. Len(queue) : queue[a].born \in Nat /\ queue[a].born <= 0
      <4>1. \A a \in 1 .. Len(queue) : queue[a].born \in 0 .. Conns BY <1>1, ElementFacts, Zenon
      <4> QED BY <2>2, <4>1 DEF ClientInv, QueueInOrder
    <3> QED BY <2>2, <3>1, <3>2 DEF QueueInOrder, ClientInv
  <2> QED BY <1>4, <2>1, <2>2, Zenon
<1>8. WiresInOrder'
  <2>1. \A k \in Ids : k > client'.opened => conn[k].wire = <<>>
    BY <1>2, <1>3 DEF ClientInv, WiresInOrder, Ids
  <2>2. \A k \in Ids : \A a \in 1 .. Len(conn[k].wire) : conn[k].wire[a].born <= client'.opened
    <3>1. \A k \in Ids : \A a \in 1 .. Len(conn[k].wire) : conn[k].wire[a].born \in Nat
      <4>1. \A k \in Ids : conn[k].wire \in Seq(Carried)
        BY Zenon DEF ClientInv, ClientTypes, ConnType
      <4>2. \A k \in Ids : \A a \in 1 .. Len(conn[k].wire) : conn[k].wire[a].born \in 0 .. Conns
        BY <4>1, ElementFacts, Zenon
      <4> QED BY <4>2
    <3> QED BY <3>1, <1>2, <1>3 DEF ClientInv, WiresInOrder
  <2>3. \A a \in 1 .. Len(conn[client'.conn].wire) : FALSE
    BY <1>2, <1>5, EmptyFacts
  <2> QED BY <2>1, <2>2, <2>3, <1>1, Zenon DEF WiresInOrder
<1>9. OutageDropped' BY <1>1, Zenon DEF ClientInv, OutageDropped
<1> QED BY <1>6, <1>7, <1>8, <1>9, Zenon DEF ClientInv

LEMMA WriteStep ==
  ASSUME TunnelsAssumption, ClientInv, Write
  PROVE  ClientInv'
<1> DEFINE c == client.conn
           w == conn[c].wire
<1>1. /\ client.pc = "up" /\ queue # <<>> /\ queue' = Tail(queue)
      /\ UNCHANGED <<plan, faults, client, synths>>
  BY Zenon DEF Write
<1>2. /\ c \in Ids /\ client.opened = c /\ queue \in Seq(Carried) /\ w \in Seq(Carried)
      /\ conn \in [Ids -> ConnType] /\ Len(w) \in Nat /\ c \in Nat
  BY <1>1 DEF ClientInv, ClientTypes, ClientType, OpenedOnce, Ids, ConnType
<1>3. /\ queue' \in Seq(Carried) /\ Len(queue') = Len(queue) - 1 /\ Len(queue) \in Nat \ {0}
      /\ \A i \in 1 .. Len(queue') : queue'[i] = queue[i + 1] /\ i + 1 \in 1 .. Len(queue)
      /\ Head(queue) = queue[1] /\ Head(queue) \in Carried
  BY <1>1, <1>2, TailFacts
<1>4. \E v \in Seq(Carried) :
         /\ v = IF conn[c].broken THEN w ELSE Append(w, Head(queue))
         /\ conn' = [conn EXCEPT ![c].wire = v]
  <2>1. conn' = [conn EXCEPT ![c].wire = IF conn[c].broken THEN w ELSE Append(w, Head(queue))]
    BY Zenon DEF Write
  <2>2. (IF conn[c].broken THEN w ELSE Append(w, Head(queue))) \in Seq(Carried)
    BY <1>2, <1>3
  <2> QED BY <2>1, <2>2, Zenon
<1>5. PICK v \in Seq(Carried) : /\ v = IF conn[c].broken THEN w ELSE Append(w, Head(queue))
                                /\ conn' = [conn EXCEPT ![c].wire = v]
  BY <1>4, Zenon
<1>6. /\ conn' \in [Ids -> ConnType]
      /\ \A j \in Ids : conn'[j].wire = IF j = c THEN v ELSE conn[j].wire
  <2> HIDE DEF c, w
  <2>1. c \in Ids /\ conn \in [Ids -> ConnType] /\ conn' = [conn EXCEPT ![c].wire = v]
    BY <1>2, <1>5, Zenon
  <2> QED BY <2>1, ConnWire, Zenon
<1>7. \A a \in 1 .. Len(v) : (a \in 1 .. Len(w) /\ v[a] = w[a])
                             \/ (a = Len(w) + 1 /\ v[a] = queue[1])
  <2>1. CASE conn[c].broken BY <2>1, <1>5, Zenon
  <2>2. CASE ~ conn[c].broken
    BY <2>2, <1>2, <1>3, <1>5, AppendFacts
  <2> QED BY <2>1, <2>2, Zenon
<1> HIDE DEF w, c
<1>8. \A a \in 1 .. Len(w) : /\ w[a].born <= queue[1].born /\ w[a].born <= client.opened
                             /\ c > 1 => w[a].born >= c
                             /\ \A b \in 1 .. (a - 1) : w[b].born <= w[a].born
  <2>1. 1 \in 1 .. Len(queue) BY <1>3
  <2> QED BY <1>1, <1>2, <2>1, Zenon DEF ClientInv, WiresInOrder, OutageDropped, w, c
<1>9. /\ queue[1].born <= client.opened /\ (c > 1 => queue[1].born = c)
      /\ queue[1].born \in Nat
  <2>1. 1 \in 1 .. Len(queue) BY <1>3
  <2> QED BY <1>1, <1>2, <2>1, ElementFacts DEF ClientInv, QueueInOrder, c
<1>10. ClientTypes' /\ OpenedOnce'
  BY <1>1, <1>3, <1>6, Zenon DEF ClientInv, ClientTypes, OpenedOnce
<1>11. QueueInOrder'
  <2>1. \A a \in 1 .. Len(queue') :
           /\ queue'[a].born <= client.opened
           /\ client.pc = "up" /\ client.conn > 1 => queue'[a].born = client.conn
    BY <1>3 DEF ClientInv, QueueInOrder
  <2>2. ASSUME NEW a \in 1 .. Len(queue'), NEW b \in 1 .. (a - 1)
        PROVE  queue'[b].born <= queue'[a].born
    <3>1. b \in 1 .. Len(queue') /\ b + 1 \in 1 .. ((a + 1) - 1) BY <1>3
    <3>2. queue[b + 1].born <= queue[a + 1].born
      BY <1>3, <3>1, Zenon DEF ClientInv, QueueInOrder
    <3> QED BY <3>1, <3>2, <1>3, Zenon
  <2> QED BY <2>1, <2>2, <1>1, Zenon DEF QueueInOrder
<1>12. WiresInOrder'
  <2>1. \A k \in Ids : k > client.opened => conn'[k].wire = <<>>
    BY <1>2, <1>6 DEF ClientInv, WiresInOrder
  <2>2. \A k \in Ids : \A a \in 1 .. Len(conn'[k].wire) : conn'[k].wire[a].born <= client.opened
    <3>1. \A a \in 1 .. Len(v) : v[a].born <= client.opened BY <1>7, <1>8, <1>9, Zenon
    <3> QED BY <3>1, <1>6, Zenon DEF ClientInv, WiresInOrder
  <2>3. ASSUME NEW a \in 1 .. Len(v), NEW b \in 1 .. Len(queue')
        PROVE  v[a].born <= queue'[b].born
    <3>1. /\ queue'[b] = queue[b + 1] /\ b + 1 \in 1 .. Len(queue) /\ 1 \in 1 .. ((b + 1) - 1)
      BY <1>3
    <3>2. CASE a \in 1 .. Len(w) /\ v[a] = w[a]
      BY <3>1, <3>2, <1>1, <1>2, Zenon DEF ClientInv, WiresInOrder, w, c
    <3>3. CASE v[a] = queue[1]
      <4> DEFINE d == b + 1
      <4>1. d \in 1 .. Len(queue) /\ 1 \in 1 .. (d - 1) /\ queue'[b] = queue[d] BY <3>1, Zenon
      <4> HIDE DEF d
      <4> QED BY <4>1, <3>3, Zenon DEF ClientInv, QueueInOrder
    <3> QED BY <1>7, <3>2, <3>3, Zenon
  <2> QED BY <2>1, <2>2, <2>3, <1>1, <1>2, <1>6, Zenon DEF WiresInOrder, c
<1>13. OutageDropped'
  <2>1. \A a \in 1 .. Len(v) : /\ c > 1 => v[a].born >= c
                               /\ \A b \in 1 .. (a - 1) : v[b].born <= v[a].born
    <3> SUFFICES ASSUME NEW a \in 1 .. Len(v)
                 PROVE  /\ c > 1 => v[a].born >= c
                        /\ \A b \in 1 .. (a - 1) : v[b].born <= v[a].born
      OBVIOUS
    <3>1. \A b \in 1 .. (a - 1) : b \in 1 .. Len(w) /\ v[b] = w[b]
      <4>1. Len(v) \in Nat BY <1>5
      <4> QED BY <4>1, <1>2, <1>7
    <3>2. CASE a \in 1 .. Len(w) /\ v[a] = w[a]
      BY <3>1, <3>2, <1>8, Zenon
    <3>3. CASE v[a] = queue[1]
      BY <3>1, <3>3, <1>2, <1>8, <1>9, Zenon
    <3> QED BY <1>7, <3>2, <3>3, Zenon
  <2> QED BY <2>1, <1>6 DEF ClientInv, OutageDropped
<1> QED BY <1>10, <1>11, <1>12, <1>13, Zenon DEF ClientInv

LEMMA ConnectStep ==
  ASSUME TunnelsAssumption, ClientInv, Connect
  PROVE  ClientInv'
<1>1. /\ client \in ClientType /\ client.pc = "connect" /\ client.conn < plan.conns
      /\ client.conn = client.opened /\ plan \in Plans /\ conn \in [Ids -> ConnType]
      /\ client' = [client EXCEPT !.pc = "open", !.conn = @ + 1]
      /\ conn' = [conn EXCEPT ![client.conn + 1].task = "accepted"]
      /\ UNCHANGED <<plan, faults, synths, queue>>
  BY Zenon DEF ClientInv, ClientTypes, OpenedOnce, Connect
<1>2. plan.conns \in 1 .. Conns /\ client.conn \in 0 .. Conns
  BY <1>1, ConstantFacts, Zenon DEF ClientType
<1>3. client.conn + 1 \in Ids /\ client.conn + 1 \in 0 .. Conns
  BY <1>1, <1>2, ConstantFacts DEF Ids
<1>4. /\ client' \in ClientType /\ client'.pc = "open" /\ client'.conn = client.opened + 1
      /\ client'.opened = client.opened /\ client'.attempted = client.attempted
  <2>1. [client EXCEPT !.pc = "open", !.conn = client.conn + 1] \in ClientType
    BY <1>1, <1>3, Zenon DEF ClientType
  <2> QED BY <1>1, <2>1, Zenon DEF ClientType
<1>5. conn' \in [Ids -> ConnType] /\ \A j \in Ids : conn'[j].wire = conn[j].wire
  BY <1>1, <1>3, ConnTask, Zenon
<1>6. ClientTypes' /\ OpenedOnce'
  BY <1>1, <1>2, <1>4, <1>5, SMTT(30) DEF ClientInv, ClientTypes, OpenedOnce
<1>7. QueueInOrder' /\ WiresInOrder' /\ OutageDropped'
  BY <1>1, <1>4, <1>5 DEF ClientInv, QueueInOrder, WiresInOrder, OutageDropped
<1> QED BY <1>6, <1>7, Zenon DEF ClientInv

LEMMA ClientStep ==
  ASSUME TunnelsAssumption, ClientInv, [Next]_vars
  PROVE  ClientInv'
<1>0. /\ client \in ClientType /\ plan \in Plans /\ conn \in [Ids -> ConnType] /\ faults \in Nat
      /\ synths \in Nat /\ queue \in Seq(Carried) /\ client.opened \in 0 .. Conns
  BY Zenon DEF ClientInv, ClientTypes, ClientType
<1>1. CASE Connect BY <1>1, ConnectStep, Zenon
<1>2. CASE Open BY <1>2, OpenStep, Zenon
<1>3. CASE Write BY <1>3, WriteStep, Zenon
<1>4. CASE Refused
  <2>1. /\ client' \in ClientType /\ client'.attempted
        /\ client'.pc = client.pc /\ client'.conn = client.conn /\ client'.opened = client.opened
        /\ faults' \in Nat /\ UNCHANGED <<plan, synths, queue, conn>>
    <3>1. [client EXCEPT !.attempted = TRUE] \in ClientType
      BY <1>0, Zenon DEF ClientType
    <3>2. /\ client' = [client EXCEPT !.attempted = TRUE] /\ faults' = faults + 1
          /\ UNCHANGED <<plan, synths, queue, conn>>
      BY <1>4, Zenon DEF Refused
    <3> QED BY <3>1, <3>2, <1>0 DEF ClientType
  <2> QED BY <2>1, SMTT(30) DEF ClientInv, ClientTypes, OpenedOnce, QueueInOrder, WiresInOrder, OutageDropped
<1>5. CASE SynthesizeTunnel
  <2>1. Synthesis \in Carried /\ Synthesis.born = client.opened
    BY <1>0, Zenon DEF Synthesis, Carried
  <2>2. /\ queue' = Append(queue, Synthesis) /\ synths' \in Nat /\ synths' <= client.opened
        /\ UNCHANGED <<plan, faults, client, conn>>
    BY <1>5, <1>0 DEF SynthesizeTunnel, ClientInv, OpenedOnce
  <2> QED BY <2>1, <2>2, QueueGrows, Zenon
<1>6. ASSUME NEW t \in 1 .. plan.announces, Relay(t) PROVE ClientInv'
  <2>1. Announce(t) \in Carried /\ Announce(t).born = client.opened
    <3>1. t \in Nat BY <1>0, ConstantFacts
    <3> QED BY <3>1, <1>0, Zenon DEF Announce, Carried
  <2>2. /\ queue' = Append(queue, Announce(t)) /\ synths' \in Nat /\ synths' <= client.opened
        /\ UNCHANGED <<plan, faults, client, conn>>
    BY <1>6, <1>0, Zenon DEF Relay, ClientInv, OpenedOnce
  <2> QED BY <2>1, <2>2, QueueGrows, Zenon
<1>7. CASE Break
  <2>1. client.conn \in Ids
    BY <1>7, <1>0 DEF Break, ClientInv, OpenedOnce, ClientType, Ids
  <2>2. /\ conn' = [conn EXCEPT ![client.conn].broken = TRUE] /\ faults' \in Nat
        /\ UNCHANGED <<plan, client, synths, queue>>
    BY <1>7, <1>0 DEF Break
  <2>3. conn' \in [Ids -> ConnType] /\ \A j \in Ids : conn'[j].wire = conn[j].wire
    BY <1>0, <2>1, <2>2, ConnBroken, Zenon
  <2> QED BY <2>2, <2>3, WiresShrink, Zenon
<1>8. CASE Notice
  <2>1. /\ client' \in ClientType /\ client'.attempted = client.attempted
        /\ client'.pc = "connect" /\ client.pc = "up"
        /\ client'.conn = client.conn /\ client'.opened = client.opened
        /\ UNCHANGED <<plan, faults, synths, queue, conn>>
    BY <1>8, <1>0, Zenon DEF Notice, ClientType
  <2> QED BY <2>1 DEF ClientInv, ClientTypes, OpenedOnce, QueueInOrder, WiresInOrder, OutageDropped
<1>9. ASSUME NEW k \in Ids, PumpRegisters(k) PROVE ClientInv'
  <2>1. conn' = [conn EXCEPT ![k].task = "running"] /\ UNCHANGED <<plan, faults, client, synths, queue>>
    BY <1>9, Zenon DEF PumpRegisters
  <2>2. conn' \in [Ids -> ConnType] /\ \A j \in Ids : conn'[j].wire = conn[j].wire
    BY <1>0, <2>1, ConnTask, Zenon
  <2> QED BY <2>1, <2>2, <1>0, WiresShrink, Zenon
<1>10. ASSUME NEW k \in Ids, TcpReads(k) PROVE ClientInv'
  <2>1. /\ conn' = [conn EXCEPT ![k].wire = Tail(conn[k].wire)] /\ conn[k].wire # <<>>
        /\ UNCHANGED <<plan, faults, client, synths, queue>>
    BY <1>10, Zenon DEF TcpReads
  <2>2. Tail(conn[k].wire) \in Seq(Carried)
    BY <1>0, <2>1, TailFacts, Zenon DEF ConnType
  <2>3. /\ conn' \in [Ids -> ConnType]
        /\ \A j \in Ids : conn'[j].wire = IF j = k THEN Tail(conn[k].wire) ELSE conn[j].wire
    BY <1>0, <2>1, <2>2, ConnWire, Zenon
  <2> QED BY <2>1, <2>3, <1>0, WiresShrink, Zenon
<1>11. ASSUME NEW k \in Ids, TcpEnds(k) \/ SendFails(k) PROVE ClientInv'
  <2>1. /\ conn' = [conn EXCEPT ![k].task = "ended", ![k].wire = <<>>]
        /\ UNCHANGED <<plan, faults, client, synths, queue>>
    BY <1>11, Zenon DEF TcpEnds, SendFails
  <2>2. /\ conn' \in [Ids -> ConnType]
        /\ \A j \in Ids : conn'[j].wire = IF j = k THEN <<>> ELSE conn[j].wire
    BY <1>0, <2>1, ConnEnds, Zenon
  <2> QED BY <2>1, <2>2, <1>0, WiresShrink, Zenon
<1>12. CASE Restart
  <2>1. \A k \in Ids : [conn[k] EXCEPT !.task = "ended", !.broken = TRUE, !.wire = <<>>] \in ConnType
    BY <1>0, EmptyFacts, Zenon DEF ConnType
  <2>2. \A k \in Ids : [conn[k] EXCEPT !.task = "ended", !.broken = TRUE, !.wire = <<>>].wire = <<>>
    BY <1>0, Zenon DEF ConnType
  <2>3. /\ conn' \in [Ids -> ConnType] /\ faults' \in Nat /\ UNCHANGED <<plan, client, synths, queue>>
        /\ \A k \in Ids : conn'[k].wire = conn[k].wire \/ conn'[k].wire = <<>>
    <3>1. /\ conn' = [k \in Ids |-> IF conn[k].task = "none" THEN conn[k]
                          ELSE [conn[k] EXCEPT !.task = "ended", !.broken = TRUE, !.wire = <<>>]]
          /\ faults' = faults + 1 /\ UNCHANGED <<plan, client, synths, queue>>
      BY <1>12, Zenon DEF Restart
    <3>2. \A k \in Ids : conn'[k] = conn[k] \/
              conn'[k] = [conn[k] EXCEPT !.task = "ended", !.broken = TRUE, !.wire = <<>>]
      BY <3>1, Zenon
    <3>3. \A k \in Ids : conn'[k] \in ConnType BY <3>2, <2>1, <1>0, Zenon
    <3>4. conn' = [k \in Ids |-> conn'[k]] BY <3>1, Zenon
    <3>5. conn' \in [Ids -> ConnType] BY <3>3, <3>4, Zenon
    <3>6. \A k \in Ids : conn'[k].wire = conn[k].wire \/ conn'[k].wire = <<>>
      BY <3>2, <2>2, Zenon
    <3>7. faults' \in Nat
      <4>1. faults' = faults + 1 /\ faults \in Nat BY <3>1, <1>0, Zenon
      <4> QED BY <4>1
    <3> QED BY <3>1, <3>5, <3>6, <3>7, Zenon
  <2> QED BY <2>3, WiresShrink, Zenon
<1>13. CASE UNCHANGED <<plan, faults, client, synths, queue, conn>>
  BY <1>13, <1>0, WiresShrink, Zenon
<1>14. ASSUME NEW t \in 1 .. plan.announces, Hear(t) PROVE ClientInv'
  BY <1>14, <1>13, Zenon DEF Hear
<1>15. CASE Handle BY <1>13, <1>15, Zenon DEF Handle
<1>16. CASE Tick BY <1>13, <1>16, Zenon DEF Tick
<1>17. CASE UNCHANGED vars BY <1>13, <1>17, Zenon DEF vars
<1> QED
  BY <1>1, <1>2, <1>3, <1>4, <1>5, <1>6, <1>7, <1>8, <1>9, <1>10, <1>11, <1>12, <1>14, <1>15,
     <1>16, <1>17, Zenon DEF Next

-----------------------------------------------------------------------------
(* The server *)

ServerInv == ServerTypes /\ RegisteredOnce /\ NamesRegistered /\ KeptIsFollowed

\* The tables stay sound when nothing of them changes but the time.
LEMMA TablesStay ==
  ASSUME TunnelsAssumption, ServerTypes, NamesRegistered, KeptIsFollowed,
         UNCHANGED <<plan, ifs, path, tunnel, by, newest, late, now>>
  PROVE  NamesRegistered' /\ KeptIsFollowed'
BY Zenon DEF NamesRegistered, KeptIsFollowed, KeptIsYoung, RoutesAlive, RouteOfKept

\* A message is put into the mailbox: the registration of a connection that has
\* just been accepted, or something else of one that was.
LEMMA BoxGrows ==
  ASSUME TunnelsAssumption, ServerInv, NEW m \in Messages, box' = Append(box, m),
         m.kind # "announce" => m.born \in Ids,
         UNCHANGED <<plan, ifs, path, tunnel, by, newest, late, now>>,
         \A k \in Ids : conn'[k].task \in {"none", "accepted"} =>
                           conn[k].task \in {"none", "accepted"} /\ m.born # k,
         m.kind = "register" => conn[m.born].task = "accepted"
  PROVE  ServerInv'
<1>1. box \in Seq(Messages) BY Zenon DEF ServerInv, ServerTypes
<1>2. /\ box' \in Seq(Messages) /\ Len(box') = Len(box) + 1 /\ Len(box) \in Nat
      /\ \A i \in 1 .. Len(box) : box'[i] = box[i]
      /\ box'[Len(box) + 1] = m
  BY <1>1, AppendFacts
<1>3. \A a \in 1 .. Len(box') : a \in 1 .. Len(box) \/ (a = Len(box) + 1 /\ box'[a] = m)
  BY <1>2
<1>4. ServerTypes' BY <1>2, Zenon DEF ServerInv, ServerTypes
<1>5. RegisteredOnce'
  <2>1. ASSUME NEW k \in Ids, conn'[k].task \in {"none", "accepted"}
        PROVE  k \notin ifs /\ k # newest /\ \A a \in 1 .. Len(box') : box'[a].born # k
    BY <2>1, <1>2, <1>3 DEF ServerInv, RegisteredOnce
  <2>2. ASSUME NEW a \in 1 .. Len(box')
        PROVE  /\ box'[a].kind # "announce" => box'[a].born \in Ids
               /\ box'[a].kind = "register" => box'[a].born \notin ifs /\ box'[a].born # newest
    <3>1. CASE a \in 1 .. Len(box)
      BY <3>1, <1>2 DEF ServerInv, RegisteredOnce
    <3>2. CASE box'[a] = m
      BY <3>2, Zenon DEF ServerInv, RegisteredOnce
    <3> QED BY <1>3, <3>1, <3>2, Zenon
  <2>3. ASSUME NEW a \in 1 .. Len(box'), NEW b \in 1 .. Len(box'), box'[a].kind = "register",
               box'[b].kind = "register", box'[b].born = box'[a].born
        PROVE  b = a
    <3>1. m.kind = "register" => \A i \in 1 .. Len(box) : box[i].born # m.born
      BY Zenon DEF ServerInv, RegisteredOnce
    <3>2. CASE a \in 1 .. Len(box) /\ b \in 1 .. Len(box)
      BY <3>2, <2>3, <1>2 DEF ServerInv, RegisteredOnce
    <3>3. CASE a = Len(box) + 1 /\ b = Len(box) + 1
      BY <3>3, Zenon
    <3>4. CASE (a \in 1 .. Len(box) /\ box'[b] = m) \/ (b \in 1 .. Len(box) /\ box'[a] = m)
      BY <3>4, <3>1, <2>3, <1>2
    <3> QED BY <1>3, <3>2, <3>3, <3>4, Zenon
  <2> QED BY <2>1, <2>2, <2>3, Zenon DEF RegisteredOnce
<1>6. NamesRegistered' /\ KeptIsFollowed' BY TablesStay, Zenon DEF ServerInv
<1> QED BY <1>4, <1>5, <1>6, Zenon DEF ServerInv

\* A message is taken from the mailbox.
LEMMA BoxShrinks ==
  ASSUME TunnelsAssumption, ServerInv, box # <<>>, box' = Tail(box), UNCHANGED conn,
         \A k \in ifs' : k \in ifs \/ (Head(box).kind = "register" /\ k = Head(box).born),
         newest' = newest \/ newest' \in ifs
  PROVE  box' \in Seq(Messages) /\ RegisteredOnce'
<1>1. box \in Seq(Messages) BY Zenon DEF ServerInv, ServerTypes
<1>2. /\ box' \in Seq(Messages) /\ Len(box') = Len(box) - 1 /\ Len(box) \in Nat \ {0}
      /\ \A i \in 1 .. Len(box') : box'[i] = box[i + 1] /\ i + 1 \in 1 .. Len(box)
      /\ Head(box) = box[1]
  BY <1>1, TailFacts
<1>3. 1 \in 1 .. Len(box) BY <1>2
<1>4. ASSUME NEW k \in Ids, conn[k].task \in {"none", "accepted"}
      PROVE  k \notin ifs' /\ k # newest' /\ \A a \in 1 .. Len(box') : box'[a].born # k
  BY <1>2, <1>3, <1>4 DEF ServerInv, RegisteredOnce
<1>5. ASSUME NEW a \in 1 .. Len(box')
      PROVE  /\ box'[a].kind # "announce" => box'[a].born \in Ids
             /\ box'[a].kind = "register" =>
                   /\ box'[a].born \notin ifs' /\ box'[a].born # newest'
                   /\ \A b \in 1 .. Len(box') :
                         box'[b].kind = "register" /\ box'[b].born = box'[a].born => b = a
  <2> DEFINE c == a + 1
  <2>1. c \in 1 .. Len(box) /\ box'[a] = box[c] /\ c # 1 /\ a \in Nat BY <1>2
  <2> HIDE DEF c
  <2>2. /\ box[c].kind # "announce" => box[c].born \in Ids
        /\ box[c].kind = "register" =>
              /\ box[c].born \notin ifs /\ box[c].born # newest
              /\ \A d \in 1 .. Len(box) :
                    box[d].kind = "register" /\ box[d].born = box[c].born => d = c
    BY <2>1, Zenon DEF ServerInv, RegisteredOnce
  <2>3. box[c].kind = "register" => box[c].born \notin ifs' /\ box[c].born # newest'
    BY <2>1, <2>2, <1>2, <1>3
  <2>4. ASSUME box[c].kind = "register", NEW b \in 1 .. Len(box'),
               box'[b].kind = "register", box'[b].born = box'[a].born
        PROVE  b = a
    <3>1. b + 1 \in 1 .. Len(box) /\ box'[b] = box[b + 1] BY <1>2, Zenon
    <3>2. b + 1 = c BY <3>1, <2>1, <2>2, <2>4, Zenon
    <3> QED BY <3>2, <2>1 DEF c
  <2> QED BY <2>1, <2>2, <2>3, <2>4, Zenon
<1> QED BY <1>2, <1>4, <1>5, Zenon DEF RegisteredOnce

\* The mailbox is left alone or emptied, and interfaces only go.
LEMMA BoxStays ==
  ASSUME TunnelsAssumption, ServerInv, box' = box \/ box' = <<>>, ifs' \subseteq ifs,
         newest' = newest \/ newest' = 0,
         \A k \in Ids : conn'[k].task \in {"none", "accepted"} => conn[k].task \in {"none", "accepted"}
  PROVE  box' \in Seq(Messages) /\ RegisteredOnce'
<1>1. box \in Seq(Messages) /\ 0 \notin Ids BY ConstantFacts, Zenon DEF ServerInv, ServerTypes
<1>2. CASE box' = box
  BY <1>1, <1>2 DEF ServerInv, RegisteredOnce
<1>3. CASE box' = <<>>
  <2>1. \A a \in 1 .. Len(box') : FALSE BY <1>3, EmptyFacts
  <2>2. box' \in Seq(Messages) BY <1>3, EmptyFacts, Zenon
  <2> QED BY <1>1, <2>1, <2>2, Zenon DEF ServerInv, RegisteredOnce
<1> QED BY <1>2, <1>3, Zenon

TablesTypes ==
    /\ plan \in Plans
    /\ ifs \subseteq Ids /\ by \subseteq Ids /\ path \in PathType /\ tunnel \in TunnelType
    /\ now \in Nat /\ newest \in 0 .. Conns /\ late \in BOOLEAN
TablesInv == TablesTypes /\ NamesRegistered /\ KeptIsFollowed

LEMMA TablesSame ==
  ASSUME TablesInv, UNCHANGED <<plan, ifs, path, tunnel, by, newest, late, now>>
  PROVE  TablesInv'
<1>1. NamesRegistered' /\ TablesTypes' BY Zenon DEF TablesInv, TablesTypes, NamesRegistered
<1>2. KeptIsYoung' /\ RoutesAlive' BY Zenon DEF TablesInv, KeptIsFollowed, KeptIsYoung, RoutesAlive
<1>3. RouteOfKept => RouteOfKept' BY Zenon DEF RouteOfKept
<1> QED BY <1>1, <1>2, <1>3, Zenon DEF TablesInv, KeptIsFollowed

LEMMA NothingTypes ==
  ASSUME TunnelsAssumption
  PROVE  NoPath \in PathType /\ NoTunnelPath \in TunnelPathType /\ NoTunnel \in TunnelType
<1>1. NoPath \in PathType BY ConstantFacts DEF NoPath, PathType
<1>2. NoTunnelPath \in TunnelPathType BY Zenon DEF NoTunnelPath, TunnelPathType
<1>3. NoTunnel \in TunnelType BY ConstantFacts, <1>2 DEF NoTunnel, TunnelType
<1> QED BY <1>1, <1>2, <1>3, Zenon

\* deregister_interface leaves nothing that names the interface.
LEMMA DeregisteredKeeps ==
  ASSUME TunnelsAssumption, TablesInv, NEW k \in Ids, Deregistered(k), UNCHANGED <<plan, now>>
  PROVE  TablesInv'
<1>1. tunnel \in TunnelType /\ path \in PathType /\ 0 \in 0 .. Conns
  BY ConstantFacts DEF TablesInv, TablesTypes
<1>2. /\ tunnel' \in TunnelType /\ tunnel'.held = tunnel.held /\ tunnel'.path = tunnel.path
      /\ tunnel'.iface = IF tunnel.iface = k THEN 0 ELSE tunnel.iface
  <2>1. [tunnel EXCEPT !.iface = 0] \in TunnelType
    BY <1>1, Zenon DEF TunnelType
  <2> QED BY <1>1, <2>1, Zenon DEF Deregistered, Voided, TunnelType
<1>3. /\ path' \in PathType /\ (path.via = k => path' = NoPath) /\ (path.via # k => path' = path)
      /\ ifs' = ifs \ {k} /\ by' = by \ {k} /\ UNCHANGED <<newest, late>>
  BY <1>1, NothingTypes, Zenon DEF Deregistered
<1>4. NoPath.via = 0 BY Zenon DEF NoPath
<1>5. TablesTypes' BY <1>2, <1>3, Zenon DEF TablesInv, TablesTypes
<1>6. NamesRegistered'
  BY <1>2, <1>3, <1>4, Zenon DEF TablesInv, NamesRegistered
<1>7. KeptIsFollowed'
  <2>1. KeptIsYoung' BY <1>2, Zenon DEF TablesInv, KeptIsFollowed, KeptIsYoung
  <2>2. RoutesAlive' BY <1>3, Zenon DEF TablesInv, KeptIsFollowed, RoutesAlive
  <2>3. ASSUME newest \in ifs', ~late, tunnel.held
        PROVE  /\ tunnel'.iface = newest
               /\ tunnel.path # NoTunnelPath /\ now < tunnel.path.expires => RouteOfKept'
    <3>1. newest # k /\ newest \in ifs /\ Radio # k BY <2>3, <1>3, ConstantFacts, Zenon
    <3> QED BY <3>1, <2>3, <1>2, <1>3, Zenon DEF TablesInv, KeptIsFollowed, RouteOfKept
  <2> QED BY <2>1, <2>2, <2>3, <1>2, <1>3, Zenon DEF KeptIsFollowed
<1> QED BY <1>5, <1>6, <1>7, Zenon DEF TablesInv

\* A registration: the newest connection was registered before its synthesis.
LEMMA RegisterKeeps ==
  ASSUME TunnelsAssumption, TablesInv, NEW k \in Ids, k # newest, ifs' = ifs \cup {k},
         UNCHANGED <<plan, path, tunnel, by, newest, late, now>>
  PROVE  TablesInv'
<1>1. NamesRegistered' /\ TablesTypes' BY Zenon DEF TablesInv, TablesTypes, NamesRegistered
<1>2. KeptIsYoung' /\ RoutesAlive' BY Zenon DEF TablesInv, KeptIsFollowed, KeptIsYoung, RoutesAlive
<1>3. RouteOfKept => RouteOfKept' BY Zenon DEF RouteOfKept
<1> QED BY <1>1, <1>2, <1>3, Zenon DEF TablesInv, KeptIsFollowed

\* process_announce: an announce of the newest connection renews what the tunnel
\* keeps, one over the radio replaces the path only if it is later.
LEMMA LearnedKeeps ==
  ASSUME TunnelsAssumption, TablesInv, NEW k, k \in ifs \/ k = Radio,
         NEW t \in Nat, NEW hops \in Nat, Learned(k, t, hops), UNCHANGED <<plan, now>>
  PROVE  TablesInv'
<1> DEFINE add == path = NoPath \/ t > path.time
           until == now + Lifetime(k)
           kept == [since |-> now, hops |-> hops, time |-> t, expires |-> until]
           new == [via |-> k, hops |-> hops, time |-> t, expires |-> until]
<1>1. /\ tunnel \in TunnelType /\ path \in PathType /\ now \in Nat /\ k \in 0 .. Radio
      /\ TUNNEL_TIMEOUT \in Nat /\ ifs \subseteq Ids /\ by \subseteq ifs
      /\ until \in Nat /\ until > now + 1 /\ now + TUNNEL_TIMEOUT \in Nat
      /\ k # Radio => until = now + plan.life
  <2>1. /\ ifs \subseteq Ids /\ by \subseteq ifs /\ tunnel \in TunnelType /\ path \in PathType
        /\ now \in Nat /\ plan \in Plans
    BY Zenon DEF TablesInv, TablesTypes, NamesRegistered
  <2>2. \A i \in 1 .. Radio : i \in 0 .. Radio BY ConstantFacts
  <2>3. k \in 0 .. Radio BY <2>1, <2>2, ConstantFacts, Zenon
  <2>4. Lifetime(k) \in Nat /\ Lifetime(k) > 1 /\ (k # Radio => Lifetime(k) = plan.life)
    BY <2>1, ConstantFacts, Zenon DEF Lifetime
  <2> QED BY <2>1, <2>3, <2>4, ConstantFacts
<1> HIDE DEF until
<1>2. kept \in TunnelPathType /\ new \in PathType
  BY <1>1, Zenon DEF TunnelPathType, PathType
<1>3. /\ path' = IF add THEN new ELSE path
      /\ tunnel' = IF add /\ k \in by /\ tunnel.held
                   THEN [tunnel EXCEPT !.path = kept, !.expires = now + TUNNEL_TIMEOUT] ELSE tunnel
      /\ late' = (late \/ (k \in Ids /\ k # newest)) /\ UNCHANGED <<ifs, by, newest>>
  BY Zenon DEF Learned, until
<1>4. /\ new.via = k /\ new.time = t /\ new.expires = until
      /\ kept.since = now /\ kept.time = t /\ kept.expires = until
  OBVIOUS
<1> HIDE DEF kept, new
<1>5. /\ tunnel' \in TunnelType /\ tunnel'.held = tunnel.held /\ tunnel'.iface = tunnel.iface
      /\ tunnel'.path = IF add /\ k \in by /\ tunnel.held THEN kept ELSE tunnel.path
  <2>1. [tunnel EXCEPT !.path = kept, !.expires = now + TUNNEL_TIMEOUT] \in TunnelType
    BY <1>1, <1>2, Zenon DEF TunnelType
  <2> HIDE DEF add
  <2> QED BY <1>1, <1>3, <2>1, Zenon DEF TunnelType
<1>6. TablesTypes'
  <2> HIDE DEF add
  <2> QED BY <1>1, <1>2, <1>3, <1>5, Zenon DEF TablesInv, TablesTypes
<1>7. NamesRegistered'
  <2>1. path'.via \in ifs \cup {0, Radio}
    <3> HIDE DEF add
    <3> QED BY <1>3, <1>4, Zenon DEF TablesInv, NamesRegistered
  <2> QED BY <2>1, <1>3, <1>5, Zenon DEF TablesInv, NamesRegistered
<1>8. KeptIsYoung'
  <2>1. CASE add /\ k \in by /\ tunnel.held
    <3>1. tunnel'.path = kept /\ k # Radio BY <2>1, <1>1, <1>5, ConstantFacts, Zenon
    <3>2. now <= now + TUNNEL_TIMEOUT BY <1>1
    <3> QED BY <3>1, <3>2, <1>1, <1>4, Zenon DEF KeptIsYoung
  <2>2. CASE ~(add /\ k \in by /\ tunnel.held)
    <3>1. tunnel'.path = tunnel.path BY <2>2, <1>5, Zenon
    <3> QED BY <3>1, Zenon DEF TablesInv, KeptIsFollowed, KeptIsYoung
  <2> QED BY <2>1, <2>2, Zenon
<1>9. RoutesAlive'
  <2>1. CASE add
    <3>1. path' = new /\ new.expires > now BY <2>1, <1>1, <1>3, <1>4
    <3> QED BY <3>1, Zenon DEF RoutesAlive
  <2>2. CASE ~add
    BY <2>2, <1>3, Zenon DEF TablesInv, KeptIsFollowed, RoutesAlive
  <2> QED BY <2>1, <2>2, Zenon
<1>10. ASSUME newest \in ifs, ~late', tunnel.held
       PROVE  /\ tunnel.iface = newest
              /\ tunnel'.path # NoTunnelPath /\ now < tunnel'.path.expires => RouteOfKept'
  <2>1. ~late /\ (k = newest \/ k = Radio)
    BY <1>10, <1>1, <1>3, Zenon
  <2>2. /\ tunnel.iface = newest
        /\ tunnel.path # NoTunnelPath /\ now < tunnel.path.expires => RouteOfKept
    BY <2>1, <1>10, Zenon DEF TablesInv, KeptIsFollowed
  <2>3. CASE ~add
    BY <2>2, <2>3, <1>3, <1>5, Zenon DEF RouteOfKept
  <2>4. CASE add /\ k = newest
    <3>1. newest \in by BY <1>10, Zenon DEF TablesInv, NamesRegistered
    <3>2. path' = new /\ tunnel'.path = kept BY <2>4, <3>1, <1>3, <1>5, <1>10, Zenon
    <3>3. new.via = newest' /\ new.time >= kept.time /\ new.expires >= kept.expires
      BY <2>4, <1>1, <1>3, <1>4
    <3> QED BY <2>2, <3>2, <3>3, Zenon DEF RouteOfKept
  <2>5. CASE add /\ k = Radio
    <3>1. k \notin by BY <2>5, <1>1, ConstantFacts, Zenon
    <3>2. path' = new /\ tunnel'.path = tunnel.path BY <2>5, <3>1, <1>3, <1>5, Zenon
    <3>3. ASSUME tunnel.path # NoTunnelPath, now < tunnel.path.expires
          PROVE  new.time > tunnel.path.time /\ new.expires > now + 1
      <4>1. path # NoPath /\ path.time >= tunnel.path.time
        <5>1. newest # 0 /\ Radio # 0 BY <1>10, <1>1, ConstantFacts
        <5>2. NoPath.via = 0 BY Zenon DEF NoPath
        <5>3. path.time \in Nat /\ tunnel.path.time \in Nat
          BY <1>1, Zenon DEF TunnelType, TunnelPathType, PathType
        <5>4. RouteOfKept BY <2>2, <3>3, Zenon
        <5>5. path # NoPath BY <5>1, <5>2, <5>4, Zenon DEF RouteOfKept
        <5> QED BY <5>3, <5>4, <5>5 DEF RouteOfKept
      <4>2. t > path.time BY <4>1, <2>5, Zenon
      <4>3. tunnel.path.time \in Nat /\ path.time \in Nat
        BY <1>1, Zenon DEF TunnelType, TunnelPathType, PathType
      <4> QED BY <4>1, <4>2, <4>3, <1>1, <1>4
    <3> QED BY <2>2, <2>5, <3>2, <3>3, <1>4, Zenon DEF RouteOfKept
  <2> QED BY <2>1, <2>3, <2>4, <2>5, Zenon
<1>11. KeptIsFollowed' BY <1>3, <1>5, <1>8, <1>9, <1>10, Zenon DEF KeptIsFollowed
<1> QED BY <1>6, <1>7, <1>11, Zenon DEF TablesInv

\* handle_tunnel: what the tunnel has kept becomes the path through the
\* connection, or is forgotten.
LEMMA SynthesizedKeeps ==
  ASSUME TunnelsAssumption, TablesInv, NEW k \in ifs, Synthesized(k), UNCHANGED <<plan, now>>
  PROVE  TablesInv'
<1> DEFINE p == tunnel.path
           again == tunnel.held /\ tunnel.path # NoTunnelPath /\ Restorable
           restored == [via |-> k, hops |-> p.hops, time |-> p.time, expires |-> p.expires]
<1>1. /\ tunnel \in TunnelType /\ path \in PathType /\ now \in Nat /\ k \in Ids /\ k \in 0 .. Conns
      /\ k \in 0 .. Radio /\ TUNNEL_TIMEOUT \in Nat /\ now + TUNNEL_TIMEOUT \in Nat
      /\ newest \in 0 .. Conns /\ p \in TunnelPathType /\ plan.life \in Nat
  BY ConstantFacts DEF TablesInv, TablesTypes, Ids, TunnelType
<1>2. /\ path' = IF again THEN restored ELSE path
      /\ tunnel' = [held |-> TRUE, iface |-> k, expires |-> now + TUNNEL_TIMEOUT,
                    path |-> IF again THEN p ELSE NoTunnelPath]
      /\ by' = by \cup {k} /\ newest' = (IF k > newest THEN k ELSE newest)
      /\ late' = (k <= newest /\ (late \/ k # newest)) /\ UNCHANGED ifs
  BY Zenon DEF Synthesized
<1> HIDE DEF again
<1>3. /\ tunnel' \in TunnelType /\ tunnel'.iface = k /\ tunnel'.held
      /\ tunnel'.path = IF again THEN p ELSE NoTunnelPath
  BY <1>1, <1>2, NothingTypes, Zenon DEF TunnelType
<1>4. /\ restored \in PathType /\ restored.via = k /\ restored.time = p.time
      /\ restored.expires = p.expires
  BY <1>1, Zenon DEF PathType, TunnelPathType
<1> HIDE DEF restored
<1>5. TablesTypes'
  <2>1. late' \in BOOLEAN BY <1>2, Zenon
  <2> QED BY <2>1, <1>1, <1>2, <1>3, <1>4, Zenon DEF TablesInv, TablesTypes
<1>6. NamesRegistered'
  BY <1>2, <1>3, <1>4, Zenon DEF TablesInv, NamesRegistered
<1>7. again => /\ p # NoTunnelPath /\ now <= p.since + TUNNEL_TIMEOUT
               /\ p.expires = p.since + plan.life
  BY Zenon DEF again, TablesInv, KeptIsFollowed, KeptIsYoung
<1>8. ~late' => newest' = k
  <2>1. k \in Int /\ newest \in Int BY <1>1, ConstantFacts
  <2>2. ~late' => k > newest \/ k = newest
    <3>1. ~(k <= newest) => k > newest BY <2>1
    <3> QED BY <3>1, <1>2, Zenon
  <2> QED BY <2>1, <2>2, <1>2, Zenon
<1>9. KeptIsFollowed'
  <2>1. p.since \in Nat /\ p.time \in Nat /\ p.expires \in Nat BY <1>1, Zenon DEF TunnelPathType
  <2>2. CASE again
    <3>1. path' = restored /\ tunnel'.path = p BY <2>2, <1>2, <1>3, Zenon
    <3>2. KeptIsYoung' BY <3>1, <2>2, <1>7, Zenon DEF KeptIsYoung
    <3>3. RoutesAlive'
      <4>1. plan.life > TUNNEL_TIMEOUT => p.expires > now BY <2>1, <2>2, <1>1, <1>7
      <4> QED BY <4>1, <3>1, <1>4, Zenon DEF RoutesAlive
    <3>4. ~late' => RouteOfKept'
      <4>1. p.time >= p.time /\ p.expires >= p.expires BY <2>1
      <4> QED BY <4>1, <3>1, <1>4, <1>8, Zenon DEF RouteOfKept
    <3> QED BY <3>2, <3>3, <3>4, <1>3, <1>8, Zenon DEF KeptIsFollowed
  <2>3. CASE ~again
    <3>1. path' = path /\ tunnel'.path = NoTunnelPath BY <2>3, <1>2, <1>3, Zenon
    <3>2. KeptIsYoung' /\ RoutesAlive'
      BY <3>1, Zenon DEF TablesInv, KeptIsFollowed, KeptIsYoung, RoutesAlive
    <3> QED BY <3>1, <3>2, <1>3, <1>8, Zenon DEF KeptIsFollowed
  <2> QED BY <2>2, <2>3, Zenon
<1> QED BY <1>5, <1>6, <1>9, Zenon DEF TablesInv

\* on_tick: a path that expires lived as long as what the tunnel kept of it.
LEMMA TickKeeps ==
  ASSUME TunnelsAssumption, TablesInv, Tick
  PROVE  TablesInv'
<1> DEFINE gone == path.expires <= now + 1
           live == IF gone THEN NoPath ELSE path
           old == \/ now + 1 > tunnel.path.since + TUNNEL_TIMEOUT
                  \/ live # NoPath /\ live.time > tunnel.path.time
           culled == tunnel.held /\ tunnel.expires <= now + 1
<1>1. /\ tunnel \in TunnelType /\ path \in PathType /\ now \in Nat /\ tunnel.path \in TunnelPathType
      /\ NoPath.via = 0 /\ NoTunnel.iface = 0 /\ NoTunnel.path = NoTunnelPath /\ ~NoTunnel.held
  BY Zenon DEF TablesInv, TablesTypes, TunnelType, NoPath, NoTunnel
<1>2. /\ path' = live /\ now' = now + 1 /\ UNCHANGED <<plan, ifs, by, newest, late>>
      /\ tunnel' = IF culled THEN NoTunnel
                   ELSE IF old THEN [tunnel EXCEPT !.path = NoTunnelPath] ELSE tunnel
  BY Zenon DEF Tick
<1>3. /\ tunnel' \in TunnelType
      /\ culled => tunnel' = NoTunnel
      /\ ~culled => /\ tunnel'.held = tunnel.held /\ tunnel'.iface = tunnel.iface
                    /\ tunnel'.path = IF old THEN NoTunnelPath ELSE tunnel.path
  <2>1. [tunnel EXCEPT !.path = NoTunnelPath] \in TunnelType
    BY <1>1, NothingTypes, Zenon DEF TunnelType
  <2> HIDE DEF culled, old
  <2> QED BY <1>1, <1>2, <2>1, NothingTypes, Zenon DEF TunnelType
<1>4. path' \in PathType /\ (gone => path' = NoPath) /\ (~gone => path' = path)
  BY <1>1, <1>2, NothingTypes, Zenon
<1>5. TablesTypes'
  <2>1. now' \in Nat BY <1>1, <1>2
  <2> QED BY <2>1, <1>2, <1>3, <1>4, Zenon DEF TablesInv, TablesTypes
<1>6. NamesRegistered'
  <2>1. path'.via \in ifs \cup {0, Radio} BY <1>1, <1>4, Zenon DEF TablesInv, NamesRegistered
  <2>2. tunnel'.iface \in ifs \cup {0} BY <1>1, <1>3, Zenon DEF TablesInv, NamesRegistered
  <2> QED BY <2>1, <2>2, <1>2, Zenon DEF TablesInv, NamesRegistered
<1>7. ASSUME tunnel'.path # NoTunnelPath
      PROVE  ~culled /\ ~old /\ tunnel'.path = tunnel.path /\ tunnel.path # NoTunnelPath
  BY <1>7, <1>1, <1>3, Zenon
<1>8. /\ now \in Nat /\ path.expires \in Nat /\ path.time \in Nat /\ TUNNEL_TIMEOUT \in Nat
      /\ tunnel.path.since \in Nat /\ tunnel.path.expires \in Nat /\ tunnel.path.time \in Nat
  BY <1>1, ConstantFacts, Zenon DEF TunnelPathType, PathType
<1>9. KeptIsYoung'
  <2> SUFFICES ASSUME tunnel'.path # NoTunnelPath
               PROVE  /\ now + 1 <= tunnel.path.since + TUNNEL_TIMEOUT
                      /\ tunnel.path.expires = tunnel.path.since + plan.life
    BY <1>2, <1>7, Zenon DEF KeptIsYoung
  <2>1. ~(now + 1 > tunnel.path.since + TUNNEL_TIMEOUT) BY <1>7, Zenon
  <2>2. tunnel.path.expires = tunnel.path.since + plan.life
    BY <1>7, Zenon DEF TablesInv, KeptIsFollowed, KeptIsYoung
  <2> QED BY <1>8, <2>1, <2>2
<1>10. RoutesAlive'
  <2>1. path' # NoPath => path' = path /\ path.expires > now' BY <1>2, <1>4, <1>8
  <2> QED BY <2>1, Zenon DEF RoutesAlive
<1>11. ASSUME newest' \in ifs', ~late', tunnel'.held
       PROVE  /\ tunnel'.iface = newest'
              /\ tunnel'.path # NoTunnelPath /\ now' < tunnel'.path.expires => RouteOfKept'
  <2>1. /\ newest \in ifs /\ ~late /\ tunnel.held /\ tunnel'.iface = tunnel.iface
    BY <1>1, <1>2, <1>3, <1>11, Zenon
  <2>2. /\ tunnel.iface = newest
        /\ tunnel.path # NoTunnelPath /\ now < tunnel.path.expires => RouteOfKept
    BY <2>1, Zenon DEF TablesInv, KeptIsFollowed
  <2>3. ASSUME tunnel'.path # NoTunnelPath, now' < tunnel'.path.expires PROVE RouteOfKept'
    <3>1. /\ tunnel'.path = tunnel.path /\ tunnel.path # NoTunnelPath
          /\ now + 1 < tunnel.path.expires /\ ~old
      BY <2>3, <1>2, <1>7, Zenon
    <3>2. RouteOfKept
      <4>1. now < tunnel.path.expires BY <3>1, <1>8
      <4> QED BY <4>1, <3>1, <2>2, Zenon
    <3>3. ~gone BY <3>1, <3>2, <1>8 DEF RouteOfKept
    <3>4. path' = path /\ live = path BY <3>3, <1>2, Zenon
    <3>5. ~(path.time > tunnel.path.time)
      <4>1. path # NoPath
        <5>1. newest # 0 /\ Radio # 0
          BY <2>1, ConstantFacts DEF TablesInv, TablesTypes
        <5> QED BY <5>1, <3>2, <1>1, Zenon DEF RouteOfKept
      <4> QED BY <4>1, <3>1, <3>4, Zenon
    <3> QED BY <3>1, <3>2, <3>4, <3>5, <1>2, Zenon DEF RouteOfKept
  <2> QED BY <2>1, <2>2, <2>3, <1>2, Zenon
<1>12. KeptIsFollowed' BY <1>9, <1>10, <1>11, Zenon DEF KeptIsFollowed
<1> QED BY <1>5, <1>6, <1>12, Zenon DEF TablesInv

\* A restart leaves the tunnel unbound, and no connection.
LEMMA RestartKeeps ==
  ASSUME TunnelsAssumption, TablesInv, Restart
  PROVE  TablesInv'
<1>1. /\ tunnel \in TunnelType /\ path \in PathType /\ NoPath.via = 0 /\ NoTunnel.iface = 0
      /\ NoTunnel.path = NoTunnelPath /\ 0 \in 0 .. Conns
  BY ConstantFacts DEF TablesInv, TablesTypes, NoPath, NoTunnel
<1>2. /\ tunnel' = [tunnel EXCEPT !.iface = 0] \/ tunnel' = NoTunnel
      /\ (path' = path /\ path.via = Radio) \/ path' = NoPath
      /\ ifs' = {} /\ by' = {} /\ newest' = 0 /\ late' = FALSE /\ now' = now /\ plan' = plan
  BY Zenon DEF Restart
<1>3. [tunnel EXCEPT !.iface = 0] \in TunnelType BY <1>1, Zenon DEF TunnelType
<1>4. [tunnel EXCEPT !.iface = 0].iface = 0 /\ [tunnel EXCEPT !.iface = 0].path = tunnel.path
  BY <1>1, Zenon DEF TunnelType
<1>5. /\ tunnel' \in TunnelType /\ tunnel'.iface = 0 /\ path' \in PathType
      /\ tunnel'.path = tunnel.path \/ tunnel'.path = NoTunnelPath
      /\ path'.via \in {0, Radio}
  BY <1>1, <1>2, <1>3, <1>4, NothingTypes, Zenon
<1>6. TablesTypes' /\ NamesRegistered'
  BY <1>1, <1>2, <1>5, Zenon DEF TablesInv, TablesTypes, NamesRegistered
<1>7. KeptIsYoung' /\ RoutesAlive'
  BY <1>2, <1>5, Zenon DEF TablesInv, KeptIsFollowed, KeptIsYoung, RoutesAlive
<1> QED BY <1>2, <1>6, <1>7, Zenon DEF TablesInv, KeptIsFollowed

\* The actor handles a message.
LEMMA HandleKeeps ==
  ASSUME TunnelsAssumption, plan \in Plans, ServerInv, Handle
  PROVE  ServerInv'
<1> DEFINE m == Head(box)
<1>1. TablesInv BY Zenon DEF ServerInv, ServerTypes, TablesInv, TablesTypes
<1>2. /\ m \in Messages /\ m = box[1] /\ 1 \in 1 .. Len(box)
      /\ box # <<>> /\ box' = Tail(box) /\ UNCHANGED <<plan, conn, now>>
  <2>1. box \in Seq(Messages) /\ box # <<>> BY Zenon DEF ServerInv, ServerTypes, Handle
  <2>2. Len(box) \in Nat \ {0} /\ Head(box) = box[1] /\ Head(box) \in Messages BY <2>1, TailFacts, Zenon
  <2>3. 1 \in 1 .. Len(box) BY <2>2
  <2> QED BY <2>1, <2>2, <2>3, Zenon DEF Handle
<1>3. /\ m.time \in Nat /\ plan.hops \in Nat /\ plan.radio \in Nat
      /\ m.kind # "announce" => m.born \in Ids
      /\ m.kind = "register" => m.born # newest
  <2>1. m.time \in Nat BY <1>2, Zenon DEF Messages
  <2> QED BY <2>1, <1>2, ConstantFacts, Zenon DEF ServerInv, RegisteredOnce
<1> HIDE DEF m
<1>4. SUFFICES /\ TablesInv'
               /\ \A k \in ifs' : k \in ifs \/ (m.kind = "register" /\ k = m.born)
               /\ newest' = newest \/ newest' \in ifs
  <2>1. box' \in Seq(Messages) /\ RegisteredOnce' BY <1>2, <1>4, BoxShrinks, Zenon DEF m
  <2> QED BY <2>1, <1>4, Zenon DEF ServerInv, ServerTypes, TablesInv, TablesTypes
<1>5. CASE m.kind = "register" /\ ifs' = ifs \cup {m.born} /\ UNCHANGED <<path, tunnel, by, newest, late>>
  <2>1. TablesInv' BY <1>1, <1>2, <1>3, <1>5, RegisterKeeps, Zenon
  <2> QED BY <2>1, <1>5, Zenon
<1>6. CASE m.kind = "deregister" /\ Deregistered(m.born)
  <2>1. TablesInv' BY <1>1, <1>2, <1>3, <1>6, DeregisteredKeeps, Zenon
  <2>2. ifs' = ifs \ {m.born} /\ newest' = newest BY <1>6, Zenon DEF Deregistered
  <2> QED BY <2>1, <2>2, Zenon
<1>7. ASSUME m.born \in ifs \/ m.born = Radio, NEW h \in Nat, Learned(m.born, m.time, h)
      PROVE  TablesInv' /\ ifs' = ifs /\ newest' = newest
  <2>1. TablesInv' BY <1>1, <1>2, <1>3, <1>7, LearnedKeeps, Zenon
  <2>2. ifs' = ifs /\ newest' = newest BY <1>7, Zenon DEF Learned
  <2> QED BY <2>1, <2>2, Zenon
<1>8. CASE m.born \in ifs /\ Synthesized(m.born)
  <2>1. TablesInv' BY <1>1, <1>2, <1>8, SynthesizedKeeps, Zenon
  <2>2. ifs' = ifs /\ (newest' = newest \/ newest' \in ifs)
    BY <1>8, Zenon DEF Synthesized
  <2> QED BY <2>1, <2>2, Zenon
<1>9. CASE UNCHANGED <<ifs, path, tunnel, by, newest, late>>
  BY <1>1, <1>2, <1>9, TablesSame, Zenon
<1> QED
  <2>1. \/ m.kind = "register" /\ ifs' = ifs \cup {m.born} /\ UNCHANGED <<path, tunnel, by, newest, late>>
        \/ m.kind = "deregister" /\ Deregistered(m.born)
        \/ m.born \in ifs /\ Learned(m.born, m.time, plan.hops)
        \/ m.born = Radio /\ Learned(m.born, m.time, plan.radio)
        \/ m.born \in ifs /\ Synthesized(m.born)
        \/ UNCHANGED <<ifs, path, tunnel, by, newest, late>>
    BY Zenon DEF Handle, m
  <2> QED BY <2>1, <1>3, <1>5, <1>6, <1>7, <1>8, <1>9, Zenon

\* The task of a connection never returns to where it waits for its registration,
\* and only the client's next connection gets one.
LEMMA TaskStep ==
  ASSUME TunnelsAssumption, ClientInv, NoneAhead, RegisteredOnce, [Next]_vars
  PROVE  /\ \A j \in Ids : conn'[j].task \in {"none", "accepted"} => conn[j].task \in {"none", "accepted"}
         /\ NoneAhead'
<1> DEFINE Goal == /\ \A j \in Ids : conn'[j].task \in {"none", "accepted"} =>
                                        conn[j].task \in {"none", "accepted"}
                   /\ NoneAhead'
<1>1. /\ plan \in Plans /\ client \in ClientType /\ queue \in Seq(Carried)
      /\ conn \in [Ids -> ConnType] /\ client.conn \in 0 .. Conns /\ Conns \in Nat
  BY ConstantFacts, Zenon DEF ClientInv, ClientTypes, ClientType
<1>2. client.pc # "connect" => client.conn \in Ids
  BY <1>1 DEF ClientInv, OpenedOnce, Ids
<1>3. ASSUME NEW k \in Ids, k <= client.conn, client'.conn = client.conn,
             \A j \in Ids \ {k} : conn'[j].task = conn[j].task,
             conn'[k].task = conn[k].task \/ conn'[k].task \in {"running", "ended"}
      PROVE  Goal
  <2>1. \A j \in Ids : j > client.conn => j # k BY <1>1, <1>3 DEF Ids
  <2> QED BY <1>3, <2>1, Zenon DEF NoneAhead
<1>4. ASSUME client'.conn = client.conn, \A j \in Ids : conn'[j].task = conn[j].task
      PROVE  Goal
  BY <1>4, Zenon DEF NoneAhead
<1>5. \A k \in Ids : conn[k].task # "none" => k <= client.conn
  <2>1. \A k \in Ids : k > client.conn \/ k <= client.conn BY <1>1 DEF Ids
  <2> QED BY <2>1, Zenon DEF NoneAhead
<1>6. ASSUME Connect PROVE Goal
  <2> DEFINE n == client.conn + 1
  <2>1. n \in Ids /\ n > client.conn
    <3>1. client.conn < plan.conns BY <1>6, Zenon DEF Connect
    <3>2. plan.conns \in 1 .. Conns BY <1>1, ConstantFacts, Zenon
    <3> QED BY <1>1, <3>1, <3>2 DEF Ids
  <2>2. client'.conn = n BY <1>1, <1>6, Zenon DEF Connect, ClientType
  <2>3. \A j \in Ids : j > n => j > client.conn /\ j # n BY <1>1 DEF Ids
  <2>4. conn' = [conn EXCEPT ![n].task = "accepted"] BY <1>6, Zenon DEF Connect
  <2> HIDE DEF n
  <2>5. \A j \in Ids : conn'[j].task = IF j = n THEN "accepted" ELSE conn[j].task
    BY <2>1, <2>4, <1>1, ConnTask
  <2>6. conn[n].task = "none" BY <2>1, Zenon DEF NoneAhead
  <2> QED BY <2>2, <2>3, <2>5, <2>6, Zenon DEF NoneAhead
<1>7. ASSUME Refused \/ Open \/ Notice PROVE Goal
  <2>1. client'.conn = client.conn BY <1>1, <1>7, Zenon DEF Refused, Open, Notice, ClientType
  <2>2. conn' = conn BY <1>7, Zenon DEF Refused, Open, Notice
  <2> QED BY <2>1, <2>2, <1>4, Zenon
<1>8. ASSUME Write PROVE Goal
  <2> DEFINE w == IF conn[client.conn].broken THEN conn[client.conn].wire
                  ELSE Append(conn[client.conn].wire, Head(queue))
  <2>1. client.conn \in Ids BY <1>8, <1>2, Zenon DEF Write
  <2>2. w \in Seq(Carried)
    <3>1. conn[client.conn].wire \in Seq(Carried) BY <1>1, <2>1, Zenon DEF ConnType
    <3>2. Head(queue) \in Carried BY <1>1, <1>8, TailFacts, Zenon DEF Write
    <3> QED BY <3>1, <3>2, AppendFacts, Zenon
  <2>3. conn' = [conn EXCEPT ![client.conn].wire = w] /\ client' = client BY <1>8, Zenon DEF Write
  <2> HIDE DEF w
  <2>4. \A j \in Ids : conn'[j].task = conn[j].task BY <2>1, <2>2, <2>3, <1>1, ConnWire, Zenon
  <2> QED BY <2>3, <2>4, <1>4, Zenon
<1>9. ASSUME Break PROVE Goal
  <2>1. client.conn \in Ids BY <1>9, <1>2, Zenon DEF Break
  <2>2. conn' = [conn EXCEPT ![client.conn].broken = TRUE] /\ client' = client BY <1>9, Zenon DEF Break
  <2>3. \A j \in Ids : conn'[j].task = conn[j].task BY <2>1, <2>2, <1>1, ConnBroken, Zenon
  <2> QED BY <2>2, <2>3, <1>4, Zenon
<1>10. ASSUME NEW k \in Ids, PumpRegisters(k) PROVE Goal
  <2>1. conn[k].task = "accepted" /\ conn' = [conn EXCEPT ![k].task = "running"] /\ client' = client
    BY <1>10, Zenon DEF PumpRegisters
  <2>2. \A j \in Ids : conn'[j].task = IF j = k THEN "running" ELSE conn[j].task
    BY <2>1, <1>1, ConnTask
  <2>3. k <= client.conn BY <2>1, <1>5, Zenon
  <2> QED BY <2>1, <2>2, <2>3, <1>3, Zenon
<1>11. ASSUME NEW k \in Ids, TcpReads(k) PROVE Goal
  <2>1. /\ conn[k].wire # <<>> /\ conn' = [conn EXCEPT ![k].wire = Tail(conn[k].wire)]
        /\ client' = client
    BY <1>11, Zenon DEF TcpReads
  <2>2. Tail(conn[k].wire) \in Seq(Carried)
    <3>1. conn[k].wire \in Seq(Carried) BY <1>1, Zenon DEF ConnType
    <3> QED BY <3>1, <2>1, TailFacts, Zenon
  <2>3. \A j \in Ids : conn'[j].task = conn[j].task BY <2>1, <2>2, <1>1, ConnWire, Zenon
  <2> QED BY <2>1, <2>3, <1>4, Zenon
<1>12. ASSUME NEW k \in Ids, TcpEnds(k) \/ SendFails(k) PROVE Goal
  <2>1. /\ conn' = [conn EXCEPT ![k].task = "ended", ![k].wire = <<>>] /\ client' = client
        /\ k \in ifs
    BY <1>12, Zenon DEF TcpEnds, SendFails
  <2>2. \A j \in Ids : conn'[j].task = IF j = k THEN "ended" ELSE conn[j].task
    BY <2>1, <1>1, ConnEnds, Zenon
  <2>3. conn[k].task # "none" BY <2>1, Zenon DEF RegisteredOnce
  <2>4. k <= client.conn BY <2>3, <1>5, Zenon
  <2> QED BY <2>1, <2>2, <2>4, <1>3, Zenon
<1>13. ASSUME Restart PROVE Goal
  <2>1. /\ client' = client
        /\ conn' = [k \in Ids |-> IF conn[k].task = "none" THEN conn[k]
                        ELSE [conn[k] EXCEPT !.task = "ended", !.broken = TRUE, !.wire = <<>>]]
    BY <1>13, Zenon DEF Restart
  <2>2. \A k \in Ids : [conn[k] EXCEPT !.task = "ended", !.broken = TRUE, !.wire = <<>>].task = "ended"
    BY <1>1, Zenon DEF ConnType
  <2>3. \A k \in Ids : conn'[k].task = IF conn[k].task = "none" THEN "none" ELSE "ended"
    <3>1. \A k \in Ids : conn'[k] = IF conn[k].task = "none" THEN conn[k]
                          ELSE [conn[k] EXCEPT !.task = "ended", !.broken = TRUE, !.wire = <<>>]
      BY <2>1, Zenon
    <3> QED BY <3>1, <2>2, Zenon
  <2>4. NoneAhead' BY <2>1, <2>3, Zenon DEF NoneAhead
  <2> QED BY <2>3, <2>4, Zenon
<1>14. ASSUME UNCHANGED <<client, conn>> PROVE Goal BY <1>14, <1>4, Zenon
<1>15. ASSUME NEW t \in 1 .. plan.announces, Relay(t) \/ Hear(t) PROVE Goal
  BY <1>14, <1>15, Zenon DEF Relay, Hear
<1>16. ASSUME SynthesizeTunnel \/ Handle \/ Tick \/ UNCHANGED vars PROVE Goal
  BY <1>14, <1>16, Zenon DEF SynthesizeTunnel, Handle, Tick, vars
<1> HIDE DEF Goal
<1>17. Goal
  BY <1>6, <1>7, <1>8, <1>9, <1>10, <1>11, <1>12, <1>13, <1>15, <1>16, Zenon DEF Next
<1> QED BY <1>17, Zenon DEF Goal

\* Every step keeps the server's tables sound.
LEMMA ServerStep ==
  ASSUME TunnelsAssumption, ClientInv, NoneAhead, ServerInv, [Next]_vars
  PROVE  ServerInv'
<1>1. /\ plan \in Plans /\ conn \in [Ids -> ConnType]
      /\ TablesInv /\ RegisteredOnce /\ box \in Seq(Messages)
  BY Zenon DEF ClientInv, ClientTypes, ServerInv, ServerTypes, TablesInv, TablesTypes
<1>2. \A j \in Ids : conn'[j].task \in {"none", "accepted"} => conn[j].task \in {"none", "accepted"}
  BY <1>1, TaskStep, Zenon
<1>3. ASSUME TablesInv', box' = box \/ box' = <<>>, ifs' \subseteq ifs,
             newest' = newest \/ newest' = 0
      PROVE  ServerInv'
  <2>1. box' \in Seq(Messages) /\ RegisteredOnce' BY <1>2, <1>3, BoxStays, Zenon
  <2> QED BY <2>1, <1>3, Zenon DEF ServerInv, ServerTypes, TablesInv, TablesTypes
<1>4. ASSUME UNCHANGED <<plan, box, ifs, path, tunnel, by, newest, late, now>>
      PROVE  ServerInv'
  <2>1. TablesInv' BY <1>1, <1>4, TablesSame, Zenon
  <2> QED BY <2>1, <1>3, <1>4, Zenon
<1>5. ASSUME Connect \/ Refused \/ Open \/ SynthesizeTunnel \/ Write \/ Break \/ Notice
      PROVE  ServerInv'
  BY <1>4, <1>5, Zenon DEF Connect, Refused, Open, SynthesizeTunnel, Write, Break, Notice
<1>6. ASSUME NEW t \in 1 .. plan.announces, Relay(t) PROVE ServerInv'
  BY <1>4, <1>6, Zenon DEF Relay
<1>7. ASSUME NEW t \in 1 .. plan.announces, Hear(t) PROVE ServerInv'
  <2> DEFINE m == [kind |-> "announce", time |-> t, born |-> Radio]
  <2>1. /\ box' = Append(box, m) /\ conn' = conn
        /\ UNCHANGED <<plan, ifs, path, tunnel, by, newest, late, now>>
    BY <1>7, Zenon DEF Hear
  <2>2. m \in Messages /\ m.kind = "announce" /\ m.born = Radio
    <3>1. t \in Nat BY <1>1, ConstantFacts
    <3> QED BY <3>1, ConstantFacts, Zenon DEF Messages
  <2> HIDE DEF m
  <2>3. \A k \in Ids : m.born # k BY <2>2, ConstantFacts, Zenon
  <2> QED BY <2>1, <2>2, <2>3, BoxGrows, Zenon
<1>8. ASSUME NEW k \in Ids, PumpRegisters(k) PROVE ServerInv'
  <2> DEFINE m == Register(k)
  <2>1. /\ box' = Append(box, m) /\ conn[k].task = "accepted"
        /\ conn' = [conn EXCEPT ![k].task = "running"]
        /\ UNCHANGED <<plan, ifs, path, tunnel, by, newest, late, now>>
    BY <1>8, Zenon DEF PumpRegisters
  <2>2. m \in Messages /\ m.born = k
    BY ConstantFacts, Zenon DEF Messages, Register
  <2>3. conn'[k].task = "running" BY <2>1, <1>1, ConnTask
  <2> HIDE DEF m
  <2>4. \A j \in Ids : conn'[j].task \in {"none", "accepted"} =>
                          conn[j].task \in {"none", "accepted"} /\ m.born # j
    BY <1>2, <2>2, <2>3, Zenon
  <2> QED BY <2>1, <2>2, <2>4, BoxGrows, Zenon
<1>9. ASSUME NEW k \in Ids, TcpReads(k) PROVE ServerInv'
  <2> DEFINE c == Head(conn[k].wire)
             m == Event(c, k)
  <2>1. /\ box' = Append(box, m) /\ conn[k].wire # <<>> /\ conn[k].task = "running"
        /\ conn' = [conn EXCEPT ![k].wire = Tail(conn[k].wire)]
        /\ UNCHANGED <<plan, ifs, path, tunnel, by, newest, late, now>>
    BY <1>9, Zenon DEF TcpReads
  <2>2. c \in Carried /\ Tail(conn[k].wire) \in Seq(Carried)
    <3>1. conn[k].wire \in Seq(Carried) BY <1>1, Zenon DEF ConnType
    <3> QED BY <3>1, <2>1, TailFacts, Zenon
  <2>3. conn'[k].task = "running" BY <2>1, <2>2, <1>1, ConnWire, Zenon
  <2>4. m \in Messages /\ m.born = k /\ m.kind # "register"
    <3> HIDE DEF c
    <3> QED BY <2>2, ConstantFacts, Zenon DEF Messages, Carried, Event
  <2> HIDE DEF m
  <2>5. \A j \in Ids : conn'[j].task \in {"none", "accepted"} =>
                          conn[j].task \in {"none", "accepted"} /\ m.born # j
    BY <1>2, <2>3, <2>4, Zenon
  <2> QED BY <2>1, <2>4, <2>5, BoxGrows, Zenon
<1>10. ASSUME NEW k \in Ids, TcpEnds(k) PROVE ServerInv'
  <2> DEFINE m == Deregister(k)
  <2>1. /\ box' = Append(box, m) /\ conn' = [conn EXCEPT ![k].task = "ended", ![k].wire = <<>>]
        /\ UNCHANGED <<plan, ifs, path, tunnel, by, newest, late, now>>
    BY <1>10, Zenon DEF TcpEnds
  <2>2. m \in Messages /\ m.born = k /\ m.kind # "register"
    BY ConstantFacts, Zenon DEF Messages, Deregister
  <2>3. conn'[k].task = "ended" BY <2>1, <1>1, ConnEnds, Zenon
  <2> HIDE DEF m
  <2>4. \A j \in Ids : conn'[j].task \in {"none", "accepted"} =>
                          conn[j].task \in {"none", "accepted"} /\ m.born # j
    BY <1>2, <2>2, <2>3, Zenon
  <2> QED BY <2>1, <2>2, <2>4, BoxGrows, Zenon
<1>11. ASSUME NEW k \in Ids, SendFails(k) PROVE ServerInv'
  <2>1. Deregistered(k) /\ UNCHANGED <<plan, box, now>> BY <1>11, Zenon DEF SendFails
  <2>2. TablesInv' BY <2>1, <1>1, DeregisteredKeeps, Zenon
  <2>3. ifs' \subseteq ifs /\ newest' = newest BY <2>1, Zenon DEF Deregistered
  <2> QED BY <2>1, <2>2, <2>3, <1>3, Zenon
<1>12. ASSUME Handle PROVE ServerInv' BY <1>1, <1>12, HandleKeeps, Zenon
<1>13. ASSUME Tick PROVE ServerInv'
  <2>1. TablesInv' BY <1>1, <1>13, TickKeeps, Zenon
  <2>2. UNCHANGED <<box, ifs, newest>> BY <1>13, Zenon DEF Tick
  <2> QED BY <2>1, <2>2, <1>3, Zenon
<1>14. ASSUME Restart PROVE ServerInv'
  <2>1. TablesInv' BY <1>1, <1>14, RestartKeeps, Zenon
  <2>2. box' = <<>> /\ ifs' = {} /\ newest' = 0 BY <1>14, Zenon DEF Restart
  <2> QED BY <2>1, <2>2, <1>3, Zenon
<1>15. ASSUME UNCHANGED vars PROVE ServerInv' BY <1>4, <1>15, Zenon DEF vars
<1> QED
  BY <1>5, <1>6, <1>7, <1>8, <1>9, <1>10, <1>11, <1>12, <1>13, <1>14, <1>15, Zenon DEF Next

-----------------------------------------------------------------------------
(* The theorem *)

LEMMA InitInv ==
  ASSUME TunnelsAssumption, Init
  PROVE  TunnelsInv
<1>1. /\ plan \in Plans /\ faults = 0 /\ synths = 0 /\ queue = <<>> /\ box = <<>>
      /\ client = [pc |-> "connect", conn |-> 0, opened |-> 0, attempted |-> FALSE]
      /\ conn = [k \in Ids |-> NoConn] /\ ifs = {} /\ by = {} /\ path = NoPath
      /\ tunnel = NoTunnel /\ now = 0 /\ newest = 0 /\ late = FALSE
  BY Zenon DEF Init
<1>2. NoConn \in ConnType /\ NoConn.wire = <<>> /\ NoConn.task = "none"
  BY EmptyFacts, Zenon DEF NoConn, ConnType
<1>3. /\ client.pc = "connect" /\ client.conn = 0 /\ client.opened = 0 /\ client.attempted = FALSE
      /\ client \in ClientType
  BY <1>1, ConstantFacts DEF ClientType
<1>4. /\ Len(queue) = 0 /\ Len(box) = 0 /\ queue \in Seq(Carried) /\ box \in Seq(Messages)
      /\ \A k \in Ids : conn[k] = NoConn /\ conn[k].wire = <<>> /\ Len(conn[k].wire) = 0
      /\ \A a \in 1 .. 0 : FALSE
  BY <1>1, <1>2, EmptyFacts
<1>5. ClientTypes
  <2>1. conn \in [Ids -> ConnType] BY <1>1, <1>2, Zenon
  <2> QED BY <1>1, <1>3, <1>4, <2>1, Zenon DEF ClientTypes
<1>6. OpenedOnce BY <1>1, <1>3 DEF OpenedOnce
<1>7. QueueInOrder BY <1>4, Zenon DEF QueueInOrder
<1>8. WiresInOrder /\ OutageDropped BY <1>3, <1>4, Zenon DEF WiresInOrder, OutageDropped
<1>9. NoneAhead BY <1>2, <1>4, Zenon DEF NoneAhead
<1>10. ServerTypes
  <2>1. 0 \in 0 .. Conns BY ConstantFacts
  <2>2. /\ box \in Seq(Messages) /\ ifs \subseteq Ids /\ by \subseteq Ids /\ newest \in 0 .. Conns
        /\ path \in PathType /\ tunnel \in TunnelType /\ late \in BOOLEAN
    BY <1>1, <1>4, <2>1, NothingTypes, Zenon
  <2>3. now \in Nat BY <1>1, Zenon
  <2> QED BY <2>2, <2>3, Zenon DEF ServerTypes
<1>11. RegisteredOnce
  <2>1. 0 \notin Ids BY ConstantFacts, Zenon
  <2> QED BY <1>1, <1>4, <2>1, Zenon DEF RegisteredOnce
<1>12. NamesRegistered BY <1>1, Zenon DEF NamesRegistered, NoPath, NoTunnel
<1>13. KeptIsFollowed BY <1>1, Zenon DEF KeptIsFollowed, KeptIsYoung, RoutesAlive, NoTunnel
<1> QED BY <1>5, <1>6, <1>7, <1>8, <1>9, <1>10, <1>11, <1>12, <1>13, Zenon DEF TunnelsInv

\* The inductive invariant is strong enough.
LEMMA InvImplies ==
  ASSUME TunnelsAssumption, TunnelsInv
  PROVE  FlapsSurvived
<1>1. /\ client \in ClientType /\ synths \in Nat /\ ifs \subseteq Ids /\ by \subseteq Ids
      /\ newest \in 0 .. Conns /\ path \in PathType /\ tunnel \in TunnelType
  BY Zenon DEF TunnelsInv, ClientTypes, ServerTypes
<1>2. /\ client.pc \in {"connect", "open", "up"} /\ client.conn \in 0 .. Conns
      /\ client.opened \in 0 .. Conns /\ path.via \in 0 .. Radio /\ tunnel.iface \in 0 .. Conns
      /\ path.time \in Nat /\ tunnel.path.time \in Nat
  BY <1>1, Zenon DEF ClientType, PathType, TunnelType, TunnelPathType
<1>3. synths <= client.opened /\ (client.conn = client.opened \/ client.conn = client.opened + 1)
  BY Zenon DEF TunnelsInv, OpenedOnce
<1>4. TypeOK
  <2>1. client.opened <= client.conn /\ synths \in 0 .. Conns BY <1>1, <1>2, <1>3, ConstantFacts
  <2> QED BY <2>1, <1>1, <1>2, Zenon DEF TypeOK
<1>5. ASSUME newest \in ifs, ~late, tunnel.held, tunnel.path # NoTunnelPath,
             now < tunnel.path.expires
      PROVE  Followed
  <2>1. path.via = newest \/ (path.via = Radio /\ path.time > tunnel.path.time)
    BY <1>5, Zenon DEF TunnelsInv, KeptIsFollowed, RouteOfKept
  <2>2. path # NoPath
    <3>1. NoPath.via = 0 BY Zenon DEF NoPath
    <3>2. newest # 0 /\ Radio # 0 BY <1>1, <1>5, ConstantFacts
    <3> QED BY <2>1, <3>1, <3>2, Zenon
  <2> QED BY <2>1, <2>2, Zenon DEF Followed
<1>6. RoutesFollow
  BY <1>4, <1>5, Zenon DEF TunnelsInv, NamesRegistered, KeptIsFollowed, RoutesFollow
<1> QED BY <1>6, Zenon DEF TunnelsInv, KeptIsFollowed, FlapsSurvived

\* A flap of the link loses no route and brings back no old traffic, for any number
\* of connections and announces, any lifetimes of paths that exceed a tick and any
\* timeout of the tunnel: the routes and the tunnel name registered interfaces only;
\* while nothing of an older connection was handled after the newest synthesis, what
\* the tunnel keeps leads to the newest connection or gives way to a later announce,
\* until it expires (handle_tunnel, restore_tunnel_paths, deregister_interface,
\* cull_stale_tunnel_paths); no expired route is restored if paths outlive the
\* tunnel; and what a later connection carries was queued after it was opened
\* (open_client_connection).
THEOREM LinkFlapsAreSurvived ==
  ASSUME TunnelsAssumption
  PROVE  Spec => []FlapsSurvived
<1>1. Init => TunnelsInv BY InitInv, Zenon
<1>2. TunnelsInv /\ [Next]_vars => TunnelsInv'
  <2> SUFFICES ASSUME TunnelsInv, [Next]_vars PROVE TunnelsInv' OBVIOUS
  <2>1. ClientInv /\ NoneAhead /\ ServerInv /\ RegisteredOnce
    BY Zenon DEF TunnelsInv, ClientInv, ServerInv
  <2>2. ClientInv' BY <2>1, ClientStep, Zenon
  <2>3. NoneAhead' BY <2>1, TaskStep, Zenon
  <2>4. ServerInv' BY <2>1, ServerStep, Zenon
  <2> QED BY <2>2, <2>3, <2>4, Zenon DEF TunnelsInv, ClientInv, ServerInv
<1>3. TunnelsInv => FlapsSurvived BY InvImplies, Zenon
<1> QED BY <1>1, <1>2, <1>3, PTL DEF Spec

=============================================================================
