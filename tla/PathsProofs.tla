---------------------------- MODULE PathsProofs -----------------------------
(***************************************************************************)
(* Proofs about the paths of a network of any size and shape: whatever is  *)
(* lost, delayed or overtaken, the fresh routes are ranked, and so form no *)
(* loop.                                                                   *)
(***************************************************************************)
EXTENDS Paths, TLAPS

\* No announce is from the future, nor is the last loss of a route.
NothingAhead ==
    /\ disturbed <= clock
    /\ \A m \in air : m.blob.time <= clock
    /\ \A n \in Nodes :
          /\ path[n].packet.time <= clock
          /\ saved[n].packet.time <= clock
          /\ table[n].blob.time <= clock
          /\ held[n].blob.time <= clock

\* What waits for its interface is older than the crash it survived.
PendingIsOld ==
    \A n \in Nodes : pending[n].state = "live" => pending[n].packet.time <= disturbed

\* The owner learns no path to itself.
OwnerApart ==
    /\ path[Origin].state = "none"
    /\ saved[Origin].state = "none" /\ pending[Origin].state = "none"

-----------------------------------------------------------------------------
(* Types.                                                                  *)

\* What the proofs use of the assumption on a network.
LEMMA NetFacts ==
  ASSUME PathsAssumption, TypeOK
  PROVE  /\ Origin \in Nodes
         /\ net.elapsed \subseteq Nat
         /\ net.retries \in Nat
         /\ net.askers \subseteq Nodes
         /\ \A n \in Nodes : Neighbours(n) \subseteq Nodes
         /\ \A S : \A r \in Reached(S) : r \subseteq S
         /\ PERSIST_RANDOM_BLOBS \in Nat \ {0}
         /\ MAX_RANDOM_BLOBS \in Nat \ {0}
BY Zenon DEF PathsAssumption, TypeOK, Neighbours, Reached

\* The entries that stand for nothing are entries.
LEMMA EntryTypes ==
  ASSUME PathsAssumption
  PROVE  NoBlob \in Blobs /\ NoPath \in PathEntries /\ NoEntry \in AnnounceEntries
BY DEF PathsAssumption, NoBlob, Blobs, NoPath, PathEntries, NoEntry, AnnounceEntries

\* A remembered blob is among the remembered ones.
LEMMA RememberType ==
  ASSUME PathsAssumption, NEW s \in Seq(Blobs), NEW b \in Blobs
  PROVE  /\ Remember(s, b) \in Seq(Blobs)
         /\ \E i \in DOMAIN Remember(s, b) : Remember(s, b)[i] = b
<1>1. CASE \E i \in DOMAIN s : s[i] = b
  BY <1>1, Zenon DEF Remember
<1>2. CASE ~ \E i \in DOMAIN s : s[i] = b
  <2> DEFINE t == IF Len(s) >= MAX_RANDOM_BLOBS THEN Tail(s) ELSE s
  <2>1. MAX_RANDOM_BLOBS \in Nat \ {0} BY Zenon DEF PathsAssumption
  <2>2. t \in Seq(Blobs)
    <3>1. CASE Len(s) >= MAX_RANDOM_BLOBS
      <4>1. s # <<>> BY <3>1, <2>1
      <4> QED BY <3>1, <4>1
    <3> QED BY <3>1, Zenon
  <2>3. Remember(s, b) = Append(t, b) BY <1>2, Zenon DEF Remember
  <2> HIDE DEF t
  <2>4. /\ Append(t, b) \in Seq(Blobs)
        /\ Len(t) + 1 \in DOMAIN Append(t, b)
        /\ Append(t, b)[Len(t) + 1] = b
    BY <2>2
  <2> QED BY <2>3, <2>4, Zenon
<1> QED BY <1>1, <1>2, Zenon

\* A path read back from its file is the path, with fewer blobs.
LEMMA PersistedType ==
  ASSUME PathsAssumption, NEW p \in PathEntries
  PROVE  /\ Persisted(p) \in PathEntries
         /\ Persisted(p).packet = p.packet
         /\ Persisted(p).state = p.state
<1> DEFINE N == Len(p.blobs)
           t == IF N <= PERSIST_RANDOM_BLOBS THEN p.blobs
                ELSE SubSeq(p.blobs, N - PERSIST_RANDOM_BLOBS + 1, N)
<1>1. PERSIST_RANDOM_BLOBS \in Nat \ {0} BY Zenon DEF PathsAssumption
<1>2. p.blobs \in Seq(Blobs) BY Zenon DEF PathEntries
<1>3. t \in Seq(Blobs)
  <2>1. CASE ~ (N <= PERSIST_RANDOM_BLOBS)
    <3>1. /\ N \in Nat
          /\ N - PERSIST_RANDOM_BLOBS + 1 \in 1 .. N
      BY <2>1, <1>1, <1>2
    <3> HIDE DEF N
    <3>2. \A i \in N - PERSIST_RANDOM_BLOBS + 1 .. N : p.blobs[i] \in Blobs
      BY <3>1, <1>2, <1>1 DEF N
    <3> QED BY <2>1, <3>1, <3>2, <1>2, <1>1 DEF N
  <2> QED BY <2>1, <1>2, Zenon
<1>4. Persisted(p) = [p EXCEPT !.blobs = t] BY Zenon DEF Persisted
<1> QED BY <1>3, <1>4, Zenon DEF PathEntries

\* Hearing a neighbour's rebroadcast keeps an entry or drops it.
LEMMA HeardType ==
  ASSUME PathsAssumption, NEW e \in AnnounceEntries, NEW hops \in Nat, NEW early
  PROVE  /\ Heard(e, hops, early) \in AnnounceEntries
         /\ \/ Heard(e, hops, early) = NoEntry
            \/ /\ Heard(e, hops, early).kind = e.kind
               /\ Heard(e, hops, early).blob = e.blob
               /\ Heard(e, hops, early).hops = e.hops
BY EntryTypes DEF Heard, AnnounceEntries

\* An announce on the wire is a packet,
LEMMA PacketTypes ==
  ASSUME PathsAssumption, NEW n \in Nodes, NEW m \in Nodes, NEW hops \in Nat,
         NEW blob \in Blobs, NEW kind \in {"announce", "response"}
  PROVE  Announcement(kind, n, m, blob, hops) \in Packets
BY Zenon DEF Announcement, Packets

\* and so is a path request.
LEMMA RequestTypes ==
  ASSUME PathsAssumption, NEW n \in Nodes, NEW m \in Nodes, NEW tag \in Nat
  PROVE  Request(n, m, tag) \in Packets
BY EntryTypes, Zenon DEF Request, Packets

\* A step of the network keeps the types.
LEMMA TypeStep ==
  ASSUME PathsAssumption, TypeOK, [Next]_vars
  PROVE  TypeOK'
<1> USE NetFacts, EntryTypes
<1>1. ASSUME NEW m \in air, NEW early \in BOOLEAN, NEW suppressed \in BOOLEAN,
             NEW blocked \in BOOLEAN, NEW reached \in Reached(asked[m.to]),
             ReceiveAnnounce(m, early, suppressed, blocked, reached)
      PROVE  TypeOK'
  <2> DEFINE n == m.to
             hops == m.hops + 1
             own == Heard(table[n], hops, early)
  <2>1. /\ m \in Packets /\ n \in Nodes /\ m.from \in Nodes
        /\ hops \in Nat /\ m.blob \in Blobs
    BY DEF TypeOK, Packets
  <2>2. own \in AnnounceEntries BY <2>1, HeardType, Zenon DEF TypeOK
  <2>3. Learn(m, hops) \in PathEntries
    BY <2>1, RememberType, Zenon DEF Learn, PathEntries, TypeOK
  <2>4. Rebroadcast(m, hops) \in AnnounceEntries
    BY <2>1, Zenon DEF Rebroadcast, AnnounceEntries
  <2>5. reached \subseteq Nodes BY <2>1, Zenon DEF TypeOK
  <2>6. {Announcement("response", n, w, m.blob, hops) : w \in reached} \subseteq Packets
    BY <2>1, <2>5, PacketTypes
  <2> HIDE DEF n, hops, own
  <2>7. /\ air' \subseteq Packets
        /\ table' \in [Nodes -> AnnounceEntries]
        /\ path' \in [Nodes -> PathEntries]
        /\ label' \in [Nodes -> {"unknown", "unresponsive"}]
        /\ asked' \in [Nodes -> SUBSET Nodes]
        /\ disturbed' \in Nat
    BY <1>1, <2>1, <2>2, <2>3, <2>4, <2>6 DEF TypeOK, ReceiveAnnounce, n, hops, own
  <2> QED BY <1>1, <2>7 DEF TypeOK, ReceiveAnnounce
<1>2. ASSUME NEW n \in Nodes, NEW reached \in Reached(Others(n)), Retransmit(n, reached)
      PROVE  TypeOK'
  <2>1. table[n] \in AnnounceEntries BY Zenon DEF TypeOK
  <2>2. reached \subseteq Nodes BY Zenon DEF Others
  <2>3. {Announcement("announce", n, m, table[n].blob, table[n].hops) : m \in reached}
            \subseteq Packets
    BY <2>1, <2>2, PacketTypes DEF AnnounceEntries
  <2>4. [table[n] EXCEPT !.retries = @ + 1] \in AnnounceEntries
    BY <2>1 DEF AnnounceEntries
  <2> QED BY <1>2, <2>3, <2>4, Zenon DEF TypeOK, Retransmit
<1>3. ASSUME NEW n \in Nodes, NEW reached \in Reached({table[n].to}), Respond(n, reached)
      PROVE  TypeOK'
  <2>1. table[n] \in AnnounceEntries BY Zenon DEF TypeOK
  <2>2. reached \subseteq Nodes BY <2>1 DEF AnnounceEntries
  <2>3. {Announcement("response", n, m, table[n].blob, table[n].hops) : m \in reached}
            \subseteq Packets
    BY <2>1, <2>2, PacketTypes DEF AnnounceEntries
  <2> QED BY <1>3, <2>3, Zenon DEF TypeOK, Respond
<1>4. ASSUME NEW m \in air, IgnoreRequest(m) PROVE TypeOK'
  BY <1>4, Zenon DEF TypeOK, IgnoreRequest, Admit, Packets
<1>5. ASSUME NEW m \in air, NEW elapsed \in net.elapsed, NEW reached \in SUBSET {m.from},
             AnswerAsOwner(m, elapsed, reached)
      PROVE  TypeOK'
  <2> DEFINE blob == [time |-> clock + elapsed, id |-> emitted + 1]
  <2>1. /\ m \in Packets /\ m.from \in Nodes /\ m.tag \in Nat
        /\ clock + elapsed \in Nat /\ emitted + 1 \in Nat
    BY DEF TypeOK, Packets
  <2>2. blob \in Blobs BY <2>1, Zenon DEF Blobs
  <2>3. reached \subseteq Nodes BY <2>1, Zenon
  <2>4. {Announcement("response", Origin, w, blob, 0) : w \in reached} \subseteq Packets
    BY <2>2, <2>3, PacketTypes
  <2> QED BY <1>5, <2>1, <2>4 DEF TypeOK, AnswerAsOwner
<1>6. ASSUME NEW m \in air, AnswerFromPath(m) PROVE TypeOK'
  <2>1. m \in Packets /\ m.from \in Nodes /\ m.to \in Nodes /\ m.tag \in Nat
    BY Zenon DEF TypeOK, Packets
  <2>2. path[m.to] \in PathEntries BY <2>1, Zenon DEF TypeOK
  <2>3. [kind |-> "response", blob |-> path[m.to].packet, hops |-> path[m.to].hops,
         retries |-> 0, heard |-> 0, to |-> m.from] \in AnnounceEntries
    BY <2>1, <2>2, Zenon DEF PathEntries, AnnounceEntries
  <2>4. table' \in [Nodes -> AnnounceEntries] /\ held' \in [Nodes -> AnnounceEntries]
    BY <1>6, <2>1, <2>3 DEF TypeOK, AnswerFromPath
  <2> QED BY <1>6, <2>1, <2>4, Zenon DEF TypeOK, AnswerFromPath, Admit
<1>7. ASSUME NEW m \in air, NEW reached \in Reached(Neighbours(m.to) \ {m.from}),
             Discover(m, reached)
      PROVE  TypeOK'
  <2>1. m \in Packets /\ m.from \in Nodes /\ m.to \in Nodes /\ m.tag \in Nat
    BY Zenon DEF TypeOK, Packets
  <2>2. reached \subseteq Nodes BY <2>1, Zenon
  <2>3. {Request(m.to, w, m.tag) : w \in reached} \subseteq Packets
    BY <2>1, <2>2, RequestTypes
  <2> QED BY <1>7, <2>1, <2>3 DEF TypeOK, Discover
<1>8. ASSUME NEW m \in air, RefuseRequest(m) PROVE TypeOK'
  BY <1>8, Zenon DEF TypeOK, RefuseRequest, Admit, Packets
<1>9. ASSUME NEW n \in Nodes, DiscoveryTimeout(n) PROVE TypeOK'
  BY <1>9, Zenon DEF TypeOK, DiscoveryTimeout
<1>10. ASSUME NEW elapsed \in net.elapsed, NEW reached \in Reached(Neighbours(Origin)),
              Announce(elapsed, reached)
       PROVE  TypeOK'
  <2> DEFINE blob == [time |-> clock + elapsed, id |-> emitted + 1]
  <2>1. clock + elapsed \in Nat /\ emitted + 1 \in Nat BY DEF TypeOK
  <2>2. blob \in Blobs BY <2>1, Zenon DEF Blobs
  <2>3. reached \subseteq Nodes OBVIOUS
  <2>4. {Announcement("announce", Origin, m, blob, 0) : m \in reached} \subseteq Packets
    BY <2>2, <2>3, PacketTypes
  <2> QED BY <1>10, <2>1, <2>4, Zenon DEF TypeOK, Announce
<1>11. ASSUME NEW n \in Nodes, NEW reached \in Reached(Neighbours(n)), AskForPath(n, reached)
       PROVE  TypeOK'
  <2>1. reached \subseteq Nodes /\ requested + 1 \in Nat BY DEF TypeOK
  <2>2. {Request(n, m, requested + 1) : m \in reached} \subseteq Packets
    BY <2>1, RequestTypes
  <2> QED BY <1>11, <2>1, <2>2, Zenon DEF TypeOK, AskForPath
<1>12. ASSUME NEW n \in Nodes, DropPath(n) PROVE TypeOK'
  BY <1>12 DEF TypeOK, DropPath, Fault
<1>13. ASSUME NEW n \in Nodes, Expire(n) PROVE TypeOK'
  <2>1. path' \in [Nodes -> PathEntries] BY <1>13, ZenonT(40) DEF TypeOK, Expire, PathEntries
  <2> QED BY <1>13, <2>1 DEF TypeOK, Expire, Fault
<1>14. ASSUME NEW n \in Nodes, Cull(n) PROVE TypeOK'
  BY <1>14, Zenon DEF TypeOK, Cull
<1>15. ASSUME NEW n \in Nodes, MarkUnresponsive(n) PROVE TypeOK'
  BY <1>15 DEF TypeOK, MarkUnresponsive, Fault
<1>16. ASSUME NEW n \in Nodes, Save(n) PROVE TypeOK'
  BY <1>16, PersistedType, Zenon DEF TypeOK, Save
<1>17. ASSUME NEW n \in Nodes, Crash(n) PROVE TypeOK'
  BY <1>17 DEF TypeOK, Crash, Fault
<1>18. ASSUME NEW n \in Nodes, Rebind(n) PROVE TypeOK'
  BY <1>18, ZenonT(30) DEF TypeOK, Rebind
<1>19. CASE UNCHANGED vars
  BY <1>19, Zenon DEF TypeOK, vars
<1>20. CASE Progress
  <2>1. CASE \E m \in air, early, suppressed, blocked \in BOOLEAN :
                \E reached \in Reached(asked[m.to]) :
                   ReceiveAnnounce(m, early, suppressed, blocked, reached)
    <3>1. PICK m \in air, early \in BOOLEAN, suppressed \in BOOLEAN, blocked \in BOOLEAN :
             \E reached \in Reached(asked[m.to]) :
                ReceiveAnnounce(m, early, suppressed, blocked, reached)
      BY <2>1, Zenon
    <3>2. PICK reached \in Reached(asked[m.to]) :
             ReceiveAnnounce(m, early, suppressed, blocked, reached)
      BY <3>1, Zenon
    <3> QED BY <3>2, <1>1
  <2> QED
    BY <1>20, <2>1, <1>2, <1>3, <1>4, <1>5, <1>6, <1>7, <1>8, <1>9, Zenon DEF Progress
<1>21. CASE Disturb
  BY <1>21, <1>10, <1>11, <1>12, <1>13, <1>14, <1>15, <1>16, <1>17, <1>18, Zenon DEF Disturb
<1> QED BY <1>19, <1>20, <1>21, Zenon DEF Next

-----------------------------------------------------------------------------
(* Times.                                                                  *)

\* The clock never goes back and never falls behind what has been emitted.
LEMMA TimeStep ==
  ASSUME PathsAssumption, TypeOK, NothingAhead, PendingIsOld, [Next]_vars, TypeOK'
  PROVE  NothingAhead' /\ PendingIsOld' /\ disturbed' >= disturbed
<1> DEFINE Good == NothingAhead' /\ PendingIsOld' /\ disturbed' >= disturbed
<1> SUFFICES Good OBVIOUS
<1>0. /\ clock \in Nat /\ disturbed \in Nat
      /\ net.elapsed \subseteq Nat
      /\ NoPath.packet.time = 0 /\ NoPath.state = "none" /\ NoEntry.blob.time = 0
      /\ \A kind, n, m, blob, hops : Announcement(kind, n, m, blob, hops).blob = blob
      /\ \A n, m, tag : Request(n, m, tag).blob.time = 0
  BY NetFacts, Zenon DEF TypeOK, NoPath, NoEntry, NoBlob, Announcement, Request
<1>00. /\ \A n \in Nodes : /\ path[n].packet.time \in Nat /\ pending[n].packet.time \in Nat
                         /\ saved[n].packet.time \in Nat
                         /\ table[n].blob.time \in Nat /\ held[n].blob.time \in Nat
      /\ \A m \in air : m.blob.time \in Nat
      /\ DOMAIN path = Nodes /\ DOMAIN pending = Nodes /\ DOMAIN table = Nodes
      /\ DOMAIN held = Nodes /\ DOMAIN saved = Nodes
      /\ path = [n \in Nodes |-> path[n]] /\ table = [n \in Nodes |-> table[n]]
      /\ held = [n \in Nodes |-> held[n]] /\ pending = [n \in Nodes |-> pending[n]]
  BY Zenon DEF TypeOK, PathEntries, AnnounceEntries, Packets, Blobs
<1>1. ASSUME NEW m \in air, NEW early \in BOOLEAN, NEW suppressed \in BOOLEAN,
             NEW blocked \in BOOLEAN, NEW reached \in Reached(asked[m.to]),
             ReceiveAnnounce(m, early, suppressed, blocked, reached)
      PROVE  Good
  <2> DEFINE n == m.to
             hops == m.hops + 1
             own == Heard(table[n], hops, early)
  <2>1. /\ m \in Packets /\ n \in Nodes /\ hops \in Nat /\ table[n] \in AnnounceEntries
    BY DEF TypeOK, Packets
  <2>2. own.blob.time <= clock
    BY <2>1, <1>0, HeardType DEF NothingAhead
  <2>3. Learn(m, hops).packet = m.blob /\ Rebroadcast(m, hops).blob = m.blob
    BY SMTT(20) DEF Learn, Rebroadcast
  <2> HIDE DEF n, hops, own
  <2>4. \A w \in air' : w \in air \/ w.blob = m.blob
    BY <1>1, <1>0, SMTT(20) DEF ReceiveAnnounce, n, hops, own
  <2>5. \A x \in Nodes : \/ path'[x].packet = path[x].packet
                         \/ path'[x].packet = m.blob
    BY <1>1, <2>3, SMTT(20) DEF ReceiveAnnounce, n, hops, own, TypeOK
  <2>6. \A x \in Nodes : \/ table'[x].blob = table[x].blob
                         \/ table'[x].blob = m.blob
                         \/ table'[x].blob = own.blob
    BY <1>1, <2>3, SMTT(20) DEF ReceiveAnnounce, n, hops, own, TypeOK
  <2>7. /\ disturbed' \in {clock, disturbed}
        /\ UNCHANGED <<clock, saved, held, pending>>
    BY <1>1, Zenon DEF ReceiveAnnounce
  <2> QED BY <1>0, <1>00, <2>2, <2>4, <2>5, <2>6, <2>7 DEF NothingAhead, PendingIsOld
<1>2. ASSUME NEW n \in Nodes, NEW reached \in Reached(Others(n)), Retransmit(n, reached)
      PROVE  Good
  <2>1. \A w \in air' : w \in air \/ w.blob = table[n].blob
    BY <1>2, <1>0 DEF Retransmit
  <2>2. \A x \in Nodes : table'[x].blob.time = 0 \/ table'[x].blob = table[x].blob
    BY <1>2, <1>0 DEF Retransmit, TypeOK, AnnounceEntries
  <2>3. UNCHANGED <<clock, disturbed, path, saved, held, pending>>
    BY <1>2, Zenon DEF Retransmit
  <2> QED BY <1>0, <2>1, <2>2, <2>3 DEF NothingAhead, PendingIsOld
<1>3. ASSUME NEW n \in Nodes, NEW reached \in Reached({table[n].to}), Respond(n, reached)
      PROVE  Good
  BY <1>3, <1>0, <1>00 DEF Respond, NothingAhead, PendingIsOld
<1>4. ASSUME NEW m \in air, IgnoreRequest(m) PROVE Good
  BY <1>4, <1>0 DEF IgnoreRequest, Admit, NothingAhead, PendingIsOld
<1>5. ASSUME NEW m \in air, NEW elapsed \in net.elapsed, NEW reached \in SUBSET {m.from},
             AnswerAsOwner(m, elapsed, reached)
      PROVE  Good
  <2>1. /\ clock' \in Nat /\ clock <= clock'
        /\ UNCHANGED <<path, saved, table, held, pending, disturbed>>
    BY <1>5, <1>0 DEF AnswerAsOwner
  <2>2. \A w \in air' : w \in air \/ w.blob.time = clock'
    BY <1>5, <1>0 DEF AnswerAsOwner
  <2> QED BY <1>0, <1>00, <2>1, <2>2 DEF NothingAhead, PendingIsOld
<1>6. ASSUME NEW m \in air, AnswerFromPath(m) PROVE Good
  <2>1. air' \subseteq air /\ UNCHANGED <<clock, disturbed, path, saved, pending>> /\ m.to \in Nodes
    BY <1>6, Zenon DEF AnswerFromPath, Admit, TypeOK, Packets
  <2> DEFINE e == [kind |-> "response", blob |-> path[m.to].packet, hops |-> path[m.to].hops,
                   retries |-> 0, heard |-> 0, to |-> m.from]
  <2>4. e.blob = path[m.to].packet OBVIOUS
  <2> HIDE DEF e
  <2>2. \A x \in Nodes : table'[x].blob \in {table[x].blob, path[x].packet}
    BY <1>6, <2>1, <2>4, <1>00, SMTT(20) DEF AnswerFromPath, e
  <2>3. \A x \in Nodes : held'[x].blob \in {table[x].blob, held[x].blob}
    BY <1>6, <2>1, <1>00 DEF AnswerFromPath
  <2> QED BY <1>0, <2>1, <2>2, <2>3 DEF NothingAhead, PendingIsOld
<1>7. ASSUME NEW m \in air, NEW reached \in Reached(Neighbours(m.to) \ {m.from}),
             Discover(m, reached)
      PROVE  Good
  <2>1. \A w \in air' : w \in air \/ w.blob.time = 0
    BY <1>7, <1>0 DEF Discover
  <2> QED BY <1>7, <1>0, <2>1 DEF Discover, NothingAhead, PendingIsOld
<1>8. ASSUME NEW m \in air, RefuseRequest(m) PROVE Good
  BY <1>8, <1>0 DEF RefuseRequest, Admit, NothingAhead, PendingIsOld
<1>9. ASSUME NEW n \in Nodes, DiscoveryTimeout(n) PROVE Good
  BY <1>9, <1>0 DEF DiscoveryTimeout, NothingAhead, PendingIsOld
<1>10. ASSUME NEW elapsed \in net.elapsed, NEW reached \in Reached(Neighbours(Origin)),
              Announce(elapsed, reached)
       PROVE  Good
  <2>1. /\ clock' \in Nat /\ clock <= clock'
        /\ UNCHANGED <<path, saved, table, held, pending, disturbed>>
    BY <1>10, <1>0 DEF Announce
  <2>2. \A w \in air' : w \in air \/ w.blob.time = clock'
    BY <1>10, <1>0, SMTT(20) DEF Announce
  <2> QED BY <1>0, <1>00, <2>1, <2>2 DEF NothingAhead, PendingIsOld
<1>11. ASSUME NEW n \in Nodes, NEW reached \in Reached(Neighbours(n)), AskForPath(n, reached)
       PROVE  Good
  <2>1. \A w \in air' : w \in air \/ w.blob.time = 0
    BY <1>11, <1>0 DEF AskForPath
  <2> QED BY <1>11, <1>0, <2>1 DEF AskForPath, NothingAhead, PendingIsOld
<1>12. ASSUME NEW n \in Nodes, DropPath(n) PROVE Good
  BY <1>12, <1>0, <1>00 DEF DropPath, NothingAhead, PendingIsOld
<1>13. ASSUME NEW n \in Nodes, Expire(n) PROVE Good
  BY <1>13, <1>0, <1>00 DEF Expire, NothingAhead, PendingIsOld
<1>14. ASSUME NEW n \in Nodes, Cull(n) PROVE Good
  BY <1>14, <1>0, SMTT(20) DEF Cull, NothingAhead, PendingIsOld, TypeOK
<1>15. ASSUME NEW n \in Nodes, MarkUnresponsive(n) PROVE Good
  BY <1>15, <1>0 DEF MarkUnresponsive, NothingAhead, PendingIsOld
<1>16. ASSUME NEW n \in Nodes, Save(n) PROVE Good
  <2>1. path[n] \in PathEntries /\ Persisted(path[n]).packet = path[n].packet
    BY PersistedType, Zenon DEF TypeOK
  <2> QED BY <1>16, <1>0, <2>1 DEF Save, NothingAhead, PendingIsOld, TypeOK
<1>17. ASSUME NEW n \in Nodes, Crash(n) PROVE Good
  BY <1>17, <1>0, <1>00 DEF Crash, NothingAhead, PendingIsOld
<1>18. ASSUME NEW n \in Nodes, Rebind(n) PROVE Good
  <2>1. \A x \in Nodes : path'[x] = path[x] \/ (pending[x].state = "live" /\ path'[x] = pending[x])
    BY <1>18 DEF Rebind, TypeOK
  <2>2. \A x \in Nodes : pending'[x] = pending[x] \/ pending'[x] = NoPath
    BY <1>18, <1>00 DEF Rebind
  <2> QED BY <1>18, <1>0, <1>00, <2>1, <2>2, SMTT(20) DEF Rebind, NothingAhead, PendingIsOld
<1>19. CASE UNCHANGED vars
  BY <1>19, <1>0, SMTT(20) DEF vars, NothingAhead, PendingIsOld
<1> HIDE DEF Good
<1>20. CASE Progress
  <2>1. CASE \E m \in air, early, suppressed, blocked \in BOOLEAN :
                \E reached \in Reached(asked[m.to]) :
                   ReceiveAnnounce(m, early, suppressed, blocked, reached)
    <3>1. PICK m \in air, early \in BOOLEAN, suppressed \in BOOLEAN, blocked \in BOOLEAN :
             \E reached \in Reached(asked[m.to]) :
                ReceiveAnnounce(m, early, suppressed, blocked, reached)
      BY <2>1, Zenon
    <3>2. PICK reached \in Reached(asked[m.to]) :
             ReceiveAnnounce(m, early, suppressed, blocked, reached)
      BY <3>1, Zenon
    <3> QED BY <3>2, <1>1, Zenon
  <2> QED
    BY <1>20, <2>1, <1>2, <1>3, <1>4, <1>5, <1>6, <1>7, <1>8, <1>9, Zenon DEF Progress
<1>21. CASE Disturb
  BY <1>21, <1>10, <1>11, <1>12, <1>13, <1>14, <1>15, <1>16, <1>17, <1>18, Zenon DEF Disturb
<1> QED BY <1>19, <1>20, <1>21, Zenon DEF Next

-----------------------------------------------------------------------------
(* The owner.                                                              *)

\* process_announce drops the owner's own announces, so nothing gives it a path.
LEMMA OwnerStep ==
  ASSUME PathsAssumption, TypeOK, OwnerApart, [Next]_vars
  PROVE  OwnerApart'
<1>0. Origin \in Nodes /\ NoPath.state = "none" BY Zenon DEF PathsAssumption, NoPath
<1>1. ASSUME NEW m \in air, NEW early \in BOOLEAN, NEW suppressed \in BOOLEAN,
             NEW blocked \in BOOLEAN, NEW reached \in Reached(asked[m.to]),
             ReceiveAnnounce(m, early, suppressed, blocked, reached)
      PROVE  OwnerApart'
  <2>1. m.to # Origin /\ UNCHANGED <<saved, pending>> BY <1>1, SMTT(20) DEF ReceiveAnnounce
  <2>2. path' = path \/ path' = [path EXCEPT ![m.to] = Learn(m, m.hops + 1)]
    BY <1>1, Zenon DEF ReceiveAnnounce
  <2>3. path'[Origin] = path[Origin] BY <1>0, <2>1, <2>2, Zenon DEF TypeOK
  <2> QED BY <2>1, <2>3, Zenon DEF OwnerApart
<1>2. ASSUME UNCHANGED <<path, saved, pending>> PROVE OwnerApart'
  BY <1>2, Zenon DEF OwnerApart
<1>3. ASSUME NEW n \in Nodes, DropPath(n) \/ Cull(n) PROVE OwnerApart'
  BY <1>0, <1>3, Zenon DEF DropPath, Cull, OwnerApart, TypeOK
<1>4. ASSUME NEW n \in Nodes, Expire(n) PROVE OwnerApart'
  <2>1. n # Origin BY <1>4, Zenon DEF Expire, OwnerApart
  <2> QED BY <2>1, <1>0, <1>4, Zenon DEF Expire, OwnerApart, TypeOK
<1>5. ASSUME NEW n \in Nodes, Save(n) PROVE OwnerApart'
  <2>1. n # Origin BY <1>5, Zenon DEF Save, OwnerApart
  <2> QED BY <2>1, <1>0, <1>5, SMTT(20) DEF Save, OwnerApart, TypeOK
<1>6. ASSUME NEW n \in Nodes, Crash(n) PROVE OwnerApart'
  BY <1>0, <1>6, ZenonT(30) DEF Crash, OwnerApart, TypeOK
<1>7. ASSUME NEW n \in Nodes, Rebind(n) PROVE OwnerApart'
  <2>1. n # Origin BY <1>7, SMTT(20) DEF Rebind, OwnerApart
  <2> QED BY <2>1, <1>0, <1>7, Zenon DEF Rebind, OwnerApart, TypeOK
<1>8. CASE Progress
  <2>1. CASE \E m \in air, early, suppressed, blocked \in BOOLEAN :
                \E reached \in Reached(asked[m.to]) :
                   ReceiveAnnounce(m, early, suppressed, blocked, reached)
    <3>1. PICK m \in air, early \in BOOLEAN, suppressed \in BOOLEAN, blocked \in BOOLEAN :
             \E reached \in Reached(asked[m.to]) :
                ReceiveAnnounce(m, early, suppressed, blocked, reached)
      BY <2>1, Zenon
    <3>2. PICK reached \in Reached(asked[m.to]) :
             ReceiveAnnounce(m, early, suppressed, blocked, reached)
      BY <3>1, Zenon
    <3> QED BY <3>2, <1>1, Zenon
  <2> QED
    BY <1>2, <1>8, <2>1, ZenonT(30) DEF Progress, Retransmit, Respond, IgnoreRequest, AnswerAsOwner,
       AnswerFromPath, Discover, RefuseRequest, DiscoveryTimeout
<1>9. CASE Disturb
  BY <1>2, <1>3, <1>4, <1>5, <1>6, <1>7, <1>9, Zenon
     DEF Disturb, Announce, AskForPath, MarkUnresponsive
<1>10. CASE UNCHANGED vars
  BY <1>2, <1>10, Zenon DEF vars
<1> QED BY <1>8, <1>9, <1>10, Zenon DEF Next

\* Node x stands behind an offer of this second over so many hops: it is the
\* owner itself, or its path is live and at least as good, of a later second or
\* of the same one over the same hops.
Backs(x, time, hops) ==
    \/ x = Origin /\ hops = 0
    \/ /\ x # Origin /\ path[x].state = "live"
       /\ \/ path[x].packet.time > time
          \/ path[x].packet.time = time /\ path[x].hops = hops

\* A fresh path remembers a blob no older than the announce it rests on, so
\* that only a later one replaces it.
Remembered ==
    \A n \in Nodes :
        Fresh(n) => \E i \in DOMAIN path[n].blobs :
                        path[n].blobs[i].time >= path[n].packet.time

\* Whoever offers a route in a packet or in an entry of its announce table
\* stands behind it, and so does the next hop of every path.
PacketsBacked ==
    \A m \in air :
        m.kind # "request" /\ m.blob.time > disturbed => Backs(m.from, m.blob.time, m.hops)
EntryBacked(n, e) ==
    e.kind # "none" /\ e.blob.time > disturbed => Backs(n, e.blob.time, e.hops)
EntriesBacked ==
    \A n \in Nodes : EntryBacked(n, table[n]) /\ EntryBacked(n, held[n])
RoutesBacked ==
    \A n \in Nodes :
        Fresh(n) => Backs(path[n].via, path[n].packet.time, path[n].hops - 1)

PathsInv ==
    /\ TypeOK
    /\ OwnerApart
    /\ NothingAhead
    /\ PendingIsOld
    /\ Remembered
    /\ PacketsBacked
    /\ EntriesBacked
    /\ RoutesBacked

-----------------------------------------------------------------------------
(* Who stands behind an offer.                                             *)

Backing == Remembered /\ PacketsBacked /\ EntriesBacked /\ RoutesBacked

\* The times of packets, entries and paths are numbers.
LEMMA TimeTypes ==
  ASSUME TypeOK
  PROVE  /\ clock \in Nat /\ disturbed \in Nat
         /\ \A n \in Nodes : /\ path[n].packet.time \in Nat /\ path[n].hops \in Nat
                             /\ path[n].via \in Nodes
                             /\ table[n].blob.time \in Nat /\ table[n].hops \in Nat
                             /\ held[n].blob.time \in Nat /\ held[n].hops \in Nat
                             /\ pending[n].packet.time \in Nat
         /\ \A m \in air : /\ m.blob.time \in Nat /\ m.hops \in Nat
                           /\ m.from \in Nodes /\ m.to \in Nodes
BY Zenon DEF TypeOK, PathEntries, AnnounceEntries, Packets, Blobs

\* Just after a route was lost no offer is fresh.
LEMMA NothingFreshNext ==
  ASSUME TypeOK', NothingAhead', disturbed' = clock, clock' = clock
  PROVE  Backing'
<1>1. /\ clock' \in Nat
      /\ \A n \in Nodes : /\ path'[n].packet.time \in Nat
                          /\ table'[n].blob.time \in Nat /\ held'[n].blob.time \in Nat
      /\ \A m \in air' : m.blob.time \in Nat
  BY Zenon DEF TypeOK, PathEntries, AnnounceEntries, Packets, Blobs
<1>2. /\ \A n \in Nodes : /\ ~ (path'[n].packet.time > disturbed')
                          /\ ~ (table'[n].blob.time > disturbed')
                          /\ ~ (held'[n].blob.time > disturbed')
      /\ \A m \in air' : ~ (m.blob.time > disturbed')
  BY <1>1 DEF NothingAhead
<1> QED BY <1>2, Zenon DEF Backing, Remembered, PacketsBacked, EntriesBacked, EntryBacked,
           RoutesBacked, Fresh

\* When no path changes, the offers that were made stay backed.
LEMMA PathsStay ==
  ASSUME TypeOK, Backing, UNCHANGED <<path, disturbed>>,
         \A m \in air' :
            \/ m \in air \/ m.kind = "request"
            \/ Backs(m.from, m.blob.time, m.hops)
            \/ m.blob.time <= disturbed /\ m.blob.time \in Nat,
         \A n \in Nodes : EntryBacked(n, table'[n]) /\ EntryBacked(n, held'[n])
  PROVE  Backing'
<1>1. Remembered' /\ RoutesBacked'
  BY Zenon DEF Backing, Remembered, RoutesBacked, Fresh, Backs
<1>2. PacketsBacked'
  BY TimeTypes DEF Backing, PacketsBacked, Backs
<1>3. EntriesBacked'
  BY Zenon DEF EntriesBacked, EntryBacked, Backs
<1> QED BY <1>1, <1>2, <1>3, Zenon DEF Backing

\* Only a later announce replaces a path that is fresh, unless that path had
\* been found unresponsive.
LEMMA AddedIsLater ==
  ASSUME TypeOK, Remembered, NEW n \in Nodes, NEW b \in Blobs, NEW hops \in Nat,
         ShouldAdd(path[n], label[n], b, hops), Fresh(n),
         ~ (Level(path[n], b) /\ label[n] = "unresponsive")
  PROVE  b.time > path[n].packet.time
<1>1. Newer(path[n], b) BY Zenon DEF ShouldAdd, Fresh
<1>2. PICK i \in DOMAIN path[n].blobs : path[n].blobs[i].time >= path[n].packet.time
  BY Zenon DEF Remembered
<1>3. b.time > path[n].blobs[i].time BY <1>1, <1>2, Zenon DEF Newer
<1>4. path[n].blobs[i].time \in Nat /\ b.time \in Nat /\ path[n].packet.time \in Nat
  <2>1. path[n].blobs \in Seq(Blobs) BY Zenon DEF TypeOK, PathEntries
  <2>2. path[n].blobs[i] \in Blobs BY <2>1, <1>2
  <2> QED BY <2>2, TimeTypes, Zenon DEF Blobs
<1> QED BY <1>2, <1>3, <1>4

\* A node that takes a later announce, or had no live path, lets nobody down,
\* and its own new route leads to a node that stands behind it.
LEMMA PathGained ==
  ASSUME PathsAssumption, TypeOK, Backing, NEW m \in air, m.kind # "request",
         m.to # Origin, UNCHANGED <<disturbed, held>>,
         ShouldAdd(path[m.to], label[m.to], m.blob, m.hops + 1),
         ~ (path[m.to].state = "live" /\ Level(path[m.to], m.blob)
            /\ label[m.to] = "unresponsive"),
         path' = [path EXCEPT ![m.to] = Learn(m, m.hops + 1)],
         \A w \in air' : \/ w \in air
                         \/ w.from = m.to /\ w.blob = m.blob /\ w.hops = m.hops + 1,
         \A x \in Nodes : \/ EntryBacked(x, table'[x])
                          \/ x = m.to /\ table'[x].blob = m.blob /\ table'[x].hops = m.hops + 1,
         TypeOK'
  PROVE  Backing'
<1> DEFINE n == m.to
           hops == m.hops + 1
           p == Learn(m, hops)
<1>1. /\ n \in Nodes /\ n # Origin /\ m.from \in Nodes /\ hops \in Nat /\ hops - 1 = m.hops
      /\ m.blob \in Blobs /\ m.blob.time \in Nat
  <2>1. m \in Packets BY Zenon DEF TypeOK
  <2>2. m.blob \in Blobs /\ m.hops \in Nat /\ m.from \in Nodes /\ n \in Nodes
    BY <2>1, Zenon DEF Packets
  <2> QED BY <2>2 DEF Blobs
<1>2. /\ p.state = "live" /\ p.via = m.from /\ p.hops = hops /\ p.packet = m.blob
      /\ \E i \in DOMAIN p.blobs : p.blobs[i].time >= p.packet.time
  <2>1. path[n].blobs \in Seq(Blobs) BY <1>1, Zenon DEF TypeOK, PathEntries
  <2>2. PICK i \in DOMAIN Remember(path[n].blobs, m.blob) :
           Remember(path[n].blobs, m.blob)[i] = m.blob
    BY <2>1, <1>1, RememberType, Zenon
  <2> QED BY <2>2, <1>1 DEF Learn
<1> HIDE DEF p
<1>3. \A x \in Nodes : path'[x] = IF x = n THEN p ELSE path[x]
  BY Zenon DEF TypeOK, p
<1>4. Fresh(n) => m.blob.time > path[n].packet.time
  BY <1>1, AddedIsLater, Zenon DEF Fresh, Backing
<1> HIDE DEF n, hops
<1>5. ASSUME NEW x \in Nodes, NEW t \in Nat, NEW h, t > disturbed, Backs(x, t, h)
      PROVE  Backs(x, t, h)'
  <2>1. CASE x = n
    <3>1. path[n].state = "live" /\ path[n].packet.time >= t
      BY <1>5, <2>1, <1>1, TimeTypes DEF Backs
    <3>2. m.blob.time > t BY <3>1, <1>4, <1>1, <1>5, TimeTypes DEF Fresh
    <3> QED BY <3>2, <2>1, <1>1, <1>2, <1>3, Zenon DEF Backs
  <2> QED BY <2>1, <1>5, <1>3, Zenon DEF Backs
<1>6. Backs(n, m.blob.time, hops)'
  BY <1>1, <1>2, <1>3, Zenon DEF Backs
<1>7. Remembered'
  BY <1>2, <1>3 DEF Remembered, Fresh, Backing
<1>8. PacketsBacked'
  BY <1>5, <1>6, TimeTypes, Zenon DEF PacketsBacked, Backing, n, hops
<1>9. EntriesBacked'
  <2> SUFFICES ASSUME NEW x \in Nodes
               PROVE  EntryBacked(x, table[x])' /\ EntryBacked(x, held[x])'
    BY Zenon DEF EntriesBacked
  <2>1. EntryBacked(x, held[x])'
    BY <1>5, TimeTypes, Zenon DEF EntryBacked, EntriesBacked, Backing
  <2>2. table'[x].blob.time \in Nat BY TimeTypes, Zenon DEF TypeOK, AnnounceEntries, Blobs
  <2>3. CASE EntryBacked(x, table'[x])
    BY <2>1, <2>2, <2>3, <1>5, Zenon DEF EntryBacked
  <2>4. CASE x = n /\ table'[x].blob = m.blob /\ table'[x].hops = hops
    BY <2>1, <2>4, <1>6, Zenon DEF EntryBacked
  <2> QED BY <2>3, <2>4, Zenon DEF n, hops
<1>10. RoutesBacked'
  <2> SUFFICES ASSUME NEW x \in Nodes, Fresh(x)'
               PROVE  Backs(path[x].via, path[x].packet.time, path[x].hops - 1)'
    BY Zenon DEF RoutesBacked
  <2>1. CASE x = n
    <3>1. m.blob.time > disturbed BY <2>1, <1>2, <1>3, Zenon DEF Fresh
    <3>2. Backs(m.from, m.blob.time, hops - 1)
      BY <3>1, <1>1, Zenon DEF Backing, PacketsBacked, hops
    <3>3. Backs(m.from, m.blob.time, hops - 1)' BY <3>1, <3>2, <1>5, <1>1, Zenon
    <3> QED BY <3>3, <2>1, <1>2, <1>3, Zenon
  <2>2. CASE x # n
    <3>1. path'[x] = path[x] BY <2>2, <1>3, Zenon
    <3>2. Backs(path[x].via, path[x].packet.time, path[x].hops - 1)
      BY <3>1, Zenon DEF RoutesBacked, Fresh, Backing
    <3>3. path[x].packet.time > disturbed BY <3>1, Zenon DEF Fresh
    <3>4. (Backs(path[x].via, path[x].packet.time, path[x].hops - 1))'
      BY <3>1, <3>2, <3>3, <1>5, TimeTypes, Zenon
    <3> QED BY <3>4, <3>1, Zenon
  <2> QED BY <2>1, <2>2, Zenon
<1> QED BY <1>7, <1>8, <1>9, <1>10, Zenon DEF Backing

\* A path that goes without having been live lets nobody down.
LEMMA PathUnused ==
  ASSUME TypeOK, Backing, UNCHANGED <<disturbed, table, held, air>>,
         NEW n \in Nodes, path[n].state # "live", NEW p,
         path' = [path EXCEPT ![n] = p],
         p.state = "live" => p.packet.time <= disturbed /\ p.packet.time \in Nat
  PROVE  Backing'
<1>1. \A x \in Nodes : path'[x] = IF x = n THEN p ELSE path[x]
  BY Zenon DEF TypeOK
<1>2. ASSUME NEW x \in Nodes, NEW t, NEW h, Backs(x, t, h)
      PROVE  Backs(x, t, h)'
  BY <1>1, <1>2, Zenon DEF Backs
<1>3. \A x \in Nodes : Fresh(x)' => path'[x] = path[x] /\ Fresh(x)
  BY <1>1, TimeTypes DEF Fresh
<1>4. Remembered' BY <1>3, Zenon DEF Remembered, Backing
<1>5. PacketsBacked' BY <1>2, TimeTypes, Zenon DEF PacketsBacked, Backing
<1>6. EntriesBacked'
  BY <1>2, TimeTypes, Zenon DEF EntriesBacked, EntryBacked, Backing
<1>7. RoutesBacked'
  <2> SUFFICES ASSUME NEW x \in Nodes, Fresh(x)'
               PROVE  Backs(path[x].via, path[x].packet.time, path[x].hops - 1)'
    BY Zenon DEF RoutesBacked
  <2>1. path'[x] = path[x] /\ Fresh(x) BY <1>3, Zenon
  <2>2. Backs(path[x].via, path[x].packet.time, path[x].hops - 1)
    BY <2>1, Zenon DEF RoutesBacked, Backing
  <2> QED BY <2>1, <2>2, <1>2, TimeTypes, Zenon
<1> QED BY <1>4, <1>5, <1>6, <1>7, Zenon DEF Backing

\* Every step keeps the offers backed.
LEMMA BackingStep ==
  ASSUME PathsAssumption, TypeOK, NothingAhead, PendingIsOld, Backing, [Next]_vars,
         TypeOK', NothingAhead'
  PROVE  Backing'
<1>0. /\ \A kind, x, y, blob, hops :
            /\ Announcement(kind, x, y, blob, hops).from = x
            /\ Announcement(kind, x, y, blob, hops).blob = blob
            /\ Announcement(kind, x, y, blob, hops).hops = hops
      /\ \A x, y, tag : Request(x, y, tag).kind = "request"
      /\ NoEntry.kind = "none" /\ NoPath.state = "none"
  BY Zenon DEF Announcement, Request, NoEntry, NoPath
<1>00. \A n \in Nodes : EntryBacked(n, table[n]) /\ EntryBacked(n, held[n])
  BY Zenon DEF Backing, EntriesBacked
<1>1. ASSUME NEW m \in air, NEW early \in BOOLEAN, NEW suppressed \in BOOLEAN,
             NEW blocked \in BOOLEAN, NEW reached \in Reached(asked[m.to]),
             ReceiveAnnounce(m, early, suppressed, blocked, reached)
      PROVE  Backing'
  <2> DEFINE n == m.to
             hops == m.hops + 1
             own == Heard(table[n], hops, early)
  <2>1. n \in Nodes /\ hops \in Nat /\ table[n] \in AnnounceEntries
    BY TimeTypes DEF TypeOK
  <2>2. EntryBacked(n, own)
    BY <2>1, <1>0, <1>00, HeardType DEF EntryBacked
  <2>3. m.kind # "request" /\ n # Origin /\ UNCHANGED <<held, clock>>
    BY <1>1, Zenon DEF ReceiveAnnounce
  <2> DEFINE add == ~suppressed /\ ShouldAdd(path[n], label[n], m.blob, hops)
  <2> HIDE DEF n, hops, own, add
  <2>4. CASE hops >= PATHFINDER_M \/ ~add
    <3>1. /\ air' \subseteq air /\ UNCHANGED <<path, disturbed>>
          /\ table' = table \/ table' = [table EXCEPT ![n] = own]
      BY <1>1, <2>4, Zenon DEF ReceiveAnnounce, n, hops, own, add
    <3>2. \A x \in Nodes : EntryBacked(x, table'[x]) /\ EntryBacked(x, held'[x])
      BY <3>1, <2>1, <2>2, <2>3, <1>00, Zenon DEF TypeOK
    <3> QED BY <3>1, <3>2, PathsStay, SMTT(20)
  <2>5. CASE ~ (hops >= PATHFINDER_M) /\ add
    <3>1. /\ air' = (air \ {m}) \cup
                {Announcement("response", n, w, m.blob, hops) : w \in reached}
          /\ table' = [table EXCEPT ![n] =
                IF m.kind = "announce" /\ ~blocked /\ hops < PATHFINDER_M
                THEN Rebroadcast(m, hops) ELSE own]
          /\ path' = [path EXCEPT ![n] = Learn(m, hops)]
          /\ disturbed' = IF /\ path[n].state = "live" /\ Level(path[n], m.blob)
                             /\ label[n] = "unresponsive"
                          THEN clock ELSE disturbed
      BY <1>1, <2>5, Zenon DEF ReceiveAnnounce, n, hops, own, add
    <3>2. CASE /\ path[n].state = "live" /\ Level(path[n], m.blob)
               /\ label[n] = "unresponsive"
      BY <3>1, <3>2, <2>3, NothingFreshNext, SMTT(20)
    <3>3. CASE ~ (/\ path[n].state = "live" /\ Level(path[n], m.blob)
                  /\ label[n] = "unresponsive")
      <4>1. \A w \in air' : \/ w \in air
                            \/ w.from = n /\ w.blob = m.blob /\ w.hops = hops
        <5>1. \A w \in air' : \/ w \in air
                              \/ \E y \in reached :
                                    w = Announcement("response", n, y, m.blob, hops)
          BY <3>1, Zenon
        <5> QED BY <5>1 DEF Announcement
      <4>2. Rebroadcast(m, hops).blob = m.blob /\ Rebroadcast(m, hops).hops = hops
        BY Zenon DEF Rebroadcast
      <4>3. \A x \in Nodes : \/ EntryBacked(x, table'[x])
                             \/ x = n /\ table'[x].blob = m.blob /\ table'[x].hops = hops
        BY <3>1, <4>2, <2>1, <2>2, <1>00, Zenon DEF TypeOK
      <4>4. UNCHANGED <<disturbed, held>> BY <3>1, <3>3, <2>3, Zenon
      <4>5. ShouldAdd(path[n], label[n], m.blob, hops) BY <2>5, SMTT(20) DEF add
      <4> QED
        BY <4>1, <4>3, <4>4, <4>5, <3>1, <3>3, <2>3, PathGained, Zenon DEF n, hops
    <3> QED BY <3>2, <3>3, Zenon
  <2> QED BY <2>4, <2>5, Zenon
<1>2. ASSUME NEW n \in Nodes, NEW reached \in Reached(Others(n)), Retransmit(n, reached)
      PROVE  Backing'
  <2>1. \A w \in air' : \/ w \in air
                        \/ w.from = n /\ w.blob = table[n].blob /\ w.hops = table[n].hops
    BY <1>2, <1>0 DEF Retransmit
  <2>2. table[n].kind = "rebroadcast" /\ UNCHANGED <<path, disturbed, held>>
    BY <1>2, SMTT(20) DEF Retransmit
  <2>a. \/ Backs(n, table[n].blob.time, table[n].hops)
        \/ table[n].blob.time <= disturbed /\ table[n].blob.time \in Nat
    <3> DEFINE time == table[n].blob.time
    <3>1. time \in Nat /\ disturbed \in Nat BY TimeTypes, Zenon
    <3>2. time > disturbed => Backs(n, time, table[n].hops) BY <2>2, <1>00, Zenon DEF EntryBacked
    <3> HIDE DEF time
    <3>3. Backs(n, time, table[n].hops) \/ (time <= disturbed /\ time \in Nat) BY <3>1, <3>2
    <3> QED BY <3>3, Zenon DEF time
  <2>3. \A w \in air' : \/ w \in air \/ w.kind = "request"
                        \/ Backs(w.from, w.blob.time, w.hops)
                        \/ w.blob.time <= disturbed /\ w.blob.time \in Nat
    BY <2>1, <2>a, Zenon
  <2>4. \A x \in Nodes : \/ table'[x].kind = "none"
                         \/ /\ table'[x].kind = table[x].kind
                            /\ table'[x].blob = table[x].blob
                            /\ table'[x].hops = table[x].hops
    BY <1>2, <1>0, SMTT(20) DEF Retransmit, TypeOK, AnnounceEntries
  <2>5. \A x \in Nodes : EntryBacked(x, table'[x]) /\ EntryBacked(x, held'[x])
    BY <2>2, <2>4, <1>00, Zenon DEF EntryBacked
  <2> QED BY <2>2, <2>3, <2>5, PathsStay, Zenon
<1>3. ASSUME NEW n \in Nodes, NEW reached \in Reached({table[n].to}), Respond(n, reached)
      PROVE  Backing'
  <2>1. \A w \in air' : \/ w \in air
                        \/ w.from = n /\ w.blob = table[n].blob /\ w.hops = table[n].hops
    BY <1>3, <1>0 DEF Respond
  <2>2. table[n].kind = "response" /\ UNCHANGED <<path, disturbed>>
    BY <1>3, Zenon DEF Respond
  <2>3. \A w \in air' : \/ w \in air \/ w.kind = "request"
                        \/ Backs(w.from, w.blob.time, w.hops)
                        \/ w.blob.time <= disturbed /\ w.blob.time \in Nat
    BY <2>1, <2>2, <1>00, TimeTypes DEF EntryBacked
  <2>4. \A x \in Nodes : table'[x] \in {table[x], held[x]} /\ held'[x] \in {NoEntry, held[x]}
    BY <1>3, Zenon DEF Respond, TypeOK
  <2>5. \A x \in Nodes : EntryBacked(x, table'[x]) /\ EntryBacked(x, held'[x])
    BY <2>4, <1>0, <1>00, ZenonT(30) DEF EntryBacked
  <2> QED BY <2>2, <2>3, <2>5, PathsStay, Zenon
<1>4. ASSUME NEW m \in air, IgnoreRequest(m) PROVE Backing'
  <2>1. air' \subseteq air /\ UNCHANGED <<path, disturbed, table, held>>
    BY <1>4, Zenon DEF IgnoreRequest, Admit
  <2> QED BY <2>1, <1>00, PathsStay, Zenon
<1>5. ASSUME NEW m \in air, NEW elapsed \in net.elapsed, NEW reached \in SUBSET {m.from},
             AnswerAsOwner(m, elapsed, reached)
      PROVE  Backing'
  <2>1. \A w \in air' : w \in air \/ (w.from = Origin /\ w.hops = 0)
    BY <1>5, <1>0 DEF AnswerAsOwner
  <2>2. UNCHANGED <<path, disturbed, table, held>> BY <1>5, Zenon DEF AnswerAsOwner
  <2> QED BY <2>1, <2>2, <1>00, PathsStay, Zenon DEF Backs
<1>6. ASSUME NEW m \in air, AnswerFromPath(m) PROVE Backing'
  <2> DEFINE n == m.to
             e == [kind |-> "response", blob |-> path[n].packet, hops |-> path[n].hops,
                   retries |-> 0, heard |-> 0, to |-> m.from]
  <2>1. /\ n \in Nodes /\ n # Origin /\ path[n].state = "live"
        /\ air' \subseteq air /\ UNCHANGED <<path, disturbed>>
    BY <1>6, TimeTypes, SMTT(20) DEF AnswerFromPath, Admit
  <2>2. EntryBacked(n, e) BY <2>1, SMTT(20) DEF EntryBacked, Backs
  <2> HIDE DEF e
  <2>3. \/ UNCHANGED <<table, held>>
        \/ /\ table' = [table EXCEPT ![n] = e]
           /\ held' = held \/ held' = [held EXCEPT ![n] = table[n]]
    BY <1>6, Zenon DEF AnswerFromPath, e
  <2> HIDE DEF n
  <2>4. \A x \in Nodes : EntryBacked(x, table'[x]) /\ EntryBacked(x, held'[x])
    BY <2>1, <2>2, <2>3, <1>00, SMTT(20) DEF TypeOK
  <2> QED BY <2>1, <2>4, PathsStay, Zenon
<1>7. ASSUME NEW m \in air, NEW reached \in Reached(Neighbours(m.to) \ {m.from}),
             Discover(m, reached)
      PROVE  Backing'
  <2>1. \A w \in air' : w \in air \/ w.kind = "request"
    <3>1. \A w \in air' : w \in air \/ \E y \in reached : w = Request(m.to, y, m.tag)
      BY <1>7, Zenon DEF Discover
    <3> QED BY <3>1 DEF Request
  <2>2. UNCHANGED <<path, disturbed, table, held>> BY <1>7, SMTT(20) DEF Discover
  <2> QED BY <2>1, <2>2, <1>00, PathsStay, Zenon
<1>8. ASSUME NEW m \in air, RefuseRequest(m) PROVE Backing'
  <2>1. air' \subseteq air /\ UNCHANGED <<path, disturbed, table, held>>
    BY <1>8, Zenon DEF RefuseRequest, Admit
  <2> QED BY <2>1, <1>00, PathsStay, Zenon
<1>9. ASSUME NEW n \in Nodes, DiscoveryTimeout(n) PROVE Backing'
  <2>1. UNCHANGED <<path, disturbed, table, held, air>> BY <1>9, Zenon DEF DiscoveryTimeout
  <2> QED BY <2>1, <1>00, PathsStay, Zenon
<1>10. ASSUME NEW elapsed \in net.elapsed, NEW reached \in Reached(Neighbours(Origin)),
              Announce(elapsed, reached)
       PROVE  Backing'
  <2>1. \A w \in air' : w \in air \/ (w.from = Origin /\ w.hops = 0)
    <3>1. \A w \in air' : \/ w \in air
                         \/ \E y \in reached, blob \in {[time |-> clock + elapsed, id |-> emitted + 1]} :
                               w = Announcement("announce", Origin, y, blob, 0)
      BY <1>10, ZenonT(30) DEF Announce
    <3> QED BY <3>1 DEF Announcement
  <2>2. UNCHANGED <<path, disturbed, table, held>> BY <1>10, Zenon DEF Announce
  <2> QED BY <2>1, <2>2, <1>00, PathsStay, ZenonT(40) DEF Backs
<1>11. ASSUME NEW n \in Nodes, NEW reached \in Reached(Neighbours(n)), AskForPath(n, reached)
       PROVE  Backing'
  <2>1. \A w \in air' : w \in air \/ w.kind = "request"
    <3>1. \A w \in air' : w \in air \/ \E y \in reached : w = Request(n, y, requested + 1)
      BY <1>11, Zenon DEF AskForPath
    <3> QED BY <3>1 DEF Request
  <2>2. UNCHANGED <<path, disturbed, table, held>> BY <1>11, Zenon DEF AskForPath
  <2> QED BY <2>1, <2>2, <1>00, PathsStay, Zenon
<1>12. ASSUME NEW n \in Nodes, DropPath(n) PROVE Backing'
  BY <1>12, NothingFreshNext, Zenon DEF DropPath
<1>13. ASSUME NEW n \in Nodes, Expire(n) PROVE Backing'
  BY <1>13, NothingFreshNext, Zenon DEF Expire
<1>14. ASSUME NEW n \in Nodes, Cull(n) PROVE Backing'
  BY <1>14, <1>0, PathUnused, Zenon DEF Cull
<1>15. ASSUME NEW n \in Nodes, MarkUnresponsive(n) PROVE Backing'
  <2>1. UNCHANGED <<path, disturbed, table, held, air>> BY <1>15, Zenon DEF MarkUnresponsive
  <2> QED BY <2>1, <1>00, PathsStay, Zenon
<1>16. ASSUME NEW n \in Nodes, Save(n) PROVE Backing'
  <2>1. UNCHANGED <<path, disturbed, table, held, air>> BY <1>16, Zenon DEF Save
  <2> QED BY <2>1, <1>00, PathsStay, Zenon
<1>17. ASSUME NEW n \in Nodes, Crash(n) PROVE Backing'
  BY <1>17, NothingFreshNext, Zenon DEF Crash
<1>18. ASSUME NEW n \in Nodes, Rebind(n) PROVE Backing'
  <2>1. UNCHANGED <<disturbed, table, held, air>> BY <1>18, Zenon DEF Rebind
  <2>2. CASE path[n].state = "live"
    <3>1. UNCHANGED path BY <1>18, <2>2, Zenon DEF Rebind
    <3> QED BY <2>1, <3>1, <1>00, PathsStay, Zenon
  <2>3. CASE path[n].state # "live"
    <3>1. path' = [path EXCEPT ![n] = pending[n]] BY <1>18, <2>3, Zenon DEF Rebind
    <3>2. pending[n].packet.time <= disturbed /\ pending[n].packet.time \in Nat
      BY <1>18, TimeTypes, Zenon DEF Rebind, PendingIsOld
    <3> QED BY <2>1, <2>3, <3>1, <3>2, PathUnused, Zenon
  <2> QED BY <2>2, <2>3, Zenon
<1>19. CASE UNCHANGED vars
  <2>1. UNCHANGED <<path, disturbed, table, held, air>> BY <1>19, SMTT(20) DEF vars
  <2> QED BY <2>1, <1>00, PathsStay, Zenon
<1>20. CASE Progress
  <2>1. CASE \E m \in air, early, suppressed, blocked \in BOOLEAN :
                \E reached \in Reached(asked[m.to]) :
                   ReceiveAnnounce(m, early, suppressed, blocked, reached)
    <3>1. PICK m \in air, early \in BOOLEAN, suppressed \in BOOLEAN, blocked \in BOOLEAN :
             \E reached \in Reached(asked[m.to]) :
                ReceiveAnnounce(m, early, suppressed, blocked, reached)
      BY <2>1, Zenon
    <3>2. PICK reached \in Reached(asked[m.to]) :
             ReceiveAnnounce(m, early, suppressed, blocked, reached)
      BY <3>1, Zenon
    <3> QED BY <3>2, <1>1, Zenon
  <2> QED
    BY <1>20, <2>1, <1>2, <1>3, <1>4, <1>5, <1>6, <1>7, <1>8, <1>9, Zenon DEF Progress
<1>21. CASE Disturb
  BY <1>21, <1>10, <1>11, <1>12, <1>13, <1>14, <1>15, <1>16, <1>17, <1>18, Zenon DEF Disturb
<1> QED BY <1>19, <1>20, <1>21, Zenon DEF Next

-----------------------------------------------------------------------------
(* The theorems.                                                           *)

\* The inductive invariant holds in every state of every network.
LEMMA PathsInvariant ==
  ASSUME PathsAssumption
  PROVE  Spec => []PathsInv
<1>1. Init => PathsInv
  <2> SUFFICES ASSUME Init PROVE PathsInv
    OBVIOUS
  <2>1. TypeOK
    BY EntryTypes, SMTT(20) DEF Init, TypeOK
  <2>2. NothingAhead /\ PendingIsOld /\ OwnerApart
    BY SMTT(20) DEF PathsAssumption, OwnerApart, Init, NothingAhead, PendingIsOld, NoPath,
                    NoEntry, NoBlob
  <2>3. Remembered /\ PacketsBacked /\ EntriesBacked /\ RoutesBacked
    BY Zenon DEF Init, Remembered, PacketsBacked, EntriesBacked, EntryBacked, RoutesBacked,
           Fresh, NoPath, NoEntry
  <2> QED BY <2>1, <2>2, <2>3, Zenon DEF PathsInv
<1>2. PathsInv /\ [Next]_vars => PathsInv'
  <2> SUFFICES ASSUME PathsInv, [Next]_vars PROVE PathsInv'
    OBVIOUS
  <2>1. TypeOK' BY TypeStep, Zenon DEF PathsInv
  <2>2. NothingAhead' /\ PendingIsOld' BY <2>1, TimeStep, Zenon DEF PathsInv
  <2>3. Backing' BY <2>1, <2>2, BackingStep, Zenon DEF PathsInv, Backing
  <2>4. OwnerApart' BY OwnerStep, Zenon DEF PathsInv
  <2> QED BY <2>1, <2>2, <2>3, <2>4, Zenon DEF PathsInv, Backing
<1> QED BY <1>1, <1>2, PTL DEF Spec

\* In a network of any shape the next hop of every fresh path is the owner, or
\* a node whose own live path is better: process_announce keeps the routes
\* ranked, however packets are lost, delayed and overtaken, and whatever paths
\* expire, are dropped, restored from a snapshot or answered from a cache.
THEOREM FreshRoutesRanked ==
  ASSUME PathsAssumption
  PROVE  Spec => []RoutesRanked
<1>1. PathsInv => RoutesRanked
  <2> SUFFICES ASSUME PathsInv, NEW n \in Nodes, Fresh(n) PROVE Ranked(n)
    BY Zenon DEF PathsInv, RoutesRanked
  <2>1. Backs(path[n].via, path[n].packet.time, path[n].hops - 1)
    BY Zenon DEF PathsInv, RoutesBacked
  <2> QED BY <2>1, TimeTypes DEF PathsInv, Backs, Ranked
<1> QED BY <1>1, PathsInvariant, PTL

\* Following next hops among fresh paths never closes a loop: whatever nodes
\* with fresh paths are considered, one of them sends to a node outside.
NoFreshLoop ==
    \A S \in SUBSET Nodes :
        S # {} /\ (\A n \in S : Fresh(n)) => \E n \in S : path[n].via \notin S

LOCAL INSTANCE WellFoundedInduction

\* Every non-empty set of natural numbers has a least element.
LEMMA LeastNat ==
  ASSUME NEW T, T \subseteq Nat, T # {}
  PROVE \E x \in T : \A y \in T : x <= y
<1>1. \E x \in T : \A y \in T : ~ (<<y, x>> \in OpToRel(<,Nat))
  BY NatLessThanWellFounded, WFMin, Zenon
<1>2. PICK x \in T : \A y \in T : ~ (<<y, x>> \in OpToRel(<,Nat)) BY <1>1, Zenon
<1> DEFINE R == {ss \in Nat \X Nat : ss[1] < ss[2]}
<1>0. OpToRel(<,Nat) = R BY Zenon DEF OpToRel
<1>4. \A y \in T : ~ (<<y, x>> \in R)
  BY <1>2, <1>0, Zenon
<1>3. SUFFICES ASSUME NEW y \in T, ~(x <= y) PROVE FALSE
  OBVIOUS
<1>5. y \in Nat /\ x \in Nat /\ y < x BY <1>3
<1>6. <<y,x>> \in R BY <1>5, Zenon
<1> QED BY <1>6, <1>4, Zenon

\* The ranking of fresh routes rules out every loop among them: the latest
\* second in which their announces were emitted, and the fewest hops among
\* those, belong to a node whose next hop is not one of them.
THEOREM NoLoops ==
  ASSUME PathsAssumption
  PROVE  Spec => []NoFreshLoop
<1>1. PathsInv /\ RoutesRanked => NoFreshLoop
  <2> SUFFICES ASSUME PathsInv, RoutesRanked, NEW S \in SUBSET Nodes, S # {},
                      \A n \in S : Fresh(n)
               PROVE  \E n \in S : path[n].via \notin S
    BY Zenon DEF NoFreshLoop
  <2> DEFINE Age(n) == clock - path[n].packet.time
             Ages == {Age(n) : n \in S}
  <2>1. \A n \in S : /\ Age(n) \in Nat /\ path[n].hops \in Nat
                     /\ path[n].packet.time \in Nat
    <3>1. /\ clock \in Nat
          /\ \A n \in S : /\ path[n].hops \in Nat /\ path[n].packet.time \in Nat
                          /\ path[n].packet.time <= clock
      BY TimeTypes, Zenon DEF PathsInv, NothingAhead
    <3> QED BY <3>1
  <2>2. PICK a \in S : \A n \in S : Age(a) <= Age(n)
    <3>1. Ages \subseteq Nat /\ Ages # {} BY <2>1, Zenon
    <3>2. PICK x \in Ages : \A y \in Ages : x <= y BY <3>1, LeastNat, Zenon
    <3> QED BY <3>2, Zenon
  <2> DEFINE Latest == {n \in S : path[n].packet.time = path[a].packet.time}
             Hops == {path[n].hops : n \in Latest}
  <2>3. PICK b \in Latest : \A n \in Latest : path[b].hops <= path[n].hops
    <3>1. Hops \subseteq Nat /\ Hops # {} BY <2>1, <2>2, Zenon
    <3>2. PICK x \in Hops : \A y \in Hops : x <= y BY <3>1, LeastNat, Zenon
    <3> QED BY <3>2, Zenon
  <2>4. SUFFICES ASSUME path[b].via \in S PROVE FALSE
    BY <2>3, Zenon
  <2> DEFINE c == path[b].via
  <2>5. c # Origin /\ b \in S /\ clock \in Nat
    BY <2>3, <2>4, TimeTypes, Zenon DEF PathsInv, OwnerApart, Fresh
  <2>6. /\ path[c].packet.time <= path[a].packet.time
        /\ path[b].packet.time = path[a].packet.time
    BY <2>1, <2>2, <2>3, <2>4, <2>5, SMTT(20)
  <2>7. /\ path[c].packet.time >= path[b].packet.time
        /\ path[c].packet.time = path[b].packet.time => path[c].hops + 1 = path[b].hops
    BY <2>1, <2>4, <2>5, SMTT(20) DEF RoutesRanked, Ranked
  <2>8. c \in Latest BY <2>1, <2>4, <2>5, <2>6, <2>7
  <2>9. path[b].hops <= path[c].hops BY <2>3, <2>8, Zenon
  <2> QED BY <2>1, <2>4, <2>5, <2>7, <2>8, <2>9
<1> QED BY <1>1, PathsInvariant, FreshRoutesRanked, PTL
=============================================================================
