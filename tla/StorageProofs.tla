---------------------------- MODULE StorageProofs ---------------------------
(***************************************************************************)
(* Proofs about Storage: what a caller has waited for is on disk and stays *)
(* there, and the sweep spares what a path response could be served from.  *)
(***************************************************************************)
EXTENDS Storage, TLAPS

\* What the threads are doing.  A synchronous save makes a queued snapshot out of
\* date and outwaits one that is being written, and that remains so until the
\* actor goes on, or for good if the process stops (save_routing_state).
ThreadInv ==
    /\ sync.state # "none" => phase = "up" /\ sync.for \in {"drop", "forget", "stop"}
    /\ sync.state \in {"writing", "written"} \/ phase = "stopped" => writer.state # "writing"
    /\ sync.state # "none" \/ phase = "stopped" => ~(writer.state = "queued" /\ writer.latest)
    /\ sync.state = "waiting" => sync.done = 0
    /\ sync.state = "writing" => sync.done # 3
    /\ sync.state = "written" => sync.done = 3
    /\ phase = "stopped" /\ sync.for = "saved" => hasher.state = "none"
    /\ phase = "off" => path = [d \in Dests |-> Nil] /\ sweep = NoSweep

\* The files that a synchronous save is done with hold its snapshot.
WrittenInv ==
    sync.state \in {"writing", "written"} =>
        /\ sync.done > 0 => files.path_table = sync.snap.paths
        /\ sync.done > 1 => files.destination_table = sync.snap.paths
        /\ sync.done > 2 => files.announce_cache = sync.snap.recent

\* The actor stands still during a shutdown, and afterwards.
StoppedInv ==
    /\ sync.state # "none" /\ sync.for = "stop" => sync.snap = Snapshot
    /\ phase = "stopped" =>
          /\ files.path_table = Snapshot.paths /\ files.destination_table = Snapshot.paths
          /\ files.announce_cache = recent
          /\ sync.for = "saved" => seenFile = seen

\* A path that was dropped is in no table, and neither in a file nor in a snapshot
\* that may still become one, except while the query that drops it is under way.
DroppedInv ==
    /\ (Held \cup pending) \cap ghost.dropped = {}
    /\ sync.state # "none" => sync.snap.paths \cap ghost.dropped = {}
    /\ writer.state = "queued" /\ writer.latest => writer.snap.paths \cap ghost.dropped = {}
    /\ ~Dropping /\ writer.state = "writing" => writer.snap.paths \cap ghost.dropped = {}
    /\ ~Dropping => (files.path_table \cup files.destination_table) \cap ghost.dropped = {}

\* What must be served has a file, and the sweep is not after it.
ServedInv ==
    \A x \in Keep \ {Nil} : x \in ghost.excused \/ (cache[x] # "absent" /\ x \notin sweep.victims)

\* No file, no snapshot and no entry that waits is of an accepted client, and a path
\* of one was heard by this process.
Passing == {x \in Announces : x.iface \in Accepted}
ClientsInv ==
    /\ pending \cap Passing = {} /\ Held \cap Passing \subseteq ghost.learnt
    /\ writer.snap.paths \cap Passing = {} /\ sync.snap.paths \cap Passing = {}
    /\ (files.path_table \cup files.destination_table) \cap Passing = {}

StorageInv ==
    TypeOK /\ ThreadInv /\ WrittenInv /\ StoppedInv /\ DroppedInv /\ ServedInv /\ ClientsInv

-----------------------------------------------------------------------------

(* Types *)

\* A snapshot of the tables (routing_snapshot).
LEMMA SnapshotType ==
    ASSUME TypeOK
    PROVE  Snapshot \in Snapshots /\ Held \subseteq Announces /\ Absent \subseteq Announces
BY Zenon DEF TypeOK, Snapshot, Snapshots, Held, Absent

\* The states of a process that has just started.
LEMMA EmptyTypes ==
    ASSUME StorageAssumption
    PROVE  /\ [d \in Dests |-> Unknown] \in RecentTable
           /\ [d \in Dests |-> Nil] \in [Dests -> Announces \cup {Nil}]
           /\ NoSnapshot \in Snapshots /\ NoWriter \in WriterStates
           /\ NoHasher \in HasherStates /\ NoSweep \in SweepStates /\ NoSync \in SyncStates
  <1>1. [d \in Dests |-> Unknown] \in RecentTable
    BY Zenon DEF RecentTable, Unknown
  <1>2. NoSnapshot \in Snapshots
    BY <1>1, Zenon DEF NoSnapshot, Snapshots
  <1>3. 0 \in 0..2 /\ 0 \in 0..3 /\ 0 \in 0..MaxHashes
    BY DEF StorageAssumption
  <1>4. NoWriter \in WriterStates
    BY <1>2, <1>3, Zenon DEF NoWriter, WriterStates
  <1>5. NoSync \in SyncStates
    BY <1>2, <1>3, Zenon DEF NoSync, SyncStates
  <1>6. NoHasher \in HasherStates /\ NoSweep \in SweepStates
    BY <1>3, Zenon DEF NoHasher, HasherStates, NoSweep, SweepStates
  <1> QED
    BY <1>1, <1>2, <1>4, <1>5, <1>6, Zenon

\* A write replaces one file and leaves the others alone (write_routing_snapshot).
LEMMA WriteFacts ==
    ASSUME NEW snap \in Snapshots, NEW i \in 1..3, files \in FileTable, Write(snap, i)
    PROVE  /\ files' \in FileTable
           /\ files'.path_table = IF i = 1 THEN snap.paths ELSE files.path_table
           /\ files'.destination_table = IF i = 2 THEN snap.paths ELSE files.destination_table
           /\ files'.announce_cache = IF i = 3 THEN snap.recent ELSE files.announce_cache
  <1>1. i = 1 \/ i = 2 \/ i = 3
    OBVIOUS
  <1>2. Files[1] = "path_table" /\ Files[2] = "destination_table" /\ Files[3] = "announce_cache"
    BY Zenon DEF Files
  <1>3. snap.paths \in SUBSET Announces /\ snap.recent \in RecentTable
    BY Zenon DEF Snapshots
  <1>4. CASE i = 1
    <2>1. files' = [files EXCEPT !.path_table = snap.paths]
      BY <1>2, <1>4, Zenon DEF Write
    <2>2. files' \in FileTable
      BY <1>3, <2>1, Zenon DEF FileTable
    <2> QED
      BY <1>4, <2>1, <2>2 DEF FileTable
  <1>5. CASE i = 2
    <2>1. files' = [files EXCEPT !.destination_table = snap.paths]
      BY <1>2, <1>5, Zenon DEF Write
    <2>2. files' \in FileTable
      BY <1>3, <2>1, Zenon DEF FileTable
    <2> QED
      BY <1>5, <2>1, <2>2 DEF FileTable
  <1>6. CASE i = 3
    <2>1. files' = [files EXCEPT !.announce_cache = snap.recent]
      BY <1>2, <1>6, Zenon DEF Write
    <2>2. files' \in FileTable
      BY <1>3, <2>1, Zenon DEF FileTable
    <2> QED
      BY <1>6, <2>1, <2>2 DEF FileTable
  <1> QED
    BY <1>1, <1>4, <1>5, <1>6, Zenon

\* The writer and the synchronous save write one of the three files.
LEMMA Writing ==
    ASSUME TypeOK, ThreadInv
    PROVE  /\ writer.snap \in Snapshots /\ writer.done + 1 \in 1..3
           /\ sync.snap \in Snapshots /\ (sync.state = "writing" => sync.done + 1 \in 1..3)
           /\ Len(Files) = 3
BY DEF TypeOK, ThreadInv, WriterStates, SyncStates, Files

\* A queued writer (save_routing_state_async).
LEMMA SaveRoutingType ==
    ASSUME StorageAssumption, TypeOK, SaveRouting
    PROVE  writer' \in WriterStates /\ dirty' \in BOOLEAN
  <1>1. NoWriter \in WriterStates /\ Snapshot \in Snapshots
    BY EmptyTypes, SnapshotType, Zenon
  <1>2. [NoWriter EXCEPT !.state = "queued", !.snap = Snapshot] \in WriterStates
    BY <1>1, Zenon DEF WriterStates
  <1> QED
    BY <1>2, Zenon DEF SaveRouting, TypeOK

\* A synchronous save (save_routing_state).
LEMMA SaveNowType ==
    ASSUME TypeOK, NEW snap \in Snapshots, NEW for \in {"drop", "forget", "stop"},
           SaveNow(snap, for)
    PROVE  writer' \in WriterStates /\ sync' \in SyncStates /\ dirty' \in BOOLEAN
  <1>1. writer' \in WriterStates
    <2>1. (writer.state = "none") \in BOOLEAN
      OBVIOUS
    <2> QED
      BY <2>1, Zenon DEF SaveNow, TypeOK, WriterStates
  <1>2. 0 \in 0..3
    OBVIOUS
  <1>3. sync' \in SyncStates
    BY <1>2, Zenon DEF SaveNow, SyncStates
  <1> QED
    BY <1>1, <1>3, Zenon DEF SaveNow

\* What load_state brings back.
LEMMA LoadType ==
    ASSUME StorageAssumption, TypeOK, NEW gone
    PROVE  /\ Entries(gone) \subseteq Announces
           /\ Entries(gone) \subseteq files.path_table \cup files.destination_table
           /\ [d \in Dests |-> Remembered(d, gone)] \in RecentTable
  <1>1. Cached(gone) \subseteq Announces /\ Cached(gone) \subseteq files.destination_table
    BY Zenon DEF Cached, TypeOK, FileTable
  <1>2. /\ Entries(gone) \subseteq Announces
        /\ Entries(gone) \subseteq files.path_table \cup files.destination_table
    BY <1>1, Zenon DEF Entries, TypeOK, FileTable
  <1>3. ASSUME NEW d \in Dests
        PROVE  Remembered(d, gone) \in
                   [known : BOOLEAN, retained : BOOLEAN, last : Announces \cup {Nil}]
    <2> DEFINE from == {x \in Cached(gone) : x.dest = d}
    <2>1. CASE from # {}
      <3>1. (CHOOSE x \in from : TRUE) \in Announces
        BY <1>1, <2>1, Zenon
      <3>2. Remembered(d, gone) = Known(CHOOSE x \in from : TRUE, FALSE)
        BY <2>1, Zenon DEF Remembered
      <3> QED
        BY <3>1, <3>2 DEF Known
    <2>2. CASE from = {}
      <3>1. files.announce_cache[d] \in
                [known : BOOLEAN, retained : BOOLEAN, last : Announces \cup {Nil}]
        BY Zenon DEF TypeOK, FileTable, RecentTable
      <3>2. Remembered(d, gone) \in {Unknown, files.announce_cache[d]}
        BY <2>2, Zenon DEF Remembered
      <3>3. Unknown \in [known : BOOLEAN, retained : BOOLEAN, last : Announces \cup {Nil}]
        BY Zenon DEF Unknown
      <3> QED
        BY <3>1, <3>2, <3>3, Zenon
    <2> QED
      BY <2>1, <2>2, Zenon
  <1> QED
    BY <1>2, <1>3, Zenon DEF RecentTable

\* Every step keeps the types.
LEMMA TypeStep ==
    ASSUME StorageAssumption, TypeOK, ThreadInv, [Next]_vars
    PROVE  TypeOK'
  <1> USE DEF memory, disk, threads
  <1>1. CASE Start
    <2>1. writer' \in WriterStates
      BY <1>1, EmptyTypes, Zenon DEF Start, TypeOK, WriterStates
    <2> QED
      BY <1>1, <2>1, Zenon DEF Start, TypeOK
  <1>2. CASE WriteNext
    <2>1. files' \in FileTable
      BY <1>2, Writing, WriteFacts, Zenon DEF WriteNext, TypeOK
    <2>2. writer.done + 1 # Len(Files) => writer.done + 1 \in 0..2
      BY Writing
    <2>3. writer' \in WriterStates
      BY <1>2, <2>2, EmptyTypes, Zenon DEF WriteNext, TypeOK, WriterStates
    <2> QED
      BY <1>2, <2>1, <2>3, Zenon DEF WriteNext, TypeOK
  <1>3. CASE SyncLock
    <2>1. sync' \in SyncStates
      BY <1>3, Zenon DEF SyncLock, TypeOK, SyncStates
    <2> QED
      BY <1>3, <2>1, Zenon DEF SyncLock, TypeOK
  <1>4. CASE SyncWrite
    <2>1. files' \in FileTable
      BY <1>4, Writing, WriteFacts, Zenon DEF SyncWrite, TypeOK
    <2>2. sync.done + 1 \in 0..3
      BY <1>4, Writing DEF SyncWrite
    <2>3. (IF sync.done + 1 = Len(Files) THEN "written" ELSE sync.state) \in
              {"none", "waiting", "writing", "written"}
      BY Zenon DEF TypeOK, SyncStates
    <2>4. sync' \in SyncStates
      BY <1>4, <2>2, <2>3, Zenon DEF SyncWrite, TypeOK, SyncStates
    <2> QED
      BY <1>4, <2>1, <2>4, Zenon DEF SyncWrite, TypeOK
  <1>5. CASE SyncReply
    BY <1>5, EmptyTypes, Zenon DEF SyncReply, TypeOK
  <1>6. CASE Stop
    <2>1. /\ [NoSync EXCEPT !.for = "saved"] \in SyncStates
          /\ [NoSync EXCEPT !.for = "late"] \in SyncStates
      BY EmptyTypes, Zenon DEF SyncStates
    <2> QED
      BY <1>6, <2>1, Zenon DEF Stop, TypeOK
  <1>7. CASE WriteHashes
    BY <1>7, EmptyTypes, Zenon DEF WriteHashes, TypeOK, HasherStates
  <1>8. ASSUME NEW x \in Announces, Learn(x)
        PROVE  TypeOK'
    <2>1. x.dest \in Dests
      BY Zenon DEF StorageAssumption
    <2>2. path' \in [Dests -> Announces \cup {Nil}]
      BY <1>8, <2>1, Zenon DEF Learn, TypeOK
    <2>3. Known(x, recent[x.dest].retained) \in
              [known : BOOLEAN, retained : BOOLEAN, last : Announces \cup {Nil}]
      BY <2>1, Zenon DEF Known, TypeOK, RecentTable
    <2>4. recent' \in RecentTable
      BY <1>8, <2>1, <2>3, Zenon DEF Learn, TypeOK, RecentTable
    <2>5. cache' \in [Announces -> {"absent", "fresh", "old"}]
      BY <1>8, Zenon DEF Learn, TypeOK
    <2>6. ghost' \in GhostStates
      BY <1>8, Zenon DEF Learn, TypeOK, GhostStates
    <2> QED
      BY <1>8, <2>2, <2>4, <2>5, <2>6, Zenon DEF Learn, TypeOK
  <1>9. ASSUME NEW x \in Announces, Unlink(x)
        PROVE  TypeOK'
    <2>1. sweep' \in SweepStates
      BY <1>9, Zenon DEF Unlink, TypeOK, SweepStates
    <2> QED
      BY <1>9, <2>1, Zenon DEF Unlink, TypeOK
  <1>10. ASSUME NEW x \in Announces, Age(x)
         PROVE  TypeOK'
    BY <1>10, Zenon DEF Age, TypeOK
  <1>11. ASSUME NEW iface \in Ifaces, Register(iface)
         PROVE  TypeOK'
    <2> DEFINE mine == {x \in pending : x.iface = iface /\ iface \notin Accepted}
               taken == {x \in mine : path[x.dest] = Nil}
    <2>1. ASSUME NEW d \in Dests, \E x \in taken : x.dest = d
          PROVE  (CHOOSE x \in taken : x.dest = d) \in Announces
      BY <2>1, Zenon DEF TypeOK
    <2>2. path' = [d \in Dests |-> IF \E x \in taken : x.dest = d
                                   THEN CHOOSE x \in taken : x.dest = d ELSE path[d]]
      BY <1>11, Zenon DEF Register
    <2> HIDE DEF taken
    <2>3. path' \in [Dests -> Announces \cup {Nil}]
      BY <2>1, <2>2, Zenon DEF TypeOK
    <2> QED
      BY <1>11, <2>3, Zenon DEF Register, TypeOK
  <1>12. ASSUME NEW iface \in Ifaces, Deregister(iface)
         PROVE  TypeOK'
    BY <1>12, Zenon DEF Deregister, TypeOK
  <1>13. ASSUME NEW gone \in SUBSET (Held \cup pending), Cull(gone)
         PROVE  TypeOK'
    BY <1>13, Zenon DEF Cull, TypeOK
  <1>14. ASSUME NEW d \in Dests, Clean(d)
         PROVE  TypeOK'
    <2>1. recent' \in RecentTable
      BY <1>14, EmptyTypes DEF Clean, TypeOK, RecentTable
    <2> QED
      BY <1>14, <2>1, Zenon DEF Clean, TypeOK
  <1>15. ASSUME NEW d \in Dests, Retain(d)
         PROVE  TypeOK'
    <2>1. recent' \in RecentTable
      <3>1. recent[d] \in [known : BOOLEAN, retained : BOOLEAN, last : Announces \cup {Nil}]
        BY Zenon DEF TypeOK, RecentTable
      <3>2. [recent[d] EXCEPT !.retained = ~recent[d].retained] \in
                [known : BOOLEAN, retained : BOOLEAN, last : Announces \cup {Nil}]
        BY <3>1, Zenon
      <3>3. recent' = [recent EXCEPT ![d] = [recent[d] EXCEPT !.retained = ~recent[d].retained]]
        BY <1>15, Zenon DEF Retain
      <3> QED
        BY <3>2, <3>3, Zenon DEF TypeOK, RecentTable
    <2>2. ghost.excused \cup ({recent[d].last} \cap (sweep.victims \cup Absent)) \in
              SUBSET Announces
      BY SnapshotType, Zenon DEF TypeOK, GhostStates, SweepStates
    <2>3. ghost' \in GhostStates
      BY <1>15, <2>2, Zenon DEF Retain, TypeOK, GhostStates
    <2> QED
      BY <1>15, <2>1, <2>3, Zenon DEF Retain, TypeOK
  <1>16. CASE DropPathTable
    <2>1. [paths |-> {}, recent |-> recent] \in Snapshots
      BY Zenon DEF TypeOK, Snapshots
    <2>2. writer' \in WriterStates /\ sync' \in SyncStates /\ dirty' \in BOOLEAN
      BY <1>16, <2>1, SaveNowType, Zenon DEF DropPathTable
    <2>3. ghost' \in GhostStates
      BY <1>16, Zenon DEF DropPathTable, TypeOK, GhostStates
    <2> QED
      BY <1>16, <2>2, <2>3, EmptyTypes, Zenon DEF DropPathTable, TypeOK
  <1>17. CASE DropRecentAnnounces
    <2>1. recent' \in RecentTable
      BY <1>17, EmptyTypes, Zenon DEF DropRecentAnnounces
    <2>2. [paths |-> Snapshot.paths, recent |-> recent'] \in Snapshots
      BY <2>1, SnapshotType, Zenon DEF Snapshots
    <2>3. writer' \in WriterStates /\ sync' \in SyncStates /\ dirty' \in BOOLEAN
      BY <1>17, <2>2, SaveNowType, Zenon DEF DropRecentAnnounces
    <2> QED
      BY <1>17, <2>1, <2>3, Zenon DEF DropRecentAnnounces, TypeOK
  <1>18. CASE SaveTick
    BY <1>18, SaveRoutingType, Zenon DEF SaveTick, TypeOK
  <1>19. CASE SaveState
    <2>1. hasher' \in HasherStates
      BY <1>19, Zenon DEF SaveState, TypeOK, HasherStates
    <2> QED
      BY <1>19, <2>1, SaveRoutingType, Zenon DEF SaveState, TypeOK
  <1>20. CASE Shutdown
    BY <1>20, SaveNowType, SnapshotType, Zenon DEF Shutdown, TypeOK
  <1>21. CASE HashesGrow
    BY <1>21 DEF HashesGrow, TypeOK, StorageAssumption
  <1>22. CASE StartSweep
    <2>1. sweep' \in SweepStates
      BY <1>22, Zenon DEF StartSweep, SweepStates
    <2> QED
      BY <1>22, <2>1, Zenon DEF StartSweep, TypeOK
  <1>23. CASE EndSweep
    BY <1>23, EmptyTypes, Zenon DEF EndSweep, TypeOK
  <1>24. CASE Exit
    <2>1. ghost' \in GhostStates
      BY <1>24, Zenon DEF Exit, TypeOK, GhostStates
    <2>2. 0 \in 0..MaxHashes /\ crashes + 1 \in Nat
      BY DEF TypeOK, StorageAssumption
    <2> QED
      BY <1>24, <2>1, <2>2, EmptyTypes, Zenon DEF Exit, TypeOK
  <1>25. ASSUME NEW gone \in SUBSET plan.heard, Load(gone)
         PROVE  TypeOK'
    <2>1. pending' \subseteq Announces /\ recent' \in RecentTable
      BY <1>25, LoadType, Zenon DEF Load
    <2>2. ghost' \in GhostStates
      <3>1. Absent \cap (pending' \cup {recent'[d].last : d \in Dests}) \in SUBSET Announces
        BY SnapshotType, Zenon
      <3> QED
        BY <1>25, <3>1, Zenon DEF Load, TypeOK, GhostStates
    <2> QED
      BY <1>25, <2>1, <2>2, Zenon DEF Load, TypeOK
  <1>26. CASE UNCHANGED vars
    BY <1>26, Zenon DEF vars, TypeOK
  <1> QED
    BY <1>1, <1>2, <1>3, <1>4, <1>5, <1>6, <1>7, <1>8, <1>9, <1>10, <1>11, <1>12, <1>13, <1>14,
       <1>15, <1>16, <1>17, <1>18, <1>19, <1>20, <1>21, <1>22, <1>23, <1>24, <1>25, <1>26, Zenon
    DEF Next, Writers

-----------------------------------------------------------------------------

(* Threads *)

\* What a synchronous save does to the threads (save_routing_state).
LEMMA SaveNowFacts ==
    ASSUME TypeOK, NEW snap, NEW for, SaveNow(snap, for)
    PROVE  /\ sync'.state = "waiting" /\ sync'.snap = snap /\ sync'.done = 0 /\ sync'.for = for
           /\ writer'.state = writer.state /\ writer'.snap = writer.snap
           /\ writer'.state = "queued" => ~writer'.latest
  <1>1. /\ sync'.state = "waiting" /\ sync'.snap = snap /\ sync'.done = 0 /\ sync'.for = for
    BY Zenon DEF SaveNow
  <1> QED
    BY <1>1, Zenon DEF SaveNow, TypeOK, WriterStates

\* A writer is queued only if there is none (routing_save_in_flight).
LEMMA SaveRoutingFacts ==
    ASSUME SaveRouting
    PROVE  \/ writer' = writer
           \/ writer'.state = "queued" /\ writer'.snap = Snapshot
BY Zenon DEF SaveRouting, NoWriter

\* Every step keeps ThreadInv.
LEMMA ThreadStep ==
    ASSUME StorageAssumption, TypeOK, ThreadInv, [Next]_vars
    PROVE  ThreadInv'
  <1> USE DEF memory, disk, threads
  <1>0. /\ writer \in WriterStates /\ sync \in SyncStates
        /\ NoWriter.state = "none" /\ NoHasher.state = "none" /\ NoSync.state = "none"
        /\ phase \in {"up", "stopped", "off"}
    BY Zenon DEF TypeOK, NoWriter, NoHasher, NoSync
  <1>1. CASE Start
    <2>1. writer'.state = "none" \/ (writer.latest /\ writer'.state = "writing")
      BY <1>0, <1>1, Zenon DEF Start, WriterStates
    <2> QED
      BY <1>0, <1>1, <2>1, Zenon DEF Start, ThreadInv, SyncStates
  <1>2. CASE WriteNext
    <2>1. writer'.state \in {"none", "writing"}
      BY <1>0, <1>2, Zenon DEF WriteNext, WriterStates
    <2> QED
      BY <1>2, <2>1, Zenon DEF WriteNext, ThreadInv
  <1>3. CASE SyncLock
    <2>1. sync'.state = "writing" /\ sync'.done = sync.done /\ sync'.for = sync.for
      BY <1>0, <1>3, Zenon DEF SyncLock, SyncStates
    <2> QED
      BY <1>3, <2>1 DEF SyncLock, ThreadInv
  <1>4. CASE SyncWrite
    <2>1. /\ sync'.done = sync.done + 1 /\ sync'.for = sync.for
          /\ sync'.state = IF sync.done + 1 = 3 THEN "written" ELSE "writing"
      BY <1>0, <1>4, Writing, Zenon DEF SyncWrite, SyncStates
    <2> QED
      BY <1>4, <2>1 DEF SyncWrite, ThreadInv
  <1>5. CASE SyncReply
    BY <1>0, <1>5, Zenon DEF SyncReply, ThreadInv
  <1>6. CASE Stop
    <2>1. sync'.state = "none" /\ (sync'.for = "saved" => hasher.state = "none")
      BY <1>6, Zenon DEF Stop, NoSync
    <2> QED
      BY <1>6, <2>1, Zenon DEF Stop, ThreadInv
  <1>7. CASE WriteHashes
    BY <1>0, <1>7, Zenon DEF WriteHashes, ThreadInv
  <1>8. ASSUME NEW x \in Announces, Learn(x)
        PROVE  ThreadInv'
    BY <1>8, Zenon DEF Learn, Idle, ThreadInv
  <1>9. ASSUME NEW x \in Announces, Unlink(x)
        PROVE  ThreadInv'
    <2>1. phase # "off"
      BY <1>9 DEF Unlink, ThreadInv, NoSweep
    <2> QED
      BY <1>9, <2>1, Zenon DEF Unlink, ThreadInv
  <1>10. ASSUME NEW x \in Announces, Age(x)
         PROVE  ThreadInv'
    BY <1>10, Zenon DEF Age, ThreadInv
  <1>11. ASSUME NEW iface \in Ifaces, Register(iface)
         PROVE  ThreadInv'
    BY <1>11, Zenon DEF Register, Idle, ThreadInv
  <1>12. ASSUME NEW iface \in Ifaces, Deregister(iface)
         PROVE  ThreadInv'
    BY <1>12, Zenon DEF Deregister, Idle, ThreadInv
  <1>13. ASSUME NEW gone \in SUBSET (Held \cup pending), Cull(gone)
         PROVE  ThreadInv'
    BY <1>13, Zenon DEF Cull, Idle, ThreadInv
  <1>14. ASSUME NEW d \in Dests, Clean(d) \/ Retain(d)
         PROVE  ThreadInv'
    BY <1>14 DEF Clean, Retain, ThreadInv
  <1>15. CASE DropPathTable
    BY <1>15, SaveNowFacts DEF DropPathTable, Idle, ThreadInv
  <1>16. CASE DropRecentAnnounces
    BY <1>16, SaveNowFacts DEF DropRecentAnnounces, Idle, ThreadInv
  <1>17. CASE SaveTick \/ SaveState
    BY <1>17, SaveRoutingFacts, Zenon DEF SaveTick, SaveState, Idle, ThreadInv
  <1>18. CASE Shutdown
    BY <1>18, SaveNowFacts DEF Shutdown, Idle, ThreadInv
  <1>19. CASE HashesGrow
    BY <1>19, Zenon DEF HashesGrow, ThreadInv
  <1>20. CASE StartSweep
    BY <1>20, Zenon DEF StartSweep, Idle, ThreadInv
  <1>21. CASE EndSweep
    BY <1>21, Zenon DEF EndSweep, ThreadInv
  <1>22. CASE Exit
    BY <1>0, <1>22, Zenon DEF Exit, ThreadInv
  <1>23. ASSUME NEW gone \in SUBSET plan.heard, Load(gone)
         PROVE  ThreadInv'
    BY <1>23, Zenon DEF Load, ThreadInv
  <1>24. CASE UNCHANGED vars
    BY <1>24 DEF vars, ThreadInv
  <1> QED
    BY <1>1, <1>2, <1>3, <1>4, <1>5, <1>6, <1>7, <1>8, <1>9, <1>10, <1>11, <1>12, <1>13, <1>14,
       <1>15, <1>16, <1>17, <1>18, <1>19, <1>20, <1>21, <1>22, <1>23, <1>24
    DEF Next, Writers

-----------------------------------------------------------------------------

(* Files *)

\* The steps by which nothing is written, and no synchronous save starts, goes on
\* or ends.
Calm ==
    \/ Start \/ WriteHashes \/ SaveTick \/ SaveState \/ HashesGrow \/ StartSweep \/ EndSweep
    \/ \E x \in Announces : Learn(x) \/ Unlink(x) \/ Age(x)
    \/ \E iface \in Ifaces : Register(iface) \/ Deregister(iface)
    \/ \E gone \in SUBSET (Held \cup pending) : Cull(gone)
    \/ \E d \in Dests : Clean(d) \/ Retain(d)
    \/ \E gone \in SUBSET plan.heard : Load(gone)
    \/ UNCHANGED vars

\* The other steps.
LEMMA CalmSteps ==
    ASSUME [Next]_vars
    PROVE  \/ Calm \/ WriteNext \/ SyncLock \/ SyncWrite \/ SyncReply \/ Stop
           \/ DropPathTable \/ DropRecentAnnounces \/ Shutdown \/ Exit
BY Zenon DEF Calm, Next, Writers

\* A calm step leaves the files alone, and the state of a synchronous save; the
\* actor's tables and its own files change only while it is idle, or as it loads.
LEMMA CalmFacts ==
    ASSUME Calm
    PROVE  /\ files' = files /\ sync' = sync
           /\ \/ phase' = phase /\ UNCHANGED <<up, path, recent, seen>>
              \/ phase' = "up" /\ (Idle \/ phase = "off")
           /\ UNCHANGED seenFile \/ hasher.state = "queued"
           /\ UNCHANGED hasher \/ hasher' = NoHasher \/ Idle
  <1> USE DEF memory, disk, threads
  <1>1. CASE Start
    BY <1>1, Zenon DEF Start
  <1>2. CASE WriteHashes
    BY <1>2, Zenon DEF WriteHashes
  <1>3. CASE SaveTick \/ SaveState \/ HashesGrow
    BY <1>3, SMTT(20) DEF SaveTick, SaveState, HashesGrow, Idle
  <1>4. CASE StartSweep \/ EndSweep
    BY <1>4, Zenon DEF StartSweep, EndSweep
  <1>5. CASE \E x \in Announces : Learn(x) \/ Unlink(x) \/ Age(x)
    BY <1>5, Zenon DEF Learn, Unlink, Age, Idle
  <1>6. CASE \E iface \in Ifaces : Register(iface) \/ Deregister(iface)
    BY <1>6, Zenon DEF Register, Deregister, Idle
  <1>7. CASE \E gone \in SUBSET (Held \cup pending) : Cull(gone)
    BY <1>7, Zenon DEF Cull, Idle
  <1>8. CASE \E d \in Dests : Clean(d) \/ Retain(d)
    BY <1>8, Zenon DEF Clean, Retain, Idle
  <1>9. CASE \E gone \in SUBSET plan.heard : Load(gone)
    BY <1>9, Zenon DEF Load
  <1>10. CASE UNCHANGED vars
    BY <1>10, Zenon DEF vars
  <1> QED
    BY <1>1, <1>2, <1>3, <1>4, <1>5, <1>6, <1>7, <1>8, <1>9, <1>10, Zenon DEF Calm

\* Every step keeps WrittenInv.
LEMMA WrittenStep ==
    ASSUME StorageAssumption, TypeOK, ThreadInv, WrittenInv, [Next]_vars
    PROVE  WrittenInv'
  <1>1. CASE Calm
    BY <1>1, CalmFacts, Zenon DEF WrittenInv
  <1>2. CASE WriteNext
    BY <1>2, Zenon DEF WriteNext, ThreadInv, WrittenInv
  <1>3. CASE SyncLock
    <2>1. sync'.state = "writing" /\ sync'.done = 0
      BY <1>3, Zenon DEF SyncLock, ThreadInv, TypeOK, SyncStates
    <2> QED
      BY <2>1 DEF WrittenInv
  <1>4. CASE SyncWrite
    <2>1. /\ sync'.done = sync.done + 1 /\ sync'.snap = sync.snap
          /\ sync.done \in 0..2
      BY <1>4 DEF SyncWrite, ThreadInv, TypeOK, SyncStates
    <2>2. Write(sync.snap, sync.done + 1) /\ sync.snap \in Snapshots /\ sync.done + 1 \in 1..3
      BY <1>4, Writing, Zenon DEF SyncWrite
    <2>3. /\ files'.path_table = IF sync.done + 1 = 1 THEN sync.snap.paths ELSE files.path_table
          /\ files'.destination_table =
                 IF sync.done + 1 = 2 THEN sync.snap.paths ELSE files.destination_table
          /\ files'.announce_cache =
                 IF sync.done + 1 = 3 THEN sync.snap.recent ELSE files.announce_cache
      BY <2>2, WriteFacts, Zenon DEF TypeOK
    <2> QED
      BY <1>4, <2>1, <2>3 DEF SyncWrite, WrittenInv
  <1>5. CASE SyncReply \/ Stop \/ Exit
    <2>1. sync'.state = "none"
      BY <1>5 DEF SyncReply, Stop, Exit, NoSync
    <2> QED
      BY <2>1, Zenon DEF WrittenInv
  <1>6. CASE DropPathTable \/ DropRecentAnnounces \/ Shutdown
    <2>1. sync'.state = "waiting"
      BY <1>6, SaveNowFacts, Zenon DEF DropPathTable, DropRecentAnnounces, Shutdown
    <2> QED
      BY <2>1, Zenon DEF WrittenInv
  <1> QED
    BY <1>1, <1>2, <1>3, <1>4, <1>5, <1>6, CalmSteps, Zenon

\* Every step keeps StoppedInv.
LEMMA StoppedStep ==
    ASSUME StorageAssumption, TypeOK, ThreadInv, WrittenInv, StoppedInv, [Next]_vars
    PROVE  StoppedInv'
  <1> USE DEF memory, disk, threads
  <1>1. CASE Calm
    <2>1. CASE phase' = phase /\ UNCHANGED <<up, path, recent, seen>>
      <3>1. Snapshot' = Snapshot
        BY <2>1, Zenon DEF Snapshot, Held
      <3>2. phase = "stopped" /\ sync.for = "saved" => UNCHANGED seenFile
        BY <1>1, CalmFacts, Zenon DEF ThreadInv
      <3> QED
        BY <1>1, <2>1, <3>1, <3>2, CalmFacts, Zenon DEF StoppedInv
    <2>2. CASE phase' = "up" /\ (Idle \/ phase = "off")
      BY <1>1, <2>2, CalmFacts, Zenon DEF StoppedInv, ThreadInv, Idle
    <2> QED
      BY <1>1, <2>1, <2>2, CalmFacts, Zenon
  <1>2. CASE WriteNext
    <2>1. Snapshot' = Snapshot
      BY <1>2, Zenon DEF WriteNext, Snapshot, Held
    <2>2. phase # "stopped"
      BY <1>2, Zenon DEF WriteNext, ThreadInv
    <2> QED
      BY <1>2, <2>1, <2>2, Zenon DEF WriteNext, StoppedInv
  <1>3. CASE SyncLock \/ SyncWrite
    <2>1. Snapshot' = Snapshot /\ phase' = phase /\ phase = "up"
      BY <1>3, Zenon DEF SyncLock, SyncWrite, Snapshot, Held, ThreadInv
    <2>2. sync'.snap = sync.snap /\ sync'.for = sync.for /\ sync.state # "none"
      BY <1>3, Zenon DEF SyncLock, SyncWrite, TypeOK, SyncStates
    <2> QED
      BY <2>1, <2>2, Zenon DEF StoppedInv
  <1>4. CASE SyncReply
    <2>1. sync'.state = "none" /\ phase' = "up"
      BY <1>4, Zenon DEF SyncReply, NoSync, ThreadInv
    <2> QED
      BY <2>1, Zenon DEF StoppedInv
  <1>5. CASE Stop
    <2>1. /\ Snapshot' = Snapshot /\ recent' = recent /\ seen' = seen /\ files' = files
          /\ Snapshot.recent = recent
      BY <1>5, Zenon DEF Stop, Snapshot, Held
    <2>2. sync.snap = Snapshot /\ sync.done = 3
      BY <1>5, Zenon DEF Stop, StoppedInv, ThreadInv
    <2>3. /\ files.path_table = Snapshot.paths /\ files.destination_table = Snapshot.paths
          /\ files.announce_cache = recent
      BY <1>5, <2>1, <2>2 DEF Stop, WrittenInv
    <2>4. sync'.state = "none" /\ (sync'.for = "saved" => seenFile' = seen)
      BY <1>5, Zenon DEF Stop, NoSync
    <2> QED
      BY <2>1, <2>3, <2>4, Zenon DEF StoppedInv
  <1>6. CASE DropPathTable \/ DropRecentAnnounces
    <2>1. sync'.for \in {"drop", "forget"} /\ phase' = "up"
      BY <1>6, SaveNowFacts, Zenon DEF DropPathTable, DropRecentAnnounces, Idle
    <2> QED
      BY <2>1, Zenon DEF StoppedInv
  <1>7. CASE Shutdown
    <2>1. sync'.snap = Snapshot /\ phase' = "up"
      BY <1>7, SaveNowFacts, Zenon DEF Shutdown, Idle
    <2>2. Snapshot' = Snapshot
      BY <1>7, Zenon DEF Shutdown, Snapshot, Held
    <2> QED
      BY <2>1, <2>2, Zenon DEF StoppedInv
  <1>8. CASE Exit
    <2>1. sync'.state = "none" /\ phase' = "off"
      BY <1>8, Zenon DEF Exit, NoSync
    <2> QED
      BY <2>1, Zenon DEF StoppedInv
  <1> QED
    BY <1>1, <1>2, <1>3, <1>4, <1>5, <1>6, <1>7, <1>8, CalmSteps, Zenon

-----------------------------------------------------------------------------

(* Paths *)

(* The paths after each step that changes the path table: one is learnt,   *)
(* some come from the entries that waited for their interface, some go.    *)

\* process_announce
LEMMA HeldLearnt ==
    ASSUME StorageAssumption, TypeOK, NEW x \in Announces, Learn(x)
    PROVE  Held' \subseteq Held \cup {x} /\ pending' = pending
BY Zenon DEF Learn, Held, TypeOK, StorageAssumption

\* drain_pending_for_interface
LEMMA HeldRegistered ==
    ASSUME StorageAssumption, TypeOK, NEW iface \in Ifaces, Register(iface)
    PROVE  Held' \subseteq Held \cup pending /\ pending' \subseteq pending
  <1> DEFINE mine == {x \in pending : x.iface = iface /\ iface \notin Accepted}
             taken == {x \in mine : path[x.dest] = Nil}
  <1>1. path' = [d \in Dests |-> IF \E x \in taken : x.dest = d
                                 THEN CHOOSE x \in taken : x.dest = d ELSE path[d]]
    BY Zenon DEF Register
  <1>2. ASSUME NEW y \in Held'
        PROVE  y \in Held \cup pending
    <2>1. y \in Announces /\ y.dest \in Dests /\ path'[y.dest] = y
      BY <1>2, Zenon DEF Held, StorageAssumption
    <2>2. CASE \E x \in taken : x.dest = y.dest
      <3>1. (CHOOSE x \in taken : x.dest = y.dest) \in taken
        BY <2>2, Zenon
      <3> QED
        BY <1>1, <2>1, <2>2, <3>1, Zenon
    <2>3. CASE ~\E x \in taken : x.dest = y.dest
      BY <1>1, <2>1, <2>3, Zenon DEF Held
    <2> QED
      BY <2>2, <2>3, Zenon
  <1> QED
    BY <1>2, Zenon DEF Register

\* deregister_interface, and the cull of the tick
LEMMA HeldLost ==
    ASSUME StorageAssumption, TypeOK,
           \/ \E iface \in Ifaces : Deregister(iface)
           \/ \E gone \in SUBSET (Held \cup pending) : Cull(gone)
    PROVE  Held' \subseteq Held /\ pending' \subseteq pending
  <1>1. \A d \in Dests : path'[d] \in {path[d], Nil}
    BY Zenon DEF Deregister, Cull
  <1> QED
    BY <1>1 DEF Deregister, Cull, Held, StorageAssumption

\* DropPathTable, and a new process
LEMMA HeldCleared ==
    ASSUME StorageAssumption, path' = [d \in Dests |-> Nil]
    PROVE  Held' = {}
BY Zenon DEF Held, StorageAssumption

\* Every step keeps DroppedInv.
LEMMA DroppedStep ==
    ASSUME StorageAssumption, TypeOK, ThreadInv, WrittenInv, DroppedInv, [Next]_vars
    PROVE  DroppedInv'
  <1> USE DEF memory, disk, threads
  <1>0. /\ Snapshot.paths \subseteq Held
        /\ NoWriter.state = "none" /\ NoSync.state = "none"
    BY Zenon DEF Snapshot, NoWriter, NoSync
  <1>1. CASE Start
    <2>1. \/ writer'.state = "none"
          \/ writer.state = "queued" /\ writer.latest /\ writer'.state = "writing" /\
             writer'.snap = writer.snap
      BY <1>0, <1>1, Zenon DEF Start, TypeOK, WriterStates
    <2> QED
      BY <1>1, <2>1, Zenon DEF Start, DroppedInv, Dropping, Held
  <1>2. CASE WriteNext
    <2>1. /\ files'.path_table \in {files.path_table, writer.snap.paths}
          /\ files'.destination_table \in {files.destination_table, writer.snap.paths}
      BY <1>2, Writing, WriteFacts, Zenon DEF WriteNext, TypeOK
    <2>2. writer'.state = "none" \/ (writer'.state = "writing" /\ writer'.snap = writer.snap)
      BY <1>0, <1>2, Zenon DEF WriteNext, TypeOK, WriterStates
    <2> QED
      BY <1>2, <2>1, <2>2, Zenon DEF WriteNext, DroppedInv, Dropping, Held
  <1>3. CASE SyncLock
    <2>1. /\ sync'.state # "none" /\ sync.state # "none"
          /\ sync'.snap = sync.snap /\ sync'.for = sync.for
      BY <1>3, Zenon DEF SyncLock, TypeOK, SyncStates
    <2> QED
      BY <1>3, <2>1, Zenon DEF SyncLock, DroppedInv, Dropping, Held
  <1>4. CASE SyncWrite
    <2>1. /\ sync'.state # "none" /\ sync.state # "none"
          /\ sync'.snap = sync.snap /\ sync'.for = sync.for
      BY <1>4, Zenon DEF SyncWrite, TypeOK, SyncStates
    <2>2. /\ files'.path_table \in {files.path_table, sync.snap.paths}
          /\ files'.destination_table \in {files.destination_table, sync.snap.paths}
      BY <1>4, Writing, WriteFacts, Zenon DEF SyncWrite, TypeOK
    <2> QED
      BY <1>4, <2>1, <2>2, Zenon DEF SyncWrite, DroppedInv, Dropping, Held
  <1>5. CASE SyncReply \/ Stop
    <2>1. sync'.state = "none" /\ sync.state = "written"
      BY <1>5 DEF SyncReply, Stop, NoSync
    <2>2. /\ files.path_table = sync.snap.paths /\ files.destination_table = sync.snap.paths
          /\ writer.state # "writing"
      BY <2>1 DEF WrittenInv, ThreadInv
    <2>3. UNCHANGED <<path, pending, files, writer, ghost>>
      BY <1>5, Zenon DEF SyncReply, Stop
    <2> QED
      BY <2>1, <2>2, <2>3, Zenon DEF DroppedInv, Dropping, Held
  <1>6. CASE WriteHashes \/ HashesGrow \/ StartSweep \/ EndSweep
    BY <1>6, SMTT(20) DEF WriteHashes, HashesGrow, StartSweep, EndSweep, DroppedInv, Dropping, Held
  <1>7. ASSUME NEW x \in Announces, Learn(x)
        PROVE  DroppedInv'
    <2>1. ghost'.dropped = ghost.dropped \ {x}
      BY <1>7, Zenon DEF Learn, TypeOK, GhostStates
    <2> QED
      BY <1>7, <2>1, HeldLearnt, Zenon DEF Learn, DroppedInv, Dropping
  <1>8. ASSUME NEW x \in Announces, Unlink(x) \/ Age(x)
        PROVE  DroppedInv'
    BY <1>8, Zenon DEF Unlink, Age, DroppedInv, Dropping, Held
  <1>9. ASSUME NEW iface \in Ifaces, Register(iface)
        PROVE  DroppedInv'
    BY <1>9, HeldRegistered, Zenon DEF Register, DroppedInv, Dropping
  <1>10. CASE \/ \E iface \in Ifaces : Deregister(iface)
              \/ \E gone \in SUBSET (Held \cup pending) : Cull(gone)
    <2>1. Held' \subseteq Held /\ pending' \subseteq pending
      BY <1>10, HeldLost, Zenon
    <2> QED
      BY <1>10, <2>1, Zenon DEF Deregister, Cull, DroppedInv, Dropping
  <1>11. ASSUME NEW d \in Dests, Clean(d) \/ Retain(d)
         PROVE  DroppedInv'
    <2>1. ghost'.dropped = ghost.dropped
      BY <1>11, Zenon DEF Clean, Retain, TypeOK, GhostStates
    <2> QED
      BY <1>11, <2>1 DEF Clean, Retain, DroppedInv, Dropping, Held
  <1>12. CASE DropPathTable
    <2>1. Held' = {} /\ pending' = {}
      BY <1>12, HeldCleared, Zenon DEF DropPathTable
    <2>2. /\ sync'.snap.paths = {} /\ sync'.state # "none" /\ sync'.for = "drop"
          /\ writer'.state = "queued" => ~writer'.latest
      BY <1>12, SaveNowFacts DEF DropPathTable
    <2> QED
      BY <2>1, <2>2, Zenon DEF DroppedInv, Dropping
  <1>13. CASE DropRecentAnnounces \/ Shutdown
    <2>1. /\ sync'.snap.paths = Snapshot.paths /\ sync'.for # "drop" /\ sync.state = "none"
          /\ writer'.state = writer.state /\ writer'.snap = writer.snap
          /\ writer'.state = "queued" => ~writer'.latest
      BY <1>13, SaveNowFacts DEF DropRecentAnnounces, Shutdown, Idle
    <2>2. UNCHANGED <<path, pending, files, ghost>>
      BY <1>13, Zenon DEF DropRecentAnnounces, Shutdown
    <2> QED
      BY <1>0, <2>1, <2>2, Zenon DEF DroppedInv, Dropping, Held
  <1>14. CASE SaveTick \/ SaveState
    <2>1. UNCHANGED <<path, pending, files, sync, ghost>> /\ SaveRouting
      BY <1>14, Zenon DEF SaveTick, SaveState
    <2> QED
      BY <1>0, <2>1, SaveRoutingFacts, Zenon DEF DroppedInv, Dropping, Held
  <1>15. CASE Exit
    <2>1. Held' = {} /\ pending' = {}
      BY <1>15, HeldCleared, Zenon DEF Exit
    <2>2. ghost'.dropped = IF Dropping THEN {} ELSE ghost.dropped
      BY <1>15, Zenon DEF Exit, TypeOK, GhostStates
    <2>3. sync'.state = "none" /\ writer'.state = "none" /\ files' = files
      BY <1>0, <1>15, Zenon DEF Exit
    <2> QED
      BY <2>1, <2>2, <2>3, Zenon DEF DroppedInv
  <1>16. ASSUME NEW gone \in SUBSET plan.heard, Load(gone)
         PROVE  DroppedInv'
    <2>1. pending' \subseteq files.path_table \cup files.destination_table
      BY <1>16, LoadType, Zenon DEF Load
    <2>2. ghost'.dropped = ghost.dropped /\ ~Dropping
      BY <1>16, Zenon DEF Load, TypeOK, GhostStates, ThreadInv, Dropping
    <2> QED
      BY <1>16, <2>1, <2>2, Zenon DEF Load, DroppedInv, Dropping, Held
  <1>17. CASE UNCHANGED vars
    BY <1>17, Zenon DEF vars, DroppedInv, Dropping, Held
  <1> QED
    BY <1>1, <1>2, <1>3, <1>4, <1>5, <1>6, <1>7, <1>8, <1>9, <1>10, <1>11, <1>12, <1>13, <1>14,
       <1>15, <1>16, <1>17
    DEF Next, Writers

\* Every step keeps ClientsInv.
LEMMA ClientsStep ==
    ASSUME StorageAssumption, TypeOK, ThreadInv, ClientsInv, [Next]_vars
    PROVE  ClientsInv'
  <1> USE DEF memory, disk, threads
  <1>0. /\ Snapshot.paths \cap Passing = {} /\ Passing' = Passing
        /\ NoWriter.snap.paths = {} /\ NoSync.snap.paths = {}
    BY Zenon DEF Snapshot, Passing, NoWriter, NoSync, NoSnapshot
  <1> HIDE DEF Passing
  <1>1. CASE Start
    <2>1. writer'.snap.paths \in {{}, writer.snap.paths}
      BY <1>0, <1>1, Zenon DEF Start, TypeOK, WriterStates
    <2> QED
      BY <1>0, <1>1, <2>1, Zenon DEF Start, ClientsInv, Held
  <1>2. CASE WriteNext
    <2>1. /\ files'.path_table \in {files.path_table, writer.snap.paths}
          /\ files'.destination_table \in {files.destination_table, writer.snap.paths}
      BY <1>2, Writing, WriteFacts, Zenon DEF WriteNext, TypeOK
    <2>2. writer'.snap.paths \in {{}, writer.snap.paths}
      BY <1>0, <1>2, Zenon DEF WriteNext, TypeOK, WriterStates
    <2> QED
      BY <1>0, <1>2, <2>1, <2>2, Zenon DEF WriteNext, ClientsInv, Held
  <1>3. CASE SyncLock
    <2>1. sync'.snap = sync.snap
      BY <1>3, Zenon DEF SyncLock, TypeOK, SyncStates
    <2> QED
      BY <1>0, <1>3, <2>1, Zenon DEF SyncLock, ClientsInv, Held
  <1>4. CASE SyncWrite
    <2>1. sync'.snap = sync.snap
      BY <1>4, Zenon DEF SyncWrite, TypeOK, SyncStates
    <2>2. /\ files'.path_table \in {files.path_table, sync.snap.paths}
          /\ files'.destination_table \in {files.destination_table, sync.snap.paths}
      BY <1>4, Writing, WriteFacts, Zenon DEF SyncWrite, TypeOK
    <2> QED
      BY <1>0, <1>4, <2>1, <2>2, Zenon DEF SyncWrite, ClientsInv, Held
  <1>5. CASE SyncReply \/ Stop
    <2>1. sync'.snap.paths = {}
      BY <1>5 DEF SyncReply, Stop, NoSync, NoSnapshot
    <2>2. UNCHANGED <<path, pending, files, writer, ghost>>
      BY <1>5, Zenon DEF SyncReply, Stop
    <2> QED
      BY <1>0, <2>1, <2>2, Zenon DEF ClientsInv, Held
  <1>6. CASE WriteHashes \/ HashesGrow \/ StartSweep \/ EndSweep
    <2>1. UNCHANGED <<path, pending, files, writer, sync, ghost>>
      BY <1>6, Zenon DEF WriteHashes, HashesGrow, StartSweep, EndSweep
    <2> QED
      BY <1>0, <2>1, Zenon DEF ClientsInv, Held
  <1>7. ASSUME NEW x \in Announces, Learn(x)
        PROVE  ClientsInv'
    <2>1. ghost'.learnt = ghost.learnt \cup {x}
      BY <1>7, Zenon DEF Learn, TypeOK, GhostStates
    <2> QED
      BY <1>0, <1>7, <2>1, HeldLearnt, Zenon DEF Learn, ClientsInv
  <1>8. ASSUME NEW x \in Announces, Unlink(x) \/ Age(x)
        PROVE  ClientsInv'
    BY <1>0, <1>8, Zenon DEF Unlink, Age, ClientsInv, Held
  <1>9. ASSUME NEW iface \in Ifaces, Register(iface)
        PROVE  ClientsInv'
    BY <1>0, <1>9, HeldRegistered, Zenon DEF Register, ClientsInv
  <1>10. CASE \/ \E iface \in Ifaces : Deregister(iface)
              \/ \E gone \in SUBSET (Held \cup pending) : Cull(gone)
    <2>1. Held' \subseteq Held /\ pending' \subseteq pending
      BY <1>10, HeldLost, Zenon
    <2> QED
      BY <1>0, <1>10, <2>1, Zenon DEF Deregister, Cull, ClientsInv
  <1>11. ASSUME NEW d \in Dests, Clean(d) \/ Retain(d)
         PROVE  ClientsInv'
    <2>1. ghost'.learnt = ghost.learnt
      BY <1>11, Zenon DEF Clean, Retain, TypeOK, GhostStates
    <2>2. UNCHANGED <<path, pending, files, writer, sync>>
      BY <1>11, Zenon DEF Clean, Retain
    <2> QED
      BY <1>0, <2>1, <2>2, Zenon DEF ClientsInv, Held
  <1>12. CASE DropPathTable
    <2>1. Held' = {} /\ pending' = {}
      BY <1>12, HeldCleared, Zenon DEF DropPathTable
    <2>2. sync'.snap.paths = {} /\ writer'.snap = writer.snap /\ files' = files
      BY <1>12, SaveNowFacts DEF DropPathTable
    <2> QED
      BY <1>0, <2>1, <2>2, Zenon DEF ClientsInv
  <1>13. CASE DropRecentAnnounces \/ Shutdown
    <2>1. sync'.snap.paths = Snapshot.paths /\ writer'.snap = writer.snap
      BY <1>13, SaveNowFacts DEF DropRecentAnnounces, Shutdown, Idle
    <2>2. UNCHANGED <<path, pending, files, ghost>>
      BY <1>13, Zenon DEF DropRecentAnnounces, Shutdown
    <2> QED
      BY <1>0, <2>1, <2>2, Zenon DEF ClientsInv, Held
  <1>14. CASE SaveTick \/ SaveState
    <2>1. UNCHANGED <<path, pending, files, sync, ghost>> /\ SaveRouting
      BY <1>14, Zenon DEF SaveTick, SaveState
    <2> QED
      BY <1>0, <2>1, SaveRoutingFacts, Zenon DEF ClientsInv, Held
  <1>15. CASE Exit
    <2>1. Held' = {} /\ pending' = {}
      BY <1>15, HeldCleared, Zenon DEF Exit
    <2> QED
      BY <1>0, <1>15, <2>1, Zenon DEF Exit, ClientsInv
  <1>16. ASSUME NEW gone \in SUBSET plan.heard, Load(gone)
         PROVE  ClientsInv'
    <2>1. pending' \subseteq files.path_table \cup files.destination_table
      BY <1>16, LoadType, Zenon DEF Load
    <2>2. ghost'.learnt = ghost.learnt
      BY <1>16, Zenon DEF Load, TypeOK, GhostStates
    <2> QED
      BY <1>0, <1>16, <2>1, <2>2, Zenon DEF Load, ClientsInv, Held
  <1>17. CASE UNCHANGED vars
    BY <1>0, <1>17, Zenon DEF vars, ClientsInv, Held
  <1> QED
    BY <1>1, <1>2, <1>3, <1>4, <1>5, <1>6, <1>7, <1>8, <1>9, <1>10, <1>11, <1>12, <1>13, <1>14,
       <1>15, <1>16, <1>17
    DEF Next, Writers

-----------------------------------------------------------------------------

(* The announce cache *)

\* A destination whose announce is pinned (RecentAnnounce::retained).
Pins(x) == \E d \in Dests : recent[d].retained /\ recent[d].last = x

\* Every step keeps ServedInv.
LEMMA ServedStep ==
    ASSUME StorageAssumption, TypeOK, ThreadInv, ServedInv, [Next]_vars
    PROVE  ServedInv'
  <1> USE DEF memory, disk, threads
  <1>0. /\ \A x : x \in Keep <=> x \in Held \/ x \in pending \/ Pins(x)
        /\ \A x : x \in Keep' <=> x \in Held' \/ x \in pending' \/ Pins(x)'
    BY Zenon DEF Keep, Pins
  <1>1. SUFFICES ASSUME NEW x \in Keep', x # Nil
                 PROVE  x \in ghost'.excused \/ (cache'[x] # "absent" /\ x \notin sweep'.victims)
    BY Zenon DEF ServedInv
  <1> DEFINE Good == x \in ghost'.excused \/ (cache'[x] # "absent" /\ x \notin sweep'.victims)
  <1>2. /\ x \in Keep => x \in ghost.excused \/ (cache[x] # "absent" /\ x \notin sweep.victims)
        /\ x \in Held' \/ x \in pending' \/ Pins(x)'
    BY <1>0, <1>1, Zenon DEF ServedInv
  <1>3. ASSUME UNCHANGED <<cache, sweep, ghost>>, x \in Keep
        PROVE  Good
    BY <1>2, <1>3, Zenon
  <1>4. ASSUME UNCHANGED <<path, pending, recent>>
        PROVE  x \in Keep
    BY <1>4, <1>1, Zenon DEF Keep, Held
  <1>5. CASE Start \/ WriteNext \/ SyncLock \/ SyncWrite \/ SyncReply \/ Stop \/ WriteHashes
    <2>1. UNCHANGED <<path, pending, recent, cache, sweep, ghost>>
      BY <1>5, Zenon DEF Start, WriteNext, SyncLock, SyncWrite, SyncReply, Stop, WriteHashes
    <2> QED
      BY <1>3, <1>4, <2>1, Zenon
  <1>6. CASE SaveTick \/ SaveState \/ Shutdown \/ HashesGrow \/ UNCHANGED vars
    <2>1. UNCHANGED <<path, pending, recent, cache, sweep, ghost>>
      BY <1>6, Zenon DEF SaveTick, SaveState, Shutdown, HashesGrow, vars
    <2> QED
      BY <1>3, <1>4, <2>1, Zenon
  <1>7. ASSUME NEW y \in Announces, Learn(y)
        PROVE  Good
    <2>1. ghost'.excused = IF y \in sweep.victims THEN ghost.excused \cup {y}
                           ELSE ghost.excused \ {y}
      BY <1>7, Zenon DEF Learn, TypeOK, GhostStates
    <2>2. cache'[y] # "absent" /\ \A z \in Announces \ {y} : cache'[z] = cache[z]
      BY <1>7, Zenon DEF Learn, TypeOK
    <2>3. CASE x = y
      BY <1>7, <2>1, <2>2, <2>3 DEF Learn
    <2>4. CASE x # y
      <3>1. x \in Keep
        <4>1. CASE Pins(x)'
          <5>1. PICK d \in Dests : recent'[d].retained /\ recent'[d].last = x
            BY <4>1, Zenon DEF Pins
          <5>2. d # y.dest
            BY <1>7, <2>4, <5>1, Zenon DEF Learn, TypeOK, RecentTable, Known
          <5> QED
            BY <1>0, <1>7, <5>1, <5>2 DEF Learn, TypeOK, RecentTable, Pins
        <4> QED
          BY <1>0, <1>2, <1>7, <2>4, <4>1, HeldLearnt, Zenon
      <3>2. x \in Announces
        BY <1>0, <1>1, <3>1 DEF Held, Pins, TypeOK, RecentTable
      <3> QED
        BY <1>2, <1>7, <2>1, <2>2, <2>4, <3>1, <3>2 DEF Learn
    <2> QED
      BY <2>3, <2>4, Zenon
  <1>8. ASSUME NEW iface \in Ifaces, Register(iface)
        PROVE  Good
    <2>1. Pins(x)' => Pins(x)
      BY <1>8, Zenon DEF Register, Pins
    <2>2. x \in Keep
      BY <1>0, <1>2, <1>8, <2>1, HeldRegistered, Zenon
    <2> QED
      BY <1>3, <1>8, <2>2, Zenon DEF Register
  <1>9. CASE \/ \E iface \in Ifaces : Deregister(iface)
             \/ \E gone \in SUBSET (Held \cup pending) : Cull(gone)
    <2>1. Held' \subseteq Held /\ pending' \subseteq pending
      BY <1>9, HeldLost, Zenon
    <2>2. UNCHANGED <<recent, cache, sweep, ghost>>
      BY <1>9, Zenon DEF Deregister, Cull
    <2>3. x \in Keep
      BY <1>0, <1>2, <2>1, <2>2, Zenon DEF Pins
    <2> QED
      BY <1>3, <2>2, <2>3, Zenon
  <1>10. ASSUME NEW d \in Dests, Clean(d)
         PROVE  Good
    <2>1. \A e \in Dests : recent'[e].retained => recent'[e] = recent[e]
      BY <1>10, SMTT(20) DEF Clean, TypeOK, RecentTable, Unknown
    <2>2. x \in Keep
      BY <1>0, <1>2, <1>10, <2>1 DEF Clean, Pins, Held
    <2> QED
      BY <1>3, <1>10, <2>2, Zenon DEF Clean
  <1>11. ASSUME NEW d \in Dests, Retain(d)
         PROVE  Good
    <2>1. ghost'.excused = ghost.excused \cup ({recent[d].last} \cap (sweep.victims \cup Absent))
      BY <1>11, Zenon DEF Retain, TypeOK, GhostStates
    <2>2. \A e \in Dests : recent'[e].last = recent[e].last /\ (e # d => recent'[e] = recent[e])
      BY <1>11, Zenon DEF Retain, TypeOK, RecentTable
    <2>3. CASE x \in Keep
      BY <1>2, <1>11, <2>1, <2>3, Zenon DEF Retain
    <2>4. CASE x \notin Keep
      <3>1. x = recent[d].last
        <4>1. Pins(x)'
          BY <1>0, <1>2, <1>11, <2>4, Zenon DEF Retain, Held
        <4> QED
          BY <1>0, <2>2, <2>4, <4>1 DEF Pins
      <3>2. x \in Announces
        BY <1>1, <3>1, Zenon DEF TypeOK, RecentTable
      <3> QED
        BY <1>11, <2>1, <3>1, <3>2, Zenon DEF Retain, Absent
    <2> QED
      BY <2>3, <2>4, Zenon
  <1>12. CASE DropPathTable
    <2>1. Held' = {} /\ pending' = {} /\ UNCHANGED <<recent, cache, sweep>>
      BY <1>12, HeldCleared, Zenon DEF DropPathTable
    <2>2. ghost'.excused = ghost.excused
      BY <1>12, Zenon DEF DropPathTable, TypeOK, GhostStates
    <2>3. x \in Keep
      BY <1>0, <1>2, <2>1, Zenon DEF Pins
    <2> QED
      BY <1>2, <2>1, <2>2, <2>3, Zenon
  <1>13. CASE DropRecentAnnounces
    <2>1. ~Pins(x)'
      BY <1>13, Zenon DEF DropRecentAnnounces, Pins, Unknown
    <2>2. x \in Keep
      BY <1>0, <1>2, <1>13, <2>1, SMTT(20) DEF DropRecentAnnounces, Held
    <2> QED
      BY <1>3, <1>13, <2>2, Zenon DEF DropRecentAnnounces
  <1>14. CASE StartSweep
    <2>1. x \in Keep
      BY <1>4, <1>14, Zenon DEF StartSweep
    <2> QED
      BY <1>2, <1>14, <2>1, Zenon DEF StartSweep
  <1>15. ASSUME NEW y \in Announces, Unlink(y)
         PROVE  Good
    <2>1. x \in Keep
      BY <1>4, <1>15, Zenon DEF Unlink
    <2>2. y \in sweep.victims /\ sweep'.victims \subseteq sweep.victims
      BY <1>15, Zenon DEF Unlink, TypeOK, SweepStates
    <2>3. x # y => cache'[x] = cache[x]
      BY <1>15 DEF Unlink, TypeOK
    <2> QED
      BY <1>2, <1>15, <2>1, <2>2, <2>3, Zenon DEF Unlink
  <1>16. CASE EndSweep
    <2>1. x \in Keep
      BY <1>4, <1>16, Zenon DEF EndSweep
    <2> QED
      BY <1>2, <1>16, <2>1, Zenon DEF EndSweep, NoSweep
  <1>17. ASSUME NEW y \in Announces, Age(y)
         PROVE  Good
    <2>1. x \in Keep
      BY <1>4, <1>17, Zenon DEF Age
    <2>2. cache'[x] # "absent" \/ cache'[x] = cache[x]
      BY <1>17 DEF Age, TypeOK
    <2> QED
      BY <1>2, <1>17, <2>1, <2>2, Zenon DEF Age
  <1>18. CASE Exit
    <2>1. Held' = {} /\ pending' = {}
      BY <1>18, HeldCleared, Zenon DEF Exit
    <2>2. ~Pins(x)'
      BY <1>18, Zenon DEF Exit, Pins, Unknown
    <2> QED
      BY <1>2, <2>1, <2>2, Zenon
  <1>19. ASSUME NEW gone \in SUBSET plan.heard, Load(gone)
         PROVE  Good
    <2>1. Held' = {}
      BY <1>19, HeldCleared, Zenon DEF Load, ThreadInv
    <2>2. x \in pending' \cup {recent'[d].last : d \in Dests}
      BY <1>2, <2>1, Zenon DEF Pins
    <2>3. x \in Announces
      <3>1. pending' \subseteq Announces /\ recent' \in RecentTable
        BY <1>19, LoadType, Zenon DEF Load
      <3> QED
        BY <1>1, <2>2, <3>1, Zenon DEF RecentTable
    <2>4. ghost'.excused = Absent \cap (pending' \cup {recent'[d].last : d \in Dests})
      BY <1>19, Zenon DEF Load, TypeOK, GhostStates
    <2>5. sweep'.victims = {} /\ cache' = cache
      BY <1>19 DEF Load, ThreadInv, NoSweep
    <2> QED
      BY <2>2, <2>3, <2>4, <2>5, Zenon DEF Absent
  <1> QED
    BY <1>5, <1>6, <1>7, <1>8, <1>9, <1>10, <1>11, <1>12, <1>13, <1>14, <1>15, <1>16, <1>17,
       <1>18, <1>19, Zenon
    DEF Next, Writers

-----------------------------------------------------------------------------

(* The theorems *)

\* A node that starts with no files.
LEMMA StorageInitially ==
    ASSUME StorageAssumption, Init
    PROVE  StorageInv
  <1>1. ghost \in GhostStates /\ files \in FileTable
    BY EmptyTypes, Zenon DEF Init, NoGhost, GhostStates, FileTable
  <1>2. TypeOK
    <2>1. 0 \in 0..MaxHashes /\ 0 \in Nat
      BY DEF StorageAssumption
    <2>2. cache \in [Announces -> {"absent", "fresh", "old"}]
      BY Zenon DEF Init
    <2> QED
      BY <1>1, <2>1, <2>2, EmptyTypes, Zenon DEF Init, TypeOK
  <1>3. ThreadInv /\ WrittenInv /\ StoppedInv
    BY Zenon DEF Init, ThreadInv, WrittenInv, StoppedInv, NoSync, NoWriter
  <1>4. Held = {}
    BY Zenon DEF Init, Held, StorageAssumption
  <1>5. DroppedInv
    BY <1>4, Zenon DEF Init, DroppedInv, NoGhost
  <1>6. ServedInv
    BY <1>4, Zenon DEF Init, ServedInv, Keep, Unknown
  <1>7. ClientsInv
    BY <1>4, Zenon DEF Init, ClientsInv, NoWriter, NoSync, NoSnapshot
  <1> QED
    BY <1>2, <1>3, <1>5, <1>6, <1>7, Zenon DEF StorageInv

\* The inductive invariant.
LEMMA StorageInvariant ==
    ASSUME StorageAssumption
    PROVE  Spec => []StorageInv
  <1>1. Init => StorageInv
    BY StorageInitially, Zenon
  <1>2. StorageInv /\ [Next]_vars => StorageInv'
    BY TypeStep, ThreadStep, WrittenStep, StoppedStep, DroppedStep, ServedStep,
       ClientsStep, Zenon DEF StorageInv
  <1> QED
    BY <1>1, <1>2, PTL DEF Spec

\* A save that a caller has waited for is not undone by one that was started
\* earlier, the sweep never takes the file of an announce that a path response
\* could be served from, and no path of an accepted client outlives the process
\* that heard it: whatever is heard, swept, dropped and saved, in whatever
\* order the threads run, and wherever the process is killed (save_routing_state,
\* save_routing_state_async, maybe_sweep_announce_cache).
THEOREM FilesAreSound ==
    ASSUME StorageAssumption
    PROVE  Spec => []FilesSound
  <1>1. StorageInv => FilesSound
    <2> SUFFICES ASSUME StorageInv
                 PROVE  FilesSound
      OBVIOUS
    <2>1. NewestWins
      BY Zenon DEF StorageInv, StoppedInv, DroppedInv, NewestWins, Dropping
    <2>2. ServedFromDisk
      BY Zenon DEF StorageInv, ServedInv, ServedFromDisk
    <2>3. ClientsForgotten
      BY Zenon DEF StorageInv, ClientsInv, ClientsForgotten, Passing, Held
    <2> QED
      BY <2>1, <2>2, <2>3, Zenon DEF FilesSound
  <1> QED
    BY <1>1, StorageInvariant, PTL

=============================================================================
