------------------------------- MODULE Storage ------------------------------
(***************************************************************************)
(* What a transport node keeps on disk: the routing snapshot and its       *)
(* writers, the hash list, the announce cache and its sweep, and what a    *)
(* restart brings back (rns-transport/src/actor/persistence.rs,            *)
(* persistence.rs, and the tick and the queries that call them).           *)
(*                                                                         *)
(* The actor takes a snapshot and a thread of the blocking pool writes the *)
(* files of the snapshot one after the other; a synchronous save holds up  *)
(* the actor.  Each file is replaced atomically.  The process may be       *)
(* killed between any two steps; loss of power is not modelled.  Deadlines *)
(* and ages are nondeterministic.  An announce stands for the path that is *)
(* learnt from it.                                                         *)
(***************************************************************************)
EXTENDS Naturals, Sequences, FiniteSets

CONSTANTS
    Dests,       \* destinations
    Ifaces,      \* interfaces, by name
    Accepted,    \* those that a server accepted (parent_id); a name may be another peer's later
    Announces,   \* the announces that may be heard
    Plans,       \* what may happen: sets of announces, queries and faults
    MaxCrashes,  \* how often the process stops and starts again
    MaxHashes    \* how often the hash list changes

VARIABLES
    plan,      \* what may happen
    phase,     \* the process
    up,        \* the interfaces that are registered
    path,      \* path_table
    pending,   \* pending_path_entries
    recent,    \* recent_announces
    dirty,     \* state_dirty
    seen,      \* packet_hashlist, as a version
    files,     \* the files of the routing snapshot
    seenFile,  \* packet_hashlist.raw
    cache,     \* cache/announces: each announce's file, and whether it is past the grace
    writer,    \* the queued or running writer of a snapshot
    hasher,    \* the queued writer of the hash list
    sweep,     \* the running sweep of the cache
    sync,      \* the synchronous save that holds up the actor
    crashes,   \* restarts so far
    ghost      \* see NoGhost

memory == <<up, path, pending, recent>>
disk == <<files, seenFile, cache>>
threads == <<writer, hasher, sweep, sync>>
vars == <<plan, phase, memory, dirty, seen, disk, threads, crashes, ghost>>

\* No path.
Nil == [dest |-> "-", iface |-> "-", n |-> 0]

StorageAssumption ==
    /\ Announces \subseteq [dest : Dests, iface : Ifaces, n : Nat] /\ Nil \notin Announces
    /\ Accepted \subseteq Ifaces /\ \A p \in Plans : p.heard \subseteq Announces
    /\ MaxCrashes \in Nat /\ MaxHashes \in Nat

\* The packet_hash of a recent announce is the announce of the last path.
Unknown == [known |-> FALSE, retained |-> FALSE, last |-> Nil]
Known(x, retained) == [known |-> TRUE, retained |-> retained, last |-> x]

\* The files of write_routing_snapshot, in the order in which they are written.
Files == <<"path_table", "destination_table", "announce_cache">>

NoSnapshot == [paths |-> {}, recent |-> [d \in Dests |-> Unknown]]
NoWriter == [state |-> "none", snap |-> NoSnapshot, done |-> 0, latest |-> TRUE]
NoHasher == [state |-> "none", version |-> 0]
NoSweep == [state |-> "none", victims |-> {}]
NoSync == [state |-> "none", snap |-> NoSnapshot, done |-> 0, for |-> "-"]

\* learnt: paths heard by this process.  dropped: paths cleared by a query and not
\* learnt again.  excused: paths that were taken up without a file of their own.
NoGhost == [learnt |-> {}, dropped |-> {}, excused |-> {}]

\* The actor handles nothing else during a synchronous save.
Idle == phase = "up" /\ sync.state = "none"
May(what) == what \in plan.kinds

Absent == {x \in Announces : cache[x] = "absent"}
Held == {x \in Announces : path[x.dest] = x}

-----------------------------------------------------------------------------

(* Writers *)

\* routing_snapshot: paths of interfaces that are registered and were not accepted.
Snapshot == [paths |-> {x \in Held : x.iface \in up \ Accepted}, recent |-> recent]

\* File number i of a snapshot.
Write(snap, i) ==
    LET file == Files[i]
    IN files' = [files EXCEPT ![file] =
                    IF file = "announce_cache" THEN snap.recent ELSE snap.paths]

\* save_routing_state_async: one writer at a time.
SaveRouting ==
    IF writer.state # "none" THEN UNCHANGED <<writer, dirty>>
    ELSE /\ writer' = [NoWriter EXCEPT !.state = "queued", !.snap = Snapshot]
         /\ dirty' = FALSE

\* The writer holds the lock while it writes, and skips a snapshot that is no
\* longer the latest.
\* Mutant: the generation is not compared.
StartAlways ==
    /\ writer.state = "queued" /\ sync.state # "writing"
    /\ writer' = [writer EXCEPT !.state = "writing"]
    /\ UNCHANGED <<plan, phase, memory, dirty, seen, disk, hasher, sweep, sync, crashes, ghost>>
\* Mutant: a skipped snapshot leaves the flag set.
StartOrStay ==
    /\ writer.state = "queued" /\ sync.state # "writing" /\ writer.latest
    /\ writer' = [writer EXCEPT !.state = "writing"]
    /\ UNCHANGED <<plan, phase, memory, dirty, seen, disk, hasher, sweep, sync, crashes, ghost>>
Start ==
    /\ writer.state = "queued" /\ sync.state # "writing"
    /\ writer' = IF writer.latest THEN [writer EXCEPT !.state = "writing"] ELSE NoWriter
    /\ UNCHANGED <<plan, phase, memory, dirty, seen, disk, hasher, sweep, sync, crashes, ghost>>
WriteNext ==
    /\ writer.state = "writing"
    /\ Write(writer.snap, writer.done + 1)
    /\ writer' = IF writer.done + 1 = Len(Files) THEN NoWriter
                 ELSE [writer EXCEPT !.done = @ + 1]
    /\ UNCHANGED <<plan, phase, memory, dirty, seen, seenFile, cache, hasher, sweep, sync, crashes,
                   ghost>>

\* The thread that save_state_async starts for the hash list.
WriteHashes ==
    /\ hasher.state = "queued"
    /\ seenFile' = hasher.version /\ hasher' = NoHasher
    /\ UNCHANGED <<plan, phase, memory, dirty, seen, files, cache, writer, sweep, sync, crashes, ghost>>

\* save_routing_state, for a query or on shutdown: it makes what is queued out of
\* date, and waits for what is being written.
SaveNow(snap, for) ==
    /\ sync' = [state |-> "waiting", snap |-> snap, done |-> 0, for |-> for]
    /\ writer' = [writer EXCEPT !.latest = writer.state = "none"]
    /\ dirty' = FALSE
SyncLock ==
    /\ sync.state = "waiting" /\ writer.state # "writing"
    /\ sync' = [sync EXCEPT !.state = "writing"]
    /\ UNCHANGED <<plan, phase, memory, dirty, seen, disk, writer, hasher, sweep, crashes, ghost>>
SyncWrite ==
    /\ sync.state = "writing"
    /\ Write(sync.snap, sync.done + 1)
    /\ sync' = [sync EXCEPT !.done = @ + 1,
                            !.state = IF sync.done + 1 = Len(Files) THEN "written" ELSE @]
    /\ UNCHANGED <<plan, phase, memory, dirty, seen, seenFile, cache, writer, hasher, sweep,
                   crashes, ghost>>
\* The reply to a query.
SyncReply ==
    /\ sync.state = "written" /\ sync.for # "stop"
    /\ sync' = NoSync
    /\ UNCHANGED <<plan, phase, memory, dirty, seen, disk, writer, hasher, sweep, crashes, ghost>>
\* save_state: the hash list is saved after an earlier save of it, or not at all
\* if that takes too long.
Stop ==
    /\ sync.state = "written" /\ sync.for = "stop"
    /\ \/ hasher.state = "none" /\ seenFile' = seen /\ sync' = [NoSync EXCEPT !.for = "saved"]
       \/ hasher.state # "none" /\ UNCHANGED seenFile /\ sync' = [NoSync EXCEPT !.for = "late"]
    /\ phase' = "stopped"
    /\ UNCHANGED <<plan, memory, dirty, seen, files, cache, writer, hasher, sweep, crashes, ghost>>

-----------------------------------------------------------------------------

(* The actor *)

\* process_announce, once it takes the path.  The file is written unless there
\* is one; a pin survives.
Learn(x) ==
    /\ Idle /\ x \in plan.heard /\ x.iface \in up
    /\ path[x.dest] = Nil \/ path[x.dest].n < x.n
    /\ path' = [path EXCEPT ![x.dest] = x]
    /\ recent' = [recent EXCEPT ![x.dest] = Known(x, recent[x.dest].retained)]
    /\ cache' = IF cache[x] = "absent" THEN [cache EXCEPT ![x] = "fresh"] ELSE cache
    /\ dirty' = TRUE
    /\ ghost' = [ghost EXCEPT !.learnt = @ \cup {x}, !.dropped = @ \ {x},
                              !.excused = IF x \in sweep.victims THEN @ \cup {x} ELSE @ \ {x}]
    /\ UNCHANGED <<plan, phase, up, pending, seen, files, seenFile, threads, crashes>>

\* RegisterInterface with drain_pending_for_interface, which is not called for an
\* accepted client, and deregister_interface.
Register(iface) ==
    LET mine == {x \in pending : x.iface = iface /\ iface \notin Accepted}
        taken == {x \in mine : path[x.dest] = Nil}
    IN /\ Idle /\ iface \notin up
       /\ up' = up \cup {iface}
       /\ path' = [d \in Dests |-> IF \E x \in taken : x.dest = d
                                   THEN CHOOSE x \in taken : x.dest = d ELSE path[d]]
       /\ pending' = pending \ mine
       /\ UNCHANGED <<plan, phase, recent, dirty, seen, disk, threads, crashes, ghost>>
Deregister(iface) ==
    /\ Idle /\ May("interfaces") /\ iface \in up
    /\ up' = up \ {iface}
    /\ path' = [d \in Dests |-> IF path[d].iface = iface THEN Nil ELSE path[d]]
    /\ UNCHANGED <<plan, phase, pending, recent, dirty, seen, disk, threads, crashes, ghost>>

\* The tick: expired paths go, and the state counts as changed.
Cull(gone) ==
    /\ Idle
    /\ path' = [d \in Dests |-> IF path[d] \in gone THEN Nil ELSE path[d]]
    /\ pending' = pending \ gone
    /\ dirty' = TRUE
    /\ UNCHANGED <<plan, phase, up, recent, seen, disk, threads, crashes, ghost>>

\* cleanup_known_destinations
Clean(d) ==
    /\ Idle /\ May("clean") /\ recent[d].known /\ ~recent[d].retained /\ path[d] = Nil
    /\ recent' = [recent EXCEPT ![d] = Unknown]
    /\ UNCHANGED <<plan, phase, up, path, pending, dirty, seen, disk, threads, crashes, ghost>>

\* RetainDestination and UnretainDestination
Retain(d) ==
    /\ Idle /\ May("retain") /\ recent[d].known
    /\ recent' = [recent EXCEPT ![d].retained = ~@]
    /\ dirty' = TRUE
    /\ ghost' = [ghost EXCEPT !.excused = @ \cup ({recent[d].last} \cap (sweep.victims \cup Absent))]
    /\ UNCHANGED <<plan, phase, up, path, pending, seen, disk, threads, crashes>>

\* DropPathTable and DropRecentAnnounces
DropPathTable ==
    /\ Idle /\ May("drop")
    /\ path' = [d \in Dests |-> Nil] /\ pending' = {}
    /\ SaveNow([paths |-> {}, recent |-> recent], "drop")
    /\ ghost' = [ghost EXCEPT !.dropped = Announces, !.learnt = {}]
    /\ UNCHANGED <<plan, phase, up, recent, seen, disk, hasher, sweep, crashes>>
DropRecentAnnounces ==
    /\ Idle /\ May("forget")
    /\ recent' = [d \in Dests |-> Unknown]
    /\ SaveNow([paths |-> Snapshot.paths, recent |-> recent'], "forget")
    /\ UNCHANGED <<plan, phase, up, path, pending, seen, disk, hasher, sweep, crashes, ghost>>

\* The periodic save of a changed state, and save_state_async, on request or when
\* the application goes to the background.
SaveTick ==
    /\ Idle /\ dirty /\ SaveRouting
    /\ UNCHANGED <<plan, phase, memory, seen, disk, hasher, sweep, sync, crashes, ghost>>
SaveState ==
    /\ Idle /\ May("persist")
    /\ SaveRouting
    /\ hasher' = IF hasher.state = "none" THEN [state |-> "queued", version |-> seen] ELSE hasher
    /\ UNCHANGED <<plan, phase, memory, seen, disk, sweep, sync, crashes, ghost>>
Shutdown ==
    /\ Idle /\ May("stop") /\ crashes < MaxCrashes
    /\ SaveNow(Snapshot, "stop")
    /\ UNCHANGED <<plan, phase, memory, seen, disk, hasher, sweep, crashes, ghost>>

HashesGrow ==
    /\ Idle /\ May("persist") /\ seen < MaxHashes
    /\ seen' = seen + 1
    /\ UNCHANGED <<plan, phase, memory, dirty, disk, threads, crashes, ghost>>

-----------------------------------------------------------------------------

(* The announce cache *)

\* maybe_sweep_announce_cache: what a path response could be served from is kept.
Keep == Held \cup pending \cup {recent[d].last : d \in {e \in Dests : recent[e].retained}}
StartSweep ==
    /\ Idle /\ May("sweep") /\ sweep.state = "none"
    /\ sweep' = [state |-> "running",
                 victims |-> {x \in Announces : cache[x] = "old"} \ Keep]
    /\ UNCHANGED <<plan, phase, memory, dirty, seen, disk, writer, hasher, sync, crashes, ghost>>
Unlink(x) ==
    /\ x \in sweep.victims
    /\ sweep' = [sweep EXCEPT !.victims = @ \ {x}]
    /\ cache' = [cache EXCEPT ![x] = "absent"]
    /\ UNCHANGED <<plan, phase, memory, dirty, seen, files, seenFile, writer, hasher, sync,
                   crashes, ghost>>
EndSweep ==
    /\ sweep.state = "running" /\ sweep.victims = {}
    /\ sweep' = NoSweep
    /\ UNCHANGED <<plan, phase, memory, dirty, seen, disk, writer, hasher, sync, crashes, ghost>>

\* A file gets older than ANNOUNCE_CACHE_SWEEP_GRACE_SECS.
Age(x) ==
    /\ May("sweep") /\ cache[x] = "fresh"
    /\ cache' = [cache EXCEPT ![x] = "old"]
    /\ UNCHANGED <<plan, phase, memory, dirty, seen, files, seenFile, threads, crashes, ghost>>

-----------------------------------------------------------------------------

(* The end of the process, and the next one *)

\* The process is killed, or ends after a shutdown; its threads end with it.  A
\* query without a reply has promised nothing.
Dropping == sync.state # "none" /\ sync.for = "drop"
Exit ==
    /\ phase = "stopped" \/ (phase = "up" /\ crashes < MaxCrashes /\ May("crash"))
    /\ phase' = "off" /\ crashes' = crashes + 1
    /\ up' = {} /\ path' = [d \in Dests |-> Nil] /\ pending' = {}
    /\ recent' = [d \in Dests |-> Unknown] /\ seen' = 0 /\ dirty' = FALSE
    /\ writer' = NoWriter /\ hasher' = NoHasher /\ sweep' = NoSweep /\ sync' = NoSync
    /\ ghost' = [ghost EXCEPT !.learnt = {}, !.dropped = IF Dropping THEN {} ELSE @]
    /\ UNCHANGED <<plan, disk>>

\* load_state: entries of destination_table whose announce is cached wait for
\* their interface; path_table.msgpack stands in if there are none.  Some may have
\* expired.
Cached(gone) == {x \in files.destination_table \ gone : cache[x] # "absent"}
Entries(gone) == IF Cached(gone) # {} THEN Cached(gone) ELSE files.path_table \ gone

\* Announces are remembered from the cached files first, then from announce_cache.
Remembered(d, gone) ==
    LET from == {x \in Cached(gone) : x.dest = d}
        noted == files.announce_cache[d]
        stale == ~noted.retained /\ noted.last \in gone
    IN IF from # {} THEN Known(CHOOSE x \in from : TRUE, FALSE)
       ELSE IF stale THEN Unknown ELSE noted

Load(gone) ==
    /\ phase = "off"
    /\ phase' = "up"
    /\ pending' = Entries(gone)
    /\ recent' = [d \in Dests |-> Remembered(d, gone)]
    /\ seen' = seenFile
    /\ ghost' = [ghost EXCEPT !.excused =
                    Absent \cap (pending' \cup {recent'[d].last : d \in Dests})]
    /\ UNCHANGED <<plan, up, path, dirty, disk, threads, crashes>>

-----------------------------------------------------------------------------

Init ==
    /\ plan \in Plans
    /\ phase = "up" /\ up = {} /\ path = [d \in Dests |-> Nil] /\ pending = {}
    /\ recent = [d \in Dests |-> Unknown]
    /\ dirty = FALSE /\ seen = 0 /\ seenFile = 0
    /\ files = [path_table |-> {}, destination_table |-> {},
                announce_cache |-> [d \in Dests |-> Unknown]]
    /\ cache = [x \in Announces |-> "absent"]
    /\ writer = NoWriter /\ hasher = NoHasher /\ sweep = NoSweep /\ sync = NoSync
    /\ crashes = 0 /\ ghost = NoGhost

Writers == Start \/ WriteNext \/ SyncLock \/ SyncWrite \/ SyncReply \/ Stop

Next ==
    \/ Writers \/ WriteHashes
    \/ \E x \in Announces : Learn(x) \/ Unlink(x) \/ Age(x)
    \/ \E iface \in Ifaces : Register(iface) \/ Deregister(iface)
    \/ \E gone \in SUBSET (Held \cup pending) : Cull(gone)
    \/ \E d \in Dests : Clean(d) \/ Retain(d)
    \/ DropPathTable \/ DropRecentAnnounces
    \/ SaveTick \/ SaveState \/ Shutdown \/ HashesGrow
    \/ StartSweep \/ EndSweep
    \/ Exit \/ \E gone \in SUBSET plan.heard : Load(gone)

Spec == Init /\ [][Next]_vars

\* The blocking pool runs what it is given, and the tick saves a changed state.
FairSpec == Spec /\ WF_vars(Writers) /\ WF_vars(SaveTick)

-----------------------------------------------------------------------------

RecentTable == [Dests -> [known : BOOLEAN, retained : BOOLEAN, last : Announces \cup {Nil}]]
Snapshots == [paths : SUBSET Announces, recent : RecentTable]
FileTable == [path_table : SUBSET Announces, destination_table : SUBSET Announces,
              announce_cache : RecentTable]
WriterStates == [state : {"none", "queued", "writing"}, snap : Snapshots, done : 0..2,
                 latest : BOOLEAN]
HasherStates == [state : {"none", "queued"}, version : 0..MaxHashes]
SweepStates == [state : {"none", "running"}, victims : SUBSET Announces]
SyncStates == [state : {"none", "waiting", "writing", "written"}, snap : Snapshots, done : 0..3,
               for : {"-", "drop", "forget", "stop", "saved", "late"}]
GhostStates == [learnt : SUBSET Announces, dropped : SUBSET Announces, excused : SUBSET Announces]

\* The type invariant.
TypeOK ==
    /\ plan \in Plans /\ phase \in {"up", "stopped", "off"}
    /\ up \subseteq Ifaces /\ path \in [Dests -> Announces \cup {Nil}]
    /\ pending \subseteq Announces /\ recent \in RecentTable
    /\ dirty \in BOOLEAN /\ seen \in 0..MaxHashes /\ seenFile \in 0..MaxHashes
    /\ files \in FileTable /\ cache \in [Announces -> {"absent", "fresh", "old"}]
    /\ writer \in WriterStates /\ hasher \in HasherStates /\ sweep \in SweepStates
    /\ sync \in SyncStates /\ crashes \in Nat /\ ghost \in GhostStates

\* A save that a caller has waited for is not undone by one that was started
\* earlier: after DropPathTable has replied, no file holds a path that was
\* dropped and not learnt again, and after a shutdown the files hold the last
\* state (routing_save_generation, wait_for_hashlist_save).
NewestWins ==
    /\ sync.state = "none" =>
          ghost.dropped \cap (files.path_table \cup files.destination_table) = {}
    /\ phase = "stopped" =>
          /\ files.path_table = Snapshot.paths /\ files.destination_table = Snapshot.paths
          /\ files.announce_cache = recent
          /\ sync.for = "saved" => seenFile = seen

\* The sweep never takes the file of an announce that a path response could be
\* served from, live, waiting for its interface or retained, unless it was taken
\* up again while the sweep was already after its file (maybe_sweep_announce_cache).
ServedFromDisk ==
    TypeOK /\ \A x \in Keep \ {Nil} : cache[x] # "absent" \/ x \in ghost.excused

\* A path of an accepted client is one that this process heard from it: none waits
\* for the client that has the name after a restart (interface_names of
\* routing_snapshot, accepted_child).
ClientsForgotten ==
    \A x \in Announces :
        x.iface \in Accepted => x \notin pending /\ (path[x.dest] = x => x \in ghost.learnt)

\* A path that is learnt on an interface that was not accepted, and stays, gets to
\* disk (state_dirty, routing_save_in_flight), unless the process ends before.
Unsaved(x) ==
    /\ x.iface \notin Accepted
    /\ x \in ghost.learnt /\ path[x.dest] = x /\ x \notin files.destination_table
LearntIsSaved == \A x \in Announces : []<>(~Unsaved(x))

\* What the files hold can be relied on after a restart.
FilesSound == NewestWins /\ ServedFromDisk /\ ClientsForgotten

=============================================================================
