---------------------------- MODULE MCInterfaces ----------------------------
(***************************************************************************)
(* Interfaces that come and go, side by side: the connections of a TCP     *)
(* client and the tunnel over them, and the registry that starts, stops    *)
(* and drains all interfaces.  A behaviour is about one of them.           *)
(***************************************************************************)
EXTENDS Tunnels, TLC

CONSTANT Cases    \* what a configuration considers

VARIABLES
    part,  \* which of them the behaviour is about
    \* Registry
    scenario, mishaps, admission, permits, records, controls, task, epoch, epochs, job, caller,
    lease, pump, coord, mailbox, table, stopped, registered, retired, replaced

registryVars == <<scenario, mishaps, admission, permits, records, controls, task, epoch, epochs,
                  job, caller, lease, pump, coord, mailbox, table, stopped, registered, retired,
                  replaced>>
all == <<vars, part, registryVars>>

-----------------------------------------------------------------------------
(* Tunnels: up to three connections of one client. *)

Link(most, announces, hops, radio, horizon, kinds, n) ==
    [conns |-> most, announces |-> announces, hops |-> hops, radio |-> radio,
     life |-> 4, radio_life |-> 4, horizon |-> horizon, kinds |-> kinds, faults |-> n]

\* A link that breaks twice.
Flaps == Link(3, 1, 2, 0, 0, {"break"}, 2)
\* A link that breaks while the destination announces itself again.
Anew == Link(2, 2, 2, 0, 0, {"break", "refuse"}, 1)
\* A radio that is farther away, with more announces or more time, and one that is nearer.
Farther == Link(2, 2, 2, 3, 0, {"break"}, 1)
Stays == Link(2, 1, 2, 3, 4, {"break"}, 1)
Nearer == Link(2, 1, 2, 1, 1, {"break"}, 1)
\* A server that roams, so that its paths expire while the tunnel keeps them: with a radio that is
\* farther away, and one that restarts.
Roams == [Link(2, 1, 2, 3, 3, {"break"}, 1) EXCEPT !.life = 2]
Restarts == [Link(2, 1, 2, 0, 2, {"break", "restart"}, 2) EXCEPT !.life = 2]

Reconnections == {Flaps, Anew, Farther, Stays, Nearer, Restarts, Roams}

-----------------------------------------------------------------------------
(* The registry, with two ids. *)

Job(ids, how) == [ids |-> ids, how |-> how]
Plan(js, ts, kinds, n) == [jobs |-> js, tears |-> ts, kinds |-> kinds, faults |-> n]

\* An id that is torn down and used again.
Reused ==
    Plan(("j" :> Job(<<"a">>, "spawn")) @@ ("k" :> Job(<<"a">>, "spawn")),
         "t" :> "a", {"cancel", "end", "stop"}, 1)

\* A batch that shares an id with another registration, and one by itself whose caller
\* may go before or during the drain.
Batch(kinds) ==
    Plan(("j" :> Job(<<"a", "b">>, "spawn")) @@ ("k" :> Job(<<"b">>, "spawn")), "t" :> "a",
         kinds, 1)
Alone == Plan("j" :> Job(<<"a", "b">>, "spawn"), "t" :> "a", {"cancel", "stop"}, 1)

\* Children that a server accepts, and drivers that end.
Children ==
    Plan(("j" :> Job(<<"a">>, "child")) @@ ("k" :> Job(<<"b">>, "child")), "t" :> "a",
         {"end", "refuse", "crash", "stop"}, 2)

\* Another instance's client, and an actor that ends.
Shared ==
    Plan("j" :> Job(<<"a">>, "shared"), ("t" :> "a") @@ ("u" :> "a"), {"attach", "crash", "stop"}, 2)

\* A driver that ends, and the teardown of its interface.
Ended == Plan("j" :> Job(<<"a">>, "spawn"), "t" :> "a", {"end"}, 1)

R == INSTANCE Registry WITH
    Ids <- {"a", "b"}, Jobs <- {"j", "k"}, Tears <- {"t", "u"},
    plan <- scenario, faults <- mishaps, box <- mailbox,
    Plans <- IF "ended" \in Cases THEN {Ended}
             ELSE {Reused, Batch({"cancel"}), Batch({"stop"}), Alone, Children, Shared}

-----------------------------------------------------------------------------
ASSUME TunnelsAssumption /\ R!RegistryAssumption

Resting == Init /\ plan = Flaps    \* a client that does not connect

registryIdle == scenario = "idle" /\ mishaps = "idle" /\ admission = "idle" /\
                permits = "idle" /\ records = "idle" /\ controls = "idle" /\ task = "idle" /\
                epoch = "idle" /\ epochs = "idle" /\ job = "idle" /\ caller = "idle" /\
                lease = "idle" /\ pump = "idle" /\ coord = "idle" /\ mailbox = "idle" /\
                table = "idle" /\ stopped = "idle" /\ registered = "idle" /\ retired = "idle" /\
                replaced = "idle"

MCInit ==
    \/ part = "tunnels" /\ "tunnels" \in Cases /\ Init /\ registryIdle
    \/ part = "registry" /\ Cases \cap {"registry", "ended"} # {} /\ R!Init /\ Resting

MCNext ==
    \/ part = "tunnels" /\ Next /\ UNCHANGED <<part, registryVars>>
    \/ part = "registry" /\ R!Next /\ UNCHANGED <<part, vars>>

MCSpec == MCInit /\ [][MCNext]_all

\* An interface that runs is on record until it is gone, a drain leaves neither
\* task nor table entry behind, and nobody waits for what cannot come.
InterfacesSound == part = "registry" => R!InterfacesSound

\* An id is kept out of use after its interface is gone only if the actor closed before it could be
\* told.
TombstonesMeanClosed == part = "registry" => R!TombstonesMeanClosed
=============================================================================
