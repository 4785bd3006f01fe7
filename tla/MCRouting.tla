----------------------------- MODULE MCRouting ------------------------------
(***************************************************************************)
(* How packets find their way, side by side: the announces and requests    *)
(* that build the path tables, and the relaying of packets and Links along *)
(* them.  A behaviour is about one of them.                                *)
(***************************************************************************)
EXTENDS Paths, TLC

VARIABLES
    part,  \* which of them the behaviour is about
    \* Transit
    network, routes, current, previous, links, reverse, retired, session, bound, receipt, due,
    said, ether, upset, handed, relayed, again, forgotten

transitVars == <<network, routes, current, previous, links, reverse, retired, session, bound,
                 receipt, due, said, ether, upset, handed, relayed, again, forgotten>>
all == <<vars, part, transitVars>>

-----------------------------------------------------------------------------
(* Paths: networks of three and four nodes. *)

Triangle == {<<"o", "a">>, <<"o", "b">>, <<"a", "b">>}
Line == {<<"o", "a">>, <<"a", "b">>}
Star == {<<"o", "a">>, <<"a", "b">>, <<"a", "c">>}
Kite == {<<"o", "a">>, <<"a", "b">>, <<"b", "c">>, <<"a", "c">>}

\* Nothing is lost and nothing fails: a flood.
Calm ==
    [links |-> Kite, lossy |-> FALSE, limited |-> FALSE, elapsed |-> {0, 1},
     askers |-> {}, frail |-> {}, announces |-> 1, requests |-> 0, faults |-> 0,
     retries |-> 1]

\* Two floods at once, in the same second or not.
Twice == [Calm EXCEPT !.links = Triangle, !.announces = 2]

\* The same, with a fault at one of the owner's neighbours.
Shaken == [Twice EXCEPT !.elapsed = {1}, !.frail = {"a"}, !.faults = 1, !.retries = 0]

\* A node that may lose its route asks for it, and its neighbour may answer.
Asking == [Shaken EXCEPT !.links = Line, !.askers = {"a"}, !.requests = 1]

\* Packets are lost and rates are limited, and routes fail twice.
Rough ==
    [Asking EXCEPT !.lossy = TRUE, !.limited = TRUE, !.announces = 1, !.faults = 2, !.retries = 1]

\* A path that nobody has is discovered.
Undiscovered ==
    [Calm EXCEPT !.links = Star, !.elapsed = {1}, !.announces = 0, !.askers = {"b", "c"},
                 !.requests = 2]

NetworksConsidered == {Calm, Twice, Shaken, Asking, Rough, Undiscovered}

-----------------------------------------------------------------------------
(* Transit: one radio with relays that hear each other, a radio for every  *)
(* hop, and paths that form a loop.                                        *)

Both(pairs, radio) ==
    {<<p[1], p[2], radio>> : p \in pairs} \cup {<<p[2], p[1], radio>> : p \in pairs}
Via(radio, next, hops) == [state |-> "live", radio |-> radio, next |-> next, hops |-> hops]
NoRoute == [state |-> "none", radio |-> "r", next |-> "d", hops |-> 0]

\* a - x - y - d on one radio, on which neighbours hear each other.
Chain ==
    [reach |-> Both({<<"a", "x">>, <<"x", "y">>, <<"y", "d">>}, "r"),
     path |-> ("a" :> Via("r", "x", 3)) @@ ("x" :> Via("r", "y", 2))
              @@ ("y" :> Via("r", "d", 1)) @@ ("d" :> NoRoute),
     later |-> {}, data |-> TRUE, talk |-> {}, kinds |-> {}, faults |-> 0]

\* The same with a relay that hears the destination as well.
Near == [Chain EXCEPT !.reach = @ \cup Both({<<"x", "d">>}, "r")]

\* A radio for the first hop, and another for the rest, on which x hears d.
TwoRadios ==
    [Near EXCEPT !.reach = Both({<<"a", "x">>}, "r")
                           \cup Both({<<"x", "y">>, <<"y", "d">>, <<"x", "d">>}, "s"),
                 !.path["x"] = Via("s", "y", 2), !.path["y"] = Via("s", "d", 1)]

\* A radio for every hop.
Hops ==
    [Chain EXCEPT !.reach = Both({<<"a", "x">>}, "r") \cup Both({<<"x", "y">>}, "s")
                            \cup Both({<<"y", "d">>}, "t"),
                  !.path["x"] = Via("s", "y", 2), !.path["y"] = Via("t", "d", 1)]

\* A Link over them, and what its ends say.
Talking(n, talk) == [n EXCEPT !.data = FALSE, !.talk = talk]
Failing(n, kinds, upsets) == [n EXCEPT !.kinds = kinds, !.faults = upsets]

\* y learns a path back through x, and x one to the destination itself.
Changing(n, radio) ==
    [n EXCEPT !.later = {<<"y", Via(radio, "x", 3)>>, <<"x", Via(n.path["x"].radio, "d", 1)>>}]

Say(from, context) == [from |-> from, context |-> context]
Answered == {Say("a", "none"), Say("d", "none")}

T == INSTANCE Transit WITH
    Nodes <- {"a", "x", "y", "d"}, Initiator <- "a", Responder <- "d", Radios <- {"r", "s", "t"},
    PATHFINDER_M <- 6, HASHLIST_HALF <- 3, net <- network, air <- ether, path <- routes,
    Networks <-
        {Near, Talking(TwoRadios, Answered), Talking(Chain, {Say("a", "channel")}),
         Talking(Chain, Answered),
         Failing(Hops, {"loss", "cull", "rotate", "retire", "full"}, 2),
         Failing(Talking(Hops, {Say("a", "none")}),
                 {"loss", "cull", "rotate", "retire", "full", "timeout"}, 2),
         Failing(Changing(Hops, "s"), {"reroute", "rotate", "churn"}, 2),
         Failing(Changing(Talking(Hops, Answered), "s"), {"reroute", "cull"}, 2)}

-----------------------------------------------------------------------------
ASSUME PathsAssumption /\ T!TransitAssumption

Resting == Init /\ net = Calm    \* a network in which nothing is announced

transitIdle == network = "idle" /\ routes = "idle" /\ current = "idle" /\ previous = "idle" /\
               links = "idle" /\ reverse = "idle" /\ retired = "idle" /\ session = "idle" /\
               bound = "idle" /\ receipt = "idle" /\ due = "idle" /\ said = "idle" /\
               ether = "idle" /\ upset = "idle" /\ handed = "idle" /\ relayed = "idle" /\
               again = "idle" /\ forgotten = "idle"

MCInit ==
    \/ part = "paths" /\ Init /\ transitIdle
    \/ part = "transit" /\ T!Init /\ Resting

MCNext ==
    \/ part = "paths" /\ Next /\ UNCHANGED <<part, transitVars>>
    \/ part = "transit" /\ T!Next /\ UNCHANGED <<part, vars>>

MCSpec == MCInit /\ [][MCNext]_all

\* A proof finds its way back while the relays remember the packet, a Link that
\* is established carries packets both ways, and no packet is handed over or
\* sent on twice while its hash is remembered.
RelaysSound == part = "transit" => T!RelaysSound
=============================================================================
