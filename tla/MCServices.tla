----------------------------- MODULE MCServices -----------------------------
(***************************************************************************)
(* What the transport actor does for others, side by side: the files it    *)
(* keeps its paths and announces in, the searches for paths, and the       *)
(* announces it publishes and relays.  A behaviour is about one of them.   *)
(***************************************************************************)
EXTENDS Storage, TLC

VARIABLES
    part,  \* which of them the behaviour is about
    \* Discovery
    tokens, learned,
    \* Announces
    heard,
    \* Discovery and Announces
    scenario, node, due, requests, faults

discoveryVars == <<tokens, learned>>
announcesVars == <<heard>>
sharedVars == <<scenario, node, due, requests, faults>>
all == <<vars, part, discoveryVars, announcesVars, sharedVars>>

-----------------------------------------------------------------------------
(* Storage: one restart, by a crash or an orderly stop. *)

Say(d, i, n) == [dest |-> d, iface |-> i, n |-> n]

Spoken == {Say("p", "A", 1), Say("p", "A", 2), Say("q", "B", 1)}

Events ==
    {[heard |-> {Say("p", "A", 1), Say("q", "B", 1)}, kinds |-> {"crash"}],
     [heard |-> {Say("p", "A", 1)}, kinds |-> {"crash", "sweep", "interfaces"}],
     [heard |-> {Say("p", "A", 1), Say("p", "A", 2)}, kinds |-> {"drop", "stop", "crash"}],
     [heard |-> {Say("p", "A", 1)}, kinds |-> {"persist", "stop"}],
     [heard |-> {Say("p", "A", 1)}, kinds |-> {"crash", "sweep", "retain", "clean"}],
     [heard |-> {Say("p", "A", 1)}, kinds |-> {"retain", "forget"}]}

-----------------------------------------------------------------------------
(* Discovery, on a node with two interfaces. *)

Quiet ==
    [does |-> {}, requests |-> 3, announces |-> 1, search |-> 2, roaming |-> {},
     kinds |-> {}, faults |-> 0]

\* Searches for several requesters, with drivers that are full and replaced.
Searching ==
    [Quiet EXCEPT !.does = {"inbound"}, !.requests = 2,
                  !.kinds = {"congest", "register", "deregister"}, !.faults = 2]

\* Searches that outlast the gate, are refused, joined and cancelled.
Lasting ==
    [Quiet EXCEPT !.does = {"api"}, !.search = 4, !.roaming = {1},
                  !.kinds = {"congest", "offline", "close"}, !.faults = 1]

\* Searches of a node whose transport is switched off, or its table dropped.
Unrouted ==
    [Quiet EXCEPT !.does = {"inbound", "toggle", "drop"}, !.requests = 2,
                  !.kinds = {"congest", "limit", "toggle", "drop"}, !.faults = 2]

\* Requests of the node itself, and callers that wait.
Asking ==
    [Quiet EXCEPT !.does = {"await", "auto", "explicit"}, !.requests = 2,
                  !.kinds = {"congest", "close", "giveup"}, !.faults = 1]

\* Attempts that fail, and Links that expire.
Failing ==
    [Quiet EXCEPT !.does = {"dispatch", "recover"}, !.announces = 2,
                  !.kinds = {"expire", "forget"}, !.faults = 1]

\* Links that expire, on a transport node and on another.
Expiring ==
    [Quiet EXCEPT !.does = {"recover", "expired", "toggle"}, !.requests = 2,
                  !.kinds = {"toggle", "congest"}, !.faults = 1]

D == INSTANCE Discovery WITH
    Ifs <- {1, 2}, Waiters <- {"w"}, plan <- scenario, Attempts <- {"a", "b"}, Tags <- {"s", "t"},
    Plans <- {Searching, Lasting, Unrouted, Asking, Failing, Expiring},
    PATH_REQUEST_GATE_TIMEOUT <- 3, PATH_REQUEST_MI <- 2, PATH_WAITER_TIMEOUT <- 2,
    DISCOVERY_PR_TX_THROTTLE <- 1, MAX_PENDING_ADMISSIONS <- 1, MAX_ADMISSION_POLL <- 1,
    MAX_QUEUED_DISCOVERY_PRS <- 1, MAX_DISCOVERY_REQUESTERS <- 2, MAX_LOCAL_LINK_ROUTES <- 1

-----------------------------------------------------------------------------
(* Announces: two interfaces, the first with a background lane, and one or *)
(* two other destinations.                                                 *)

Base ==
    [lanes |-> {1}, clients |-> {}, outer |-> {}, mode |-> (1 :> "full") @@ (2 :> "full"),
     hops |-> ("d" :> 1) @@ ("e" :> 2), packet |-> ("r" :> 1) @@ ("s" :> 1), attached |-> FALSE,
     dests |-> {"d"}, announces |-> 0, requests |-> 0, does |-> {}, kinds |-> {}, faults |-> 0]

\* Local announces that drivers refuse, with and without one interface named.
Publishing ==
    [Base EXCEPT !.requests = 3, !.does = {"dispatch", "publish", "giveup", "register"},
                 !.kinds = {"full", "offline", "replace"}, !.faults = 1]
Attached ==
    [Publishing EXCEPT !.attached = TRUE, !.requests = 2, !.faults = 2, !.clients = {2},
                       !.packet["s"] = 2, !.kinds = {"full", "offline", "close", "remove"}]

\* Announces that are relayed.
Relaying ==
    [Base EXCEPT !.announces = 2, !.dests = {"d", "e"}, !.requests = 1, !.does = {"toggle", "drop"},
                 !.kinds = {"full", "reconnect", "race", "expire"}, !.faults = 1]
Replacing ==
    [Base EXCEPT !.announces = 2, !.kinds = {"replace", "remove", "close", "full", "race"},
                 !.faults = 2, !.mode[2] = "roaming"]

\* Path requests that are answered, and searches that end.
Responding ==
    [Base EXCEPT !.lanes = {}, !.mode[1] = "internal", !.outer = {2}, !.announces = 2,
                 !.requests = 2, !.does = {"respond", "search"},
                 !.kinds = {"full", "offline", "remove", "expire"}, !.faults = 1]

A == INSTANCE Announces WITH
    Ifs <- {1, 2}, Remotes <- {"d", "e"}, Requests <- {"r", "s"}, plan <- scenario,
    Plans <- {Publishing, Attached, Relaying, Replacing, Responding},
    MAX_PENDING <- 2, MAX_POLL <- 1, MAX_QUEUED_ANNOUNCES <- 1, PATHFINDER_R <- 1,
    LIFETIME <- 2, GATE <- 2, LIFE <- 3, SPACING <- 2

-----------------------------------------------------------------------------
ASSUME StorageAssumption /\ D!DiscoveryAssumption /\ A!AnnouncesAssumption

\* A process that hears nothing.
Resting == Init /\ plan.kinds = {"retain", "forget"}

discoveryIdle == tokens = "idle" /\ learned = "idle"
announcesIdle == heard = "idle"
sharedIdle == scenario = "idle" /\ node = "idle" /\ due = "idle" /\ requests = "idle" /\
              faults = "idle"

MCInit ==
    \/ part = "storage" /\ Init /\ discoveryIdle /\ announcesIdle /\ sharedIdle
    \/ part = "discovery" /\ D!Init /\ Resting /\ announcesIdle
    \/ part = "announces" /\ A!Init /\ Resting /\ discoveryIdle

MCNext ==
    \/ part = "storage" /\ Next /\ UNCHANGED <<part, discoveryVars, announcesVars, sharedVars>>
    \/ part = "discovery" /\ D!Next /\ UNCHANGED <<part, vars, announcesVars>>
    \/ part = "announces" /\ A!Next /\ UNCHANGED <<part, vars, discoveryVars>>

MCSpec == MCInit /\ [][MCNext]_all

\* Every search has an owner, every request that waits for an interface belongs
\* to a search or an attempt that still wants it, whoever asked is answered or
\* still asking, and nobody waits for a path that is known.
SearchesSound == part = "discovery" => D!SearchesSound

\* Whoever publishes an announce gets one answer that is true of the interfaces,
\* and what is relayed keeps to the cap of every interface.
AnnouncesSound == part = "announces" => A!AnnouncesSound
=============================================================================
