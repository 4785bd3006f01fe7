----------------------------- MODULE MCSessions -----------------------------
(***************************************************************************)
(* What a session rests on, side by side: a Channel with a window of two,  *)
(* the endpoints of Links in the transport actor, the requests and         *)
(* Resources of a session, and the framing of the interfaces below.  A     *)
(* behaviour is about one of them.                                         *)
(***************************************************************************)
EXTENDS Channel, LinkSession, TLC

CONSTANTS known, unknown    \* message types, registered or not

VARIABLES
    part,  \* which of them the behaviour is about
    \* LinkEndpoint
    setting, running, interfaces, owners, closed_peers, local_link_routes, destinations,
    link_endpoints, generations, lane, answers, ops, accepted, dropped, events,
    \* Framing
    load, ends, first, at, lost, d, reassembly, passed_up,
    \* LinkEndpoint and Framing
    wire

endpointVars == <<setting, running, interfaces, owners, closed_peers, local_link_routes,
                  destinations, link_endpoints, generations, lane, answers, ops, accepted,
                  dropped, events>>
framingVars == <<load, ends, first, at, lost, d, reassembly, passed_up>>
sharedVars == <<wire>>
all == <<vars, sessionVars, part, endpointVars, framingVars, sharedVars>>

-----------------------------------------------------------------------------
(* Endpoints. *)

Ends == [keys |-> {"k", "m"}, link |-> [k \in {"k", "m"} |-> k], local |-> {}, capacity |-> 1,
         generations |-> 2, packets |-> 1, operations |-> 0, receipts |-> 0, owners |-> 1]

Endpoints ==
    {\* one endpoint with a queue of two, and packets of every kind;
     [Ends EXCEPT !.keys = {"k"}, !.link = [k \in {"k"} |-> k], !.capacity = 2, !.generations = 1,
                  !.packets = 3, !.operations = 2, !.receipts = 1, !.owners = 0],
     \* two bindings of one key, the first or the second with a token;
     [Ends EXCEPT !.keys = {"k"}, !.link = [k \in {"k"} |-> k], !.capacity = 2,
                  !.operations = 1, !.receipts = 1, !.owners = 0],
     \* two endpoints on an interface that fails, retires or is replaced;
     Ends,
     \* the two ends of an in-process Link.
     [Ends EXCEPT !.link = [k \in {"k", "m"} |-> "k"], !.local = {"k"}, !.packets = 2, !.owners = 0]}

E == INSTANCE LinkEndpoint WITH
    Interfaces <- {"if0"}, Local <- "local", DISPATCH_QUEUE_CAPACITY <- 2, Instances <- Endpoints,
    instance <- setting, receipts <- answers

-----------------------------------------------------------------------------
(* Sessions. *)

\* A request that fits a packet, one that does not, and two Resources.
Sender ==
    [requests |-> {"ping", "fetch"}, big |-> {"fetch"}, sends |-> {"file", "image"}, offers |-> {},
     segments |-> ("ping" :> 1) @@ ("fetch" :> 2) @@ ("file" :> 1) @@ ("image" :> 1),
     pending_requests |-> 2, queued_resources |-> 1, resource_offers |-> 1, accepts |-> 1]

\* The answer to a request, and a split Resource.
Receiver ==
    [requests |-> {"ping"}, big |-> {}, sends |-> {}, offers |-> {"offer"},
     segments |-> ("ping" :> 2) @@ ("offer" :> 2),
     pending_requests |-> 1, queued_resources |-> 1, resource_offers |-> 1, accepts |-> 2]

\* One request at a time.
Full ==
    [requests |-> {"ping", "fetch"}, big |-> {"fetch"}, sends |-> {}, offers |-> {},
     segments |-> ("ping" :> 1) @@ ("fetch" :> 1),
     pending_requests |-> 1, queued_resources |-> 0, resource_offers |-> 0, accepts |-> 2]

SessionsConsidered == {Sender, Receiver, Full}

-----------------------------------------------------------------------------
(* Framing: every combination of two packets of the bytes that the codec   *)
(* treats specially, then one that may be over the limit; fragments of     *)
(* packets that need one to three of them.                                 *)

Words(bytes, n) == UNION {[1..k -> bytes] : k \in 1..n}
Streams(codec, bytes, long) ==
    {[codec |-> codec, packets |-> <<p, q, long>>] : p \in Words(bytes, 2), q \in Words(bytes, 2)}

\* The first byte of a packet may look like the tag of a fragment.
Sized(tag, n) == [k \in 1..n |-> IF k = 1 THEN tag ELSE k]

Loads ==
    Streams("hdlc", {126, 125, 93, 7}, <<126, 125, 7>>)
    \cup Streams("kiss", {192, 219, 221, 0}, <<192, 219, 7>>)
    \cup {[codec |-> "ble", packets |-> <<Sized(a, l), Sized(b, m), Sized(c, n)>>] :
             a \in {0, 1, 3}, b \in {0, 2}, c \in {1}, l \in {2, 5, 8}, m \in {1, 5, 6, 8}, n \in {2, 8}}

F == INSTANCE Framing WITH MAX_FRAME_SIZE <- 4, MAX_FRAGMENTS <- 3, Mtu <- 8, MostBytes <- 4,
    up <- passed_up

-----------------------------------------------------------------------------
ASSUME E!EndpointAssumption /\ SessionAssumption /\ F!FramingAssumption

channelResting == Init /\ window = NewWindow("slow")    \* a Channel nobody uses
sessionResting == SessionInit /\ instance = Full        \* a session nobody uses

endpointIdle == setting = "idle" /\ running = "idle" /\ interfaces = "idle" /\ owners = "idle" /\
                closed_peers = "idle" /\ local_link_routes = "idle" /\ destinations = "idle" /\
                link_endpoints = "idle" /\ generations = "idle" /\ lane = "idle" /\
                answers = "idle" /\ ops = "idle" /\ accepted = "idle" /\ dropped = "idle" /\
                events = "idle"
framingIdle == load = "idle" /\ ends = "idle" /\ first = "idle" /\ at = "idle" /\
               lost = "idle" /\ d = "idle" /\ reassembly = "idle" /\ passed_up = "idle"
sharedIdle == wire = "idle"

MCInit ==
    \/ part = "channel" /\ Init /\ sessionResting /\ endpointIdle /\ framingIdle /\ sharedIdle
    \/ part = "session" /\ SessionInit /\ channelResting /\ endpointIdle /\ framingIdle /\
         sharedIdle
    \/ part = "endpoint" /\ E!Init /\ channelResting /\ sessionResting /\ framingIdle
    \/ part = "framing" /\ F!Init /\ channelResting /\ sessionResting /\ endpointIdle

MCNext ==
    \/ part = "channel" /\ Next /\ UNCHANGED <<part, sessionVars, endpointVars, framingVars,
         sharedVars>>
    \/ part = "session" /\ SessionNext /\ UNCHANGED <<part, vars, endpointVars, framingVars,
         sharedVars>>
    \/ part = "endpoint" /\ E!Next /\ UNCHANGED <<part, vars, sessionVars, framingVars>>
    \/ part = "framing" /\ F!Next /\ UNCHANGED <<part, vars, sessionVars, endpointVars>>

MCSpec == MCInit /\ [][MCNext]_all

\* The queues and the endpoints of the transport actor are exact: packets go
\* out in the order accepted, none is unaccounted for, every receipt is
\* answered truly, no token acts for a later binding, and the end of a binding
\* is told once.
EndpointsSound == part = "endpoint" => E!EndpointsSound

\* A tick of the actor leaves neither an endpoint whose bind receipt was
\* dropped nor a cancelled or expired operation behind, and nothing follows a
\* final packet.
TicksConclude == [][part = "endpoint" => E!ConcludingStep]_all

\* However a stream is cut into reads, wherever it is joined and wherever a
\* connection ends in it, the packets handed up are the whole packets sent.
FramesExact == part = "framing" => F!FramesExact
=============================================================================
