----------------------------- MODULE Discovery ------------------------------
(***************************************************************************)
(* How one transport node looks for the path to one destination:           *)
(* actor/path_request_admission.rs, actor/recursive_discovery.rs and       *)
(* actor/path_recovery.rs of rns-transport, with the path requests of      *)
(* actor/outbound.rs and actor/maintenance.rs and the waiters of AwaitPath.*)
(*                                                                         *)
(* The actor's tables are the fields of node; a handler is one step, and   *)
(* the calls it makes are operators from a node to a node.  An interface   *)
(* is known by its generation, the channel it was registered with.  Time   *)
(* is counted in units of the throttle: a deadline is the number of units  *)
(* left, and the maintenance tick follows every unit.                      *)
(***************************************************************************)
EXTENDS Integers, Sequences, SequencesExt, FiniteSets

CONSTANTS
    Ifs,                     \* interface ids; all are outbound and search for unknown paths
    Waiters,                 \* callers of AwaitPath
    Attempts,                \* ids of local Links and tracked packets
    Tags,                    \* tags of path requests that come in
    Plans,                   \* what is considered
    PATH_REQUEST_GATE_TIMEOUT, PATH_REQUEST_MI, PATH_WAITER_TIMEOUT,
    DISCOVERY_PR_TX_THROTTLE,
    MAX_PENDING_ADMISSIONS, MAX_ADMISSION_POLL, MAX_QUEUED_DISCOVERY_PRS,
    MAX_DISCOVERY_REQUESTERS, MAX_LOCAL_LINK_ROUTES

\* A plan: who asks for what, how long a search may take, how many requests and
\* announces there are, and which faults.
DiscoveryAssumption ==
    /\ \A x \in Plans :
          /\ x.does \subseteq {"inbound", "api", "await", "auto", "explicit", "dispatch",
                               "recover", "expired", "toggle", "drop"}
          /\ {x.requests, x.announces, x.faults} \subseteq Nat
          /\ x.search \in Nat \ {0}
    /\ {PATH_REQUEST_GATE_TIMEOUT, PATH_REQUEST_MI, PATH_WAITER_TIMEOUT,
        DISCOVERY_PR_TX_THROTTLE, MAX_ADMISSION_POLL} \subseteq Nat \ {0}
    /\ 0 \notin Ifs

VARIABLES
    plan,     \* the plan
    node,     \* the actor
    due,      \* a unit of time has passed since the last tick
    tokens,   \* requester tokens that owners of the actor hold
    requests, \* requests made so far
    learned,  \* announces heard so far
    faults    \* faults so far

vars == <<plan, node, due, tokens, requests, learned, faults>>

-----------------------------------------------------------------------------
(* The actor's state *)

NoPath == [ver |-> 0, via |-> 0, hops |-> 0]
NoOp == [id |-> 0, left |-> 0, who |-> {}]

Start ==
    [on |-> TRUE,                                \* is_transport_enabled
     ifs |-> [i \in Ifs |-> [gen |-> 1, open |-> TRUE, online |-> TRUE,
                             full |-> FALSE, capped |-> FALSE]],
     path |-> NoPath,                            \* the live path and its RouteVersion
     op |-> NoOp,                                \* discovery_path_requests
     pend |-> <<>>,                              \* pending_path_request_admissions
     asked |-> PATH_REQUEST_MI,                  \* time since path_requests, up to the cooldown
     fifo |-> <<>>,                              \* pending_discovery_prs: blocked interface, or 0
     paced |-> 0,                                \* last_discovery_pr_tx: left of the throttle
     seen |-> [t \in Tags |-> 0],                \* discovery_pr_tags: left of the gate
     waiting |-> [w \in Waiters |-> [state |-> "idle", left |-> 0]],
     tried |-> <<>>,                             \* local_link_route_attempts, oldest first
     last |-> [op |-> 0, gen |-> 1, reg |-> 0],  \* identities handed out
     fans |-> <<>>,                              \* (ghost) the fan-outs so far
     used |-> [a \in Attempts |-> NoPath],       \* (ghost) the route of an attempt's first dispatch
     owed |-> [i \in Ifs |-> 0],                 \* (ghost) time in which an answer is due on i
     wrong |-> {}]                               \* (ghost) what was done on a stale ground

Up(s, i) == s.ifs[i].gen # 0
HasPath(s) == s.path # NoPath

Init ==
    /\ plan \in Plans
    /\ node = Start
    /\ due = FALSE
    /\ tokens = {}
    /\ requests = 0
    /\ learned = 0
    /\ faults = 0

-----------------------------------------------------------------------------
(* Who owns a search *)

\* retire_orphaned_discovery_admissions, after op has taken its place.
WithOp(s, op) ==
    [s EXCEPT !.op = IF op.who = {} THEN NoOp ELSE op,
              !.pend = SelectSeq(@, LAMBDA p : p.owner = 0
                                               \/ (op.who # {} /\ p.owner = op.id))]

\* retire_recursive_path_request_admissions and the table it goes with.
CancelSearch(s) ==
    [s EXCEPT !.op = NoOp, !.pend = SelectSeq(@, LAMBDA p : p.owner = 0)]

\* retain_live_requesters: those whose channel is still the interface's and open.
Registered(s, r) == Up(s, r.on) /\ s.ifs[r.on].gen = r.gen /\ s.ifs[r.on].open
CullSearch(s) ==
    WithOp(s, [s.op EXCEPT !.who = IF s.op.left = 0 THEN {}
                                   ELSE {r \in @ : Registered(s, r)}])

\* An interface leaves the table, or another takes its place in it.
Retired(s, i) ==
    LET rest == WithOp(s, [s.op EXCEPT !.who = {r \in @ : r.on # i}])
    IN  [rest EXCEPT !.path = IF @.via = i THEN NoPath ELSE @,
                     !.pend = SelectSeq(@, LAMBDA p : p.on # i),
                     !.owed[i] = 0]

Deregistered(s, i) ==
    [Retired(s, i) EXCEPT !.ifs[i] = [@ EXCEPT !.gen = 0, !.online = FALSE]]

-----------------------------------------------------------------------------
(* Offering a path request to a driver *)

\* What is wrong with sending the request of fan-out k to i now.
Wrongs(s, i, k) ==
    LET f == s.fans[k]
    IN  {w \in {"late", "again", "replaced", "orphan", "moot"} :
            \/ w = "late" /\ f.left = 0
            \/ w = "again" /\ i \in f.sent
            \/ w = "replaced" /\ f.gens[i] # s.ifs[i].gen
            \/ w = "orphan" /\ f.op # 0 /\ f.op # s.op.id
            \/ w = "moot" /\ HasPath(s) /\ f.route # s.path}

Sent(s, i, k, recursive) ==
    [s EXCEPT !.asked = 0,
              !.ifs[i].capped = @ \/ recursive,
              !.fans[k].sent = @ \cup {i},
              !.wrong = @ \cup Wrongs(s, i, k)]

\* try_admit_path_request: what becomes of the actor, and of the request.
TryAdmit(s, i, k, recursive) ==
    IF ~Up(s, i) THEN [s |-> s, out |-> "retired"]
    ELSE IF recursive /\ s.ifs[i].capped THEN [s |-> s, out |-> "wait"]
    ELSE IF ~s.ifs[i].open THEN [s |-> Deregistered(s, i), out |-> "retired"]
    ELSE IF s.ifs[i].full THEN [s |-> s, out |-> "full"]
    ELSE [s |-> Sent(s, i, k, recursive), out |-> "sent"]

Retained(s, i, k, recursive) ==
    LET owned == recursive /\ s.op # NoOp
    IN  [on |-> i, gen |-> s.ifs[i].gen, fan |-> k, recursive |-> recursive,
         left |-> IF owned /\ s.op.left < PATH_REQUEST_GATE_TIMEOUT
                  THEN s.op.left ELSE PATH_REQUEST_GATE_TIMEOUT,
         next |-> DISCOVERY_PR_TX_THROTTLE, route |-> s.path,
         owner |-> IF owned THEN s.op.id ELSE 0]

\* admit_path_request: one request at a time waits for an interface.
Admit(s, i, k, recursive) ==
    LET try == TryAdmit(s, i, k, recursive)
    IN  IF \E p \in Range(s.pend) : p.on = i THEN s
        ELSE IF try.out = "full" /\ Len(s.pend) < MAX_PENDING_ADMISSIONS
        THEN [try.s EXCEPT !.pend = Append(@, Retained(s, i, k, recursive))]
        ELSE try.s

\* (ghost) A fan-out nothing is retained of is remembered only as one.
Spent == [left |-> 0, sent |-> {}, gens |-> [i \in Ifs |-> 0], route |-> NoPath, op |-> 0]
Settle(s) ==
    [s EXCEPT !.fans = [k \in DOMAIN @ |->
        IF \E p \in Range(s.pend) : p.fan = k THEN @[k] ELSE Spent]]

\* forward_path_request, over the interfaces in any order.
Orders == {o \in [1 .. Cardinality(Ifs) -> Ifs] : Range(o) = Ifs}
FanOut(s, to, recursive, order) ==
    LET k == Len(s.fans) + 1
        fan == [left |-> PATH_REQUEST_GATE_TIMEOUT, sent |-> {},
                gens |-> [i \in Ifs |-> s.ifs[i].gen], route |-> s.path,
                op |-> IF recursive THEN s.op.id ELSE 0]
    IN  Settle(FoldLeft(LAMBDA acc, i : IF i \in to THEN Admit(acc, i, k, recursive) ELSE acc,
                        [s EXCEPT !.fans = Append(@, fan)], order))

\* Mutant: an admitted request is put back in the queue as well.
PolledAgain(s) ==
    LET p == Head(s.pend)
        rest == [s EXCEPT !.pend = Tail(@)]
        try == TryAdmit(rest, p.on, p.fan, p.recursive)
    IN  IF p.left = 0 \/ s.ifs[p.on].gen # p.gen \/ (HasPath(s) /\ s.path # p.route) THEN rest
        ELSE IF p.next > 0 THEN [rest EXCEPT !.pend = Append(@, p)]
        ELSE IF try.out # "retired"
        THEN [try.s EXCEPT !.pend = Append(@, [p EXCEPT !.next = DISCOVERY_PR_TX_THROTTLE])]
        ELSE try.s

\* One turn of process_pending_path_request_admissions.
Polled(s) ==
    LET p == Head(s.pend)
        rest == [s EXCEPT !.pend = Tail(@)]
        try == TryAdmit(rest, p.on, p.fan, p.recursive)
        orphan == p.owner # 0 /\ (s.op.id # p.owner \/ s.op.left = 0)
    IN  IF \/ p.left = 0 \/ s.ifs[p.on].gen # p.gen \/ orphan
           \/ HasPath(s) /\ s.path # p.route
        THEN rest
        ELSE IF p.next > 0 THEN [rest EXCEPT !.pend = Append(@, p)]
        ELSE IF try.out \in {"full", "wait"}
        THEN [rest EXCEPT !.pend = Append(@, [p EXCEPT !.next = DISCOVERY_PR_TX_THROTTLE])]
        ELSE try.s

Turns(s) == IF Len(s.pend) < MAX_ADMISSION_POLL THEN Len(s.pend) ELSE MAX_ADMISSION_POLL
ProcessAdmissions(s) ==
    Settle(FoldLeft(LAMBDA acc, turn : IF acc.pend = <<>> THEN acc ELSE Polled(acc),
                    s, [turn \in 1 .. Turns(s) |-> turn]))

-----------------------------------------------------------------------------
(* The rediscovery queue *)

\* queue_discovery_path_request: the request is dropped when the queue is full.
Queued(s, blocked) ==
    IF Len(s.fifo) >= MAX_QUEUED_DISCOVERY_PRS THEN s
    ELSE [s EXCEPT !.fifo = Append(@, blocked),
                   !.paced = IF s.fifo = <<>> THEN DISCOVERY_PR_TX_THROTTLE ELSE @]

ProcessFifo(s, order) ==
    IF s.fifo = <<>> \/ s.paced > 0 THEN s
    ELSE FanOut([s EXCEPT !.fifo = Tail(@), !.paced = DISCOVERY_PR_TX_THROTTLE],
                Ifs \ {Head(s.fifo)}, FALSE, order)

\* rediscovery_request_for_expired_link, with the hops the Link request had
\* taken and the interface it came from.
Rediscovered(s, link) ==
    LET near == s.path.hops = 1 \/ link.taken = 1
        ask == \/ ~HasPath(s)
               \/ s.asked >= PATH_REQUEST_MI /\ (link.taken = 0 \/ near)
        blocked == IF HasPath(s) /\ link.taken # 0 THEN link.from ELSE 0
    IN  IF ask THEN Queued([s EXCEPT !.path = IF s.on THEN @ ELSE NoPath], blocked) ELSE s

-----------------------------------------------------------------------------
(* Waiters *)

Parked(s, w) == s.waiting[w].state = "parked"

\* fire_path_waiters.
Fired(s) ==
    [s EXCEPT !.waiting = [w \in Waiters |->
        IF Parked(s, w) THEN [state |-> "found", left |-> 0] ELSE @[w]]]

\* expire_path_waiters.
Expired(s) ==
    [s EXCEPT !.waiting = [w \in Waiters |->
        IF @[w].state = "closed" THEN [state |-> "gone", left |-> 0]
        ELSE IF Parked(s, w) /\ @[w].left = 0 THEN [state |-> "expired", left |-> 0]
        ELSE @[w]]]

-----------------------------------------------------------------------------
(* Requests *)

Asks(kind) == kind \in plan.does /\ requests < plan.requests /\ requests' = requests + 1
Still == UNCHANGED <<plan, due, learned, faults>>

\* What a requester that is let in is owed: the rest of the search under way.
Owed(s, i) ==
    [s EXCEPT !.owed[i] = LET most == CHOOSE n \in Range(s.owed) : \A m \in Range(s.owed) : m <= n
                          IN  IF most > 0 THEN most ELSE plan.search]

\* admit_discovery_requester: the actor with i among the requesters, whether a
\* search was started, and the requester's token, or none when it is refused.
Joined(s, i) ==
    LET cur == IF s.op = NoOp THEN s ELSE CullSearch(s)
        me == [on |-> i, gen |-> cur.ifs[i].gen, reg |-> cur.last.reg + 1]
        mine == {r \in cur.op.who : r.on = i /\ r.gen = me.gen}
        open == Up(cur, i) /\ cur.ifs[i].open /\ cur.ifs[i].online
        op == IF cur.op = NoOp
              THEN [id |-> cur.last.op + 1, left |-> plan.search, who |-> {me}]
              ELSE [cur.op EXCEPT !.who = IF mine = {} THEN @ \cup {me} ELSE @]
    IN  IF ~open \/ Cardinality(op.who) > MAX_DISCOVERY_REQUESTERS
        THEN [s |-> cur, started |-> FALSE, as |-> {}]
        ELSE [s |-> Owed([cur EXCEPT !.op = op, !.last.op = op.id,
                                     !.last.reg = IF mine = {} THEN @ + 1 ELSE @], i),
              started |-> cur.op = NoOp,
              as |-> {[op |-> op.id, reg |-> r.reg] : r \in {x \in op.who : x.on = i}}]

\* handle_inbound_path_request for a destination that is not local, on an
\* interface of a node that may or may not be at its ingress limit.  A known
\* path is answered from the announce cache.
InboundRequest(i, tag, limited, order) ==
    LET heard == [node EXCEPT !.seen[tag] = PATH_REQUEST_GATE_TIMEOUT]
        join == Joined(heard, i)
    IN  /\ Asks("inbound") /\ Up(node, i)
        /\ (limited => "limit" \in plan.kinds)
        /\ node' = IF node.seen[tag] > 0 THEN node
                   ELSE IF ~node.on \/ HasPath(node) \/ limited THEN heard
                   ELSE IF join.started THEN FanOut(join.s, Ifs \ {i}, TRUE, order)
                   ELSE join.s
        /\ UNCHANGED tokens /\ Still

\* request_recursive_discovery: an owner of the actor asks on behalf of i.
RequestDiscovery(i, order) ==
    LET join == Joined(node, i)
    IN  /\ Asks("api")
        /\ node.on /\ ~HasPath(node) /\ Up(node, i)
        /\ node' = IF join.started THEN FanOut(join.s, Ifs \ {i}, TRUE, order) ELSE join.s
        /\ tokens' = tokens \cup join.as
        /\ Still

\* The requesters that stay when a token is given back.
Removed(who, t) == {r \in who : r.reg # t.reg}

\* cancel_discovery_requester, with any token ever returned.
CancelRequester(t) ==
    LET cur == CullSearch(node)
        gone == {r.on : r \in cur.op.who \ Removed(cur.op.who, t)}
    IN  /\ t \in tokens
        /\ node' = IF cur.op.id # t.op THEN cur
                   ELSE [WithOp(cur, [cur.op EXCEPT !.who = Removed(@, t)]) EXCEPT
                            !.owed = [i \in Ifs |-> IF i \in gone THEN 0 ELSE @[i]]]
        /\ UNCHANGED <<tokens, requests>> /\ Still

\* AwaitPath.
Await(w, order) ==
    /\ node.waiting[w].state = "idle"
    /\ Asks("await")
    /\ node' = IF HasPath(node) THEN [node EXCEPT !.waiting[w].state = "found"]
               ELSE [FanOut(node, Ifs, FALSE, order) EXCEPT
                        !.waiting[w] = [state |-> "parked", left |-> PATH_WAITER_TIMEOUT]]
    /\ UNCHANGED tokens /\ Still

\* on_automatic_path_request: sent when a packet finds no path.
AutoRequest(order) ==
    /\ Asks("auto")
    /\ node' = IF HasPath(node) \/ node.asked < PATH_REQUEST_MI THEN node
               ELSE FanOut(node, Ifs, FALSE, order)
    /\ UNCHANGED tokens /\ Still

\* on_path_request_with_options, on one interface or on all.
ExplicitRequest(to, recursive, order) ==
    /\ Asks("explicit")
    /\ node' = FanOut(node, to, recursive /\ to # Ifs, order)
    /\ UNCHANGED tokens /\ Still

-----------------------------------------------------------------------------
(* Failed attempts *)

\* record_route_attempt: a full table forgets its oldest attempt.
Recorded(s, a) ==
    LET kept == IF Len(s.tried) >= MAX_LOCAL_LINK_ROUTES THEN Tail(s.tried) ELSE s.tried
    IN  IF \E t \in Range(s.tried) : t.id = a THEN s
        ELSE [s EXCEPT !.tried = Append(kept, [id |-> a, route |-> s.path])]

\* A local Link request or tracked packet is sent over the path, perhaps again.
Dispatch(a) ==
    /\ Asks("dispatch")
    /\ HasPath(node)
    /\ node' = [Recorded(node, a) EXCEPT !.used[a] =
                   IF \E t \in Range(node.tried) : t.id = a THEN @ ELSE node.path]
    /\ UNCHANGED tokens /\ Still

\* recover_local_link_path, for an attempt that failed or for none, with or
\* without discovery.
Recover(as, schedule) ==
    LET known == {t \in Range(node.tried) : t.id \in as}
        dropped == HasPath(node) /\ \E t \in known : t.route = node.path
        left == [node EXCEPT !.tried = SelectSeq(@, LAMBDA t : t.id \notin as),
                             !.used = [a \in Attempts |-> IF a \in as THEN NoPath ELSE @[a]],
                             !.path = IF dropped THEN NoPath ELSE @,
                             !.wrong = @ \cup IF dropped /\ \A a \in as : node.used[a] # node.path
                                              THEN {"dropped"} ELSE {}]
        ask == schedule /\ (dropped \/ ~HasPath(left) \/ known = {})
    IN  /\ Asks("recover")
        /\ node' = IF ask /\ 0 \notin Range(node.fifo) /\ node.asked >= PATH_REQUEST_MI
                   THEN Queued(left, 0) ELSE left
        /\ UNCHANGED tokens /\ Still

-----------------------------------------------------------------------------
(* Answers, the clock and the tick *)

\* finish_recursive_discovery: the search is over, and its requesters are told
\* if it is not too late and they can be; an interface whose peers all hear
\* each other is not told what came from it.
Told(s, incoming) ==
    IF s.op.left = 0 THEN {}
    ELSE {r.on : r \in {x \in s.op.who : /\ Registered(s, x) /\ s.ifs[x.on].online
                                        /\ x.on = incoming => x.on \notin plan.roaming}}

Unanswered(s, incoming) ==
    \E i \in Ifs \ Told(s, incoming) :
        /\ s.owed[i] > 0 /\ s.ifs[i].online
        /\ i = incoming => i \notin plan.roaming

Finished(s, incoming) ==
    [CancelSearch(s) EXCEPT
        !.wrong = @ \cup IF Unanswered(s, incoming) THEN {"unanswered"} ELSE {},
        !.owed = [i \in Ifs |-> 0]]

\* process_announce installs a new path.
Learn(i, hops) ==
    /\ learned < plan.announces /\ Up(node, i)
    /\ learned' = learned + 1
    /\ node' = Finished(Fired([node EXCEPT !.path =
                  [ver |-> learned + 1, via |-> i, hops |-> hops]]), i)
    /\ UNCHANGED <<plan, due, tokens, requests, faults>>

Less(n) == IF n = 0 THEN 0 ELSE n - 1

\* A unit of time passes.
Pass ==
    /\ ~due
    /\ due' = TRUE
    /\ node' = [node EXCEPT
          !.op.left = Less(@),
          !.pend = [n \in DOMAIN @ |-> [@[n] EXCEPT !.left = Less(@), !.next = Less(@)]],
          !.asked = IF @ < PATH_REQUEST_MI THEN @ + 1 ELSE @,
          !.paced = Less(@),
          !.seen = [t \in Tags |-> Less(@[t])],
          !.waiting = [w \in Waiters |-> [@[w] EXCEPT !.left = Less(@)]],
          !.fans = [n \in DOMAIN @ |-> [@[n] EXCEPT !.left = Less(@)]],
          !.owed = [i \in Ifs |-> Less(@[i])]]
    /\ UNCHANGED <<plan, tokens, requests, learned, faults>>

\* on_tick: a Link that expired unvalidated, waiters, searches, the rediscovery
\* queue and the retained requests, in this order.
Tick(links, order) ==
    LET culled == FoldLeft(Rediscovered, node, links)
        swept == CullSearch(Expired(culled))
    IN  /\ due
        /\ due' = FALSE
        /\ node' = ProcessAdmissions(ProcessFifo(swept, order))
        /\ IF links = <<>> THEN UNCHANGED requests ELSE Asks("expired")
        /\ UNCHANGED <<plan, tokens, learned, faults>>

-----------------------------------------------------------------------------
(* The surroundings *)

Fault(kind) == kind \in plan.kinds /\ faults < plan.faults /\ faults' = faults + 1
Calm == UNCHANGED <<plan, due, tokens, requests, learned>>

\* A driver stops taking packets, and takes them again.
Congest(i) ==
    /\ ~node.ifs[i].full /\ Fault("congest")
    /\ node' = [node EXCEPT !.ifs[i].full = TRUE]
    /\ Calm
Drain(i) ==
    /\ node.ifs[i].full
    /\ node' = [node EXCEPT !.ifs[i].full = FALSE]
    /\ UNCHANGED faults /\ Calm

\* The announce cap of an interface lets the next recursive request through.
Uncap(i) ==
    /\ node.ifs[i].capped
    /\ node' = [node EXCEPT !.ifs[i].capped = FALSE]
    /\ UNCHANGED faults /\ Calm

\* A driver drops its receiver, and the actor finds out when it sends.
CloseDriver(i) ==
    /\ Up(node, i) /\ node.ifs[i].open /\ Fault("close")
    /\ node' = [node EXCEPT !.ifs[i].open = FALSE, !.owed[i] = 0]
    /\ Calm

\* A driver marks its interface offline or online.
Toggle(i) ==
    /\ Up(node, i) /\ Fault("offline")
    /\ node' = [node EXCEPT !.ifs[i].online = ~@]
    /\ Calm

\* DeregisterInterface.
Deregister(i) ==
    /\ Up(node, i) /\ Fault("deregister")
    /\ node' = Deregistered(node, i)
    /\ Calm

\* RegisterInterface, in the place of an older one or not.
Register(i) ==
    /\ Fault("register")
    /\ node' = [(IF Up(node, i) THEN Retired(node, i) ELSE node) EXCEPT
          !.last.gen = @ + 1,
          !.ifs[i] = [gen |-> node.last.gen + 1, open |-> TRUE, online |-> TRUE,
                      full |-> FALSE, capped |-> FALSE]]
    /\ Calm

\* The caller of AwaitPath gives up.
CloseWaiter(w) ==
    /\ Parked(node, w) /\ Fault("giveup")
    /\ node' = [node EXCEPT !.waiting[w].state = "closed"]
    /\ Calm

\* The path expires.
LosePath ==
    /\ HasPath(node) /\ Fault("expire")
    /\ node' = [node EXCEPT !.path = NoPath]
    /\ Calm

\* An attempt is older than LOCAL_LINK_ROUTE_LIFETIME.
Forget ==
    /\ node.tried # <<>> /\ Fault("forget")
    /\ node' = [node EXCEPT !.tried = Tail(@)]
    /\ Calm

\* SetTransportEnabled.
SetTransport(on) ==
    /\ "toggle" \in plan.does /\ Fault("toggle")
    /\ node' = [(IF on THEN node ELSE CancelSearch(node)) EXCEPT
          !.on = on, !.owed = [i \in Ifs |-> IF on THEN @[i] ELSE 0]]
    /\ Calm

\* DropPathTable.
DropPathTable ==
    /\ "drop" \in plan.does /\ Fault("drop")
    /\ node' = [node EXCEPT !.path = NoPath, !.op = NoOp, !.fifo = <<>>, !.pend = <<>>,
                            !.owed = [i \in Ifs |-> 0]]
    /\ Calm

-----------------------------------------------------------------------------
Links == [taken : {0, 1, 2}, from : Ifs]

Next ==
    \/ \E order \in Orders :
          \/ \E i \in Ifs, tag \in Tags, limited \in BOOLEAN :
                InboundRequest(i, tag, limited, order)
          \/ \E i \in Ifs : RequestDiscovery(i, order)
          \/ \E w \in Waiters : Await(w, order)
          \/ AutoRequest(order)
          \/ \E to \in {Ifs} \cup {{i} : i \in Ifs}, recursive \in BOOLEAN :
                ExplicitRequest(to, recursive, order)
          \/ \E links \in {<<>>} \cup {<<x>> : x \in Links} : Tick(links, order)
    \/ \E t \in tokens : CancelRequester(t)
    \/ \E a \in Attempts : Dispatch(a)
    \/ \E as \in {{}} \cup {{a} : a \in Attempts}, schedule \in BOOLEAN : Recover(as, schedule)
    \/ \E i \in Ifs, hops \in {1, 2} : Learn(i, hops)
    \/ Pass
    \/ \E i \in Ifs :
          \/ Congest(i) \/ Drain(i) \/ Uncap(i) \/ CloseDriver(i) \/ Toggle(i)
          \/ Deregister(i) \/ Register(i)
    \/ \E w \in Waiters : CloseWaiter(w)
    \/ LosePath \/ Forget \/ DropPathTable
    \/ \E on \in BOOLEAN : SetTransport(on)

Spec == Init /\ [][Next]_vars

-----------------------------------------------------------------------------
(* Properties *)

Routes == [ver : 0 .. plan.announces, via : Ifs \cup {0}, hops : 0 .. 2]

TypeOK ==
    /\ node.path \in Routes
    /\ node.op.left \in 0 .. plan.search
    /\ \A p \in Range(node.pend) :
          /\ p.on \in Ifs /\ p.fan \in DOMAIN node.fans /\ p.route \in Routes
          /\ p.left \in 0 .. PATH_REQUEST_GATE_TIMEOUT
          /\ p.next \in 0 .. DISCOVERY_PR_TX_THROTTLE
    /\ node.asked \in 0 .. PATH_REQUEST_MI
    /\ node.waiting \in [Waiters -> [state : {"idle", "parked", "closed", "gone", "found", "expired"},
                                     left : 0 .. PATH_WAITER_TIMEOUT]]
    /\ node.owed \in [Ifs -> 0 .. plan.search]

\* Every search has a requester, and every requester is the interface that
\* asked and not one registered in its place; a request that is retained for a
\* search belongs to the search under way, none waits for an interface that
\* was replaced, and at most one waits for each.
SearchesOwned ==
    /\ TypeOK
    /\ node.op # NoOp => node.op.who # {}
    /\ \A r \in node.op.who : node.ifs[r.on].gen = r.gen
    /\ \A p \in Range(node.pend) :
          /\ p.owner # 0 => node.op.id = p.owner
          /\ node.ifs[p.on].gen = p.gen
    /\ \A m, n \in DOMAIN node.pend : node.pend[m].on = node.pend[n].on => m = n
    /\ Len(node.pend) <= MAX_PENDING_ADMISSIONS

\* A request goes to an interface at most once, within the gate of the intent it
\* belongs to, to the generation that was there, while its search is under way,
\* and not once a new path is known; a failed attempt takes away only the route
\* that it was first sent over.
NothingStale ==
    node.wrong \cap {"late", "again", "replaced", "orphan", "moot", "dropped"} = {}

\* Whoever was let into a search, alone or as one of several, is told of the
\* path that is learned while the search lasts.
AskersAnswered == "unanswered" \notin node.wrong

\* Nobody waits for a path that is known, and nobody's wait outlasts the tick
\* that follows its deadline.
WaitersSettle ==
    \A w \in Waiters : Parked(node, w) => ~HasPath(node) /\ (due \/ node.waiting[w].left > 0)

\* Searches, their requests and their askers agree.
SearchesSound == SearchesOwned /\ NothingStale /\ AskersAnswered /\ WaitersSettle

=============================================================================
