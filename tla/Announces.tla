----------------------------- MODULE Announces ------------------------------
(***************************************************************************)
(* How one node hands announces to its interfaces: actor/                  *)
(* announce_admission.rs, announce_dispatch.rs and background_egress.rs of *)
(* rns-transport, with the announce job and the announce queues of         *)
(* actor/maintenance.rs and actor/mod.rs.                                  *)
(*                                                                         *)
(* Announces of local destinations go to the drivers at once; a refused    *)
(* one is retained, and its publisher has one answer to expect.  Announces *)
(* of others are relayed through a queue per interface that spaces them.   *)
(* An interface whose driver has a background lane is offered one of them  *)
(* at a time, which the writer starts when it has nothing else to do.      *)
(*                                                                         *)
(* The actor is the record node and the calls of a handler are operators   *)
(* from a node to a node.  A packet is the destination and the number of   *)
(* its emission; a route is known by the emission it was learned from.     *)
(* A deadline is the number of ticks left.                                 *)
(***************************************************************************)
EXTENDS Integers, Sequences, SequencesExt, FiniteSets

CONSTANTS
    Ifs,                   \* interface ids, all outbound
    Remotes,               \* destinations heard of on the network
    Requests,              \* announces of the local destination that expect an answer
    Plans,                 \* what is considered
    MAX_PENDING, MAX_POLL, MAX_QUEUED_ANNOUNCES,
    PATHFINDER_R,
    LIFETIME,              \* ticks a dispatched announce may wait
    GATE,                  \* PATH_REQUEST_GATE_TIMEOUT in ticks
    LIFE,                  \* QUEUED_ANNOUNCE_LIFE in ticks
    SPACING                \* the time an announce takes under the announce cap

\* A plan: the mode and role of the interfaces, which of them have a lane and which
\* take no announces from an internal one (announces_from_internal is off), how
\* many announces are heard of a destination and how far they have come, what is
\* done, and which faults.
AnnouncesAssumption ==
    /\ \A x \in Plans : /\ x.lanes \cup x.clients \cup x.outer \subseteq Ifs
                        /\ x.dests \subseteq Remotes
                        /\ x.mode \in [Ifs -> {"full", "ap", "internal", "roaming", "boundary"}]
                        /\ x.hops \in [Remotes -> Nat]
                        /\ {x.announces, x.requests, x.faults} \subseteq Nat
    /\ {MAX_PENDING, MAX_POLL, MAX_QUEUED_ANNOUNCES, LIFETIME, GATE, LIFE, SPACING}
           \subseteq Nat \ {0}
    /\ 0 \notin Ifs

VARIABLES
    plan,     \* the plan
    node,     \* the actor and the lanes it shares with the writers
    due,      \* time has passed since the last tick
    requests, \* requests made so far
    heard,    \* announces heard so far
    faults    \* faults so far

vars == <<plan, node, due, requests, heard, faults>>

-----------------------------------------------------------------------------
(* The state *)

NoRaw == [dest |-> "none", emitted |-> 0]
NoEntry == [kind |-> "none", raw |-> NoRaw, on |-> 0, stamp |-> 0, left |-> 0,
            wait |-> 0, retries |-> 0]
NoPath == [ver |-> 0, via |-> 0]
NoOffer == [raw |-> NoRaw, route |-> 0, started |-> FALSE, since |-> 0]
EmptyLane == [raw |-> NoRaw, live |-> FALSE, left |-> 0, active |-> FALSE]

Start ==
    [on |-> TRUE,                                   \* is_transport_enabled
     reg |-> 1,                                     \* registration of the local destination
     ifs |-> [i \in Ifs |-> [gen |-> 1, open |-> TRUE, online |-> TRUE, full |-> FALSE,
                             queue |-> <<>>, gap |-> 0]],
     lane |-> [i \in Ifs |-> EmptyLane],
     offered |-> [i \in Ifs |-> NoOffer],           \* offered_announces
     pend |-> <<>>,                                 \* pending_announce_admissions
     table |-> [d \in Remotes |-> NoEntry],         \* announce_table
     held |-> [d \in Remotes |-> NoEntry],          \* held_announces
     path |-> [d \in Remotes |-> NoPath],
     reply |-> [r \in Requests |-> "unasked"],
     last |-> [gen |-> 1, reg |-> 1, stamp |-> 0],  \* identities handed out
     race |-> FALSE,      \* a writer starts while the actor takes its offer back
     took |-> [r \in Requests |-> {}],              \* (ghost) interfaces that took the announce
     rest |-> [i \in Ifs |-> 0],                    \* (ghost) time until i's cap allows another
     wrong |-> {}]                                  \* (ghost) what was done on a stale ground

Up(s, i) == s.ifs[i].gen # 0
Local(raw) == raw.dest \notin Remotes
Route(s, d) == IF d \in Remotes THEN s.path[d].ver ELSE 0
NoReply == "none"

Init ==
    /\ plan \in Plans
    /\ node = Start
    /\ due = FALSE
    /\ requests = 0
    /\ heard = 0
    /\ faults = 0

\* interface_allows_announce: where the path leads decides for some modes.  (The
\* exception for the interface an announce came from is for shared-instance edges,
\* on which this node hears nothing.)
Barred ==
    [full |-> {}, internal |-> {"missing", "boundary"}, boundary |-> {"missing", "roaming"},
     roaming |-> {"missing", "roaming", "boundary"}]
Allows(s, i, raw) ==
    LET local == Local(raw) /\ s.reg # 0
        via == IF Local(raw) THEN 0 ELSE s.path[raw.dest].via
        from == IF via \in Ifs /\ Up(s, via) THEN plan.mode[via] ELSE "missing"
    IN  /\ Up(s, i)
        /\ local \/ Route(s, raw.dest) # 0
        /\ local \/ i \notin plan.outer \/ from # "internal"
        /\ plan.mode[i] # "ap"
        /\ local \/ from \notin Barred[plan.mode[i]]

-----------------------------------------------------------------------------
(* The background lane *)

\* What try_start_when lets a writer start.
Startable(s, i) ==
    /\ s.lane[i].raw # NoRaw /\ s.lane[i].live /\ s.lane[i].left > 0
    /\ Up(s, i)

\* The writer takes the offer.  (The announce cap's time runs from here.)
Begun(s, i) ==
    [s EXCEPT !.lane[i].raw = NoRaw,
              !.rest[i] = SPACING,
              !.wrong = @ \cup (IF s.rest[i] > 0 THEN {"early"} ELSE {})]

\* The receipt of the offer to i is dropped: the offer is cancelled, unless the
\* writer is just starting it.  (Such a start is not held against the cap.)
Revoked(s, i) ==
    LET out == [s EXCEPT !.offered[i] = NoOffer]
    IN  IF s.race /\ Startable(s, i) /\ ~s.offered[i].started
        THEN [Begun(out, i) EXCEPT !.rest[i] = 0, !.wrong = s.wrong]
        ELSE [out EXCEPT !.lane[i].live = FALSE]

Unqueued(s, i, raw) == [s EXCEPT !.ifs[i].queue = SelectSeq(@, LAMBDA q : q.raw # raw)]
Queued(s, i, raw) == \E q \in Range(s.ifs[i].queue) : q.raw = raw

\* Mutant: an offer is kept whatever has become of its route.
BackgroundStartKeeps(s, i) ==
    LET o == s.offered[i]
        spaced == [Unqueued(s, i, o.raw) EXCEPT
                      !.offered[i] = NoOffer,
                      !.ifs[i].gap = IF SPACING - o.since > @ THEN SPACING - o.since ELSE @]
    IN  IF o = NoOffer THEN s
        ELSE IF o.started THEN spaced
        ELSE IF s.lane[i].raw = NoRaw THEN [s EXCEPT !.offered[i] = NoOffer]
        ELSE IF Queued(s, i, o.raw) /\ s.ifs[i].online THEN s
        ELSE Revoked(s, i)

\* process_background_starts for i.
BackgroundStart(s, i) ==
    LET o == s.offered[i]
        spaced == [Unqueued(s, i, o.raw) EXCEPT
                      !.offered[i] = NoOffer,
                      !.ifs[i].gap = IF SPACING - o.since > @ THEN SPACING - o.since ELSE @]
        stale == Route(s, o.raw.dest) # o.route \/ ~Allows(s, i, o.raw)
    IN  IF o = NoOffer THEN s
        ELSE IF o.started THEN spaced
        ELSE IF s.lane[i].raw = NoRaw THEN [s EXCEPT !.offered[i] = NoOffer]
        ELSE IF Queued(s, i, o.raw) /\ stale THEN Revoked(Unqueued(s, i, o.raw), i)
        ELSE IF Queued(s, i, o.raw) /\ s.ifs[i].gap = 0 /\ s.ifs[i].online THEN s
        ELSE Revoked(s, i)

Order == SetToSeq(Ifs)
BackgroundStarts(s) == FoldLeft(BackgroundStart, s, Order)

-----------------------------------------------------------------------------
(* Answers and retained announces *)

\* complete_announce_reply: the first result is the answer.
Completed(s, r, result) ==
    IF r \in Requests /\ s.reply[r] = "waiting" THEN [s EXCEPT !.reply[r] = result] ELSE s

\* A holder of the reply is dropped; the last one says that the announce expired.
Abandoned(s, r) ==
    IF \E p \in Range(s.pend) : p.reply = r THEN s ELSE Completed(s, r, "expired")

\* The entry of the announce table that a cached response is for.
Answers(e, p) == e.kind = "cached" /\ e.on = p.on /\ e.raw = p.raw /\ e.stamp = p.stamp

\* finish_cached_response: the announce that was held meanwhile is back.
Finished(s, p) ==
    LET d == p.raw.dest
    IN  IF p.stamp # 0 /\ Answers(s.table[d], p)
        THEN [s EXCEPT !.table[d] = s.held[d], !.held[d] = NoEntry]
        ELSE s

\* retire_announce_interface.
RetiredAnnounces(s, i) ==
    LET mine == SelectSeq(s.pend, LAMBDA p : p.on = i)
        rest == [Revoked(s, i) EXCEPT !.pend = SelectSeq(@, LAMBDA p : p.on # i)]
    IN  FoldLeft(LAMBDA acc, p : Abandoned(Finished(acc, p), p.reply), rest, mine)

\* deregister_interface_with_link_reason, or another registration in its place.
Retired(s, i) ==
    [RetiredAnnounces(s, i) EXCEPT
        !.path = [d \in Remotes |-> IF @[d].via = i THEN NoPath ELSE @[d]]]
Deregistered(s, i) ==
    [Retired(s, i) EXCEPT !.ifs[i] = [@ EXCEPT !.gen = 0, !.online = FALSE, !.queue = <<>>,
                                              !.gap = 0]]

\* What is wrong with handing p to its interface now.
Wrongs(s, p) ==
    {w \in {"late", "replaced", "disowned", "again", "superseded"} :
        \/ w = "late" /\ p.left = 0
        \/ w = "replaced" /\ p.gen # s.ifs[p.on].gen
        \/ w = "disowned" /\ p.owner # 0 /\ p.owner # s.reg
        \/ w = "again" /\ p.reply \in Requests /\ p.on \in s.took[p.reply]
        \/ w = "superseded" /\ p.route # 0 /\ Route(s, p.raw.dest) # p.route}

Sent(s, p) ==
    LET took == IF p.reply \in Requests
                THEN [s.took EXCEPT ![p.reply] = @ \cup {p.on}] ELSE s.took
    IN  Finished(Completed([s EXCEPT !.took = took, !.wrong = @ \cup Wrongs(s, p)],
                           p.reply, "admitted"), p)

\* try_prepared_announce.
Outcome(s, i) ==
    IF ~s.ifs[i].online THEN "offline"
    ELSE IF ~s.ifs[i].open THEN "closed"
    ELSE IF s.ifs[i].full THEN "full" ELSE "sent"

\* An announce to go out on i: of a response's stamp, for an answer, or plain.
ToGo(s, i, raw, stamp, left, reply, attached) ==
    [on |-> i, gen |-> s.ifs[i].gen, raw |-> raw, stamp |-> stamp, left |-> left,
     reply |-> reply, attached |-> attached,
     owner |-> IF Local(raw) THEN s.reg ELSE 0, route |-> Route(s, raw.dest)]

\* admit_announce.
Admit(s, p) ==
    LET i == p.on
        twin == \E q \in Range(s.pend) : q.on = i /\ q.raw = p.raw /\ q.stamp = p.stamp
                                         /\ Up(s, i) /\ q.gen = s.ifs[i].gen
        out == Outcome(s, i)
        ends == out = "closed" \/ (out = "offline" /\ i \in plan.clients)
    IN  IF twin THEN Completed(s, p.reply, "expired")
        ELSE IF p.left = 0 \/ ~Up(s, i) THEN Finished(s, p)
        ELSE IF ends THEN Deregistered(Finished(s, p), i)
        ELSE IF out = "sent" THEN Sent(s, p)
        ELSE IF Len(s.pend) < MAX_PENDING THEN [s EXCEPT !.pend = Append(@, p)]
        ELSE s

\* One turn of process_pending_announce_admissions.
Polled(s) ==
    LET p == Head(s.pend)
        i == p.on
        rest == [s EXCEPT !.pend = Tail(@)]
        gone == Abandoned(Finished(rest, p), p.reply)
        current == Up(s, i) /\ s.ifs[i].gen = p.gen
        ends == current /\ (~s.ifs[i].open \/ (i \in plan.clients /\ ~s.ifs[i].online))
        moot == \/ p.left = 0
                \/ p.reply \in Requests /\ s.reply[p.reply] = "gone"
                \/ ~current
                \/ ~p.attached /\ ~Allows(s, i, p.raw)
                \/ p.owner # 0 /\ s.reg # p.owner
                \/ p.stamp # 0 /\ (~Answers(s.table[p.raw.dest], p) \/ Route(s, p.raw.dest) # p.route)
                \/ ~Local(p.raw) /\ p.route # 0 /\ Route(s, p.raw.dest) # p.route
    IN  IF ends THEN Deregistered(gone, i)
        ELSE IF moot THEN gone
        ELSE IF Outcome(s, i) = "sent" THEN Sent(rest, p)
        ELSE [rest EXCEPT !.pend = Append(@, p)]

Turns(s) == IF Len(s.pend) < MAX_POLL THEN Len(s.pend) ELSE MAX_POLL
PendingAnnounces(s) ==
    FoldLeft(LAMBDA acc, turn : IF acc.pend = <<>> THEN acc ELSE Polled(acc),
             s, [turn \in 1 .. Turns(s) |-> turn])

-----------------------------------------------------------------------------
(* The queues *)

\* broadcast_announce_on_interfaces: one entry for a destination, the newest.
Enqueued(s, i, raw) ==
    LET q == s.ifs[i].queue
        same == {k \in DOMAIN q : q[k].raw.dest = raw.dest}
        new == [raw |-> raw, left |-> LIFE]
        grown == Append(q, new)
    IN  IF ~Allows(s, i, raw) THEN s
        ELSE [s EXCEPT !.ifs[i].queue =
                 IF same # {}
                 THEN [k \in DOMAIN q |->
                          IF k \in same /\ raw.emitted > q[k].raw.emitted THEN new ELSE q[k]]
                 ELSE SubSeq(grown, 1 + (IF Len(grown) > MAX_QUEUED_ANNOUNCES
                                         THEN Len(grown) - MAX_QUEUED_ANNOUNCES ELSE 0),
                             Len(grown))]

Broadcast(s, raw) == FoldLeft(LAMBDA acc, i : Enqueued(acc, i, raw), s, Order)

\* The entries the announce job finds due: a response goes to the one interface
\* that asked, an announce to all of them, a limited number of times.
Job(s, d) ==
    LET e == s.table[d]
        again == [s EXCEPT !.table[d] = [@ EXCEPT !.retries = @ + 1, !.wait = 1]]
        sent == Broadcast(again, e.raw)
    IN  IF e = NoEntry \/ e.wait > 0 THEN s
        ELSE IF e.kind = "cached"
        THEN Admit(s, ToGo(s, e.on, e.raw, e.stamp, e.left, NoReply, TRUE))
        ELSE IF sent.table[d].retries > PATHFINDER_R
        THEN [sent EXCEPT !.table[d] = NoEntry]
        ELSE sent
AnnounceJob(s) == FoldLeft(Job, s, SetToSeq(Remotes))

\* cull_announce_queues, by age.
Culled(s) ==
    [s EXCEPT !.ifs = [i \in Ifs |->
        [@[i] EXCEPT !.queue = SelectSeq(@, LAMBDA q : q.left > 0)]]]

\* The entry of fewest hops that has waited longest.
Selected(q) ==
    LET hops(k) == plan.hops[q[k].raw.dest]
    IN  CHOOSE k \in DOMAIN q : \A m \in DOMAIN q :
            \/ hops(k) < hops(m)
            \/ hops(k) = hops(m) /\ (q[k].left < q[m].left \/ (q[k].left = q[m].left /\ k <= m))

\* try_offer_owned: a lane has one offer or one packet that was started.
Offered(s, i, q) ==
    LET l == s.lane[i]
        active == l.active /\ ~(l.raw # NoRaw /\ (~l.live \/ l.left = 0))
    IN  IF active THEN s
        ELSE [s EXCEPT !.lane[i] = [@ EXCEPT !.raw = q.raw, !.live = TRUE, !.left = q.left,
                                             !.active = TRUE],
                       !.offered[i] = [NoOffer EXCEPT !.raw = q.raw,
                                                      !.route = Route(s, q.raw.dest)]]

\* process_announce_queues for i.
QueueTurn(s, i) ==
    LET q == s.ifs[i].queue
        first == q[Selected(q)]
        out == Outcome(s, i)
        gone == Unqueued(s, i, first.raw)
    IN  IF \/ ~Up(s, i) \/ q = <<>> \/ s.ifs[i].gap > 0 \/ ~s.ifs[i].online
           \/ s.offered[i] # NoOffer
        THEN s
        ELSE IF \/ Route(s, first.raw.dest) \notin {0, first.raw.emitted}
                \/ ~Allows(s, i, first.raw)
        THEN gone
        ELSE IF i \in plan.lanes THEN Offered(s, i, first)
        ELSE IF out = "full" THEN s
        ELSE IF out = "sent"
        THEN [gone EXCEPT !.ifs[i].gap = SPACING, !.rest[i] = SPACING,
                          !.wrong = @ \cup (IF s.rest[i] > 0 THEN {"early"} ELSE {})]
        ELSE gone
Queues(s) == FoldLeft(QueueTurn, s, Order)

-----------------------------------------------------------------------------
(* Messages *)

Asks(kind) == kind \in plan.does /\ requests < plan.requests /\ requests' = requests + 1
Still == UNCHANGED <<plan, due, heard, faults>>

\* The race lasts for one step of the actor.
Becomes(s) == node' = [s EXCEPT !.race = FALSE]
\* handle_message ends with a look at the offers.
Handled(s) == Becomes(BackgroundStarts(s))

\* The packet of a request; requests that say the same may share it.
Packet(r) == [dest |-> "local", emitted |-> plan.packet[r]]

\* handle_announce_dispatch, to one interface or to all that allow it.
Dispatch(r, to) ==
    LET targets == {i \in to : Up(node, i) /\ (plan.attached \/ Allows(node, i, Packet(r)))}
        asked == [node EXCEPT !.reply[r] = "waiting"]
        sent == FoldLeft(LAMBDA acc, i : IF i \in targets
                                         THEN Admit(acc, ToGo(acc, i, Packet(r), 0, LIFETIME,
                                                              r, plan.attached))
                                         ELSE acc, asked, Order)
    IN  /\ node.reply[r] = "unasked"
        /\ Asks("dispatch")
        /\ plan.attached => Cardinality(to) = 1
        /\ ~plan.attached => to = Ifs
        /\ Becomes(IF targets = {} THEN Completed(asked, r, "nowhere") ELSE Abandoned(sent, r))
        /\ Still

\* broadcast_local_announce_on_interfaces: the same without an answer.
Publish ==
    LET raw == [dest |-> "local", emitted |-> 0]
        Each(acc, i) == IF Allows(acc, i, raw)
                        THEN Admit(acc, ToGo(acc, i, raw, 0, LIFETIME, NoReply, FALSE)) ELSE acc
    IN  /\ Asks("publish")
        /\ Handled(FoldLeft(Each, node, Order))
        /\ Still

\* The publisher no longer waits for its answer.
GiveUp(r) ==
    /\ "giveup" \in plan.does
    /\ node.reply[r] = "waiting"
    /\ node' = [node EXCEPT !.reply[r] = "gone"]
    /\ UNCHANGED requests /\ Still

\* An announce of d is heard on i, and becomes the path; those that searched for
\* d have it sent to them.
Hear(d, i, askers) ==
    LET raw == [dest |-> d, emitted |-> heard + 1]
        known == [node EXCEPT !.path[d] = [ver |-> heard + 1, via |-> i],
                              !.table[d] = IF node.on
                                           THEN [NoEntry EXCEPT !.kind = "normal", !.raw = raw]
                                           ELSE @]
        Each(acc, j) == IF j \in askers
                        THEN Admit(acc, ToGo(acc, j, raw, 0, LIFETIME, NoReply, TRUE)) ELSE acc
    IN  /\ heard < plan.announces /\ Up(node, i) /\ d \in plan.dests /\ i \notin plan.clients
        /\ askers \subseteq Ifs \ {i} /\ (askers # {} => "search" \in plan.does)
        /\ heard' = heard + 1
        /\ Handled(FoldLeft(Each, known, Order))
        /\ UNCHANGED <<plan, due, requests, faults>>

\* A path request for d on i, answered from the announce cache.
Respond(d, i) ==
    LET e == node.table[d]
    IN  /\ Asks("respond") /\ Up(node, i)
        /\ node.on /\ node.path[d] # NoPath
        /\ Handled([node EXCEPT
              !.held[d] = IF e = NoEntry THEN @ ELSE e,
              !.table[d] = [NoEntry EXCEPT !.kind = "cached", !.on = i, !.left = GATE, !.wait = 1,
                               !.raw = [dest |-> d, emitted |-> node.path[d].ver],
                               !.stamp = node.last.stamp + 1],
              !.last.stamp = @ + 1])
        /\ Still

\* cancel_background_announcements.
CancelBackground(s) ==
    LET told == BackgroundStarts(s)
        out == FoldLeft(LAMBDA acc, i : IF acc.offered[i] = NoOffer THEN acc ELSE Revoked(acc, i),
                        told, Order)
    IN  [out EXCEPT
            !.ifs = [i \in Ifs |-> [@[i] EXCEPT !.queue = <<>>]],
            !.table = [d \in Remotes |-> IF @[d].kind = "normal" THEN NoEntry ELSE @[d]],
            !.held = [d \in Remotes |-> NoEntry]]

SetTransport(on) ==
    /\ Asks("toggle")
    /\ Handled([IF on THEN node ELSE CancelBackground(node) EXCEPT !.on = on])
    /\ Still

\* DropAnnounceQueues.
DropQueues ==
    /\ Asks("drop")
    /\ Handled([node EXCEPT !.ifs = [i \in Ifs |-> [@[i] EXCEPT !.queue = <<>>]]])
    /\ Still

\* The local destination is deregistered, or registered again with another channel.
Deregister ==
    /\ Asks("register") /\ node.reg # 0
    /\ Handled([node EXCEPT !.reg = 0])
    /\ Still
Register ==
    /\ Asks("register")
    /\ Handled([node EXCEPT !.reg = node.last.reg + 1, !.last.reg = @ + 1])
    /\ Still

-----------------------------------------------------------------------------
(* Time, writers and faults *)

Less(n) == IF n = 0 THEN 0 ELSE n - 1
Aged(s) ==
    [s EXCEPT
        !.pend = [k \in DOMAIN @ |-> [@[k] EXCEPT !.left = Less(@)]],
        !.table = [d \in Remotes |-> [@[d] EXCEPT !.left = Less(@), !.wait = Less(@)]],
        !.held = [d \in Remotes |-> [@[d] EXCEPT !.left = Less(@), !.wait = Less(@)]],
        !.lane = [i \in Ifs |-> [@[i] EXCEPT !.left = Less(@)]],
        !.offered = [i \in Ifs |-> [@[i] EXCEPT !.since = IF s.offered[i].started /\ @ < SPACING
                                                          THEN @ + 1 ELSE @]],
        !.rest = [i \in Ifs |-> Less(@[i])],
        !.ifs = [i \in Ifs |-> [@[i] EXCEPT !.gap = Less(@),
                                  !.queue = [k \in DOMAIN @ |-> [@[k] EXCEPT !.left = Less(@)]]]]]

Pass ==
    /\ ~due /\ due' = TRUE
    /\ node' = Aged(node)
    /\ UNCHANGED <<plan, requests, heard, faults>>

\* on_tick, with the paths the cull finds expired.
Tick(lost) ==
    LET polled == PendingAnnounces(BackgroundStarts(node))
        swept == [polled EXCEPT !.path = [d \in Remotes |-> IF d \in lost THEN NoPath ELSE @[d]]]
    IN  /\ due /\ due' = FALSE
        /\ lost # {} => "expire" \in plan.kinds /\ faults < plan.faults
        /\ faults' = faults + Cardinality(lost)
        /\ lost \subseteq {d \in Remotes : node.path[d] # NoPath}
        /\ Becomes(Queues(Culled(AnnounceJob(swept))))
        /\ UNCHANGED <<plan, requests, heard>>

\* The writer starts what it is offered, and is done with it.
Begin(i) ==
    /\ i \in plan.lanes /\ Startable(node, i)
    /\ node' = [Begun(node, i) EXCEPT !.offered[i].started = TRUE]
    /\ UNCHANGED requests /\ Still
End(i) ==
    /\ node.lane[i].active /\ node.lane[i].raw = NoRaw
    /\ node' = [node EXCEPT !.lane[i].active = FALSE]
    /\ UNCHANGED requests /\ Still

Fault(kind) ==
    /\ kind \in plan.kinds /\ faults < plan.faults
    /\ faults' = faults + 1
    /\ UNCHANGED <<plan, due, requests, heard>>

\* retire_generation: the carrier has reconnected.
Reconnect(i) ==
    /\ i \in plan.lanes /\ node.lane[i].raw # NoRaw
    /\ Fault("reconnect")
    /\ node' = [node EXCEPT !.lane[i] = EmptyLane]

\* A writer is about to start its offer as the actor looks at it.
Race ==
    /\ ~node.race /\ \E i \in plan.lanes : Startable(node, i)
    /\ Fault("race")
    /\ node' = [node EXCEPT !.race = TRUE]

Congest(i) ==
    /\ Up(node, i) /\ ~node.ifs[i].full
    /\ Fault("full")
    /\ node' = [node EXCEPT !.ifs[i].full = TRUE]
Drain(i) ==
    /\ node.ifs[i].full
    /\ node' = [node EXCEPT !.ifs[i].full = FALSE]
    /\ UNCHANGED <<plan, due, requests, heard, faults>>

Toggle(i) ==
    /\ Up(node, i) /\ Fault("offline")
    /\ node' = [node EXCEPT !.ifs[i].online = ~@]

CloseDriver(i) ==
    /\ Up(node, i) /\ node.ifs[i].open /\ Fault("close")
    /\ node' = [node EXCEPT !.ifs[i].open = FALSE]

\* The runtime takes an interface out, or registers it (again) with a new driver.
DeregisterInterface(i) ==
    /\ Up(node, i) /\ Fault("remove")
    /\ Handled(Deregistered(node, i))
RegisterInterface(i) ==
    /\ Fault("replace")
    /\ Handled([Retired(node, i) EXCEPT
          !.ifs[i] = [Start.ifs[i] EXCEPT !.gen = node.last.gen + 1],
          !.lane[i] = EmptyLane, !.rest[i] = 0,
          !.last.gen = @ + 1])

Next ==
    \/ \E r \in Requests : GiveUp(r) \/ \E to \in SUBSET Ifs : Dispatch(r, to)
    \/ Publish \/ DropQueues \/ Deregister \/ Register \/ Pass \/ Race
    \/ \E d \in Remotes, i \in Ifs : Respond(d, i) \/ \E to \in SUBSET Ifs : Hear(d, i, to)
    \/ \E on \in BOOLEAN : SetTransport(on)
    \/ \E lost \in SUBSET Remotes : Tick(lost)
    \/ \E i \in Ifs : \/ Begin(i) \/ End(i) \/ Reconnect(i) \/ Congest(i) \/ Drain(i)
                      \/ Toggle(i) \/ CloseDriver(i) \/ DeregisterInterface(i)
                      \/ RegisterInterface(i)

Spec == Init /\ [][Next]_vars

-----------------------------------------------------------------------------
(* Properties *)

Raws == [dest : Remotes \cup {"local", "none"}, emitted : Nat]
TypeOK ==
    /\ \A p \in Range(node.pend) : p.on \in Ifs /\ p.raw \in Raws /\ p.left \in 0 .. LIFETIME + GATE
    /\ Len(node.pend) <= MAX_PENDING
    /\ \A i \in Ifs : /\ node.ifs[i].gap \in 0 .. SPACING
                      /\ Len(node.ifs[i].queue) <= MAX_QUEUED_ANNOUNCES
                      /\ node.lane[i].raw \in Raws
    /\ node.reply \in [Requests -> {"unasked", "waiting", "gone", "admitted", "expired", "nowhere"}]

\* The publisher of an announce always has an answer to come: as long as it
\* waits, the announce is retained for some interface.  It is told that the
\* announce was admitted only when an interface has taken it, and nothing that
\* was retained is handed to a driver after its time, to another driver than
\* the one it waited for, twice, or when its destination or route is no longer
\* the one it was made for (announce_admission.rs).
DispatchesAnswered ==
    /\ TypeOK
    /\ \A r \in Requests :
          /\ node.reply[r] = "waiting" => \E p \in Range(node.pend) : p.reply = r
          /\ node.reply[r] = "admitted" => node.took[r] # {}
          /\ node.reply[r] = "nowhere" => node.took[r] = {}
    /\ node.wrong \subseteq {"early"}

\* Whatever a writer may start from its lane, the actor has on record as offered,
\* on a node that relays and whose queue was not emptied, and its destination has
\* not been heard of anew; and announces leave an interface no closer together
\* than its announce cap allows (process_background_starts and
\* process_announce_queues), but for a start that the actor was just taking back.
RelaysSpaced ==
    /\ \A i \in Ifs : Startable(node, i) =>
          LET raw == node.lane[i].raw
          IN  /\ node.on
              /\ node.offered[i].raw = raw /\ ~node.offered[i].started
              /\ node.ifs[i].queue # <<>>
              /\ Route(node, raw.dest) \in {0, raw.emitted}
    /\ "early" \notin node.wrong

\* Announces are admitted, answered and spaced as promised.
AnnouncesSound == DispatchesAnswered /\ RelaysSpaced

=============================================================================
