------------------------- MODULE ResourceSegments --------------------------
(***************************************************************************)
(* The Resources of one Link, as the LinkManager at each end of it owns    *)
(* them (crates/rns-runtime/src/link_manager.rs): a Resource that does not *)
(* fit one transfer is sent in segments, the next one advertised when the  *)
(* proof of the last one arrives; the receiver keeps a lifecycle for the   *)
(* whole Resource, and a coordinator, a route and an inter-segment         *)
(* deadline for a split one.                                               *)
(*                                                                         *)
(* The transfer of one segment is ResourceTransfer's; here it is its       *)
(* outcome: a segment both ends have at hand is served, and a segment that *)
(* was served can complete at the receiver.  The network is that of        *)
(* ResourceTransfer.                                                       *)
(***************************************************************************)
EXTENDS Integers, Sequences, FiniteSets

CONSTANT Instances      \* the Resources considered

\* An instance: how many segments each Resource is split in, MAX_ADV_RETRIES,
\* and how often an inbound Resource may start (a bound).
SegmentsAssumption ==
    \A x \in Instances :
        /\ x.segments \in [DOMAIN x.segments -> Nat \ {0}]
        /\ x.adv_retries \in Nat
        /\ x.starts \in Nat \ {0}

VARIABLE instance       \* chosen at the start, the same ever after

Segments == instance.segments
Resources == DOMAIN Segments
AllResources == UNION {DOMAIN x.segments : x \in Instances}
MAX_ADV_RETRIES == instance.adv_retries
MaxStarts == instance.starts

VARIABLES
    outbound_resources,     \* the segment being sent of each Resource, or 0
    outbound_split_queues,  \* the segments still to send, in order
    retries,                \* advertisements repeated for that segment
    out_events,             \* what the sender was told about each Resource
    inbound_resources,      \* the segments being received
    segment_routing,        \* those of them that belong to a split Resource
    inbound_split_resources,    \* the segments each coordinator has assembled
    lifecycles,             \* active_inbound_lifecycles: current_segment (or 0)
                            \* and whether the inter-segment deadline is set
    in_events,              \* what the receiver was told about each Resource
    completions,            \* how often each was handed to the receiver
    links,                  \* the ends that still have the Link
    advs, served, proofs, icls, rcls    \* what the network may deliver

sender == <<outbound_resources, outbound_split_queues, retries, out_events>>
receiver == <<inbound_resources, segment_routing, inbound_split_resources,
              lifecycles, in_events, completions>>
network == <<advs, served, proofs, icls, rcls>>
system == <<sender, receiver, links, network>>
vars == <<instance, system>>

split(r) == Segments[r] > 1
SegmentIds == UNION {{r} \X (1 .. Segments[r]) : r \in Resources}

\* "complete" when the Resource was delivered or proved, "failed" for every
\* other conclusion.
Event == {"started", "complete", "failed"}
Told(events, r, e) == [events EXCEPT ![r] = Append(@, e)]

\* Hash maps: functions on the keys that are present.
Put(map, k, v) ==
    [x \in DOMAIN map \union {k} |-> IF x = k THEN v ELSE map[x]]
Remove(map, k) == [x \in DOMAIN map \ {k} |-> map[x]]

Init ==
    /\ instance \in Instances
    /\ outbound_resources = [r \in Resources |-> 0]
    /\ outbound_split_queues = [r \in Resources |-> <<>>]
    /\ retries = [r \in Resources |-> 0]
    /\ out_events = [r \in Resources |-> <<>>]
    /\ inbound_resources = {}
    /\ segment_routing = {}
    /\ inbound_split_resources = <<>>
    /\ lifecycles = <<>>
    /\ in_events = [r \in Resources |-> <<>>]
    /\ completions = [r \in Resources |-> 0]
    /\ links = {"sender", "receiver"}
    /\ advs = [i \in SegmentIds |-> 0]
    /\ served = {}
    /\ proofs = {}
    /\ icls = {}
    /\ rcls = {}

-----------------------------------------------------------------------------
(* The sender.                                                             *)

\* start_outbound_transfer, when its advertisement can be queued.
Advertise(r, s) ==
    /\ outbound_resources' = [outbound_resources EXCEPT ![r] = s]
    /\ retries' = [retries EXCEPT ![r] = 0]
    /\ advs' = [advs EXCEPT ![<<r, s>>] = @ + 1]

DropOutbound(r) ==
    /\ outbound_resources' = [outbound_resources EXCEPT ![r] = 0]
    /\ outbound_split_queues' = [outbound_split_queues EXCEPT ![r] = <<>>]
    /\ UNCHANGED retries

\* send_link_resource.
SendResource(r) ==
    /\ "sender" \in links
    /\ out_events[r] = <<>>
    /\ Advertise(r, 1)
    /\ outbound_split_queues' = [outbound_split_queues EXCEPT
                                   ![r] = [i \in 1 .. Segments[r] - 1 |-> i + 1]]
    /\ out_events' = Told(out_events, r, "started")
    /\ UNCHANGED <<receiver, links, served, proofs, icls, rcls>>

\* The watchdog of the segment being sent: another advertisement while none
\* was answered, or the end of the whole Resource.
Readvertises(r) ==
    /\ <<r, outbound_resources[r]>> \notin served
    /\ retries[r] < MAX_ADV_RETRIES
OutboundTimeout(r) ==
    /\ "sender" \in links
    /\ outbound_resources[r] # 0
    /\ \/ /\ Readvertises(r)
          /\ retries' = [retries EXCEPT ![r] = @ + 1]
          /\ advs' = [advs EXCEPT ![<<r, outbound_resources[r]>>] = @ + 1]
          /\ UNCHANGED <<outbound_resources, outbound_split_queues, out_events>>
       \/ /\ ~Readvertises(r)
          /\ DropOutbound(r)
          /\ out_events' = Told(out_events, r, "failed")
          /\ UNCHANGED advs
    /\ UNCHANGED <<receiver, links, served, proofs, icls, rcls>>

\* The requests of the receiver are answered.
Serve(r, s) ==
    /\ links = {"sender", "receiver"}
    /\ outbound_resources[r] = s
    /\ <<r, s>> \in inbound_resources
    /\ <<r, s>> \notin served
    /\ served' = served \union {<<r, s>>}
    /\ UNCHANGED <<sender, receiver, links, advs, proofs, icls, rcls>>

\* RESOURCE_PRF: the next segment is advertised, the Resource fails when that
\* cannot be queued, and is complete when there is none.
ReceiveProof(r, s, retained) ==
    /\ "sender" \in links
    /\ <<r, s>> \in proofs
    /\ outbound_resources[r] = s
    /\ IF outbound_split_queues[r] = <<>>
       THEN /\ DropOutbound(r)
            /\ out_events' = Told(out_events, r, "complete")
            /\ UNCHANGED advs
       ELSE IF retained
       THEN /\ Advertise(r, Head(outbound_split_queues[r]))
            /\ outbound_split_queues' = [outbound_split_queues EXCEPT
                                            ![r] = Tail(@)]
            /\ UNCHANGED out_events
       ELSE /\ DropOutbound(r)
            /\ out_events' = Told(out_events, r, "failed")
            /\ UNCHANGED advs
    /\ UNCHANGED <<receiver, links, served, proofs, icls, rcls>>

ReceiveRcl(r, s) ==
    /\ "sender" \in links
    /\ <<r, s>> \in rcls
    /\ outbound_resources[r] = s
    /\ rcls' = rcls \ {<<r, s>>}
    /\ DropOutbound(r)
    /\ out_events' = Told(out_events, r, "failed")
    /\ UNCHANGED <<receiver, links, advs, served, proofs, icls>>

\* cancel_link_resource at the sender.
CancelOutbound(r) ==
    /\ "sender" \in links
    /\ outbound_resources[r] # 0
    /\ icls' = icls \union {<<r, outbound_resources[r]>>}
    /\ DropOutbound(r)
    /\ out_events' = Told(out_events, r, "failed")
    /\ UNCHANGED <<receiver, links, advs, served, proofs, rcls>>

\* close_active_link at the sender.
CloseAtSender ==
    LET active == {r \in Resources : outbound_resources[r] # 0}
    IN  /\ "sender" \in links
        /\ links' = links \ {"sender"}
        /\ outbound_resources' = [r \in Resources |-> 0]
        /\ outbound_split_queues' = [r \in Resources |-> <<>>]
        /\ out_events' = [r \in Resources |->
                            IF r \in active THEN Append(out_events[r], "failed")
                            ELSE out_events[r]]
        /\ UNCHANGED <<retries, receiver, network>>

-----------------------------------------------------------------------------
(* The receiver.                                                           *)

live(r) == r \in DOMAIN lifecycles

\* drop_inbound_logical.
DropInboundSegmentOnly(r) ==
    /\ inbound_resources' = {i \in inbound_resources : i[1] # r}
    /\ segment_routing' = {i \in segment_routing : i[1] # r}
    /\ UNCHANGED inbound_split_resources
DropInboundLogical(r) ==
    /\ inbound_resources' = {i \in inbound_resources : i[1] # r}
    /\ segment_routing' = {i \in segment_routing : i[1] # r}
    /\ inbound_split_resources' = Remove(inbound_split_resources, r)

\* claim_inbound_terminal and the event that goes with it: one per lifecycle.
Conclude(r, e) ==
    /\ lifecycles' = Remove(lifecycles, r)
    /\ in_events' = IF live(r) THEN Told(in_events, r, e) ELSE in_events

\* conclude_inbound_failure.
ConcludeInboundFailure(r) ==
    /\ DropInboundLogical(r)
    /\ Conclude(r, "failed")
    /\ UNCHANGED completions

\* The advertised segment is the one the lifecycle expects.
Continues(r, s) ==
    /\ lifecycles[r].current_segment = 0
    /\ r \in DOMAIN inbound_split_resources
    /\ s = Cardinality(inbound_split_resources[r]) + 1

\* reject_inbound_advertisement: the peer is told only about a transfer that
\* had begun.
Reject(r, s) ==
    /\ rcls' = IF live(r) THEN rcls \union {<<r, s>>} ELSE rcls
    /\ ConcludeInboundFailure(r)

\* The lifecycle, coordinator and route of a segment that was admitted.
Admit(r, s) ==
    /\ inbound_resources' = inbound_resources \union {<<r, s>>}
    /\ lifecycles' = Put(lifecycles, r,
                         [current_segment |-> s, deadline |-> FALSE])
    /\ in_events' = IF live(r) THEN in_events ELSE Told(in_events, r, "started")
    /\ IF split(r)
       THEN /\ segment_routing' = segment_routing \union {<<r, s>>}
            /\ inbound_split_resources' =
                 IF r \in DOMAIN inbound_split_resources
                 THEN inbound_split_resources
                 ELSE Put(inbound_split_resources, r, {})
       ELSE UNCHANGED <<segment_routing, inbound_split_resources>>
    /\ UNCHANGED completions

\* The first request cannot be queued: started and concluded at once, or the
\* transfer so far is given up.
AdmitFails(r) ==
    /\ DropInboundLogical(r)
    /\ lifecycles' = Remove(lifecycles, r)
    /\ in_events' = IF live(r) THEN Told(in_events, r, "failed")
                    ELSE Told(Told(in_events, r, "started"), r, "failed")
    /\ UNCHANGED completions

\* RESOURCE_ADV.  `answer` is what policy and resources make of an
\* advertisement that passes the checks: "drop" when policy takes none or the
\* sizes are refused, "refuse" when the application says no, "unsent" when
\* the first request cannot be queued.
ReceiveAdvertisement(r, s, answer) ==
    /\ "receiver" \in links
    /\ advs[<<r, s>>] > 0
    /\ advs' = [advs EXCEPT ![<<r, s>>] = @ - 1]
    /\ IF <<r, s>> \in inbound_resources
       THEN IF live(r) /\ lifecycles[r].current_segment = s
            THEN UNCHANGED <<receiver, rcls>>
            ELSE Reject(r, s)
       ELSE IF (IF live(r) THEN ~Continues(r, s) ELSE split(r) /\ s # 1)
       THEN Reject(r, s)
       ELSE CASE answer = "drop" ->
                   IF live(r) THEN Reject(r, s) ELSE UNCHANGED <<receiver, rcls>>
              [] answer = "refuse" ->
                   /\ rcls' = rcls \union {<<r, s>>}
                   /\ IF live(r) THEN ConcludeInboundFailure(r)
                      ELSE UNCHANGED receiver
              [] answer = "unsent" -> AdmitFails(r) /\ UNCHANGED rcls
              [] answer = "take" -> Admit(r, s) /\ UNCHANGED rcls
    /\ UNCHANGED <<sender, links, served, proofs, icls>>

\* The last part of a segment arrived and its content is right: it is proved
\* first, then either the Resource is complete or its coordinator waits for
\* the next segment, for a limited time.
Assemble(r, s) ==
    /\ inbound_split_resources' = [inbound_split_resources EXCEPT
                                     ![r] = @ \union {s}]
    /\ inbound_resources' = inbound_resources \ {<<r, s>>}
    /\ segment_routing' = segment_routing \ {<<r, s>>}
    /\ lifecycles' = IF live(r)
                     THEN [lifecycles EXCEPT
                             ![r] = [current_segment |-> 0, deadline |-> TRUE]]
                     ELSE lifecycles
    /\ UNCHANGED <<in_events, completions>>

\* is_complete of the coordinator, once segment s is in it.
IsComplete(r, s) == inbound_split_resources[r] \union {s} = 1 .. Segments[r]

Deliver(r) ==
    /\ DropInboundLogical(r)
    /\ Conclude(r, "complete")
    /\ completions' = IF live(r) THEN [completions EXCEPT ![r] = @ + 1]
                      ELSE completions

SegmentComplete(r, s) ==
    /\ proofs' = proofs \union {<<r, s>>}
    /\ IF <<r, s>> \notin segment_routing THEN Deliver(r)
       ELSE IF \/ r \notin DOMAIN inbound_split_resources
               \/ s \in inbound_split_resources[r]
       THEN ConcludeInboundFailure(r)
       ELSE IF IsComplete(r, s) THEN Deliver(r)
       ELSE Assemble(r, s)

ReceiveLastPart(r, s, verdict) ==
    /\ "receiver" \in links
    /\ <<r, s>> \in inbound_resources
    /\ <<r, s>> \in served
    /\ CASE verdict = "intact"   -> SegmentComplete(r, s) /\ UNCHANGED rcls
         [] verdict = "unproved" ->
              ConcludeInboundFailure(r) /\ UNCHANGED <<proofs, rcls>>
         [] verdict = "corrupt"  ->
              /\ rcls' = rcls \union {<<r, s>>}
              /\ ConcludeInboundFailure(r)
              /\ UNCHANGED proofs
    /\ UNCHANGED <<sender, links, advs, served, icls>>

\* The watchdog of a segment has used up its retries.
InboundTimeout(r, s) ==
    /\ "receiver" \in links
    /\ <<r, s>> \in inbound_resources
    /\ ConcludeInboundFailure(r)
    /\ UNCHANGED <<sender, links, network>>

\* The inter-segment deadline has passed.
SplitDeadlineWhileReceiving(r) ==
    /\ "receiver" \in links
    /\ live(r) /\ lifecycles[r].deadline /\ lifecycles[r].current_segment # 0
    /\ ConcludeInboundFailure(r)
    /\ UNCHANGED <<sender, links, network>>
SplitDeadline(r) ==
    /\ "receiver" \in links
    /\ live(r) /\ lifecycles[r].deadline
    /\ ConcludeInboundFailure(r)
    /\ UNCHANGED <<sender, links, network>>

\* RESOURCE_HMU that does not continue the map.
ReceiveBadHmu(r, s) ==
    /\ "receiver" \in links
    /\ <<r, s>> \in inbound_resources
    /\ rcls' = rcls \union {<<r, s>>}
    /\ ConcludeInboundFailure(r)
    /\ UNCHANGED <<sender, links, advs, served, proofs, icls>>

\* RESOURCE_ICL: it names a segment, so between two segments it is nobody's.
ReceiveIcl(r, s) ==
    /\ "receiver" \in links
    /\ <<r, s>> \in icls
    /\ <<r, s>> \in inbound_resources \/ (live(r) /\ ~split(r))
    /\ icls' = icls \ {<<r, s>>}
    /\ ConcludeInboundFailure(r)
    /\ UNCHANGED <<sender, links, advs, served, proofs, rcls>>

\* cancel_link_resource at the receiver.
CancelInbound(r) ==
    /\ "receiver" \in links
    /\ live(r)
    /\ rcls' = rcls \union {i \in inbound_resources : i[1] = r}
    /\ ConcludeInboundFailure(r)
    /\ UNCHANGED <<sender, links, advs, served, proofs, icls>>

\* close_active_link at the receiver.
CloseAtReceiver ==
    /\ "receiver" \in links
    /\ links' = links \ {"receiver"}
    /\ inbound_resources' = {}
    /\ segment_routing' = {}
    /\ inbound_split_resources' = <<>>
    /\ lifecycles' = <<>>
    /\ in_events' = [r \in Resources |->
                       IF live(r) THEN Append(in_events[r], "failed")
                       ELSE in_events[r]]
    /\ UNCHANGED <<completions, sender, network>>

-----------------------------------------------------------------------------
Answers == {"take", "drop", "refuse", "unsent"}
Verdicts == {"intact", "unproved", "corrupt"}

Starts(r) == Cardinality({i \in DOMAIN in_events[r] : in_events[r][i] = "started"})

ReceiveAnyAdvertisement(r, s) ==
    \E answer \in Answers :
        /\ answer \in {"take", "unsent"} => Starts(r) < MaxStarts \/ live(r)
        /\ ReceiveAdvertisement(r, s, answer)

Same == UNCHANGED instance

Next ==
    \/ \E r \in Resources : SendResource(r) /\ Same
    \/ \E r \in Resources : OutboundTimeout(r) /\ Same
    \/ \E r \in Resources : CancelOutbound(r) /\ Same
    \/ CloseAtSender /\ Same
    \/ \E r \in Resources : SplitDeadline(r) /\ Same
    \/ \E r \in Resources : CancelInbound(r) /\ Same
    \/ CloseAtReceiver /\ Same
    \/ \E i \in SegmentIds : ReceiveAnyAdvertisement(i[1], i[2]) /\ Same
    \/ \E i \in SegmentIds : Serve(i[1], i[2]) /\ Same
    \/ \E i \in SegmentIds :
         \E verdict \in Verdicts : ReceiveLastPart(i[1], i[2], verdict) /\ Same
    \/ \E i \in SegmentIds :
         \E retained \in BOOLEAN : ReceiveProof(i[1], i[2], retained) /\ Same
    \/ \E i \in SegmentIds : InboundTimeout(i[1], i[2]) /\ Same
    \/ \E i \in SegmentIds : ReceiveBadHmu(i[1], i[2]) /\ Same
    \/ \E i \in SegmentIds : ReceiveIcl(i[1], i[2]) /\ Same
    \/ \E i \in SegmentIds : ReceiveRcl(i[1], i[2]) /\ Same

Spec == Init /\ [][Next]_vars

\* The LinkManager's tick polls the watchdogs and deadlines of every Link.
InboundTimeoutOf(r) == \E i \in SegmentIds : i[1] = r /\ InboundTimeout(i[1], i[2])
Watchdogs ==
    /\ \A r \in AllResources :
          /\ WF_system(r \in Resources /\ OutboundTimeout(r))
          /\ WF_system(r \in Resources /\ SplitDeadline(r))
          /\ WF_system(InboundTimeoutOf(r))

TimedSpec == Spec /\ Watchdogs

-----------------------------------------------------------------------------
TypeOK ==
    /\ \A r \in Resources : outbound_resources[r] \in 0 .. Segments[r]
    /\ \A r \in Resources : outbound_split_queues[r] \in Seq(1 .. Segments[r])
    /\ retries \in [Resources -> 0 .. MAX_ADV_RETRIES]
    /\ \A r \in Resources : out_events[r] \in Seq(Event)
    /\ inbound_resources \subseteq SegmentIds
    /\ segment_routing \subseteq SegmentIds
    /\ DOMAIN inbound_split_resources \subseteq Resources
    /\ \A r \in DOMAIN inbound_split_resources :
          inbound_split_resources[r] \subseteq 1 .. Segments[r]
    /\ DOMAIN lifecycles \subseteq Resources
    /\ \A r \in DOMAIN lifecycles :
          lifecycles[r] \in [current_segment : 0 .. Segments[r],
                             deadline : BOOLEAN]
    /\ \A r \in Resources : in_events[r] \in Seq(Event)
    /\ completions \in [Resources -> Nat]
    /\ links \subseteq {"sender", "receiver"}
    /\ advs \in [SegmentIds -> Nat]
    /\ served \subseteq SegmentIds /\ proofs \subseteq SegmentIds
    /\ icls \subseteq SegmentIds /\ rcls \subseteq SegmentIds

\* "Once an application accepts a first segment, every later removal is paired
\* with one terminal accounting event": the receiver hears of starts and
\* conclusions in turn, and holds a lifecycle exactly between the two.
InboundPaired ==
    \A r \in Resources :
        /\ \A i \in DOMAIN in_events[r] :
              (in_events[r][i] = "started") <=> (i % 2 = 1)
        /\ live(r) <=> Len(in_events[r]) % 2 = 1

\* The sender hears of one conclusion per Resource, and owns a segment of it
\* exactly until then: a conclusion never leaves a queue of later segments
\* behind, and no proof of an early segment concludes the whole.
OutboundPaired ==
    \A r \in Resources :
        /\ Len(out_events[r]) <= 2
        /\ (outbound_resources[r] # 0) <=> (out_events[r] = <<"started">>)
        /\ outbound_resources[r] = 0 => outbound_split_queues[r] = <<>>

\* A segment being received, a route and a coordinator belong to a lifecycle
\* that knows them; a conclusion orphans none of them.
NoOrphans ==
    /\ \A i \in inbound_resources :
          live(i[1]) /\ lifecycles[i[1]].current_segment = i[2]
    /\ segment_routing \subseteq inbound_resources
    /\ DOMAIN inbound_split_resources \subseteq DOMAIN lifecycles

\* A lifecycle is always watched: by the watchdog of the segment it receives
\* or by its inter-segment deadline.
LifecycleWatched ==
    \A r \in DOMAIN lifecycles :
        \/ <<r, lifecycles[r].current_segment>> \in inbound_resources
        \/ lifecycles[r].deadline

\* Segments are assembled in order, each once, whatever advertisements arrive
\* late or again.
AssembledInOrder ==
    \A r \in DOMAIN inbound_split_resources :
        inbound_split_resources[r]
            = 1 .. Cardinality(inbound_split_resources[r])

\* The sender hears that a Resource is complete only if the receiver was given
\* all of it.
CompleteMeansDelivered ==
    \A r \in Resources :
        out_events[r] = <<"started", "complete">> => completions[r] > 0

\* With ticks that keep coming every Resource concludes at both ends, unless
\* the Link closes, which concludes it as well.
Sending(r) == r \in Resources /\ outbound_resources[r] # 0
AllConclude ==
    \A r \in AllResources : []<>(~live(r)) /\ []<>(~Sending(r))

\* Every start of a Resource is told to the application and concluded once, at
\* either end.
EventsPaired == TypeOK /\ InboundPaired /\ OutboundPaired

\* What a lifecycle holds goes with it, and while it lives something ends it.
LifecyclesOwned == NoOrphans /\ LifecycleWatched

\* The account both ends keep of the segments of a Resource is exact.
SegmentsSound == EventsPaired /\ LifecyclesOwned /\ AssembledInOrder /\ CompleteMeansDelivered
=============================================================================
