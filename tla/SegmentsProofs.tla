--------------------------- MODULE SegmentsProofs ---------------------------
(***************************************************************************)
(* Proofs about ResourceSegments, for any number of Resources in any       *)
(* number of segments and every order of advertisements, proofs, timeouts, *)
(* cancellations and closings: what either end is told is paired, nothing  *)
(* of a Resource outlives its lifecycle, and success at the sender is      *)
(* delivery at the receiver.                                               *)
(***************************************************************************)
EXTENDS ResourceSegments, TLAPS

-----------------------------------------------------------------------------

(* The invariant, Resource by Resource *)

\* Starts and conclusions alternate.
Alternates(events) ==
    /\ events \in Seq(Event)
    /\ \A i \in DOMAIN events : (events[i] = "started") <=> (i % 2 = 1)

\* The segments after s.
Later(r, s) == [i \in 1 .. Segments[r] - s |-> s + i]

\* The sender owns a segment and the queue of the later ones, from the start to
\* the conclusion.
Outbound(r) ==
    /\ outbound_resources[r] \in 0 .. Segments[r]
    /\ retries[r] \in 0 .. MAX_ADV_RETRIES
    /\ out_events[r] \in {<<>>, <<"started">>, <<"started", "complete">>, <<"started", "failed">>}
    /\ (outbound_resources[r] # 0) <=> (out_events[r] = <<"started">>)
    /\ outbound_split_queues[r] =
         IF outbound_resources[r] = 0 THEN <<>>
         ELSE Later(r, outbound_resources[r])

\* A lifecycle between a start and its conclusion, watched by the watchdog of
\* its segment or by its deadline.
Lifecycle(r) ==
    /\ Alternates(in_events[r])
    /\ live(r) <=> Len(in_events[r]) % 2 = 1
    /\ live(r) =>
         /\ lifecycles[r] \in [current_segment : 0 .. Segments[r], deadline : BOOLEAN]
         /\ \/ <<r, lifecycles[r].current_segment>> \in inbound_resources
            \/ lifecycles[r].deadline

\* The segment being received is the one the lifecycle knows and, of a split
\* Resource, the one after those its coordinator has.
Inbound(r) ==
    /\ \A s \in 1 .. Segments[r] :
          <<r, s>> \in inbound_resources =>
             /\ live(r) /\ lifecycles[r].current_segment = s
             /\ <<r, s>> \in segment_routing <=> split(r)
             /\ split(r) => /\ r \in DOMAIN inbound_split_resources
                            /\ inbound_split_resources[r] = 1 .. s - 1
    /\ r \in DOMAIN inbound_split_resources =>
          /\ live(r) /\ split(r)
          /\ \E n \in 0 .. Segments[r] - 1 : inbound_split_resources[r] = 1 .. n

\* The last segment is proved when, and only when, the Resource is handed over.
Handed(r) ==
    /\ completions[r] \in Nat
    /\ <<r, Segments[r]>> \in proofs => completions[r] > 0
    /\ out_events[r] = <<"started", "complete">> => completions[r] > 0

\* The functions are functions and what the network holds is about segments.
SenderShapes ==
    /\ outbound_resources = [r \in Resources |-> outbound_resources[r]]
    /\ outbound_split_queues = [r \in Resources |-> outbound_split_queues[r]]
    /\ retries = [r \in Resources |-> retries[r]]
    /\ out_events = [r \in Resources |-> out_events[r]]

ReceiverShapes ==
    /\ in_events = [r \in Resources |-> in_events[r]]
    /\ completions = [r \in Resources |-> completions[r]]
    /\ lifecycles = [r \in DOMAIN lifecycles |-> lifecycles[r]]
    /\ inbound_split_resources =
         [r \in DOMAIN inbound_split_resources |-> inbound_split_resources[r]]
    /\ DOMAIN lifecycles \subseteq Resources
    /\ DOMAIN inbound_split_resources \subseteq Resources
    /\ inbound_resources \subseteq SegmentIds
    /\ segment_routing \subseteq inbound_resources

NetworkShapes ==
    /\ links \subseteq {"sender", "receiver"}
    /\ advs \in [SegmentIds -> Nat]
    /\ served \subseteq SegmentIds /\ proofs \subseteq SegmentIds
    /\ icls \subseteq SegmentIds /\ rcls \subseteq SegmentIds

SenderInv == SenderShapes /\ \A r \in Resources : Outbound(r)
ReceiverInv == ReceiverShapes /\ \A r \in Resources : Lifecycle(r) /\ Inbound(r)
HandedInv == \A r \in Resources : Handed(r)

SegmentsInv == instance \in Instances /\ NetworkShapes /\ SenderInv /\ ReceiverInv /\ HandedInv

-----------------------------------------------------------------------------

(* Numbers, events and names *)

\* The events of a Resource that was concluded, started, or both.
LEMMA Concluded ==
  ASSUME NEW events, Alternates(events), Len(events) % 2 = 1, NEW e \in {"complete", "failed"}
  PROVE  Alternates(Append(events, e)) /\ Len(Append(events, e)) % 2 = 0
<1>1. events \in Seq(Event) /\ e \in Event /\ e # "started" BY Zenon DEF Alternates, Event
<1>2. /\ Append(events, e) \in Seq(Event) /\ Len(Append(events, e)) = Len(events) + 1
      /\ Append(events, e)[Len(events) + 1] = e
      /\ \A i \in 1 .. Len(events) : Append(events, e)[i] = events[i]
  BY <1>1
<1>3. Len(events) \in Nat /\ (Len(events) + 1) % 2 = 0 BY <1>1
<1>4. \A i \in 1 .. Len(events) : (events[i] = "started") <=> (i % 2 = 1) BY <1>1 DEF Alternates
<1> QED BY <1>1, <1>2, <1>3, <1>4 DEF Alternates

LEMMA StartedEvents ==
  ASSUME NEW events, Alternates(events), Len(events) % 2 = 0
  PROVE  Alternates(Append(events, "started")) /\ Len(Append(events, "started")) % 2 = 1
<1> DEFINE e == "started"
<1>1. events \in Seq(Event) /\ e \in Event BY Zenon DEF Alternates, Event
<1>2. /\ Append(events, e) \in Seq(Event) /\ Len(Append(events, e)) = Len(events) + 1
      /\ Append(events, e)[Len(events) + 1] = e
      /\ \A i \in 1 .. Len(events) : Append(events, e)[i] = events[i]
  BY <1>1
<1>3. Len(events) \in Nat /\ (Len(events) + 1) % 2 = 1 BY <1>1
<1>4. \A i \in 1 .. Len(events) : (events[i] = "started") <=> (i % 2 = 1) BY <1>1 DEF Alternates
<1> QED BY <1>1, <1>2, <1>3, <1>4 DEF Alternates

LEMMA Even ==
  ASSUME NEW events, Alternates(events), Len(events) % 2 # 1
  PROVE  Len(events) % 2 = 0
<1>1. Len(events) \in Nat BY DEF Alternates
<1> QED BY <1>1

\* The only events of a Resource at the sender.
LEMMA Pair ==
  ASSUME NEW e
  PROVE  Append(<<"started">>, e) = <<"started", e>>
<1> DEFINE s == Append(<<"started">>, e)
           t == <<"started", e>>
<1>1. <<"started">> \in Seq({"started", e}) /\ Len(<<"started">>) = 1 OBVIOUS
<1>2. s \in Seq({"started", e}) /\ Len(s) = 2 /\ s[1] = "started" /\ s[2] = e BY <1>1
<1>3. s = [i \in 1 .. 2 |-> s[i]] BY <1>2
<1>4. t = [i \in 1 .. 2 |-> t[i]] OBVIOUS
<1>5. t[1] = "started" /\ t[2] = e /\ \A i \in 1 .. 2 : i = 1 \/ i = 2 OBVIOUS
<1> HIDE DEF s, t
<1>6. \A i \in 1 .. 2 : s[i] = t[i] BY <1>2, <1>5, Zenon
<1>7. s = t BY <1>3, <1>4, <1>6, Zenon
<1> QED BY <1>7, Zenon DEF s, t

LEMMA SegmentNames ==
  ASSUME NEW i
  PROVE  i \in SegmentIds <=>
           \E r \in Resources : \E s \in 1 .. Segments[r] : i = <<r, s>>
BY DEF SegmentIds

LEMMA InstanceFacts ==
  ASSUME SegmentsAssumption, instance \in Instances
  PROVE  /\ \A r \in Resources : Segments[r] \in Nat /\ Segments[r] >= 1
         /\ MAX_ADV_RETRIES \in Nat
BY DEF SegmentsAssumption, Segments, Resources, MAX_ADV_RETRIES

LEMMA SamePlan ==
  ASSUME instance' = instance
  PROVE  /\ Segments' = Segments /\ Resources' = Resources
         /\ MAX_ADV_RETRIES' = MAX_ADV_RETRIES /\ SegmentIds' = SegmentIds
BY Zenon DEF Segments, Resources, MAX_ADV_RETRIES, SegmentIds

-----------------------------------------------------------------------------

(* What a step leaves alone *)

\* Nothing of Resource x changes at the receiver.
SameAt(x) ==
    /\ in_events'[x] = in_events[x]
    /\ live(x)' <=> live(x)
    /\ live(x) => lifecycles'[x] = lifecycles[x]
    /\ \A s : <<x, s>> \in inbound_resources' <=> <<x, s>> \in inbound_resources
    /\ \A s : <<x, s>> \in segment_routing' <=> <<x, s>> \in segment_routing
    /\ x \in DOMAIN inbound_split_resources' <=> x \in DOMAIN inbound_split_resources
    /\ x \in DOMAIN inbound_split_resources =>
          inbound_split_resources'[x] = inbound_split_resources[x]

LEMMA ReceiverKept ==
  ASSUME instance' = instance, NEW x, Lifecycle(x), Inbound(x), SameAt(x)
  PROVE  Lifecycle(x)' /\ Inbound(x)'
<1>1. Segments' = Segments /\ (split(x)' <=> split(x)) BY SamePlan, Zenon DEF split
<1>2. Lifecycle(x)' BY <1>1, Zenon DEF Lifecycle, SameAt
<1>3. Inbound(x)' BY <1>1, Zenon DEF Inbound, SameAt
<1> QED BY <1>2, <1>3, Zenon

LEMMA ReceiverUnchanged ==
  ASSUME UNCHANGED receiver, instance' = instance, NEW x, Lifecycle(x), Inbound(x)
  PROVE  Lifecycle(x)' /\ Inbound(x)'
<1>1. SameAt(x) BY Zenon DEF SameAt, receiver, live
<1> QED BY <1>1, ReceiverKept, Zenon

LEMMA HandedKept ==
  ASSUME instance' = instance, NEW x, Handed(x), completions'[x] = completions[x],
         \/ out_events'[x] = out_events[x]
         \/ out_events'[x] # <<"started", "complete">>,
         <<x, Segments[x]>> \in proofs' => <<x, Segments[x]>> \in proofs
  PROVE  Handed(x)'
<1>1. Segments' = Segments BY SamePlan, Zenon
<1> QED BY <1>1, Zenon DEF Handed

LEMMA OutboundKept ==
  ASSUME instance' = instance, NEW x, Outbound(x), outbound_resources'[x] = outbound_resources[x],
         outbound_split_queues'[x] = outbound_split_queues[x], retries'[x] = retries[x],
         out_events'[x] = out_events[x]
  PROVE  Outbound(x)'
<1>1. Segments' = Segments /\ MAX_ADV_RETRIES' = MAX_ADV_RETRIES BY SamePlan, Zenon
<1> QED BY <1>1, Zenon DEF Outbound, Later

-----------------------------------------------------------------------------

(* The receiver's handlers *)

LEMMA ReceiverIdle ==
  ASSUME UNCHANGED receiver, instance' = instance, ReceiverInv
  PROVE  ReceiverInv'
<1>1. Resources' = Resources /\ SegmentIds' = SegmentIds BY SamePlan, Zenon
<1>2. \A r \in Resources : Lifecycle(r)' /\ Inbound(r)' BY ReceiverUnchanged, Zenon DEF ReceiverInv
<1>3. ReceiverShapes' BY <1>1, Zenon DEF ReceiverInv, ReceiverShapes, receiver
<1> QED BY <1>1, <1>2, <1>3, Zenon DEF ReceiverInv

\* A Resource whose lifecycle ends leaves nothing behind.
LEMMA Dropped ==
  ASSUME ReceiverInv, instance' = instance, NEW r \in Resources, DropInboundLogical(r),
         lifecycles' = Remove(lifecycles, r), NEW events,
         Alternates(events), Len(events) % 2 = 0,
         in_events' = [in_events EXCEPT ![r] = events],
         completions' = [x \in Resources |-> completions'[x]]
  PROVE  ReceiverInv'
<1>1. Resources' = Resources /\ SegmentIds' = SegmentIds BY SamePlan, Zenon
<1>2. /\ DOMAIN lifecycles' = DOMAIN lifecycles \ {r}
      /\ \A x \in DOMAIN lifecycles : x # r => lifecycles'[x] = lifecycles[x]
      /\ lifecycles' = [x \in DOMAIN lifecycles' |-> lifecycles'[x]]
  BY Zenon DEF Remove
<1>3. /\ DOMAIN inbound_split_resources' = DOMAIN inbound_split_resources \ {r}
      /\ \A x \in DOMAIN inbound_split_resources :
            x # r => inbound_split_resources'[x] = inbound_split_resources[x]
      /\ inbound_split_resources' =
           [x \in DOMAIN inbound_split_resources' |-> inbound_split_resources'[x]]
  BY Zenon DEF DropInboundLogical, Remove
<1>4. /\ inbound_resources' = {i \in inbound_resources : i[1] # r}
      /\ segment_routing' = {i \in segment_routing : i[1] # r}
  BY Zenon DEF DropInboundLogical
<1>5. /\ in_events' = [x \in Resources |-> in_events'[x]]
      /\ in_events'[r] = events
      /\ \A x \in Resources : x # r => in_events'[x] = in_events[x]
  BY Zenon DEF ReceiverInv, ReceiverShapes
<1>6. ReceiverShapes'
  BY <1>1, <1>2, <1>3, <1>4, <1>5, Zenon DEF ReceiverInv, ReceiverShapes
<1>7. ASSUME NEW x \in Resources, x # r PROVE Lifecycle(x)' /\ Inbound(x)'
  <2>1. \A s : <<x, s>>[1] = x OBVIOUS
  <2>2. SameAt(x) BY <1>2, <1>3, <1>4, <1>5, <1>7, <2>1, Zenon DEF SameAt, live
  <2> QED BY <2>2, ReceiverKept, Zenon DEF ReceiverInv
<1>8. ~ live(r)' /\ r \notin DOMAIN inbound_split_resources' /\ Len(events) % 2 # 1
  BY <1>2, <1>3 DEF live
<1>9. Lifecycle(r)' BY <1>5, <1>8, Zenon DEF Lifecycle
<1>10. \A s : <<r, s>> \notin inbound_resources' BY <1>4, Zenon
<1>11. Inbound(r)' BY <1>8, <1>10, Zenon DEF Inbound
<1> QED BY <1>1, <1>6, <1>7, <1>9, <1>11, Zenon DEF ReceiverInv

\* What is told when a Resource concludes, or is found to be concluded already.
LEMMA Conclusion ==
  ASSUME ReceiverInv, NEW r \in Resources, NEW e \in {"complete", "failed"}
  PROVE  \E events : /\ Alternates(events) /\ Len(events) % 2 = 0
                     /\ (IF live(r) THEN Told(in_events, r, e) ELSE in_events)
                          = [in_events EXCEPT ![r] = events]
<1>1. Alternates(in_events[r]) /\ (live(r) <=> Len(in_events[r]) % 2 = 1)
  BY Zenon DEF ReceiverInv, Lifecycle
<1>2. CASE live(r)
  <2>1. Alternates(Append(in_events[r], e)) /\ Len(Append(in_events[r], e)) % 2 = 0
    BY <1>1, <1>2, Concluded, Zenon
  <2> QED BY <1>2, <2>1, Zenon DEF Told
<1>3. CASE ~ live(r)
  <2>1. Len(in_events[r]) % 2 = 0 BY <1>1, <1>3, Even, Zenon
  <2>2. in_events = [in_events EXCEPT ![r] = in_events[r]]
    BY Zenon DEF ReceiverInv, ReceiverShapes
  <2> QED BY <1>1, <1>3, <2>1, <2>2, Zenon
<1> QED BY <1>2, <1>3, Zenon

LEMMA FailureKeeps ==
  ASSUME ReceiverInv, instance' = instance, NEW r \in Resources, ConcludeInboundFailure(r)
  PROVE  ReceiverInv' /\ completions' = completions
<1>1. PICK events : /\ Alternates(events) /\ Len(events) % 2 = 0
                    /\ (IF live(r) THEN Told(in_events, r, "failed") ELSE in_events)
                         = [in_events EXCEPT ![r] = events]
  BY Conclusion, Zenon
<1>2. /\ DropInboundLogical(r) /\ lifecycles' = Remove(lifecycles, r)
      /\ in_events' = [in_events EXCEPT ![r] = events]
      /\ completions' = completions
  BY <1>1, Zenon DEF ConcludeInboundFailure, Conclude
<1>3. completions' = [x \in Resources |-> completions'[x]]
  BY <1>2, Zenon DEF ReceiverInv, ReceiverShapes
<1> QED BY <1>1, <1>2, <1>3, Dropped, Zenon

\* The Resource is handed over once, if it lived.
LEMMA DeliveryKeeps ==
  ASSUME ReceiverInv, instance' = instance, NEW r \in Resources, Deliver(r), HandedInv
  PROVE  /\ ReceiverInv'
         /\ \A x \in Resources : x # r => completions'[x] = completions[x]
         /\ live(r) => completions'[r] = completions[r] + 1
         /\ ~ live(r) => completions' = completions
<1>1. PICK events : /\ Alternates(events) /\ Len(events) % 2 = 0
                    /\ (IF live(r) THEN Told(in_events, r, "complete") ELSE in_events)
                         = [in_events EXCEPT ![r] = events]
  BY Conclusion, Zenon
<1>2. /\ DropInboundLogical(r) /\ lifecycles' = Remove(lifecycles, r)
      /\ in_events' = [in_events EXCEPT ![r] = events]
      /\ completions' = IF live(r) THEN [completions EXCEPT ![r] = @ + 1] ELSE completions
  BY <1>1, Zenon DEF Deliver, Conclude
<1>3. /\ completions' = [x \in Resources |-> completions'[x]]
      /\ \A x \in Resources : x # r => completions'[x] = completions[x]
      /\ live(r) => completions'[r] = completions[r] + 1
  BY <1>2, Zenon DEF ReceiverInv, ReceiverShapes
<1> QED BY <1>1, <1>2, <1>3, Dropped, Zenon

LEMMA AdmitFailsKeeps ==
  ASSUME ReceiverInv, instance' = instance, NEW r \in Resources, AdmitFails(r)
  PROVE  ReceiverInv' /\ completions' = completions
<1>1. Alternates(in_events[r]) /\ (live(r) <=> Len(in_events[r]) % 2 = 1)
  BY Zenon DEF ReceiverInv, Lifecycle
<1>2. completions' = [x \in Resources |-> completions'[x]] /\ completions' = completions
  BY Zenon DEF ReceiverInv, ReceiverShapes, AdmitFails
<1>3. DropInboundLogical(r) /\ lifecycles' = Remove(lifecycles, r) BY Zenon DEF AdmitFails
<1>4. CASE live(r)
  <2>1. Alternates(Append(in_events[r], "failed")) /\ Len(Append(in_events[r], "failed")) % 2 = 0
    BY <1>1, <1>4, Concluded, Zenon
  <2>2. in_events' = [in_events EXCEPT ![r] = Append(in_events[r], "failed")]
    BY <1>4, Zenon DEF AdmitFails, Told
  <2> QED BY <1>2, <1>3, <2>1, <2>2, Dropped, Zenon
<1>5. CASE ~ live(r)
  <2> DEFINE begun == Append(in_events[r], "started")
             over == Append(begun, "failed")
  <2>1. Len(in_events[r]) % 2 = 0 BY <1>1, <1>5, Even, Zenon
  <2>2. Alternates(begun) /\ Len(begun) % 2 = 1 BY <1>1, <2>1, StartedEvents, Zenon
  <2> HIDE DEF begun
  <2>3. Alternates(over) /\ Len(over) % 2 = 0 BY <2>2, Concluded, Zenon
  <2>4. in_events' = [in_events EXCEPT ![r] = over]
    <3>1. in_events' = Told(Told(in_events, r, "started"), r, "failed")
      BY <1>5, Zenon DEF AdmitFails
    <3>2. Told(in_events, r, "started") = [in_events EXCEPT ![r] = begun] BY Zenon DEF Told, begun
    <3> QED BY <3>1, <3>2, Zenon DEF Told, ReceiverInv, ReceiverShapes
  <2> HIDE DEF over
  <2> QED BY <1>2, <1>3, <2>3, <2>4, Dropped, Zenon
<1> QED BY <1>4, <1>5, Zenon

\* No two segments of a Resource are received at once.
LEMMA OneSegment ==
  ASSUME ReceiverInv, NEW r \in Resources, NEW s, <<r, s>> \in inbound_resources
  PROVE  /\ s \in 1 .. Segments[r]
         /\ live(r) /\ lifecycles[r].current_segment = s
         /\ <<r, s>> \in segment_routing <=> split(r)
         /\ split(r) => /\ r \in DOMAIN inbound_split_resources
                        /\ inbound_split_resources[r] = 1 .. s - 1
<1>1. s \in 1 .. Segments[r]
  <2>1. <<r, s>> \in SegmentIds BY Zenon DEF ReceiverInv, ReceiverShapes
  <2>2. PICK x \in Resources : \E t \in 1 .. Segments[x] : <<r, s>> = <<x, t>>
    BY <2>1, SegmentNames, Zenon
  <2> QED BY <2>2, Zenon
<1> QED BY <1>1, Zenon DEF ReceiverInv, Inbound

\* A segment that is not the last joins those before it, and the deadline of
\* the next one runs.
LEMMA AssembleKeeps ==
  ASSUME SegmentsAssumption, instance \in Instances, ReceiverInv, instance' = instance,
         NEW r \in Resources, NEW s, <<r, s>> \in inbound_resources,
         <<r, s>> \in segment_routing, r \in DOMAIN inbound_split_resources,
         ~ IsComplete(r, s), Assemble(r, s)
  PROVE  /\ ReceiverInv' /\ completions' = completions
         /\ s # Segments[r]
<1> DEFINE new == [current_segment |-> 0, deadline |-> TRUE]
<1>1. /\ Resources' = Resources /\ SegmentIds' = SegmentIds /\ Segments' = Segments
      /\ split(r)' <=> split(r)
  BY SamePlan, Zenon DEF split
<1>2. /\ s \in 1 .. Segments[r] /\ live(r) /\ split(r)
      /\ inbound_split_resources[r] = 1 .. s - 1
  <2>1. split(r) BY Zenon DEF ReceiverInv, Inbound
  <2> QED BY <2>1, OneSegment, Zenon
<1>3. /\ DOMAIN lifecycles' = DOMAIN lifecycles /\ lifecycles'[r] = new
      /\ \A x \in DOMAIN lifecycles : x # r => lifecycles'[x] = lifecycles[x]
      /\ lifecycles' = [x \in DOMAIN lifecycles' |-> lifecycles'[x]]
  BY <1>2, Zenon DEF Assemble, live, ReceiverInv, ReceiverShapes
<1>4. /\ inbound_resources' = inbound_resources \ {<<r, s>>}
      /\ segment_routing' = segment_routing \ {<<r, s>>}
      /\ completions' = completions /\ in_events' = in_events
  BY Zenon DEF Assemble
<1>5. /\ DOMAIN inbound_split_resources' = DOMAIN inbound_split_resources
      /\ \A x \in DOMAIN inbound_split_resources :
            x # r => inbound_split_resources'[x] = inbound_split_resources[x]
      /\ inbound_split_resources' =
           [x \in DOMAIN inbound_split_resources' |-> inbound_split_resources'[x]]
      /\ inbound_split_resources'[r] = inbound_split_resources[r] \union {s}
  BY Zenon DEF Assemble, ReceiverInv, ReceiverShapes
<1>6. /\ inbound_split_resources'[r] = 1 .. s /\ s # Segments[r]
      /\ s \in 0 .. Segments[r] - 1
  <2>1. Segments[r] \in Nat BY InstanceFacts, Zenon
  <2>2. (1 .. s - 1) \union {s} = 1 .. s BY <1>2, <2>1
  <2>3. 1 .. s # 1 .. Segments[r] BY <1>2, <2>2, Zenon DEF IsComplete
  <2> QED BY <1>2, <1>5, <2>1, <2>2, <2>3
<1>7. ReceiverShapes' BY <1>1, <1>3, <1>4, <1>5, Zenon DEF ReceiverInv, ReceiverShapes
<1>8. ASSUME NEW x \in Resources, x # r PROVE Lifecycle(x)' /\ Inbound(x)'
  <2>1. \A t : <<x, t>> # <<r, s>> BY <1>8, Zenon
  <2>2. SameAt(x) BY <1>3, <1>4, <1>5, <1>8, <2>1, Zenon DEF SameAt, live
  <2> QED BY <2>2, ReceiverKept, Zenon DEF ReceiverInv
<1>9. live(r)' BY <1>2, <1>3, Zenon DEF live
<1>10. Lifecycle(r)'
  <2>1. new \in [current_segment : 0 .. Segments[r], deadline : BOOLEAN]
    <3>1. Segments[r] \in Nat BY InstanceFacts, Zenon
    <3> QED BY <3>1
  <2>2. Alternates(in_events[r]) /\ Len(in_events[r]) % 2 = 1
    BY <1>2, Zenon DEF ReceiverInv, Lifecycle
  <2> QED BY <1>1, <1>3, <1>4, <1>9, <2>1, <2>2, Zenon DEF Lifecycle
<1>11. Inbound(r)'
  <2>1. \A t \in 1 .. Segments[r] : <<r, t>> \notin inbound_resources'
    <3> SUFFICES ASSUME NEW t \in 1 .. Segments[r], <<r, t>> \in inbound_resources'
                 PROVE  FALSE
      OBVIOUS
    <3>1. <<r, t>> \in inbound_resources /\ t # s BY <1>4, Zenon
    <3>2. lifecycles[r].current_segment = t /\ lifecycles[r].current_segment = s
      BY <3>1, OneSegment, Zenon
    <3> QED BY <3>1, <3>2, Zenon
  <2> QED BY <1>1, <1>2, <1>5, <1>6, <1>9, <2>1, Zenon DEF Inbound
<1> QED BY <1>1, <1>4, <1>6, <1>7, <1>8, <1>10, <1>11, Zenon DEF ReceiverInv

\* The last part of a segment, intact: the segment is proved, and with the last
\* one the Resource is handed over.
LEMMA SegmentCompleteKeeps ==
  ASSUME SegmentsAssumption, instance \in Instances, ReceiverInv, HandedInv, instance' = instance,
         NEW r \in Resources, NEW s, <<r, s>> \in inbound_resources,
         SegmentComplete(r, s), out_events' = out_events
  PROVE  ReceiverInv' /\ HandedInv'
<1>1. /\ s \in 1 .. Segments[r] /\ live(r)
      /\ <<r, s>> \in segment_routing <=> split(r)
      /\ split(r) => /\ r \in DOMAIN inbound_split_resources
                     /\ inbound_split_resources[r] = 1 .. s - 1
  BY OneSegment, Zenon
<1>2. Resources' = Resources /\ proofs' = proofs \union {<<r, s>>} /\ Segments' = Segments
  BY SamePlan, Zenon DEF SegmentComplete
<1>3. ASSUME NEW x \in Resources, x # r, completions'[x] = completions[x] PROVE Handed(x)'
  <2>1. <<x, Segments[x]>> \in proofs' => <<x, Segments[x]>> \in proofs BY <1>2, <1>3, Zenon
  <2> QED BY <1>3, <2>1, HandedKept, Zenon DEF HandedInv
<1>4. CASE Deliver(r)
  <2>1. /\ ReceiverInv'
        /\ \A x \in Resources : x # r => completions'[x] = completions[x]
        /\ completions'[r] = completions[r] + 1
    BY <1>1, <1>4, DeliveryKeeps, Zenon
  <2>2. completions[r] \in Nat BY Zenon DEF HandedInv, Handed
  <2>3. completions'[r] \in Nat /\ completions'[r] > 0 BY <2>1, <2>2
  <2>4. Handed(r)' BY <2>3, Zenon DEF Handed
  <2> QED BY <1>2, <1>3, <2>1, <2>4, Zenon DEF HandedInv
<1>5. CASE ~ Deliver(r)
  <2>1. <<r, s>> \in segment_routing BY <1>5, Zenon DEF SegmentComplete
  <2>2. split(r) /\ r \in DOMAIN inbound_split_resources /\ s \notin inbound_split_resources[r]
    <3>1. Segments[r] \in Nat BY InstanceFacts, Zenon
    <3> QED BY <1>1, <2>1, <3>1
  <2>3. ~ IsComplete(r, s) /\ Assemble(r, s) BY <1>5, <2>1, <2>2, Zenon DEF SegmentComplete
  <2>4. ReceiverInv' /\ completions' = completions /\ s # Segments[r]
    BY <2>1, <2>2, <2>3, AssembleKeeps, Zenon
  <2>5. <<r, Segments[r]>> \in proofs' => <<r, Segments[r]>> \in proofs BY <1>2, <2>4, Zenon
  <2>6. Handed(r)' BY <2>4, <2>5, HandedKept, Zenon DEF HandedInv
  <2> QED BY <1>2, <1>3, <2>4, <2>6, Zenon DEF HandedInv
<1> QED BY <1>4, <1>5, Zenon

-----------------------------------------------------------------------------

(* The receiver's actions *)

LEMMA SenderIdle ==
  ASSUME UNCHANGED sender, instance' = instance, SenderInv
  PROVE  SenderInv' /\ out_events' = out_events
<1>1. Resources' = Resources BY SamePlan, Zenon
<1>2. SenderShapes' BY <1>1, Zenon DEF SenderInv, SenderShapes, sender
<1>3. \A x \in Resources : Outbound(x)' BY OutboundKept, Zenon DEF SenderInv, sender
<1> QED BY <1>1, <1>2, <1>3, Zenon DEF SenderInv, sender

LEMMA HandedIdle ==
  ASSUME instance' = instance, HandedInv, completions' = completions, out_events' = out_events,
         proofs' = proofs
  PROVE  HandedInv'
<1>1. Resources' = Resources BY SamePlan, Zenon
<1>2. \A x \in Resources : Handed(x)' BY HandedKept, Zenon DEF HandedInv
<1> QED BY <1>1, <1>2, Zenon DEF HandedInv

\* What a step does not touch of the rest of the system.
LEMMA ReceiverStep ==
  ASSUME SegmentsInv, instance' = instance, UNCHANGED sender, ReceiverInv', NetworkShapes',
         (completions' = completions /\ proofs' = proofs) \/ HandedInv'
  PROVE  SegmentsInv'
<1>1. SenderInv' /\ out_events' = out_events BY SenderIdle, Zenon DEF SegmentsInv
<1>2. HandedInv' BY <1>1, HandedIdle, Zenon DEF SegmentsInv
<1>3. instance' \in Instances' BY Zenon DEF SegmentsInv
<1> QED BY <1>1, <1>2, <1>3, Zenon DEF SegmentsInv

LEMMA ReceiverFails ==
  ASSUME SegmentsInv, instance' = instance, UNCHANGED sender, NEW r \in Resources,
         ConcludeInboundFailure(r), proofs' = proofs, NetworkShapes'
  PROVE  SegmentsInv'
<1>1. ReceiverInv' /\ completions' = completions BY FailureKeeps, Zenon DEF SegmentsInv
<1> QED BY <1>1, ReceiverStep, Zenon

\* What the network holds stays about segments.
LEMMA NetworkKept ==
  ASSUME SegmentsInv, instance' = instance, links' \subseteq links,
         \/ advs' = advs
         \/ \E i \in SegmentIds, n \in Nat : advs' = [advs EXCEPT ![i] = n],
         served' \subseteq SegmentIds, proofs' \subseteq SegmentIds,
         icls' \subseteq SegmentIds, rcls' \subseteq SegmentIds
  PROVE  NetworkShapes'
<1>1. SegmentIds' = SegmentIds BY SamePlan, Zenon
<1>2. advs \in [SegmentIds -> Nat] /\ links \subseteq {"sender", "receiver"}
  BY Zenon DEF SegmentsInv, NetworkShapes
<1>3. advs' \in [SegmentIds -> Nat] BY <1>2, Zenon
<1> QED BY <1>1, <1>2, <1>3, Zenon DEF NetworkShapes

LEMMA NetworkSets ==
  ASSUME SegmentsInv
  PROVE  /\ served \subseteq SegmentIds /\ proofs \subseteq SegmentIds
         /\ icls \subseteq SegmentIds /\ rcls \subseteq SegmentIds
         /\ inbound_resources \subseteq SegmentIds
         /\ \A i \in SegmentIds : advs[i] \in Nat
BY Zenon DEF SegmentsInv, NetworkShapes, ReceiverInv, ReceiverShapes

LEMMA LastPartStep ==
  ASSUME SegmentsAssumption, SegmentsInv, instance' = instance, NEW r \in Resources,
         NEW s \in 1 .. Segments[r], NEW verdict \in Verdicts, ReceiveLastPart(r, s, verdict)
  PROVE  SegmentsInv'
<1>1. <<r, s>> \in SegmentIds BY SegmentNames, Zenon
<1>2. /\ UNCHANGED sender /\ links' = links /\ served' = served /\ advs' = advs /\ icls' = icls
      /\ <<r, s>> \in inbound_resources
  BY Zenon DEF ReceiveLastPart
<1>3. ASSUME rcls' \subseteq SegmentIds, proofs' \subseteq SegmentIds PROVE NetworkShapes'
  BY <1>2, <1>3, NetworkKept, NetworkSets, Zenon
<1>4. CASE SegmentComplete(r, s) /\ UNCHANGED rcls
  <2>1. NetworkShapes' BY <1>1, <1>3, <1>4, NetworkSets, Zenon DEF SegmentComplete
  <2>2. out_events' = out_events BY <1>2, Zenon DEF sender
  <2>3. ReceiverInv' /\ HandedInv' BY <1>2, <1>4, <2>2, SegmentCompleteKeeps, Zenon DEF SegmentsInv
  <2> QED BY <1>2, <2>1, <2>3, ReceiverStep, Zenon
<1>5. CASE /\ ConcludeInboundFailure(r) /\ UNCHANGED proofs
           /\ rcls' = rcls \/ rcls' = rcls \union {<<r, s>>}
  <2>1. NetworkShapes' BY <1>1, <1>3, <1>5, NetworkSets, Zenon
  <2> QED BY <1>2, <1>5, <2>1, ReceiverFails, Zenon
<1>6. \/ SegmentComplete(r, s) /\ UNCHANGED rcls
      \/ ConcludeInboundFailure(r) /\ UNCHANGED <<proofs, rcls>>
      \/ rcls' = rcls \union {<<r, s>>} /\ ConcludeInboundFailure(r) /\ UNCHANGED proofs
  BY Zenon DEF ReceiveLastPart, Verdicts
<1> QED BY <1>4, <1>5, <1>6, Zenon

\* A segment's watchdog, the deadline between two segments, a bad map, a
\* cancellation of either end: the whole Resource fails.
LEMMA FailureSteps ==
  ASSUME SegmentsInv, instance' = instance, NEW r \in Resources, NEW s \in 1 .. Segments[r],
         \/ InboundTimeout(r, s) \/ SplitDeadline(r) \/ ReceiveBadHmu(r, s)
         \/ ReceiveIcl(r, s) \/ CancelInbound(r)
  PROVE  SegmentsInv'
<1>1. <<r, s>> \in SegmentIds BY SegmentNames, Zenon
<1>2. /\ ConcludeInboundFailure(r) /\ UNCHANGED sender /\ proofs' = proofs
      /\ links' = links /\ advs' = advs /\ served' = served
  BY Zenon DEF InboundTimeout, SplitDeadline, ReceiveBadHmu, ReceiveIcl, CancelInbound, network
<1>3. icls' = icls \/ icls' = icls \ {<<r, s>>}
  BY Zenon DEF InboundTimeout, SplitDeadline, ReceiveBadHmu, ReceiveIcl, CancelInbound, network
<1>4. \/ rcls' = rcls \/ rcls' = rcls \union {<<r, s>>}
      \/ rcls' = rcls \union {i \in inbound_resources : i[1] = r}
  BY Zenon DEF InboundTimeout, SplitDeadline, ReceiveBadHmu, ReceiveIcl, CancelInbound, network
<1>5. NetworkShapes'
  <2>1. icls' \subseteq SegmentIds /\ rcls' \subseteq SegmentIds BY <1>1, <1>3, <1>4, NetworkSets, Zenon
  <2> QED BY <1>2, <2>1, NetworkKept, NetworkSets, Zenon
<1> QED BY <1>2, <1>5, ReceiverFails, Zenon

\* The Link closes at the receiver: every Resource that lives fails.
LEMMA CloseAtReceiverStep ==
  ASSUME SegmentsInv, instance' = instance, CloseAtReceiver
  PROVE  SegmentsInv'
<1>1. /\ UNCHANGED sender /\ completions' = completions /\ proofs' = proofs
      /\ inbound_resources' = {} /\ segment_routing' = {}
      /\ inbound_split_resources' = <<>> /\ lifecycles' = <<>>
  BY Zenon DEF CloseAtReceiver, network
<1>2. NetworkShapes' BY NetworkKept, NetworkSets, Zenon DEF CloseAtReceiver, network
<1>3. Resources' = Resources /\ Segments' = Segments BY SamePlan, Zenon
<1>4. DOMAIN lifecycles' = {} /\ DOMAIN inbound_split_resources' = {} BY <1>1
<1>5. /\ in_events' = [x \in Resources |-> in_events'[x]]
      /\ \A x \in Resources :
            in_events'[x] = IF live(x) THEN Append(in_events[x], "failed") ELSE in_events[x]
  BY Zenon DEF CloseAtReceiver
<1>6. ASSUME NEW x \in Resources PROVE Lifecycle(x)' /\ Inbound(x)'
  <2>1. Alternates(in_events[x]) /\ (live(x) <=> Len(in_events[x]) % 2 = 1)
    BY Zenon DEF SegmentsInv, ReceiverInv, Lifecycle
  <2>2. \E events : in_events'[x] = events /\ Alternates(events) /\ Len(events) % 2 = 0
    <3>1. CASE live(x)
      <4> DEFINE over == Append(in_events[x], "failed")
      <4>1. in_events'[x] = over BY <1>5, <3>1, Zenon
      <4>2. Alternates(over) /\ Len(over) % 2 = 0 BY <2>1, <3>1, Concluded, Zenon
      <4> HIDE DEF over
      <4> QED BY <4>1, <4>2, Zenon
    <3>2. CASE ~ live(x)
      <4>1. in_events'[x] = in_events[x] BY <1>5, <3>2, Zenon
      <4>2. Len(in_events[x]) % 2 = 0 BY <2>1, <3>2, Even, Zenon
      <4> QED BY <2>1, <4>1, <4>2, Zenon
    <3> QED BY <3>1, <3>2, Zenon
  <2>3. PICK events : in_events'[x] = events /\ Alternates(events) /\ Len(events) % 2 = 0
    BY <2>2, Zenon
  <2>4. Lifecycle(x)'
    <3>1. ~ live(x)' BY <1>4, Zenon DEF live
    <3>2. Len(events) % 2 # 1 BY <2>3
    <3> QED BY <2>3, <3>1, <3>2, Zenon DEF Lifecycle
  <2>5. \A t : <<x, t>> \notin inbound_resources' BY <1>1, Zenon
  <2>6. Inbound(x)' BY <1>4, <2>5, Zenon DEF Inbound
  <2> QED BY <2>4, <2>6, Zenon
<1>7. ReceiverShapes'
  <2>1. completions = [x \in Resources |-> completions[x]]
    BY Zenon DEF SegmentsInv, ReceiverInv, ReceiverShapes
  <2>2. /\ lifecycles' = [x \in DOMAIN lifecycles' |-> lifecycles'[x]]
        /\ inbound_split_resources' =
             [x \in DOMAIN inbound_split_resources' |-> inbound_split_resources'[x]]
    BY <1>1
  <2> QED BY <1>1, <1>3, <1>4, <1>5, <2>1, <2>2, Zenon DEF ReceiverShapes
<1>8. ReceiverInv' BY <1>3, <1>6, <1>7, Zenon DEF ReceiverInv
<1> QED BY <1>1, <1>2, <1>8, ReceiverStep, Zenon

-----------------------------------------------------------------------------

(* The sender's actions *)

LEMMA SenderStep ==
  ASSUME SegmentsInv, instance' = instance, UNCHANGED receiver, proofs' = proofs,
         SenderInv', NetworkShapes',
         \A x \in Resources : \/ out_events'[x] = out_events[x]
                              \/ out_events'[x] # <<"started", "complete">>
                              \/ completions[x] > 0
  PROVE  SegmentsInv'
<1>1. ReceiverInv' BY ReceiverIdle, Zenon DEF SegmentsInv
<1>2. Resources' = Resources /\ Segments' = Segments /\ completions' = completions
  BY SamePlan, Zenon DEF receiver
<1>3. \A x \in Resources : Handed(x)' BY <1>2, Zenon DEF SegmentsInv, HandedInv, Handed
<1>4. instance' \in Instances' BY Zenon DEF SegmentsInv
<1> QED BY <1>1, <1>2, <1>3, <1>4, Zenon DEF SegmentsInv, HandedInv

\* The Resource concludes at the sender, and its queue goes with it.
LEMMA OutboundConcludes ==
  ASSUME SegmentsAssumption, SegmentsInv, instance' = instance, NEW r \in Resources, outbound_resources[r] # 0,
         NEW e \in {"complete", "failed"}, DropOutbound(r), out_events' = Told(out_events, r, e)
  PROVE  /\ SenderInv' /\ out_events'[r] = <<"started", e>>
         /\ \A x \in Resources : x # r => out_events'[x] = out_events[x]
<1>1. /\ Resources' = Resources /\ Segments' = Segments /\ MAX_ADV_RETRIES' = MAX_ADV_RETRIES
      /\ SenderShapes /\ \A x \in Resources : Outbound(x)
  BY SamePlan, Zenon DEF SegmentsInv, SenderInv
<1>2. out_events[r] = <<"started">> BY <1>1, Zenon DEF Outbound
<1>3. /\ out_events' = [x \in Resources |-> out_events'[x]]
      /\ out_events'[r] = Append(out_events[r], e)
      /\ \A x \in Resources : x # r => out_events'[x] = out_events[x]
  BY <1>1, Zenon DEF Told, SenderShapes
<1>4. out_events'[r] = <<"started", e>> BY <1>2, <1>3, Pair, Zenon
<1>5. /\ outbound_resources' = [x \in Resources |-> outbound_resources'[x]]
      /\ outbound_resources'[r] = 0
      /\ \A x \in Resources : x # r => outbound_resources'[x] = outbound_resources[x]
      /\ outbound_split_queues' = [x \in Resources |-> outbound_split_queues'[x]]
      /\ outbound_split_queues'[r] = <<>>
      /\ \A x \in Resources : x # r => outbound_split_queues'[x] = outbound_split_queues[x]
      /\ retries' = retries
  BY <1>1, Zenon DEF DropOutbound, SenderShapes
<1>6. SenderShapes' BY <1>1, <1>3, <1>5, Zenon DEF SenderShapes
<1>7. \A x \in Resources : x # r => Outbound(x)' BY <1>1, <1>3, <1>5, OutboundKept, Zenon
<1>8. Outbound(r)'
  <2>1. 0 \in 0 .. Segments[r]
    <3>1. Segments[r] \in Nat BY InstanceFacts, Zenon DEF SegmentsInv
    <3> QED BY <3>1
  <2>2. <<"started", e>> # <<"started">> OBVIOUS
  <2>3. retries[r] \in 0 .. MAX_ADV_RETRIES BY <1>1, Zenon DEF Outbound
  <2> QED BY <1>1, <1>4, <1>5, <2>1, <2>2, <2>3, Zenon DEF Outbound
<1> QED BY <1>1, <1>3, <1>4, <1>6, <1>7, <1>8, Zenon DEF SenderInv

LEMMA TailFacts ==
  ASSUME NEW q \in Seq(Nat), Len(q) >= 1
  PROVE  /\ Tail(q) \in Seq(Nat) /\ Len(Tail(q)) = Len(q) - 1
         /\ \A i \in 1 .. Len(q) - 1 : Tail(q)[i] = q[i + 1]
         /\ Tail(q) = [i \in 1 .. Len(q) - 1 |-> Tail(q)[i]]
<1>1. Len(q) \in Nat /\ q # <<>> OBVIOUS
<1>2. Tail(q) \in Seq(Nat) BY <1>1
<1>3. Len(Tail(q)) = Len(q) - 1 BY <1>1
<1>4. \A i \in 1 .. Len(q) - 1 : Tail(q)[i] = q[i + 1] BY <1>1
<1>5. Tail(q) = [i \in 1 .. Len(q) - 1 |-> Tail(q)[i]]
  <2> DEFINE rest == Tail(q)
             n == Len(q) - 1
  <2>1. rest \in Seq(Nat) /\ Len(rest) = n BY <1>2, <1>3, Zenon
  <2> HIDE DEF rest, n
  <2>2. rest = [i \in 1 .. n |-> rest[i]] BY <2>1
  <2> QED BY <2>2, Zenon DEF rest, n
<1> QED BY <1>2, <1>3, <1>4, <1>5, Zenon

\* The queue of the segments after s, and what is left of it.
LEMMA QueueFacts ==
  ASSUME NEW r, NEW s \in 1 .. Segments[r], Segments[r] \in Nat
  PROVE  /\ Later(r, s) = <<>> <=> s = Segments[r]
         /\ s # Segments[r] =>
              /\ Head(Later(r, s)) = s + 1 /\ s + 1 \in 1 .. Segments[r]
              /\ Tail(Later(r, s)) = Later(r, s + 1)
<1> DEFINE n == Segments[r] - s
           q == Later(r, s)
<1>1. n \in Nat /\ s \in Nat /\ (n = 0 <=> s = Segments[r]) OBVIOUS
<1>2. q = [i \in 1 .. n |-> s + i] BY Zenon DEF Later
<1>3. Later(r, s + 1) = [i \in 1 .. n - 1 |-> s + 1 + i]
  <2>1. Segments[r] - (s + 1) = n - 1 OBVIOUS
  <2> QED BY <2>1, Zenon DEF Later
<1>4. s + 1 \in 1 .. Segments[r] \/ n = 0 OBVIOUS
<1> HIDE DEF n, q
<1>5. q \in Seq(Nat) /\ Len(q) = n BY <1>1, <1>2
<1>6. q = <<>> <=> n = 0 BY <1>1, <1>5
<1>7. ASSUME n # 0 PROVE Head(q) = s + 1 /\ Tail(q) = [i \in 1 .. n - 1 |-> s + 1 + i]
  <2>1. n >= 1 BY <1>1, <1>7
  <2>2. Head(q) = q[1] /\ q[1] = s + 1 BY <1>1, <1>2, <1>5, <2>1
  <2>3. /\ Tail(q) \in Seq(Nat) /\ Len(Tail(q)) = n - 1
        /\ \A i \in 1 .. n - 1 : Tail(q)[i] = q[i + 1]
    BY <1>5, <2>1, TailFacts, Zenon
  <2>4. \A i \in 1 .. n - 1 : i + 1 \in 1 .. n /\ s + (i + 1) = s + 1 + i BY <1>1, <2>1
  <2>5. \A i \in 1 .. n - 1 : Tail(q)[i] = s + 1 + i BY <1>2, <2>3, <2>4, Zenon
  <2>6. Tail(q) = [i \in 1 .. n - 1 |-> Tail(q)[i]] BY <1>5, <2>1, TailFacts, Zenon
  <2> QED BY <2>2, <2>5, <2>6, Zenon
<1> QED BY <1>1, <1>3, <1>4, <1>6, <1>7, Zenon DEF q

\* A segment is advertised, with the later ones queued behind it.
LEMMA AdvertiseKeeps ==
  ASSUME SegmentsAssumption, SegmentsInv, instance' = instance, NEW r \in Resources,
         NEW s \in 1 .. Segments[r], Advertise(r, s),
         outbound_split_queues' = [outbound_split_queues EXCEPT ![r] = Later(r, s)],
         out_events' = [x \in Resources |-> out_events'[x]],
         out_events'[r] = <<"started">>,
         \A x \in Resources : x # r => out_events'[x] = out_events[x]
  PROVE  SenderInv'
<1>1. /\ Resources' = Resources /\ Segments' = Segments /\ MAX_ADV_RETRIES' = MAX_ADV_RETRIES
      /\ SenderShapes /\ \A x \in Resources : Outbound(x)
  BY SamePlan, Zenon DEF SegmentsInv, SenderInv
<1>2. /\ outbound_resources' = [x \in Resources |-> outbound_resources'[x]]
      /\ outbound_resources'[r] = s
      /\ \A x \in Resources : x # r => outbound_resources'[x] = outbound_resources[x]
      /\ outbound_split_queues' = [x \in Resources |-> outbound_split_queues'[x]]
      /\ outbound_split_queues'[r] = Later(r, s)
      /\ \A x \in Resources : x # r => outbound_split_queues'[x] = outbound_split_queues[x]
      /\ retries' = [x \in Resources |-> retries'[x]]
      /\ retries'[r] = 0
      /\ \A x \in Resources : x # r => retries'[x] = retries[x]
  BY <1>1, Zenon DEF Advertise, SenderShapes
<1>3. SenderShapes' BY <1>1, <1>2, Zenon DEF SenderShapes
<1>4. \A x \in Resources : x # r => Outbound(x)' BY <1>1, <1>2, OutboundKept, Zenon
<1>5. Outbound(r)'
  <2>1. Segments[r] \in Nat /\ MAX_ADV_RETRIES \in Nat BY InstanceFacts, Zenon DEF SegmentsInv
  <2>2. s \in 0 .. Segments[r] /\ s # 0 /\ 0 \in 0 .. MAX_ADV_RETRIES BY <2>1
  <2>3. Later(r, s)' = Later(r, s) BY <1>1, Zenon DEF Later
  <2> QED BY <1>1, <1>2, <2>2, <2>3, Zenon DEF Outbound, Later
<1> QED BY <1>1, <1>3, <1>4, <1>5, Zenon DEF SenderInv

\* Advertisements name segments.
LEMMA AdvertiseNetwork ==
  ASSUME SegmentsInv, instance' = instance, NEW r \in Resources, NEW s \in 1 .. Segments[r],
         advs' = [advs EXCEPT ![<<r, s>>] = @ + 1],
         UNCHANGED <<links, served, proofs, icls, rcls>>
  PROVE  NetworkShapes'
<1> DEFINE n == advs[<<r, s>>]
<1>1. <<r, s>> \in SegmentIds BY SegmentNames, Zenon
<1>2. n \in Nat BY <1>1, NetworkSets, Zenon
<1>3. n + 1 \in Nat
  <2> HIDE DEF n
  <2> QED BY <1>2
<1> QED BY <1>1, <1>3, NetworkKept, NetworkSets, Zenon

LEMMA SendStep ==
  ASSUME SegmentsAssumption, SegmentsInv, instance' = instance, NEW r \in Resources,
         SendResource(r)
  PROVE  SegmentsInv'
<1>1. Segments[r] \in Nat /\ 1 \in 1 .. Segments[r] BY InstanceFacts DEF SegmentsInv
<1>2. /\ UNCHANGED <<receiver, links, served, proofs, icls, rcls>> /\ Advertise(r, 1)
      /\ outbound_split_queues' = [outbound_split_queues EXCEPT
                                     ![r] = [i \in 1 .. Segments[r] - 1 |-> i + 1]]
      /\ advs' = [advs EXCEPT ![<<r, 1>>] = @ + 1]
      /\ out_events[r] = <<>> /\ out_events' = Told(out_events, r, "started")
  BY Zenon DEF SendResource, Advertise
<1>3. [i \in 1 .. Segments[r] - 1 |-> i + 1] = Later(r, 1) BY <1>1 DEF Later
<1>4. /\ out_events' = [x \in Resources |-> out_events'[x]]
      /\ out_events'[r] = Append(<<>>, "started")
      /\ \A x \in Resources : x # r => out_events'[x] = out_events[x]
  BY <1>2, Zenon DEF Told, SegmentsInv, SenderInv, SenderShapes
<1>5. Append(<<>>, "started") = <<"started">> /\ <<"started">> # <<"started", "complete">> OBVIOUS
<1>6. SenderInv' BY <1>1, <1>2, <1>3, <1>4, <1>5, AdvertiseKeeps, Zenon
<1>7. NetworkShapes' BY <1>1, <1>2, AdvertiseNetwork, Zenon
<1> QED BY <1>2, <1>4, <1>5, <1>6, <1>7, SenderStep, Zenon

\* The Resource fails at the sender.
LEMMA OutboundFails ==
  ASSUME SegmentsAssumption, SegmentsInv, instance' = instance, NEW r \in Resources,
         outbound_resources[r] # 0, DropOutbound(r), out_events' = Told(out_events, r, "failed"),
         UNCHANGED receiver, proofs' = proofs, NetworkShapes'
  PROVE  SegmentsInv'
<1>1. /\ SenderInv' /\ out_events'[r] = <<"started", "failed">>
      /\ \A x \in Resources : x # r => out_events'[x] = out_events[x]
  BY OutboundConcludes, Zenon
<1>2. <<"started", "failed">> # <<"started", "complete">> OBVIOUS
<1> QED BY <1>1, <1>2, SenderStep, Zenon

LEMMA OutboundSegment ==
  ASSUME SegmentsInv, NEW r \in Resources, outbound_resources[r] # 0
  PROVE  /\ outbound_resources[r] \in 1 .. Segments[r] /\ out_events[r] = <<"started">>
         /\ <<r, outbound_resources[r]>> \in SegmentIds
<1>1. outbound_resources[r] \in 0 .. Segments[r] /\ out_events[r] = <<"started">>
  BY Zenon DEF SegmentsInv, SenderInv, Outbound
<1>2. outbound_resources[r] \in 1 .. Segments[r] BY <1>1
<1> QED BY <1>1, <1>2, SegmentNames, Zenon

\* The watchdog of the segment being sent.
LEMMA OutboundTimeoutStep ==
  ASSUME SegmentsAssumption, SegmentsInv, instance' = instance, NEW r \in Resources,
         OutboundTimeout(r)
  PROVE  SegmentsInv'
<1> DEFINE s == outbound_resources[r]
<1>1. s \in 1 .. Segments[r] /\ <<r, s>> \in SegmentIds /\ s # 0
  BY OutboundSegment, Zenon DEF OutboundTimeout
<1>2. UNCHANGED <<receiver, links, served, proofs, icls, rcls>> BY Zenon DEF OutboundTimeout
<1>3. CASE /\ ~ Readvertises(r) /\ DropOutbound(r)
           /\ out_events' = Told(out_events, r, "failed") /\ UNCHANGED advs
  <2>1. NetworkShapes' BY <1>2, <1>3, NetworkKept, NetworkSets, Zenon
  <2> QED BY <1>1, <1>2, <1>3, <2>1, OutboundFails, Zenon
<1>4. CASE /\ Readvertises(r) /\ retries' = [retries EXCEPT ![r] = @ + 1]
           /\ advs' = [advs EXCEPT ![<<r, s>>] = @ + 1]
           /\ UNCHANGED <<outbound_resources, outbound_split_queues, out_events>>
  <2>1. NetworkShapes'
    <3> HIDE DEF s
    <3> QED BY <1>1, <1>2, <1>4, AdvertiseNetwork, Zenon
  <2>2. /\ Resources' = Resources /\ Segments' = Segments /\ MAX_ADV_RETRIES' = MAX_ADV_RETRIES
        /\ SenderShapes /\ \A x \in Resources : Outbound(x)
    BY SamePlan, Zenon DEF SegmentsInv, SenderInv
  <2>3. /\ retries' = [x \in Resources |-> retries'[x]]
        /\ retries'[r] = retries[r] + 1
        /\ \A x \in Resources : x # r => retries'[x] = retries[x]
    BY <1>4, <2>2, Zenon DEF SenderShapes
  <2>4. SenderShapes' BY <1>4, <2>2, <2>3, Zenon DEF SenderShapes
  <2>5. \A x \in Resources : x # r => Outbound(x)' BY <1>4, <2>2, <2>3, OutboundKept, Zenon
  <2>6. retries'[r] \in 0 .. MAX_ADV_RETRIES
    <3> DEFINE n == retries[r]
    <3>1. n \in 0 .. MAX_ADV_RETRIES /\ n < MAX_ADV_RETRIES
      BY <1>4, <2>2, Zenon DEF Outbound, Readvertises
    <3>2. MAX_ADV_RETRIES \in Nat BY InstanceFacts, Zenon DEF SegmentsInv
    <3>3. retries'[r] = n + 1 BY <2>3, Zenon
    <3> HIDE DEF n
    <3> QED BY <3>1, <3>2, <3>3
  <2>7. Outbound(r)' BY <1>4, <2>2, <2>6, Zenon DEF Outbound, Later
  <2>8. SenderInv' BY <2>2, <2>4, <2>5, <2>7, Zenon DEF SenderInv
  <2> QED BY <1>2, <1>4, <2>1, <2>8, SenderStep, Zenon
<1> QED BY <1>3, <1>4, Zenon DEF OutboundTimeout

\* A proof: the next segment, or the conclusion of the Resource.
LEMMA ProofStep ==
  ASSUME SegmentsAssumption, SegmentsInv, instance' = instance, NEW r \in Resources,
         NEW s \in 1 .. Segments[r], NEW retained \in BOOLEAN, ReceiveProof(r, s, retained)
  PROVE  SegmentsInv'
<1> DEFINE q == outbound_split_queues[r]
<1>1. /\ outbound_resources[r] = s /\ <<r, s>> \in proofs
      /\ UNCHANGED <<receiver, links, served, proofs, icls, rcls>>
  BY Zenon DEF ReceiveProof
<1>2. Segments[r] \in Nat /\ s # 0 BY InstanceFacts DEF SegmentsInv
<1>3. out_events[r] = <<"started">> /\ q = Later(r, s)
  BY <1>1, <1>2, Zenon DEF SegmentsInv, SenderInv, Outbound
<1>4. /\ q = <<>> <=> s = Segments[r]
      /\ s # Segments[r] => /\ Head(q) = s + 1 /\ s + 1 \in 1 .. Segments[r]
                            /\ Tail(q) = Later(r, s + 1)
  BY <1>2, <1>3, QueueFacts, Zenon
<1>5. \/ /\ q = <<>> /\ DropOutbound(r) /\ UNCHANGED advs
         /\ out_events' = Told(out_events, r, "complete")
      \/ /\ q # <<>> /\ Advertise(r, Head(q)) /\ UNCHANGED out_events
         /\ outbound_split_queues' = [outbound_split_queues EXCEPT ![r] = Tail(q)]
      \/ /\ DropOutbound(r) /\ UNCHANGED advs
         /\ out_events' = Told(out_events, r, "failed")
  BY Zenon DEF ReceiveProof
<1>6. CASE /\ q = <<>> /\ DropOutbound(r) /\ UNCHANGED advs
           /\ out_events' = Told(out_events, r, "complete")
  <2>1. /\ SenderInv' /\ out_events'[r] = <<"started", "complete">>
        /\ \A x \in Resources : x # r => out_events'[x] = out_events[x]
    BY <1>1, <1>2, <1>6, OutboundConcludes, Zenon
  <2>2. s = Segments[r] BY <1>4, <1>6, Zenon
  <2>3. completions[r] > 0 BY <1>1, <2>2, Zenon DEF SegmentsInv, HandedInv, Handed
  <2>4. NetworkShapes' BY <1>1, <1>6, NetworkKept, NetworkSets, Zenon
  <2> QED BY <1>1, <2>1, <2>3, <2>4, SenderStep, Zenon
<1>7. CASE /\ q # <<>> /\ Advertise(r, Head(q)) /\ UNCHANGED out_events
           /\ outbound_split_queues' = [outbound_split_queues EXCEPT ![r] = Tail(q)]
  <2> DEFINE t == s + 1
  <2>1. t \in 1 .. Segments[r] /\ Head(q) = t /\ Tail(q) = Later(r, t) BY <1>4, <1>7, Zenon
  <2>2. /\ out_events' = [x \in Resources |-> out_events'[x]]
        /\ out_events'[r] = <<"started">>
        /\ \A x \in Resources : x # r => out_events'[x] = out_events[x]
    BY <1>3, <1>7, Zenon DEF SegmentsInv, SenderInv, SenderShapes
  <2>3. /\ Advertise(r, t)
        /\ outbound_split_queues' = [outbound_split_queues EXCEPT ![r] = Later(r, t)]
    BY <1>7, <2>1, Zenon
  <2> HIDE DEF t
  <2>4. SenderInv' BY <2>1, <2>2, <2>3, AdvertiseKeeps, Zenon
  <2>5. NetworkShapes' BY <1>1, <2>1, <2>3, AdvertiseNetwork, Zenon DEF Advertise
  <2> QED BY <1>1, <1>7, <2>4, <2>5, SenderStep, Zenon
<1>8. CASE /\ DropOutbound(r) /\ UNCHANGED advs
           /\ out_events' = Told(out_events, r, "failed")
  <2>1. NetworkShapes' BY <1>1, <1>8, NetworkKept, NetworkSets, Zenon
  <2> QED BY <1>1, <1>2, <1>8, <2>1, OutboundFails, Zenon
<1> QED BY <1>5, <1>6, <1>7, <1>8, Zenon

\* Cancellations, and a request that is answered.
LEMMA CancelSteps ==
  ASSUME SegmentsAssumption, SegmentsInv, instance' = instance, NEW r \in Resources,
         CancelOutbound(r) \/ \E s \in 1 .. Segments[r] : ReceiveRcl(r, s)
  PROVE  SegmentsInv'
<1>1. /\ outbound_resources[r] # 0 /\ DropOutbound(r)
      /\ out_events' = Told(out_events, r, "failed")
      /\ UNCHANGED <<receiver, links, advs, served, proofs>>
      /\ icls' = icls \/ icls' = icls \union {<<r, outbound_resources[r]>>}
      /\ rcls' \subseteq rcls
  <2>1. CASE CancelOutbound(r) BY <2>1, Zenon DEF CancelOutbound
  <2>2. CASE \E s \in 1 .. Segments[r] : ReceiveRcl(r, s)
    <3>1. PICK s \in 1 .. Segments[r] : ReceiveRcl(r, s) BY <2>2, Zenon
    <3>2. s # 0 OBVIOUS
    <3> QED BY <3>1, <3>2, Zenon DEF ReceiveRcl
  <2> QED BY <2>1, <2>2, Zenon
<1>2. <<r, outbound_resources[r]>> \in SegmentIds BY <1>1, OutboundSegment, Zenon
<1>3. icls' \subseteq SegmentIds /\ rcls' \subseteq SegmentIds BY <1>1, <1>2, NetworkSets, Zenon
<1>4. NetworkShapes' BY <1>1, <1>3, NetworkKept, NetworkSets, Zenon
<1> QED BY <1>1, <1>4, OutboundFails, Zenon

LEMMA ServeStep ==
  ASSUME SegmentsInv, instance' = instance, NEW r \in Resources, NEW s \in 1 .. Segments[r],
         Serve(r, s)
  PROVE  SegmentsInv'
<1>1. /\ UNCHANGED <<sender, receiver, links, advs, proofs, icls, rcls>>
      /\ served' = served \union {<<r, s>>}
  BY Zenon DEF Serve
<1>2. served' \subseteq SegmentIds BY <1>1, SegmentNames, NetworkSets, Zenon
<1>3. NetworkShapes' BY <1>1, <1>2, NetworkKept, NetworkSets, Zenon
<1>4. SenderInv' /\ out_events' = out_events BY <1>1, SenderIdle, Zenon DEF SegmentsInv
<1> QED BY <1>1, <1>3, <1>4, SenderStep, Zenon

\* The Link closes at the sender: every Resource under way fails.
LEMMA CloseAtSenderStep ==
  ASSUME SegmentsAssumption, SegmentsInv, instance' = instance, CloseAtSender
  PROVE  SegmentsInv'
<1>1. /\ Resources' = Resources /\ Segments' = Segments /\ MAX_ADV_RETRIES' = MAX_ADV_RETRIES
      /\ SenderShapes /\ \A x \in Resources : Outbound(x)
  BY SamePlan, Zenon DEF SegmentsInv, SenderInv
<1>2. /\ outbound_resources' = [x \in Resources |-> 0]
      /\ outbound_split_queues' = [x \in Resources |-> <<>>]
      /\ retries' = retries /\ UNCHANGED <<receiver, network>> /\ links' \subseteq links
  BY Zenon DEF CloseAtSender
<1>3. /\ out_events' = [x \in Resources |-> out_events'[x]]
      /\ \A x \in Resources :
            /\ outbound_resources[x] # 0 => out_events'[x] = Append(out_events[x], "failed")
            /\ outbound_resources[x] = 0 => out_events'[x] = out_events[x]
  BY Zenon DEF CloseAtSender
<1>4. SenderShapes' BY <1>1, <1>2, <1>3, Zenon DEF SenderShapes
<1>5. ASSUME NEW x \in Resources
      PROVE  /\ Outbound(x)'
             /\ out_events'[x] = out_events[x] \/ out_events'[x] # <<"started", "complete">>
  <2>1. 0 \in 0 .. Segments[x]
    <3>1. Segments[x] \in Nat BY InstanceFacts, Zenon DEF SegmentsInv
    <3> QED BY <3>1
  <2>2. Outbound(x) BY <1>1, Zenon
  <2>3. \/ out_events'[x] = <<"started", "failed">>
        \/ out_events'[x] = out_events[x] /\ out_events[x] # <<"started">>
    <3>1. CASE outbound_resources[x] # 0
      <4>1. out_events[x] = <<"started">> BY <2>2, <3>1, Zenon DEF Outbound
      <4> QED BY <1>3, <3>1, <4>1, Pair, Zenon
    <3>2. CASE outbound_resources[x] = 0 BY <1>3, <2>2, <3>2, Zenon DEF Outbound
    <3> QED BY <3>1, <3>2, Zenon
  <2>4. <<"started", "failed">> # <<"started", "complete">> /\ <<"started", "failed">> # <<"started">>
    OBVIOUS
  <2>5. /\ outbound_resources'[x] = 0 /\ outbound_split_queues'[x] = <<>>
        /\ retries'[x] = retries[x]
    BY <1>2, Zenon
  <2>6. out_events'[x] \in {<<>>, <<"started">>, <<"started", "complete">>, <<"started", "failed">>}
        /\ out_events'[x] # <<"started">>
    BY <2>2, <2>3, <2>4, Zenon DEF Outbound
  <2> QED BY <1>1, <2>1, <2>2, <2>3, <2>4, <2>5, <2>6, Zenon DEF Outbound
<1>6. SenderInv' BY <1>1, <1>4, <1>5, Zenon DEF SenderInv
<1>7. NetworkShapes' BY <1>2, NetworkKept, NetworkSets, Zenon DEF network
<1>8. proofs' = proofs BY <1>2, Zenon DEF network
<1> QED BY <1>2, <1>5, <1>6, <1>7, <1>8, SenderStep, Zenon

-----------------------------------------------------------------------------

(* An advertisement, and the count of the coordinator *)

Finite == INSTANCE FiniteSetTheorems

\* The coordinator counts what it has.
LEMMA IntervalCard ==
  ASSUME NEW n \in Nat
  PROVE  Cardinality(1 .. n) = n
<1>1. Finite!Cardinality(1 .. n) = IF 1 > n THEN 0 ELSE n - 1 + 1 BY Finite!FS_Interval
<1>2. Finite!Cardinality(1 .. n) = n BY <1>1
<1>3. Cardinality(1 .. n) = Finite!Cardinality(1 .. n) BY Zenon DEF Cardinality, Finite!Cardinality
<1> QED BY <1>2, <1>3, Zenon

\* The next segment of a Resource, or the first one.
LEMMA AdmitKeeps ==
  ASSUME SegmentsAssumption, instance \in Instances, ReceiverInv, instance' = instance,
         NEW r \in Resources, NEW s \in 1 .. Segments[r],
         live(r) => Continues(r, s), ~ live(r) /\ split(r) => s = 1, Admit(r, s)
  PROVE  ReceiverInv' /\ completions' = completions
<1> DEFINE new == [current_segment |-> s, deadline |-> FALSE]
<1>1. /\ Resources' = Resources /\ SegmentIds' = SegmentIds /\ Segments' = Segments
      /\ split(r)' <=> split(r)
  BY SamePlan, Zenon DEF split
<1>2. /\ DOMAIN lifecycles' = DOMAIN lifecycles \union {r} /\ lifecycles'[r] = new
      /\ \A x \in DOMAIN lifecycles : x # r => lifecycles'[x] = lifecycles[x]
      /\ lifecycles' = [x \in DOMAIN lifecycles' |-> lifecycles'[x]]
  BY Zenon DEF Admit, Put
<1>3. /\ inbound_resources' = inbound_resources \union {<<r, s>>} /\ completions' = completions
      /\ split(r) => segment_routing' = segment_routing \union {<<r, s>>}
      /\ ~ split(r) => segment_routing' = segment_routing
  BY Zenon DEF Admit
<1>4. \A t : <<r, t>> \notin inbound_resources
  <2> SUFFICES ASSUME NEW t, <<r, t>> \in inbound_resources PROVE FALSE OBVIOUS
  <2>1. t \in 1 .. Segments[r] /\ live(r) /\ lifecycles[r].current_segment = t BY OneSegment, Zenon
  <2>2. lifecycles[r].current_segment = 0 BY <2>1, Zenon DEF Continues
  <2> QED BY <2>1, <2>2
<1>5. /\ \A x \in DOMAIN inbound_split_resources : x # r =>
            x \in DOMAIN inbound_split_resources'
            /\ inbound_split_resources'[x] = inbound_split_resources[x]
      /\ DOMAIN inbound_split_resources' \subseteq DOMAIN inbound_split_resources \union {r}
      /\ inbound_split_resources' =
           [x \in DOMAIN inbound_split_resources' |-> inbound_split_resources'[x]]
      /\ split(r) => r \in DOMAIN inbound_split_resources'
      /\ ~ split(r) => inbound_split_resources' = inbound_split_resources
  <2>1. CASE split(r) /\ r \notin DOMAIN inbound_split_resources
    <3>1. inbound_split_resources' = Put(inbound_split_resources, r, {}) BY <2>1, Zenon DEF Admit
    <3> QED BY <2>1, <3>1, Zenon DEF Put
  <2>2. CASE ~ (split(r) /\ r \notin DOMAIN inbound_split_resources)
    <3>1. inbound_split_resources' = inbound_split_resources BY <2>2, Zenon DEF Admit
    <3> QED BY <2>2, <3>1, Zenon DEF ReceiverInv, ReceiverShapes
  <2> QED BY <2>1, <2>2, Zenon
<1>6. split(r) => inbound_split_resources'[r] = 1 .. s - 1
  <2> SUFFICES ASSUME split(r) PROVE inbound_split_resources'[r] = 1 .. s - 1 OBVIOUS
  <2>1. CASE live(r)
    <3>1. r \in DOMAIN inbound_split_resources /\ s = Cardinality(inbound_split_resources[r]) + 1
      BY <2>1, Zenon DEF Continues
    <3>2. PICK n \in 0 .. Segments[r] - 1 : inbound_split_resources[r] = 1 .. n
      BY <3>1, Zenon DEF ReceiverInv, Inbound
    <3>3. n \in Nat /\ s = n + 1
      <4>1. Segments[r] \in Nat BY InstanceFacts, Zenon
      <4>2. n \in Nat BY <4>1
      <4> QED BY <3>1, <3>2, <4>2, IntervalCard, Zenon
    <3>4. inbound_split_resources' = inbound_split_resources BY <3>1, Zenon DEF Admit
    <3> QED BY <3>2, <3>3, <3>4
  <2>2. CASE ~ live(r)
    <3>1. r \notin DOMAIN inbound_split_resources BY <2>2, Zenon DEF ReceiverInv, Inbound
    <3>2. inbound_split_resources' = Put(inbound_split_resources, r, {}) BY <3>1, Zenon DEF Admit
    <3>3. inbound_split_resources'[r] = {} BY <3>2, Zenon DEF Put
    <3>4. s = 1 BY <2>2, Zenon
    <3> QED BY <3>3, <3>4
  <2> QED BY <2>1, <2>2, Zenon
<1>7. ~ split(r) => r \notin DOMAIN inbound_split_resources BY Zenon DEF ReceiverInv, Inbound
<1>8. /\ in_events' = [x \in Resources |-> in_events'[x]]
      /\ \A x \in Resources : x # r => in_events'[x] = in_events[x]
      /\ Alternates(in_events'[r]) /\ Len(in_events'[r]) % 2 = 1
  <2>1. Alternates(in_events[r]) /\ (live(r) <=> Len(in_events[r]) % 2 = 1)
    BY Zenon DEF ReceiverInv, Lifecycle
  <2>2. in_events = [x \in Resources |-> in_events[x]] BY Zenon DEF ReceiverInv, ReceiverShapes
  <2>3. CASE live(r)
    <3>1. in_events' = in_events BY <2>3, Zenon DEF Admit
    <3> QED BY <2>1, <2>2, <2>3, <3>1, Zenon
  <2>4. CASE ~ live(r)
    <3>1. Len(in_events[r]) % 2 = 0 BY <2>1, <2>4, Even, Zenon
    <3>2. /\ Alternates(Append(in_events[r], "started"))
          /\ Len(Append(in_events[r], "started")) % 2 = 1
      BY <2>1, <3>1, StartedEvents, Zenon
    <3>3. in_events' = [in_events EXCEPT ![r] = Append(in_events[r], "started")]
      BY <2>4, Zenon DEF Admit, Told
    <3> QED BY <2>2, <3>2, <3>3, Zenon
  <2> QED BY <2>3, <2>4, Zenon
<1>9. ReceiverShapes'
  <2>1. <<r, s>> \in SegmentIds BY SegmentNames, Zenon
  <2> QED BY <1>1, <1>2, <1>3, <1>5, <1>8, <2>1, Zenon DEF ReceiverInv, ReceiverShapes
<1>10. ASSUME NEW x \in Resources, x # r PROVE Lifecycle(x)' /\ Inbound(x)'
  <2>1. SameAt(x)
    BY <1>2, <1>3, <1>5, <1>8, <1>10, Zenon DEF SameAt, live
  <2> QED BY <2>1, ReceiverKept, Zenon DEF ReceiverInv
<1>11. live(r)' BY <1>2, Zenon DEF live
<1>12. Lifecycle(r)'
  <2>1. new \in [current_segment : 0 .. Segments[r], deadline : BOOLEAN] OBVIOUS
  <2>2. <<r, new.current_segment>> \in inbound_resources' BY <1>3, Zenon
  <2> QED BY <1>1, <1>2, <1>8, <1>11, <2>1, <2>2, Zenon DEF Lifecycle
<1>13. Inbound(r)'
  <2>1. \A t : <<r, t>> \in inbound_resources' => t = s BY <1>3, <1>4, Zenon
  <2>2. lifecycles'[r].current_segment = s BY <1>2
  <2>3. <<r, s>> \in segment_routing' <=> split(r)
    BY <1>3, <1>4, Zenon DEF ReceiverInv, ReceiverShapes
  <2>4. r \in DOMAIN inbound_split_resources' => split(r) BY <1>5, <1>7, Zenon
  <2>5. Segments[r] \in Nat /\ s - 1 \in 0 .. Segments[r] - 1 BY InstanceFacts
  <2> QED BY <1>1, <1>5, <1>6, <1>11, <2>1, <2>2, <2>3, <2>4, <2>5, SMTT(30) DEF Inbound
<1> QED BY <1>1, <1>3, <1>9, <1>10, <1>12, <1>13, Zenon DEF ReceiverInv

LEMMA AdvertisementStep ==
  ASSUME SegmentsAssumption, SegmentsInv, instance' = instance, NEW r \in Resources,
         NEW s \in 1 .. Segments[r], NEW answer \in Answers, ReceiveAdvertisement(r, s, answer)
  PROVE  SegmentsInv'
<1>1. <<r, s>> \in SegmentIds BY SegmentNames, Zenon
<1>2. /\ UNCHANGED sender /\ links' = links /\ served' = served /\ proofs' = proofs /\ icls' = icls
      /\ advs' = [advs EXCEPT ![<<r, s>>] = advs[<<r, s>>] - 1] /\ advs[<<r, s>>] > 0
  BY Zenon DEF ReceiveAdvertisement
<1>3. ASSUME rcls' \subseteq SegmentIds PROVE NetworkShapes'
  <2> DEFINE n == advs[<<r, s>>]
  <2>1. n \in Nat BY <1>1, NetworkSets, Zenon
  <2>2. n - 1 \in Nat
    <3>1. n > 0 BY <1>2, Zenon
    <3> HIDE DEF n
    <3> QED BY <2>1, <3>1
  <2> QED BY <1>1, <1>2, <1>3, <2>2, NetworkKept, NetworkSets, Zenon
<1>4. CASE UNCHANGED <<receiver, rcls>>
  <2>1. ReceiverInv' BY <1>4, ReceiverIdle, Zenon DEF SegmentsInv
  <2>2. NetworkShapes' BY <1>3, <1>4, NetworkSets, Zenon
  <2> QED BY <1>2, <1>4, <2>1, <2>2, ReceiverStep, Zenon DEF receiver
<1>5. CASE Reject(r, s)
  <2>1. rcls' \subseteq SegmentIds BY <1>1, <1>5, NetworkSets, Zenon DEF Reject
  <2> QED BY <1>2, <1>3, <1>5, <2>1, ReceiverFails, Zenon DEF Reject
<1>6. CASE /\ rcls' = rcls \union {<<r, s>>}
           /\ ConcludeInboundFailure(r) \/ UNCHANGED receiver
  <2>1. NetworkShapes' BY <1>1, <1>3, <1>6, NetworkSets, Zenon
  <2>2. CASE ConcludeInboundFailure(r) BY <1>2, <2>1, <2>2, ReceiverFails, Zenon
  <2>3. CASE UNCHANGED receiver
    <3>1. ReceiverInv' BY <2>3, ReceiverIdle, Zenon DEF SegmentsInv
    <3> QED BY <1>2, <2>1, <2>3, <3>1, ReceiverStep, Zenon DEF receiver
  <2> QED BY <1>6, <2>2, <2>3, Zenon
<1>7. CASE AdmitFails(r) /\ UNCHANGED rcls
  <2>1. NetworkShapes' BY <1>3, <1>7, NetworkSets, Zenon
  <2>2. ReceiverInv' /\ completions' = completions BY <1>7, AdmitFailsKeeps, Zenon DEF SegmentsInv
  <2> QED BY <1>2, <2>1, <2>2, ReceiverStep, Zenon
<1>8. CASE /\ Admit(r, s) /\ UNCHANGED rcls
           /\ live(r) => Continues(r, s)
           /\ ~ live(r) /\ split(r) => s = 1
  <2>1. NetworkShapes' BY <1>3, <1>8, NetworkSets, Zenon
  <2>2. ReceiverInv' /\ completions' = completions BY <1>8, AdmitKeeps, Zenon DEF SegmentsInv
  <2> QED BY <1>2, <2>1, <2>2, ReceiverStep, Zenon
<1>9. \/ UNCHANGED <<receiver, rcls>>
      \/ Reject(r, s)
      \/ rcls' = rcls \union {<<r, s>>} /\ (ConcludeInboundFailure(r) \/ UNCHANGED receiver)
      \/ AdmitFails(r) /\ UNCHANGED rcls
      \/ Admit(r, s) /\ UNCHANGED rcls /\ (live(r) => Continues(r, s))
         /\ (~ live(r) /\ split(r) => s = 1)
  BY Zenon DEF ReceiveAdvertisement, Answers
<1> QED BY <1>4, <1>5, <1>6, <1>7, <1>8, <1>9, Zenon

-----------------------------------------------------------------------------

(* The invariant and what it means *)

LEMMA SegmentsInit == SegmentsAssumption /\ Init => SegmentsInv
<1> SUFFICES ASSUME SegmentsAssumption, Init PROVE SegmentsInv OBVIOUS
<1>1. instance \in Instances BY Zenon DEF Init
<1>2. \A r \in Resources : Segments[r] \in Nat /\ 0 \in 0 .. Segments[r]
  BY <1>1, InstanceFacts
<1>3. 0 \in 0 .. MAX_ADV_RETRIES BY <1>1, InstanceFacts
<1>4. SenderInv
  <2>1. SenderShapes BY Zenon DEF Init, SenderShapes
  <2>2. <<>> # <<"started">> OBVIOUS
  <2>3. \A r \in Resources : Outbound(r) BY <1>2, <1>3, <2>2, Zenon DEF Init, Outbound
  <2> QED BY <2>1, <2>3, Zenon DEF SenderInv
<1>5. ReceiverInv
  <2>1. DOMAIN lifecycles = {} /\ DOMAIN inbound_split_resources = {} BY DEF Init
  <2>2. ReceiverShapes BY <2>1 DEF Init, ReceiverShapes
  <2>3. Alternates(<<>>) /\ Len(<<>>) % 2 # 1 BY DEF Alternates
  <2>4. \A r \in Resources : in_events[r] = <<>> /\ ~ live(r) BY <2>1, Zenon DEF Init, live
  <2>5. \A r \in Resources : Lifecycle(r) BY <2>3, <2>4, Zenon DEF Lifecycle
  <2>6. \A r \in Resources : Inbound(r) BY <2>1, Zenon DEF Init, Inbound
  <2> QED BY <2>2, <2>5, <2>6, Zenon DEF ReceiverInv
<1>6. HandedInv
  <2>1. <<>> # <<"started", "complete">> OBVIOUS
  <2> QED BY <2>1, Zenon DEF Init, HandedInv, Handed
<1>7. NetworkShapes BY Zenon DEF Init, NetworkShapes
<1> QED BY <1>1, <1>4, <1>5, <1>6, <1>7, Zenon DEF SegmentsInv

LEMMA SegmentsStep ==
  SegmentsAssumption /\ SegmentsInv /\ [Next]_vars => SegmentsInv'
<1> SUFFICES ASSUME SegmentsAssumption, SegmentsInv, [Next]_vars PROVE SegmentsInv' OBVIOUS
<1>1. CASE UNCHANGED vars
  <2>1. UNCHANGED <<sender, receiver>> /\ instance' = instance /\ UNCHANGED <<links, network>>
    BY <1>1, Zenon DEF vars, system
  <2>2. SenderInv' /\ out_events' = out_events BY <2>1, SenderIdle, Zenon DEF SegmentsInv
  <2>3. NetworkShapes' BY <2>1, NetworkKept, NetworkSets, Zenon DEF network
  <2>4. proofs' = proofs BY <2>1, Zenon DEF network
  <2> QED BY <2>1, <2>2, <2>3, <2>4, SenderStep, Zenon
<1>2. CASE Next
  <2>1. instance' = instance BY <1>2, Zenon DEF Next, Same
  <2>2. CASE CloseAtSender BY <2>1, <2>2, CloseAtSenderStep, Zenon
  <2>3. CASE CloseAtReceiver BY <2>1, <2>3, CloseAtReceiverStep, Zenon
  <2>4. CASE \E r \in Resources : \/ SendResource(r) \/ OutboundTimeout(r) \/ CancelOutbound(r)
                                  \/ SplitDeadline(r) \/ CancelInbound(r)
    <3>1. PICK r \in Resources : \/ SendResource(r) \/ OutboundTimeout(r) \/ CancelOutbound(r)
                                 \/ SplitDeadline(r) \/ CancelInbound(r)
      BY <2>4, Zenon
    <3>2. CASE SendResource(r) BY <2>1, <3>2, SendStep, Zenon
    <3>3. CASE OutboundTimeout(r) BY <2>1, <3>3, OutboundTimeoutStep, Zenon
    <3>4. CASE CancelOutbound(r) BY <2>1, <3>4, CancelSteps, Zenon
    <3>5. CASE SplitDeadline(r) \/ CancelInbound(r)
      <4>1. 1 \in 1 .. Segments[r] BY InstanceFacts DEF SegmentsInv
      <4> QED BY <2>1, <3>5, <4>1, FailureSteps, Zenon
    <3> QED BY <3>1, <3>2, <3>3, <3>4, <3>5, Zenon
  <2>5. CASE \E i \in SegmentIds :
                \/ ReceiveAnyAdvertisement(i[1], i[2]) \/ Serve(i[1], i[2])
                \/ \E verdict \in Verdicts : ReceiveLastPart(i[1], i[2], verdict)
                \/ \E retained \in BOOLEAN : ReceiveProof(i[1], i[2], retained)
                \/ InboundTimeout(i[1], i[2]) \/ ReceiveBadHmu(i[1], i[2])
                \/ ReceiveIcl(i[1], i[2]) \/ ReceiveRcl(i[1], i[2])
    <3>a. PICK i \in SegmentIds :
                \/ ReceiveAnyAdvertisement(i[1], i[2]) \/ Serve(i[1], i[2])
                \/ \E verdict \in Verdicts : ReceiveLastPart(i[1], i[2], verdict)
                \/ \E retained \in BOOLEAN : ReceiveProof(i[1], i[2], retained)
                \/ InboundTimeout(i[1], i[2]) \/ ReceiveBadHmu(i[1], i[2])
                \/ ReceiveIcl(i[1], i[2]) \/ ReceiveRcl(i[1], i[2])
      BY <2>5, Zenon
    <3>b. PICK r \in Resources : \E s \in 1 .. Segments[r] : i = <<r, s>> BY SegmentNames, Zenon
    <3>c. PICK s \in 1 .. Segments[r] : i = <<r, s>> BY <3>b, Zenon
    <3>1. \/ ReceiveAnyAdvertisement(r, s) \/ Serve(r, s)
          \/ \E verdict \in Verdicts : ReceiveLastPart(r, s, verdict)
          \/ \E retained \in BOOLEAN : ReceiveProof(r, s, retained)
          \/ InboundTimeout(r, s) \/ ReceiveBadHmu(r, s)
          \/ ReceiveIcl(r, s) \/ ReceiveRcl(r, s)
      <4>1. i[1] = r /\ i[2] = s BY <3>c, Zenon
      <4> QED BY <3>a, <4>1, Zenon
    <3>2. CASE ReceiveAnyAdvertisement(r, s)
      <4>1. PICK answer \in Answers : ReceiveAdvertisement(r, s, answer)
        BY <3>2, Zenon DEF ReceiveAnyAdvertisement
      <4> QED BY <2>1, <4>1, AdvertisementStep, Zenon
    <3>3. CASE Serve(r, s) BY <2>1, <3>3, ServeStep, Zenon
    <3>4. CASE \E verdict \in Verdicts : ReceiveLastPart(r, s, verdict)
      BY <2>1, <3>4, LastPartStep, Zenon
    <3>5. CASE \E retained \in BOOLEAN : ReceiveProof(r, s, retained)
      BY <2>1, <3>5, ProofStep, Zenon
    <3>6. CASE InboundTimeout(r, s) \/ ReceiveBadHmu(r, s) \/ ReceiveIcl(r, s)
      BY <2>1, <3>6, FailureSteps, Zenon
    <3>7. CASE ReceiveRcl(r, s) BY <2>1, <3>7, CancelSteps, Zenon
    <3> QED BY <3>1, <3>2, <3>3, <3>4, <3>5, <3>6, <3>7, Zenon
  <2> QED BY <1>2, <2>2, <2>3, <2>4, <2>5, Zenon DEF Next
<1> QED BY <1>1, <1>2, Zenon

LEMMA TypesAtSender ==
  ASSUME SegmentsAssumption, SegmentsInv
  PROVE  /\ \A r \in Resources : outbound_resources[r] \in 0 .. Segments[r]
         /\ \A r \in Resources : outbound_split_queues[r] \in Seq(1 .. Segments[r])
         /\ retries \in [Resources -> 0 .. MAX_ADV_RETRIES]
         /\ \A r \in Resources : out_events[r] \in Seq(Event)
<1>1. SenderShapes /\ \A r \in Resources : Outbound(r) BY Zenon DEF SegmentsInv, SenderInv
<1>2. \A r \in Resources : outbound_resources[r] \in 0 .. Segments[r] BY <1>1, Zenon DEF Outbound
<1>3. ASSUME NEW r \in Resources PROVE outbound_split_queues[r] \in Seq(1 .. Segments[r])
  <2>1. CASE outbound_resources[r] = 0
    <3>1. outbound_split_queues[r] = <<>> BY <1>1, <2>1, Zenon DEF Outbound
    <3> QED BY <3>1
  <2>2. CASE outbound_resources[r] # 0
    <3> DEFINE s == outbound_resources[r]
               n == Segments[r] - s
    <3>1. s \in 1 .. Segments[r] /\ Segments[r] \in Nat BY <2>2, OutboundSegment, InstanceFacts, Zenon DEF SegmentsInv
    <3>2. outbound_split_queues[r] = [i \in 1 .. n |-> s + i] BY <1>1, <2>2, Zenon DEF Outbound, Later
    <3> HIDE DEF s
    <3>3. n \in Nat /\ \A i \in 1 .. n : s + i \in 1 .. Segments[r] BY <3>1
    <3> DEFINE S == 1 .. Segments[r]
    <3> HIDE DEF n, S
    <3>4. [i \in 1 .. n |-> s + i] \in [1 .. n -> S] BY <3>3, Zenon DEF S
    <3>5. [1 .. n -> S] \subseteq Seq(S) BY <3>3
    <3>6. outbound_split_queues[r] \in Seq(S) BY <3>2, <3>4, <3>5, Zenon
    <3> QED BY <3>6, Zenon DEF S
  <2> QED BY <2>1, <2>2, Zenon
<1>4. retries \in [Resources -> 0 .. MAX_ADV_RETRIES]
  <2>1. \A r \in Resources : retries[r] \in 0 .. MAX_ADV_RETRIES BY <1>1, Zenon DEF Outbound
  <2>2. retries = [r \in Resources |-> retries[r]] BY <1>1, Zenon DEF SenderShapes
  <2> QED BY <2>1, <2>2, Zenon
<1>5. \A r \in Resources : out_events[r] \in Seq(Event)
  <2>1. /\ <<>> \in Seq(Event) /\ <<"started">> \in Seq(Event)
        /\ <<"started", "complete">> \in Seq(Event) /\ <<"started", "failed">> \in Seq(Event)
    BY DEF Event
  <2> QED BY <1>1, <2>1, Zenon DEF Outbound
<1> QED BY <1>2, <1>3, <1>4, <1>5, Zenon

LEMMA TypesHold ==
  ASSUME SegmentsAssumption, SegmentsInv
  PROVE  TypeOK
<1>1. ReceiverShapes /\ \A r \in Resources : Lifecycle(r) /\ Inbound(r) BY Zenon DEF SegmentsInv, ReceiverInv
<1>2. \A r \in DOMAIN inbound_split_resources : inbound_split_resources[r] \subseteq 1 .. Segments[r]
  <2> SUFFICES ASSUME NEW r \in DOMAIN inbound_split_resources
               PROVE  inbound_split_resources[r] \subseteq 1 .. Segments[r]
    OBVIOUS
  <2>1. r \in Resources BY <1>1, Zenon DEF ReceiverShapes
  <2>2. PICK n \in 0 .. Segments[r] - 1 : inbound_split_resources[r] = 1 .. n
    BY <1>1, <2>1, Zenon DEF Inbound
  <2>3. Segments[r] \in Nat BY <2>1, InstanceFacts, Zenon DEF SegmentsInv
  <2> QED BY <2>2, <2>3
<1>3. \A r \in DOMAIN lifecycles :
        lifecycles[r] \in [current_segment : 0 .. Segments[r], deadline : BOOLEAN]
  BY <1>1, Zenon DEF Lifecycle, live, ReceiverShapes
<1>4. \A r \in Resources : in_events[r] \in Seq(Event) BY <1>1, Zenon DEF Lifecycle, Alternates
<1>5. completions \in [Resources -> Nat]
  <2>1. \A r \in Resources : completions[r] \in Nat BY Zenon DEF SegmentsInv, HandedInv, Handed
  <2>2. completions = [r \in Resources |-> completions[r]] BY <1>1, Zenon DEF ReceiverShapes
  <2> QED BY <2>1, <2>2, Zenon
<1>6. /\ inbound_resources \subseteq SegmentIds /\ segment_routing \subseteq SegmentIds
      /\ DOMAIN inbound_split_resources \subseteq Resources /\ DOMAIN lifecycles \subseteq Resources
  BY <1>1, Zenon DEF ReceiverShapes
<1>7. NetworkShapes BY Zenon DEF SegmentsInv
<1> QED BY <1>2, <1>3, <1>4, <1>5, <1>6, <1>7, TypesAtSender, Zenon DEF TypeOK, NetworkShapes

LEMMA InvariantMeans ==
  ASSUME SegmentsAssumption, SegmentsInv
  PROVE  SegmentsSound
<1>1. ReceiverShapes /\ \A r \in Resources : Lifecycle(r) /\ Inbound(r) BY Zenon DEF SegmentsInv, ReceiverInv
<1>2. InboundPaired BY <1>1, Zenon DEF InboundPaired, Lifecycle, Alternates
<1>3. OutboundPaired
  <2> SUFFICES ASSUME NEW r \in Resources
               PROVE  /\ Len(out_events[r]) <= 2
                      /\ (outbound_resources[r] # 0) <=> (out_events[r] = <<"started">>)
                      /\ outbound_resources[r] = 0 => outbound_split_queues[r] = <<>>
    BY Zenon DEF OutboundPaired
  <2>1. Outbound(r) BY Zenon DEF SegmentsInv, SenderInv
  <2>2. /\ Len(<<>>) <= 2 /\ Len(<<"started">>) <= 2
        /\ Len(<<"started", "complete">>) <= 2 /\ Len(<<"started", "failed">>) <= 2
    OBVIOUS
  <2> QED BY <2>1, <2>2, Zenon DEF Outbound
<1>4. NoOrphans
  <2>1. ASSUME NEW i \in inbound_resources
        PROVE  live(i[1]) /\ lifecycles[i[1]].current_segment = i[2]
    <3>1. i \in SegmentIds BY <1>1, Zenon DEF ReceiverShapes
    <3>2. PICK r \in Resources : \E s \in 1 .. Segments[r] : i = <<r, s>> BY <3>1, SegmentNames, Zenon
    <3>3. PICK s \in 1 .. Segments[r] : i = <<r, s>> BY <3>2, Zenon
    <3>4. <<r, s>> \in inbound_resources /\ i[1] = r /\ i[2] = s BY <3>3, Zenon
    <3> QED BY <3>4, OneSegment, Zenon DEF SegmentsInv
  <2>2. DOMAIN inbound_split_resources \subseteq DOMAIN lifecycles
    BY <1>1, Zenon DEF ReceiverShapes, Inbound, live
  <2> QED BY <1>1, <2>1, <2>2, Zenon DEF NoOrphans, ReceiverShapes
<1>5. LifecycleWatched BY <1>1, Zenon DEF LifecycleWatched, ReceiverShapes, Lifecycle, live
<1>6. AssembledInOrder
  <2> SUFFICES ASSUME NEW r \in DOMAIN inbound_split_resources
               PROVE  inbound_split_resources[r] = 1 .. Cardinality(inbound_split_resources[r])
    BY Zenon DEF AssembledInOrder
  <2>1. r \in Resources BY <1>1, Zenon DEF ReceiverShapes
  <2>2. PICK n \in 0 .. Segments[r] - 1 : inbound_split_resources[r] = 1 .. n
    BY <1>1, <2>1, Zenon DEF Inbound
  <2>3. n \in Nat
    <3>1. Segments[r] \in Nat BY <2>1, InstanceFacts, Zenon DEF SegmentsInv
    <3> QED BY <3>1
  <2> QED BY <2>2, <2>3, IntervalCard, Zenon
<1>7. CompleteMeansDelivered BY Zenon DEF CompleteMeansDelivered, SegmentsInv, HandedInv, Handed
<1>8. EventsPaired BY <1>2, <1>3, TypesHold, Zenon DEF EventsPaired
<1> QED BY <1>4, <1>5, <1>6, <1>7, <1>8, Zenon DEF SegmentsSound, LifecyclesOwned

\* Whatever advertisements, proofs and cancellations arrive late, again or not
\* at all, and whichever end gives up or closes: starts and conclusions pair at
\* both ends, a conclusion leaves no segment, route, coordinator or queue
\* behind, segments are assembled in order, and a sender told that a Resource
\* is complete has a receiver that was handed all of it.
THEOREM SegmentsAreSound ==
  ASSUME SegmentsAssumption
  PROVE  Spec => []SegmentsSound
<1>1. Init => SegmentsInv BY SegmentsInit, Zenon
<1>2. SegmentsInv /\ [Next]_vars => SegmentsInv' BY SegmentsStep, Zenon
<1>3. SegmentsInv => SegmentsSound BY InvariantMeans, Zenon
<1> QED BY <1>1, <1>2, <1>3, PTL DEF Spec

=============================================================================
