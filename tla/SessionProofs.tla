--------------------------- MODULE SessionProofs ---------------------------
(***************************************************************************)
(* Proofs about LinkSession: whatever requests, Resources, repeated        *)
(* advertisements and deadlines a session sees, its accounts are exact and *)
(* every caller is told once.                                              *)
(***************************************************************************)
EXTENDS LinkSession, TLAPS

\* An outbound Resource is sent or waits, once, until it has concluded.
OutboundInv ==
    /\ \A m, n \in DOMAIN queued : queued[m] = queued[n] => m = n
    /\ \A n \in DOMAIN queued : queued[n] # outbound.item
    /\ \A i \in Items : InFlight(i) => ended[i] = "none"

\* A body belongs to a request that was made; a report is of a body that has
\* concluded, or of an answer that the peer has given.
ReportInv ==
    /\ \A r \in Big :
          InFlight(r) \/ ended[r] # "none" => r \in requests \/ results[r] # "none"
    /\ \A c \in commands :
          /\ c.of = "body" => c.request \in Big /\ ended[c.request] # "none"
          /\ c.of = "answer" /\ c.ok => answered[c.request] = "Resource"

\* A coordinator has the first segments in order, and not yet all of them while
\* the Resource is being received; the segment in transfer is the next one.
AssemblyInv ==
    \A x \in Inbounds :
        /\ assembled[x] = [k \in 1 .. Len(assembled[x]) |-> k]
        /\ x \in inbound_logicals => Len(assembled[x]) < Segments[x]
        /\ inbound[x] # 0 => inbound[x] = Len(assembled[x]) + 1
        /\ x \in inbound_logicals \cap Requests => answered[x] = "Resource"

AskingInv == RequestsExact /\ BodiesFollowed /\ ReportInv
SendingInv == OutboundInv /\ QueueMoves
ReceivingInv == LifecyclesPaired /\ HandedInOrder /\ AssemblyInv

SessionInv == instance \in Instances /\ SessionTypeOK /\ AskingInv /\ SendingInv /\ ReceivingInv

-----------------------------------------------------------------------------

(* The instance *)

\* What an instance is known to satisfy.
LEMMA InstanceFacts ==
    ASSUME SessionAssumption, instance \in Instances
    PROVE  /\ Big \subseteq Requests /\ Big \subseteq Items /\ Sends \subseteq Items
           /\ Requests \cap Sends = {} /\ Requests \cap Offers = {}
           /\ "none" \notin Items
           /\ Segments \in [Requests \cup Sends \cup Offers -> Nat \ {0}]
           /\ Items \subseteq Requests \cup Sends \cup Offers
           /\ Inbounds \subseteq Requests \cup Sends \cup Offers
           /\ Requests \subseteq Inbounds /\ Offers \subseteq Inbounds
           /\ MaxAccepts \in Nat
BY Zenon DEF SessionAssumption, Big, Requests, Items, Sends, Offers, Inbounds, Segments, MaxAccepts

\* It stays the same.
LEMMA SameInstance ==
    ASSUME Same
    PROVE  /\ Requests' = Requests /\ Big' = Big /\ Sends' = Sends /\ Offers' = Offers
           /\ Segments' = Segments /\ Items' = Items /\ Inbounds' = Inbounds
BY Zenon DEF Same, Requests, Big, Sends, Offers, Segments, Items, Inbounds

-----------------------------------------------------------------------------

(* Types, and the parts of a state *)

\* The types of what is being sent.
SendingType ==
    /\ \/ outbound = Idle
       \/ /\ outbound \in [item : Items, segment : Nat]
          /\ outbound.segment \in 1 .. Segments[outbound.item]
    /\ queued \in Seq(Items)
    /\ ended \in [Items -> {"none", "Ok", "Err"}]

AskingType ==
    /\ receipts \in [Requests -> {"none", "Sent", "SendingResource"}]
    /\ requests \subseteq Requests
    /\ results \in [Requests -> {"none", "Ok", "Timeout", "ResourceFailed",
                                 "SessionClosed", "Refused"}]
    /\ commands \subseteq [of : {"body", "answer"}, request : Requests, ok : BOOLEAN]
    /\ answered \in [Requests -> {"no", "packet", "Resource"}]

ReceivingType ==
    /\ pending_inbound \subseteq Offers
    /\ rejected_inbound \subseteq Inbounds
    /\ inbound_logicals \subseteq Inbounds
    /\ inbound \in [Inbounds -> Nat] /\ proved \in [Inbounds -> Nat]
    /\ \A x \in Inbounds : inbound[x] <= Segments[x] /\ proved[x] <= Segments[x]
    /\ assembled \in [Inbounds -> Seq(Nat)] /\ handed \in [Inbounds -> Seq(Nat)]
    /\ started \in [Inbounds -> Nat] /\ concluded \in [Inbounds -> Nat]

AskingOK == AskingType /\ AskingInv
SendingOK == SendingType /\ stalled \in BOOLEAN /\ SendingInv
ReceivingOK == ReceivingType /\ ReceivingInv

\* The invariant is that of the three parts, before a step and after it.
LEMMA Parts ==
    SessionInv <=> /\ instance \in Instances /\ up \in BOOLEAN /\ stale \in BOOLEAN
                   /\ AskingOK /\ SendingOK /\ ReceivingOK
BY Zenon DEF SessionInv, SessionTypeOK, AskingOK, AskingType, SendingOK, SendingType,
             ReceivingOK, ReceivingType

LEMMA PartsNext ==
    ASSUME instance' \in Instances, up' \in BOOLEAN, stale' \in BOOLEAN,
           AskingOK', SendingOK', ReceivingOK'
    PROVE  SessionInv'
BY Zenon DEF SessionInv, SessionTypeOK, AskingOK, AskingType, SendingOK, SendingType,
             ReceivingOK, ReceivingType

\* What every action assumes of the state it starts from.
Sound == SessionAssumption /\ SessionInv /\ Same

\* What a step may use of the state it starts from.
LEMMA SoundFacts ==
    ASSUME Sound
    PROVE  /\ SessionAssumption /\ instance \in Instances /\ instance' \in Instances /\ Same
           /\ up \in BOOLEAN /\ stale \in BOOLEAN
           /\ AskingOK /\ AskingType /\ AskingInv /\ SendingOK /\ ReceivingOK
BY Parts, Zenon DEF Sound, Same, AskingOK
-----------------------------------------------------------------------------

(* Every step: the Resources that come in *)

\* What is known of one inbound Resource.
Paired(x) ==
    /\ started[x] = concluded[x] + (IF x \in inbound_logicals THEN 1 ELSE 0)
    /\ inbound[x] # 0 => x \in inbound_logicals
    /\ x \notin pending_inbound \cap inbound_logicals
InOrder(x) == handed[x] # <<>> => handed[x] = [k \in 1 .. Segments[x] |-> k]
Assembling(x) ==
    /\ assembled[x] = [k \in 1 .. Len(assembled[x]) |-> k]
    /\ x \in inbound_logicals => Len(assembled[x]) < Segments[x]
    /\ inbound[x] # 0 => inbound[x] = Len(assembled[x]) + 1
    /\ x \in inbound_logicals \cap Requests => answered[x] = "Resource"

\* The invariant of the inbound Resources, one by one, before a step.
LEMMA ByResource ==
    ReceivingInv <=> \A x \in Inbounds : Paired(x) /\ InOrder(x) /\ Assembling(x)
BY Zenon DEF ReceivingInv, LifecyclesPaired, HandedInOrder, AssemblyInv, Paired, InOrder, Assembling

\* And after it.
LEMMA ByResourceNext ==
    ASSUME Same, \A x \in Inbounds : Paired(x)' /\ InOrder(x)' /\ Assembling(x)'
    PROVE  ReceivingInv'
BY SameInstance, Zenon
   DEF ReceivingInv, LifecyclesPaired, HandedInOrder, AssemblyInv, Paired, InOrder, Assembling

\* Answers stay given, and the offers that wait are of Resources not received.
Offering ==
    /\ pending_inbound' \subseteq Offers /\ rejected_inbound' \subseteq Inbounds
    /\ pending_inbound' \cap inbound_logicals' = {}
    /\ \A r \in Requests : answered[r] = "Resource" => answered'[r] = "Resource"

\* Nothing is received.
LEMMA ReceivingKept ==
    ASSUME Sound, UNCHANGED receiving, Offering
    PROVE  ReceivingOK'
  <1>a. /\ Inbounds' = Inbounds /\ Offers' = Offers /\ Requests' = Requests
        /\ Segments' = Segments /\ Same
    BY SoundFacts, SameInstance, Zenon
  <1>1. UNCHANGED <<inbound_logicals, inbound, assembled, handed, started, concluded, proved>>
    BY Zenon DEF receiving
  <1>2. ReceivingType'
    BY <1>1, <1>a, SoundFacts, Zenon DEF ReceivingOK, ReceivingType, Offering
  <1>3. ASSUME NEW x \in Inbounds
        PROVE  Paired(x)' /\ InOrder(x)' /\ Assembling(x)'
    <2>1. Paired(x) /\ InOrder(x) /\ Assembling(x)
      BY SoundFacts, ByResource, Zenon DEF ReceivingOK
    <2>2. Paired(x)'
      BY <1>1, <2>1, Zenon DEF Paired, Offering
    <2>3. InOrder(x)'
      BY <1>1, <2>1, <1>a, Zenon DEF InOrder
    <2>4. Assembling(x)'
      BY <1>1, <2>1, <1>a, Zenon DEF Assembling, Offering
    <2> QED
      BY <2>2, <2>3, <2>4, Zenon
  <1>4. ReceivingInv'
    BY <1>3, <1>a, ByResourceNext, Zenon
  <1> QED
    BY <1>2, <1>4, Zenon DEF ReceivingOK

\* accept_inbound_offer: a Resource starts with its first segment.
LEMMA BeginStep ==
    ASSUME Sound, NEW x \in Inbounds, x \notin inbound_logicals, Begin(x), Offering,
           x \in Requests => answered[x] = "Resource"
    PROVE  ReceivingOK'
  <1>a. /\ Inbounds' = Inbounds /\ Offers' = Offers /\ Requests' = Requests
        /\ Segments' = Segments /\ Same
    BY SoundFacts, SameInstance, Zenon
  <1>0. ReceivingType /\ ReceivingInv
    BY SoundFacts, Zenon DEF ReceivingOK
  <1>1. /\ inbound_logicals' = inbound_logicals \cup {x}
        /\ inbound' = [inbound EXCEPT ![x] = 1] /\ assembled' = [assembled EXCEPT ![x] = <<>>]
        /\ started' = [started EXCEPT ![x] = @ + 1]
        /\ UNCHANGED <<handed, concluded, proved>>
    BY Zenon DEF Begin
  <1>2. Segments[x] \in Nat \ {0}
    BY SoundFacts, InstanceFacts, Zenon
  <1>3. /\ inbound' \in [Inbounds -> Nat] /\ assembled' \in [Inbounds -> Seq(Nat)]
        /\ started' \in [Inbounds -> Nat]
        /\ inbound'[x] = 1 /\ assembled'[x] = <<>> /\ started'[x] = started[x] + 1
        /\ \A y \in Inbounds : y # x =>
              inbound'[y] = inbound[y] /\ assembled'[y] = assembled[y] /\ started'[y] = started[y]
    BY <1>0, <1>1 DEF ReceivingType
  <1>4. ReceivingType'
    <2>1. \A y \in Inbounds : inbound'[y] <= Segments[y] /\ proved'[y] <= Segments[y]
      BY <1>0, <1>1, <1>2, <1>3, SMTT(30) DEF ReceivingType
    <2> QED
      BY <1>0, <1>1, <1>3, <2>1, <1>a, Zenon DEF ReceivingType, Offering
  <1>5. ASSUME NEW y \in Inbounds
        PROVE  Paired(y)' /\ InOrder(y)' /\ Assembling(y)'
    <2>1. Paired(y) /\ InOrder(y) /\ Assembling(y)
      BY <1>0, ByResource, Zenon
    <2>2. started[y] \in Nat /\ concluded[y] \in Nat
      BY <1>0, Zenon DEF ReceivingType
    <2>3. Paired(y)'
      <3>1. y \notin pending_inbound' \cap inbound_logicals'
        BY Zenon DEF Offering
      <3>2. CASE y = x
        BY <1>1, <1>3, <2>1, <2>2, <3>1, <3>2 DEF Paired
      <3>3. CASE y # x
        BY <1>1, <1>3, <2>1, <3>1, <3>3, Zenon DEF Paired
      <3> QED
        BY <3>2, <3>3, Zenon
    <2>4. InOrder(y)'
      BY <1>1, <2>1, <1>a, Zenon DEF InOrder
    <2>5. CASE y = x
      <3>1. assembled'[y] = <<>> /\ Len(<<>>) = 0 /\ <<>> = [k \in 1 .. 0 |-> k]
        BY <1>3, <2>5
      <3>2. Assembling(y)'
        BY <1>2, <1>3, <2>5, <3>1, <1>a DEF Assembling, Offering
      <3> QED
        BY <2>3, <2>4, <3>2, Zenon
    <2>6. CASE y # x
      <3>1. Assembling(y)'
        BY <1>1, <1>3, <2>1, <2>6, <1>a, Zenon DEF Assembling, Offering
      <3> QED
        BY <2>3, <2>4, <3>1, Zenon
    <2> QED
      BY <2>5, <2>6, Zenon
  <1>6. ReceivingInv'
    BY <1>5, <1>a, ByResourceNext, Zenon
  <1> QED
    BY <1>4, <1>6, Zenon DEF ReceivingOK

\* remove_inbound_segments and conclude_inbound_resource.
LEMMA FailStep ==
    ASSUME Sound, NEW xs, FailInbounds(xs), Offering
    PROVE  ReceivingOK'
  <1>a. /\ Inbounds' = Inbounds /\ Offers' = Offers /\ Requests' = Requests
        /\ Segments' = Segments /\ Same
    BY SoundFacts, SameInstance, Zenon
  <1>0. ReceivingType /\ ReceivingInv
    BY SoundFacts, Zenon DEF ReceivingOK
  <1>1. /\ inbound_logicals' = inbound_logicals \ xs
        /\ inbound' = [x \in Inbounds |-> IF x \in xs THEN 0 ELSE inbound[x]]
        /\ concluded' = [x \in Inbounds |->
              IF x \in xs \cap inbound_logicals THEN concluded[x] + 1 ELSE concluded[x]]
        /\ UNCHANGED <<assembled, handed, started, proved>>
    BY Zenon DEF FailInbounds, ConcludeInbounds
  <1>2. inbound' \in [Inbounds -> Nat] /\ concluded' \in [Inbounds -> Nat]
    BY <1>0, <1>1 DEF ReceivingType
  <1>3. \A y \in Inbounds :
           /\ inbound'[y] = IF y \in xs THEN 0 ELSE inbound[y]
           /\ concluded'[y] = IF y \in xs \cap inbound_logicals THEN concluded[y] + 1
                              ELSE concluded[y]
    BY <1>1, Zenon
  <1>4. ReceivingType'
    <2>1. \A y \in Inbounds : Segments[y] \in Nat
      BY SoundFacts, InstanceFacts, Zenon
    <2>2. \A y \in Inbounds : inbound'[y] <= Segments[y] /\ proved'[y] <= Segments[y]
      BY <1>0, <1>1, <1>3, <2>1 DEF ReceivingType
    <2> QED
      BY <1>0, <1>1, <1>2, <2>2, <1>a, Zenon DEF ReceivingType, Offering
  <1>5. ASSUME NEW y \in Inbounds
        PROVE  Paired(y)' /\ InOrder(y)' /\ Assembling(y)'
    <2>1. Paired(y) /\ InOrder(y) /\ Assembling(y)
      BY <1>0, ByResource, Zenon
    <2>2. started[y] \in Nat /\ concluded[y] \in Nat
      BY <1>0, Zenon DEF ReceivingType
    <2>3. Paired(y)'
      BY <1>1, <1>3, <2>1, <2>2 DEF Paired, Offering
    <2>4. InOrder(y)'
      BY <1>1, <2>1, <1>a, Zenon DEF InOrder
    <2>5. Assembling(y)'
      BY <1>1, <1>3, <2>1, <1>a, Zenon DEF Assembling, Offering
    <2> QED
      BY <2>3, <2>4, <2>5, Zenon
  <1>6. ReceivingInv'
    BY <1>5, <1>a, ByResourceNext, Zenon
  <1> QED
    BY <1>4, <1>6, Zenon DEF ReceivingOK

\* accept_followup_inbound_segment: the segment after those assembled.
LEMMA FollowStep ==
    ASSUME Sound, NEW x \in Inbounds, NEW k \in 1 .. Segments[x], x \in inbound_logicals,
           Follows(x, k), inbound' = [inbound EXCEPT ![x] = k], Offering,
           UNCHANGED <<inbound_logicals, assembled, handed, started, concluded, proved>>
    PROVE  ReceivingOK'
  <1>a. /\ Inbounds' = Inbounds /\ Offers' = Offers /\ Requests' = Requests
        /\ Segments' = Segments /\ Same
    BY SoundFacts, SameInstance, Zenon
  <1>0. ReceivingType /\ ReceivingInv
    BY SoundFacts, Zenon DEF ReceivingOK
  <1>1. Segments[x] \in Nat \ {0} /\ k \in Nat /\ k # 0 /\ k = Len(assembled[x]) + 1
    BY SoundFacts, InstanceFacts DEF Follows
  <1>2. /\ inbound' \in [Inbounds -> Nat] /\ inbound'[x] = k
        /\ \A y \in Inbounds : y # x => inbound'[y] = inbound[y]
    BY <1>0, <1>1, Zenon DEF ReceivingType
  <1>3. ReceivingType'
    <2>1. \A y \in Inbounds : inbound'[y] <= Segments[y] /\ proved'[y] <= Segments[y]
      BY <1>0, <1>1, <1>2, SMTT(30) DEF ReceivingType
    <2> QED
      BY <1>0, <1>2, <2>1, <1>a, Zenon DEF ReceivingType, Offering
  <1>4. ASSUME NEW y \in Inbounds
        PROVE  Paired(y)' /\ InOrder(y)' /\ Assembling(y)'
    <2>1. Paired(y) /\ InOrder(y) /\ Assembling(y)
      BY <1>0, ByResource, Zenon
    <2>2. Paired(y)'
      BY <1>2, <2>1, Zenon DEF Paired, Offering
    <2>3. InOrder(y)'
      BY <2>1, <1>a, Zenon DEF InOrder
    <2>4. Assembling(y)'
      BY <1>1, <1>2, <2>1, <1>a, Zenon DEF Assembling, Offering
    <2> QED
      BY <2>2, <2>3, <2>4, Zenon
  <1>5. ReceivingInv'
    BY <1>4, <1>a, ByResourceNext, Zenon
  <1> QED
    BY <1>3, <1>5, Zenon DEF ReceivingOK

\* One more segment in order.
LEMMA AppendNext ==
    ASSUME NEW s \in Seq(Nat), s = [k \in 1 .. Len(s) |-> k], NEW n, n = Len(s) + 1
    PROVE  /\ Append(s, n) \in Seq(Nat) /\ Len(Append(s, n)) = Len(s) + 1
           /\ Append(s, n) = [k \in 1 .. Len(s) + 1 |-> k]
  <1>1. Len(s) \in Nat /\ n \in Nat
    OBVIOUS
  <1>2. Append(s, n) \in Seq(Nat) /\ Len(Append(s, n)) = Len(s) + 1
    BY <1>1
  <1>3. \A k \in 1 .. Len(s) + 1 : Append(s, n)[k] = k
    BY <1>1
  <1>4. Append(s, n) = [k \in 1 .. Len(s) + 1 |-> Append(s, n)[k]]
    BY <1>1
  <1> QED
    BY <1>2, <1>3, <1>4, Zenon

\* complete_inbound_segment.
LEMMA CompleteStep ==
    ASSUME Sound, NEW x \in Inbounds, inbound[x] # 0, CompleteSegment(x), Offering
    PROVE  ReceivingOK'
  <1>a. /\ Inbounds' = Inbounds /\ Offers' = Offers /\ Requests' = Requests
        /\ Segments' = Segments /\ Same
    BY SoundFacts, SameInstance, Zenon
  <1> DEFINE s == assembled[x]
             t == Append(s, inbound[x])
  <1>0. ReceivingType /\ ReceivingInv
    BY SoundFacts, Zenon DEF ReceivingOK
  <1>1. Paired(x) /\ Assembling(x)
    BY <1>0, ByResource, Zenon
  <1>2. /\ s \in Seq(Nat) /\ s = [k \in 1 .. Len(s) |-> k] /\ inbound[x] = Len(s) + 1
        /\ Len(s) < Segments[x] /\ x \in inbound_logicals /\ Len(s) \in Nat
    BY <1>0, <1>1 DEF Assembling, Paired, ReceivingType
  <1>3. t \in Seq(Nat) /\ Len(t) = Len(s) + 1 /\ t = [k \in 1 .. Len(s) + 1 |-> k]
    BY <1>2, AppendNext, Zenon
  <1>4. /\ proved' = [proved EXCEPT ![x] = IF inbound[x] > @ THEN inbound[x] ELSE @]
        /\ assembled' = [assembled EXCEPT ![x] = t] /\ started' = started
    BY Zenon DEF CompleteSegment
  <1>5. Segments[x] \in Nat /\ \A y \in Inbounds : Segments[y] \in Nat
    BY SoundFacts, InstanceFacts, Zenon
  <1> HIDE DEF t
  <1>6. /\ assembled' \in [Inbounds -> Seq(Nat)] /\ assembled'[x] = t
        /\ \A y \in Inbounds : y # x => assembled'[y] = assembled[y]
    BY <1>0, <1>3, <1>4, Zenon DEF ReceivingType
  <1>7. /\ proved' \in [Inbounds -> Nat]
        /\ \A y \in Inbounds : proved'[y] <= Segments[y]
    BY <1>0, <1>4, Zenon DEF ReceivingType
  <1>8. CASE Len(t) = Segments[x]
    <2>1. /\ handed' = [handed EXCEPT ![x] = t]
          /\ inbound_logicals' = inbound_logicals \ {x}
          /\ inbound' = [y \in Inbounds |-> IF y \in {x} THEN 0 ELSE inbound[y]]
          /\ concluded' = [y \in Inbounds |->
                IF y \in {x} \cap inbound_logicals THEN concluded[y] + 1 ELSE concluded[y]]
      BY <1>6, <1>8, Zenon DEF CompleteSegment, ConcludeInbounds
    <2>2. /\ handed' \in [Inbounds -> Seq(Nat)] /\ handed'[x] = t
          /\ \A y \in Inbounds : y # x => handed'[y] = handed[y]
      BY <1>0, <1>3, <2>1, Zenon DEF ReceivingType
    <2>3. /\ inbound' \in [Inbounds -> Nat] /\ concluded' \in [Inbounds -> Nat]
          /\ inbound'[x] = 0 /\ concluded'[x] = concluded[x] + 1
          /\ \A y \in Inbounds : y # x => inbound'[y] = inbound[y] /\ concluded'[y] = concluded[y]
      BY <1>0, <1>2, <2>1, SMTT(30) DEF ReceivingType
    <2>4. ReceivingType'
      <3>1. \A y \in Inbounds : inbound'[y] <= Segments[y] /\ proved'[y] <= Segments[y]
        <4>1. \A y \in Inbounds : inbound[y] <= Segments[y] /\ 0 <= Segments[y]
          BY <1>0, <1>5, SMTT(30) DEF ReceivingType
        <4>2. \A y \in Inbounds : inbound'[y] <= Segments[y]
          BY <2>3, <4>1, Zenon
        <4> QED
          BY <1>7, <4>2, Zenon
      <3> QED
        BY <1>0, <1>4, <1>6, <1>7, <2>1, <2>2, <2>3, <3>1, <1>a, Zenon DEF ReceivingType, Offering
    <2>5. ASSUME NEW y \in Inbounds
          PROVE  Paired(y)' /\ InOrder(y)' /\ Assembling(y)'
      <3>1. Paired(y) /\ InOrder(y) /\ Assembling(y)
        BY <1>0, ByResource, Zenon
      <3>2. started[y] \in Nat /\ concluded[y] \in Nat
        BY <1>0, Zenon DEF ReceivingType
      <3>3. Paired(y)'
        <4>1. y \notin pending_inbound' \cap inbound_logicals'
          BY Zenon DEF Offering
        <4>2. CASE y = x
          BY <1>2, <1>4, <2>1, <2>3, <3>1, <3>2, <4>1, <4>2 DEF Paired
        <4>3. CASE y # x
          BY <1>4, <2>1, <2>3, <3>1, <4>1, <4>3, Zenon DEF Paired
        <4> QED
          BY <4>2, <4>3, Zenon
      <3>4. InOrder(y)'
        <4>1. CASE y = x
          BY <1>3, <1>8, <2>2, <4>1, <1>a, Zenon DEF InOrder
        <4>2. CASE y # x
          BY <2>2, <3>1, <4>2, <1>a, Zenon DEF InOrder
        <4> QED
          BY <4>1, <4>2, Zenon
      <3>5. Assembling(y)'
        <4>1. CASE y = x
          BY <1>3, <1>6, <2>1, <2>3, <4>1, Zenon DEF Assembling
        <4>2. CASE y # x
          BY <1>6, <2>1, <2>3, <3>1, <4>2, <1>a, Zenon DEF Assembling, Offering
        <4> QED
          BY <4>1, <4>2, Zenon
      <3> QED
        BY <3>3, <3>4, <3>5, Zenon
    <2>6. ReceivingInv'
      BY <2>5, <1>a, ByResourceNext, Zenon
    <2> QED
      BY <2>4, <2>6, Zenon DEF ReceivingOK
  <1>9. CASE Len(t) # Segments[x]
    <2>1. inbound' = [inbound EXCEPT ![x] = 0] /\ UNCHANGED <<inbound_logicals, handed, concluded>>
      BY <1>6, <1>9, Zenon DEF CompleteSegment
    <2>2. /\ inbound' \in [Inbounds -> Nat] /\ inbound'[x] = 0
          /\ \A y \in Inbounds : y # x => inbound'[y] = inbound[y]
      BY <1>0, <2>1, Zenon DEF ReceivingType
    <2>3. ReceivingType'
      <3>1. \A y \in Inbounds : inbound'[y] <= Segments[y] /\ proved'[y] <= Segments[y]
        <4>1. \A y \in Inbounds : inbound[y] <= Segments[y] /\ 0 <= Segments[y]
          BY <1>0, <1>5 DEF ReceivingType
        <4>2. \A y \in Inbounds : inbound'[y] <= Segments[y]
          BY <2>2, <4>1, Zenon
        <4> QED
          BY <1>7, <4>2, Zenon
      <3> QED
        BY <1>0, <1>4, <1>6, <1>7, <2>1, <2>2, <3>1, <1>a, Zenon DEF ReceivingType, Offering
    <2>4. ASSUME NEW y \in Inbounds
          PROVE  Paired(y)' /\ InOrder(y)' /\ Assembling(y)'
      <3>1. Paired(y) /\ InOrder(y) /\ Assembling(y)
        BY <1>0, ByResource, Zenon
      <3>2. Paired(y)'
        BY <1>4, <2>1, <2>2, <3>1, Zenon DEF Paired, Offering
      <3>3. InOrder(y)'
        BY <2>1, <3>1, <1>a, Zenon DEF InOrder
      <3>4. Assembling(y)'
        <4>1. CASE y = x
          <5>1. Len(t) < Segments[x]
            <6>1. Len(t) <= Segments[x] BY <1>2, <1>3, <1>5
            <6>2. Len(t) \in Nat BY <1>2, <1>3
            <6> QED BY <1>5, <1>9, <6>1, <6>2
          <5>2. t = [k \in 1 .. Len(t) |-> k] BY <1>3, Zenon
          <5> QED
            BY <1>6, <2>1, <2>2, <3>1, <4>1, <5>1, <5>2, <1>a, Zenon DEF Assembling, Offering
        <4>2. CASE y # x
          BY <1>6, <2>1, <2>2, <3>1, <4>2, <1>a, Zenon DEF Assembling, Offering
        <4> QED
          BY <4>1, <4>2, Zenon
      <3> QED
        BY <3>2, <3>3, <3>4, Zenon
    <2>5. ReceivingInv'
      BY <2>4, <1>a, ByResourceNext, Zenon
    <2> QED
      BY <2>3, <2>5, Zenon DEF ReceivingOK
  <1> QED
    BY <1>8, <1>9, Zenon

\* Every step keeps what is known of the inbound Resources.
LEMMA ReceivingStep ==
    ASSUME Sound, SessionNext
    PROVE  ReceivingOK'
  <1> USE SoundFacts
  <1>0. /\ pending_inbound \subseteq Offers /\ rejected_inbound \subseteq Inbounds
        /\ pending_inbound \cap inbound_logicals = {}
        /\ Offers \subseteq Inbounds /\ Offers \cap Requests = {}
    BY InstanceFacts, Zenon DEF ReceivingOK, ReceivingType, ReceivingInv, LifecyclesPaired
  <1>2. ASSUME UNCHANGED offered, UNCHANGED receiving, answered' = answered
        PROVE  ReceivingOK'
    BY <1>0, <1>2, ReceivingKept, Zenon DEF Offering, offered, receiving
  <1>3. ASSUME NEW i \in Items, StartResource(i) \/ CancelResource(i)
        PROVE  ReceivingOK'
    BY <1>2, <1>3, Zenon DEF StartResource, CancelResource
  <1>4. CASE ResourceRequest \/ ResourceProof \/ ResourceRejection
    BY <1>2, <1>4, Zenon DEF ResourceRequest, ResourceProof, ResourceRejection
  <1>5. ASSUME NEW r \in Requests, RefuseRequest(r) \/ Request(r) \/ ResponsePacket(r)
        PROVE  ReceivingOK'
    BY <1>2, <1>5, Zenon DEF RefuseRequest, Request, ResponsePacket
  <1>6. ASSUME NEW c \in commands, BodyConcluded(c) \/ AnswerReceived(c)
        PROVE  ReceivingOK'
    BY <1>2, <1>6, Zenon DEF BodyConcluded, AnswerReceived
  <1>7. ASSUME NEW r \in Requests, PeerAnswers(r)
        PROVE  ReceivingOK'
    <2>1. UNCHANGED offered /\ UNCHANGED receiving
      BY <1>7, Zenon DEF PeerAnswers
    <2>2. \A q \in Requests : answered[q] = "Resource" => answered'[q] = "Resource"
      BY <1>7, Zenon DEF PeerAnswers, AskingType
    <2> QED
      BY <1>0, <2>1, <2>2, ReceivingKept, Zenon DEF Offering, offered, receiving
  <1>8. ASSUME NEW x \in Inbounds, NEW k \in 1 .. Segments[x], Advertisement(x, k)
        PROVE  ReceivingOK'
    <2>1. answered' = answered /\ (x \in Requests => answered[x] = "Resource")
      BY <1>8, Zenon DEF Advertisement, Advertised
    <2>2. CASE UNCHANGED offered /\ UNCHANGED receiving
      BY <1>2, <2>1, <2>2, Zenon
    <2>3. CASE /\ x \in inbound_logicals /\ UNCHANGED offered /\ Follows(x, k)
               /\ inbound' = [inbound EXCEPT ![x] = k]
               /\ UNCHANGED <<inbound_logicals, assembled, handed, started, concluded, proved>>
      <3>1. Offering
        BY <1>0, <2>1, <2>3, Zenon DEF Offering, offered
      <3> QED
        BY <2>3, <3>1, FollowStep, Zenon
    <2>4. CASE UNCHANGED offered /\ FailSegment(x)
      <3>1. Offering
        BY <1>0, <2>1, <2>4, Zenon DEF Offering, offered, FailSegment, FailInbounds, ConcludeInbounds
      <3> QED
        BY <2>4, <3>1, FailStep, Zenon DEF FailSegment
    <2>5. CASE x \notin inbound_logicals /\ x \in Requests /\ UNCHANGED offered /\ Begin(x)
      <3>1. Offering
        BY <1>0, <2>1, <2>5, Zenon DEF Offering, offered, Begin
      <3> QED
        BY <2>1, <2>5, <3>1, BeginStep, Zenon
    <2>6. CASE /\ x \in Offers /\ x \notin inbound_logicals /\ UNCHANGED receiving
               /\ \/ pending_inbound' = pending_inbound \cup {x} /\ UNCHANGED rejected_inbound
                  \/ rejected_inbound' = rejected_inbound \cup {x} /\ UNCHANGED pending_inbound
      <3>1. Offering
        BY <1>0, <2>1, <2>6, Zenon DEF Offering, receiving
      <3> QED
        BY <2>6, <3>1, ReceivingKept, Zenon
    <2> QED
      BY <1>8, <2>2, <2>3, <2>4, <2>5, <2>6, Zenon DEF Advertisement
  <1>9. ASSUME NEW x \in Inbounds, AcceptInbound(x)
        PROVE  ReceivingOK'
    <2>1. /\ x \in pending_inbound /\ pending_inbound' = pending_inbound \ {x}
          /\ rejected_inbound' = rejected_inbound /\ answered' = answered
          /\ x \notin inbound_logicals /\ x \notin Requests /\ Begin(x)
      BY <1>0, <1>9, Zenon DEF AcceptInbound
    <2>2. Offering
      BY <1>0, <2>1, Zenon DEF Offering, Begin
    <2> QED
      BY <2>1, <2>2, BeginStep, Zenon
  <1>10. ASSUME NEW x \in Inbounds, RejectInbound(x)
         PROVE  ReceivingOK'
    <2>1. Offering /\ UNCHANGED receiving
      BY <1>0, <1>10, Zenon DEF RejectInbound, Offering, receiving
    <2> QED
      BY <2>1, ReceivingKept, Zenon
  <1>11. ASSUME NEW x \in Inbounds, CancelInbound(x)
         PROVE  ReceivingOK'
    <2>1. Offering /\ FailInbounds({x})
      BY <1>0, <1>11, Zenon DEF CancelInbound, Offering, FailSegment, FailInbounds, ConcludeInbounds
    <2> QED
      BY <2>1, FailStep, Zenon
  <1>12. ASSUME NEW x \in Inbounds, ResourceHmuOrIcl(x)
         PROVE  ReceivingOK'
    <2>1. Offering /\ FailInbounds({x})
      BY <1>0, <1>12, Zenon
         DEF ResourceHmuOrIcl, Offering, FailSegment, FailInbounds, ConcludeInbounds, offered
    <2> QED
      BY <2>1, FailStep, Zenon
  <1>13. ASSUME NEW x \in Inbounds, ResourcePart(x)
         PROVE  ReceivingOK'
    <2>1. inbound[x] # 0 /\ UNCHANGED offered /\ answered' = answered
      BY <1>13, Zenon DEF ResourcePart
    <2>2. CASE FailSegment(x)
      <3>1. Offering /\ FailInbounds({x})
        BY <1>0, <2>1, <2>2, Zenon DEF Offering, FailSegment, FailInbounds, ConcludeInbounds, offered
      <3> QED
        BY <3>1, FailStep, Zenon
    <2>3. CASE CompleteSegment(x)
      <3>1. inbound_logicals' \subseteq inbound_logicals
        BY <2>3, Zenon DEF CompleteSegment, ConcludeInbounds
      <3>2. Offering
        BY <1>0, <2>1, <3>1, Zenon DEF Offering, offered
      <3> QED
        BY <2>1, <2>3, <3>2, CompleteStep, Zenon
    <2> QED
      BY <1>13, <2>2, <2>3, Zenon DEF ResourcePart
  <1>14. CASE Tick
    <2>1. PICK failed \in SUBSET {x \in inbound_logicals : inbound[x] # 0},
               expired \in SUBSET pending_inbound, forgotten \in SUBSET rejected_inbound :
             /\ FailInbounds(failed) /\ pending_inbound' = pending_inbound \ expired
             /\ rejected_inbound' = (rejected_inbound \ forgotten) \cup expired
      BY <1>14, Zenon DEF Tick
    <2>2. answered' = answered /\ inbound_logicals' \subseteq inbound_logicals
      BY <1>14, <2>1 DEF Tick, FailInbounds, ConcludeInbounds
    <2>3. Offering
      BY <1>0, <2>1, <2>2, Zenon DEF Offering
    <2> QED
      BY <2>1, <2>3, FailStep, Zenon
  <1>15. CASE Close
    <2>1. Offering /\ FailInbounds(inbound_logicals)
      BY <1>0, <1>15, Zenon DEF Close, Offering
    <2> QED
      BY <2>1, FailStep, SMTT(20)
  <1> QED
    BY <1>3, <1>4, <1>5, <1>6, <1>7, <1>8, <1>9, <1>10, <1>11, <1>12, <1>13, <1>14, <1>15, Zenon DEF SessionNext
-----------------------------------------------------------------------------

(* Outbound Resources *)

\* A Resource that was sent or waited has concluded, the others have not.
Finishes(i) ==
    /\ i \in Items /\ InFlight(i) /\ ended[i] = "none" /\ ended'[i] # "none"
    /\ \A j \in Items : InFlight(j)' <=> InFlight(j) /\ j # i
    /\ \A j \in Items : j # i => ended'[j] = ended[j]

\* The Resources that are in flight, by place.
LEMMA InFlightFacts ==
    ASSUME SessionAssumption, instance \in Instances, SendingType
    PROVE  /\ Busy <=> outbound.item \in Items
           /\ Busy => outbound.segment \in Nat
           /\ ~Busy => outbound.item = "none"
           /\ \A i : InFlight(i) <=> outbound.item = i \/ \E n \in DOMAIN queued : queued[n] = i
           /\ DOMAIN queued = 1 .. Len(queued) /\ Len(queued) \in Nat
           /\ \A n \in DOMAIN queued : queued[n] \in Items
  <1>1. /\ Busy <=> outbound.item \in Items
        /\ Busy => outbound.segment \in Nat
        /\ ~Busy => outbound.item = "none"
    BY InstanceFacts DEF Busy, Idle, SendingType
  <1>2. DOMAIN queued = 1 .. Len(queued) /\ Len(queued) \in Nat
    BY DEF SendingType
  <1>3. \A n \in DOMAIN queued : queued[n] \in Items
    BY DEF SendingType
  <1> QED
    BY <1>1, <1>2, <1>3, Zenon DEF InFlight

\* The first of the queue is taken out of it.
LEMMA TailFacts ==
    ASSUME NEW S, NEW q \in Seq(S), q # <<>>
    PROVE  /\ Head(q) \in S /\ Tail(q) \in Seq(S)
           /\ Head(q) = q[1] /\ 1 \in DOMAIN q
           /\ \A n \in DOMAIN Tail(q) : n + 1 \in DOMAIN q /\ Tail(q)[n] = q[n + 1]
           /\ \A n \in DOMAIN q : n # 1 => n - 1 \in DOMAIN Tail(q) /\ Tail(q)[n - 1] = q[n]
OBVIOUS

\* conclude_outbound_resource and activate_next_queued: the Resource being sent
\* has concluded, and the first of the queue has taken its place.
LEMMA ConcludeStep ==
    ASSUME SessionAssumption, instance \in Instances, Same, SendingOK, Busy,
           NEW ok \in BOOLEAN, ConcludeOutbound(ok)
    PROVE  SendingOK' /\ Finishes(outbound.item)
  <1> DEFINE i == outbound.item
  <1>0. SendingType /\ OutboundInv /\ QueueMoves
    BY Zenon DEF SendingOK, SendingInv
  <1>1. i \in Items /\ ended[i] = "none" /\ InFlight(i)
    BY <1>0, InFlightFacts, Zenon DEF OutboundInv
  <1>2. ended' = [ended EXCEPT ![i] = IF ok THEN "Ok" ELSE "Err"] /\ stalled' = FALSE
    BY <1>0, Zenon DEF ConcludeOutbound, QueueMoves, SendingOK
  <1>3. /\ ended' \in [Items -> {"none", "Ok", "Err"}] /\ ended'[i] # "none"
        /\ \A j \in Items : j # i => ended'[j] = ended[j]
    BY <1>0, <1>1, <1>2, Zenon DEF SendingType
  <1>4. CASE queued = <<>>
    <2>1. outbound' = Idle /\ queued' = <<>>
      BY <1>4, Zenon DEF ConcludeOutbound, ActivateNext
    <2>2. SendingType'
      BY <1>3, <2>1, SameInstance DEF SendingType, Idle
    <2>3. \A j \in Items : ~InFlight(j)'
      BY <2>1, InstanceFacts DEF InFlight, Idle
    <2>4. \A j \in Items : InFlight(j) => j = i
      BY <1>0, <1>4, InFlightFacts
    <2>5. OutboundInv' /\ QueueMoves'
      BY <1>2, <2>1, <2>3, SameInstance DEF OutboundInv, QueueMoves
    <2> QED
      BY <1>1, <1>2, <1>3, <2>2, <2>3, <2>4, <2>5, Zenon DEF SendingOK, SendingInv, Finishes
  <1>5. CASE queued # <<>>
    <2>1. outbound' = Transfer(Head(queued)) /\ queued' = Tail(queued)
      BY <1>5, Zenon DEF ConcludeOutbound, ActivateNext
    <2>2. /\ Head(queued) \in Items /\ Tail(queued) \in Seq(Items)
          /\ Head(queued) = queued[1] /\ 1 \in DOMAIN queued
          /\ \A n \in DOMAIN queued' : n + 1 \in DOMAIN queued /\ queued'[n] = queued[n + 1]
          /\ \A n \in DOMAIN queued : n # 1 =>
                n - 1 \in DOMAIN queued' /\ queued'[n - 1] = queued[n]
      BY <1>0, <1>5, <2>1, TailFacts DEF SendingType
    <2>3. outbound'.item = queued[1] /\ outbound'.segment = 1 /\ outbound' # Idle
      BY <2>1, <2>2 DEF Transfer, Idle
    <2>4. SendingType'
      <3>1. Segments[queued[1]] \in Nat \ {0}
        BY <2>2, InstanceFacts, Zenon
      <3> QED
        BY <1>3, <2>1, <2>2, <3>1, SameInstance DEF SendingType, Transfer
    <2>5. DOMAIN queued = 1 .. Len(queued) /\ DOMAIN queued' = 1 .. Len(queued') /\
          Len(queued) \in Nat /\ Len(queued') \in Nat
      BY <1>0, <2>1, <2>2 DEF SendingType
    <2>6. \A j \in Items : InFlight(j)' <=> InFlight(j) /\ j # i
      <3>1. \A j \in Items : InFlight(j)' <=>
               queued[1] = j \/ \E n \in DOMAIN queued' : queued'[n] = j
        BY <2>3, <2>5, Zenon DEF InFlight
      <3>2. \A j \in Items : InFlight(j) <=> i = j \/ \E n \in DOMAIN queued : queued[n] = j
        BY <1>0, InFlightFacts, Zenon
      <3>3. \A n \in DOMAIN queued : queued[n] # i
        BY <1>0, Zenon DEF OutboundInv
      <3>4. \A j \in Items : (\E n \in DOMAIN queued : queued[n] = j) <=>
               queued[1] = j \/ \E n \in DOMAIN queued' : queued'[n] = j
        BY <2>2
      <3> QED
        BY <3>1, <3>2, <3>3, <3>4, Zenon
    <2>7. OutboundInv'
      <3>1. \A m, n \in DOMAIN queued' : queued'[m] = queued'[n] => m = n
        <4> SUFFICES ASSUME NEW m \in DOMAIN queued', NEW n \in DOMAIN queued',
                            queued'[m] = queued'[n]
                     PROVE  m = n
          OBVIOUS
        <4>1. m + 1 = n + 1
          BY <1>0, <2>2 DEF OutboundInv
        <4> QED
          BY <2>5, <4>1
      <3>2. \A n \in DOMAIN queued' : queued'[n] # outbound'.item
        <4> SUFFICES ASSUME NEW n \in DOMAIN queued', queued'[n] = queued[1]
                     PROVE  FALSE
          BY <2>3, Zenon
        <4>1. n + 1 = 1
          BY <1>0, <2>2 DEF OutboundInv
        <4> QED
          BY <2>5, <4>1
      <3>3. \A j \in Items : InFlight(j)' => ended'[j] = "none"
        BY <1>0, <1>3, <2>6, Zenon DEF OutboundInv
      <3> QED
        BY <3>1, <3>2, <3>3, SameInstance, Zenon DEF OutboundInv
    <2>8. QueueMoves'
      BY <1>2, <2>3, Zenon DEF QueueMoves, Busy, Idle
    <2> QED
      BY <1>1, <1>2, <1>3, <2>4, <2>6, <2>7, <2>8, Zenon DEF SendingOK, SendingInv, Finishes
  <1> QED
    BY <1>4, <1>5, Zenon

\* poll_outbound_resource, when the repeated advertisement cannot be sent: the
\* Resource has concluded, and the others wait.
LEMMA UnsentStep ==
    ASSUME SessionAssumption, instance \in Instances, Same, SendingOK, Busy,
           ended' = [ended EXCEPT ![outbound.item] = "Err"], ActivateNone, stalled' = TRUE
    PROVE  SendingOK' /\ Finishes(outbound.item)
  <1> DEFINE i == outbound.item
  <1>0. SendingType /\ OutboundInv /\ QueueMoves
    BY Zenon DEF SendingOK, SendingInv
  <1>1. i \in Items /\ ended[i] = "none" /\ InFlight(i)
    BY <1>0, InFlightFacts, Zenon DEF OutboundInv
  <1>2. /\ ended' \in [Items -> {"none", "Ok", "Err"}] /\ ended'[i] # "none"
        /\ \A j \in Items : j # i => ended'[j] = ended[j]
    BY <1>0, <1>1, Zenon DEF SendingType
  <1>3. /\ outbound' = Idle /\ outbound'.item = "none" /\ queued' = queued
        /\ \A n \in DOMAIN queued : queued[n] \in Items /\ queued[n] # i
        /\ "none" \notin Items
    BY <1>0, InFlightFacts, InstanceFacts, Zenon DEF ActivateNone, Idle, OutboundInv
  <1>4. SendingType'
    BY <1>0, <1>2, <1>3, SameInstance, Zenon DEF SendingType, Idle
  <1>5. \A j \in Items : InFlight(j)' <=> InFlight(j) /\ j # i
    BY <1>3, Zenon DEF InFlight
  <1>6. OutboundInv'
    <2>1. \A m, n \in DOMAIN queued' : queued'[m] = queued'[n] => m = n
      BY <1>0, <1>3, Zenon DEF OutboundInv
    <2>2. \A n \in DOMAIN queued' : queued'[n] # outbound'.item
      BY <1>3, Zenon
    <2>3. \A j \in Items : InFlight(j)' => ended'[j] = "none"
      BY <1>0, <1>2, <1>5, Zenon DEF OutboundInv
    <2> QED
      BY <2>1, <2>2, <2>3, SameInstance, Zenon DEF OutboundInv
  <1>7. QueueMoves'
    BY <1>3, Zenon DEF QueueMoves, Busy, Idle
  <1> QED
    BY <1>1, <1>2, <1>4, <1>5, <1>6, <1>7, Zenon DEF SendingOK, SendingInv, Finishes

\* Either way the Resource being sent has concluded.
LEMMA PollFacts ==
    ASSUME SessionAssumption, instance \in Instances, Same, SendingOK, NEW how, PollOutbound(how)
    PROVE  \/ how = "quiet" /\ UNCHANGED sending
           \/ how # "quiet" /\ SendingOK' /\ Finishes(outbound.item)
BY ConcludeStep, UnsentStep, Zenon DEF PollOutbound

\* What is left of a queue without its n-th element (VecDeque::remove).
LEMMA RemoveFacts ==
    ASSUME NEW S, NEW q \in Seq(S), NEW n \in DOMAIN q
    PROVE  /\ Removed(q, n) \in Seq(S)
           /\ DOMAIN Removed(q, n) = 1 .. Len(q) - 1
           /\ \A m \in 1 .. Len(q) - 1 :
                 Removed(q, n)[m] = IF m < n THEN q[m] ELSE q[m + 1]
  <1>1. n \in 1 .. Len(q) /\ Len(q) \in Nat
    OBVIOUS
  <1>2. /\ SubSeq(q, 1, n - 1) \in Seq(S) /\ Len(SubSeq(q, 1, n - 1)) = n - 1
        /\ \A m \in 1 .. n - 1 : SubSeq(q, 1, n - 1)[m] = q[m]
    BY <1>1
  <1>3. /\ SubSeq(q, n + 1, Len(q)) \in Seq(S) /\ Len(SubSeq(q, n + 1, Len(q))) = Len(q) - n
        /\ \A m \in 1 .. Len(q) - n : SubSeq(q, n + 1, Len(q))[m] = q[n + m]
    BY <1>1
  <1> DEFINE a == SubSeq(q, 1, n - 1)
             b == SubSeq(q, n + 1, Len(q))
  <1>4. Removed(q, n) = a \o b
    BY Zenon DEF Removed
  <1>5. a \in Seq(S) /\ Len(a) = n - 1 /\ b \in Seq(S) /\ Len(b) = Len(q) - n
    BY <1>2, <1>3, Zenon
  <1> HIDE DEF a, b
  <1>6. /\ a \o b \in Seq(S) /\ Len(a \o b) = Len(q) - 1
        /\ \A m \in 1 .. Len(q) - 1 : (a \o b)[m] = IF m <= n - 1 THEN a[m] ELSE b[m - (n - 1)]
    BY <1>1, <1>5, SMTT(30)
  <1>7. \A m \in 1 .. Len(q) - 1 : (a \o b)[m] = IF m < n THEN q[m] ELSE q[m + 1]
    <2> SUFFICES ASSUME NEW m \in 1 .. Len(q) - 1
                 PROVE  (a \o b)[m] = IF m < n THEN q[m] ELSE q[m + 1]
      BY Zenon
    <2>1. CASE m < n
      <3>1. m \in 1 .. n - 1
        BY <1>1, <2>1
      <3>2. a[m] = q[m] /\ m <= n - 1
        BY <1>1, <1>2, <2>1, <3>1 DEF a
      <3> QED
        BY <1>6, <2>1, <3>2, Zenon
    <2>2. CASE ~(m < n)
      <3>1. m - (n - 1) \in 1 .. Len(q) - n /\ n + (m - (n - 1)) = m + 1 /\ ~(m <= n - 1)
        BY <1>1, <2>2
      <3>2. b[m - (n - 1)] = q[n + (m - (n - 1))]
        BY <1>3, <3>1, Zenon DEF b
      <3> QED
        BY <1>6, <2>2, <3>1, <3>2, Zenon
    <2> QED
      BY <2>1, <2>2, Zenon
  <1> QED
    BY <1>1, <1>4, <1>6, <1>7

\* LinkSessionResourceCommand::Cancel of a Resource that waits.
LEMMA CancelStep ==
    ASSUME SessionAssumption, instance \in Instances, Same, SendingOK,
           NEW i \in Items, NEW n \in DOMAIN queued, queued[n] = i,
           queued' = Removed(queued, n), ended' = [ended EXCEPT ![i] = "Err"],
           UNCHANGED <<outbound, stalled>>
    PROVE  SendingOK' /\ Finishes(i)
  <1>0. SendingType /\ OutboundInv /\ QueueMoves
    BY Zenon DEF SendingOK, SendingInv
  <1>1. InFlight(i) /\ ended[i] = "none" /\ n \in 1 .. Len(queued) /\ Len(queued) \in Nat
    BY <1>0, InFlightFacts, Zenon DEF OutboundInv
  <1>2. /\ ended' \in [Items -> {"none", "Ok", "Err"}] /\ ended'[i] # "none"
        /\ \A j \in Items : j # i => ended'[j] = ended[j]
    BY <1>0, Zenon DEF SendingType
  <1>3. /\ queued' \in Seq(Items) /\ DOMAIN queued' = 1 .. Len(queued) - 1
        /\ \A m \in DOMAIN queued' : queued'[m] = IF m < n THEN queued[m] ELSE queued[m + 1]
    BY <1>0, RemoveFacts, Zenon DEF SendingType
  <1>4. SendingType'
    BY <1>0, <1>2, <1>3, SameInstance, Zenon DEF SendingType, Idle
  <1>5. DOMAIN queued = 1 .. Len(queued) /\ DOMAIN queued' = 1 .. Len(queued')
    BY <1>0, <1>3 DEF SendingType
  <1>6. ASSUME NEW j \in Items
        PROVE  (\E m \in DOMAIN queued' : queued'[m] = j) <=>
               (\E m \in DOMAIN queued : queued[m] = j) /\ j # i
    <2>1. ASSUME NEW m \in DOMAIN queued', queued'[m] = j
          PROVE  (\E l \in DOMAIN queued : queued[l] = j) /\ j # i
      <3>1. PICK l \in DOMAIN queued : l # n /\ queued[l] = j
        BY <1>1, <1>3, <1>5, <2>1
      <3> QED
        BY <1>0, <3>1, Zenon DEF OutboundInv
    <2>2. ASSUME NEW l \in DOMAIN queued, queued[l] = j, j # i
          PROVE  \E m \in DOMAIN queued' : queued'[m] = j
      <3>1. l # n
        BY <2>2, Zenon
      <3>2. CASE l < n
        <4>1. l \in DOMAIN queued' /\ queued'[l] = j
          BY <1>1, <1>3, <1>5, <2>2, <3>2
        <4> QED
          BY <4>1, Zenon
      <3>3. CASE l > n
        <4>1. l - 1 \in DOMAIN queued' /\ queued'[l - 1] = j
          BY <1>1, <1>3, <1>5, <2>2, <3>3
        <4> QED
          BY <4>1, Zenon
      <3> QED
        BY <1>1, <1>5, <3>1, <3>2, <3>3
    <2> QED
      BY <2>1, <2>2, Zenon
  <1>7. outbound.item # i
    BY <1>0, Zenon DEF OutboundInv
  <1>8. \A j \in Items : InFlight(j)' <=> InFlight(j) /\ j # i
    <2>1. \A j : InFlight(j)' <=> outbound.item = j \/ \E m \in DOMAIN queued' : queued'[m] = j
      BY <1>5, Zenon DEF InFlight
    <2>2. \A j : InFlight(j) <=> outbound.item = j \/ \E m \in DOMAIN queued : queued[m] = j
      BY <1>0, InFlightFacts, Zenon
    <2> QED
      BY <1>6, <1>7, <2>1, <2>2, Zenon
  <1>9. OutboundInv'
    <2>1. \A l, m \in DOMAIN queued' : queued'[l] = queued'[m] => l = m
      BY <1>0, <1>1, <1>3, <1>5, SMTT(30) DEF OutboundInv
    <2>2. \A m \in DOMAIN queued' : queued'[m] # outbound'.item
      BY <1>0, <1>1, <1>3, <1>5 DEF OutboundInv
    <2>3. \A j \in Items : InFlight(j)' => ended'[j] = "none"
      BY <1>0, <1>2, <1>8, Zenon DEF OutboundInv
    <2> QED
      BY <2>1, <2>2, <2>3, SameInstance, Zenon DEF OutboundInv
  <1>10. QueueMoves'
    <2>1. queued # <<>>
      BY <1>1
    <2> QED
      BY <1>0, <2>1, Zenon DEF QueueMoves, Busy
  <1> QED
    BY <1>1, <1>2, <1>4, <1>8, <1>9, <1>10, Zenon DEF SendingOK, SendingInv, Finishes

\* A Resource to send is in flight, and the others as before.
LEMMA EnqueueStep ==
    ASSUME SessionAssumption, instance \in Instances, Same, SendingOK,
           NEW i \in Items, NotStarted(i), Enqueue(i)
    PROVE  /\ SendingOK' /\ ended' = ended
           /\ \A j \in Items : InFlight(j)' <=> InFlight(j) \/ j = i
  <1>0. SendingType /\ OutboundInv /\ QueueMoves /\ ended[i] = "none" /\ ~InFlight(i)
    BY Zenon DEF SendingOK, SendingInv, NotStarted
  <1>1. ended' = ended
    BY Zenon DEF Enqueue
  <1>2. /\ \A j : InFlight(j) <=> outbound.item = j \/ \E m \in DOMAIN queued : queued[m] = j
        /\ DOMAIN queued = 1 .. Len(queued) /\ Len(queued) \in Nat
    BY <1>0, InFlightFacts, Zenon
  <1>3. CASE Busy
    <2>1. queued' = Append(queued, i) /\ outbound' = outbound /\ stalled' = stalled
      BY <1>3, Zenon DEF Enqueue
    <2>2. /\ queued' \in Seq(Items) /\ DOMAIN queued' = 1 .. Len(queued')
          /\ Len(queued') = Len(queued) + 1 /\ queued'[Len(queued) + 1] = i
          /\ \A m \in DOMAIN queued : m \in DOMAIN queued' /\ queued'[m] = queued[m]
      BY <1>0, <2>1 DEF SendingType
    <2>3. SendingType'
      BY <1>0, <1>1, <2>1, <2>2, SameInstance, Zenon DEF SendingType, Idle
    <2>4. \A j \in Items : (\E m \in DOMAIN queued' : queued'[m] = j) <=>
                           (\E m \in DOMAIN queued : queued[m] = j) \/ j = i
      BY <1>2, <2>2
    <2>5. \A j \in Items : InFlight(j)' <=> InFlight(j) \/ j = i
      <3>1. \A j : InFlight(j)' <=> outbound.item = j \/ \E m \in DOMAIN queued' : queued'[m] = j
        BY <2>1, <2>2, Zenon DEF InFlight
      <3> QED
        BY <1>2, <2>4, <3>1, Zenon
    <2>6. OutboundInv'
      <3>1. \A m \in DOMAIN queued : queued[m] # i
        BY <1>0, <1>2, Zenon
      <3>2. \A l, m \in DOMAIN queued' : queued'[l] = queued'[m] => l = m
        BY <1>0, <1>2, <2>2, <3>1 DEF OutboundInv
      <3>3. \A m \in DOMAIN queued' : queued'[m] # outbound'.item
        BY <1>0, <1>2, <2>1, <2>2 DEF OutboundInv
      <3>4. \A j \in Items : InFlight(j)' => ended'[j] = "none"
        BY <1>0, <1>1, <2>5, Zenon DEF OutboundInv
      <3> QED
        BY <3>2, <3>3, <3>4, SameInstance, Zenon DEF OutboundInv
    <2>7. QueueMoves'
      BY <1>0, <1>3, <2>1, Zenon DEF QueueMoves, Busy, Idle
    <2> QED
      BY <1>1, <2>1, <2>3, <2>5, <2>6, <2>7, Zenon DEF SendingOK, SendingInv
  <1>4. CASE ~Busy
    <2>1. queued' = queued /\ outbound' = Transfer(i) /\ stalled' = FALSE
      BY <1>4, Zenon DEF Enqueue
    <2>2. outbound'.item = i /\ outbound' # Idle /\ outbound' \in [item : Items, segment : Nat]
          /\ outbound'.segment = 1
      BY <2>1, InstanceFacts, Zenon DEF Transfer, Idle
    <2>3. SendingType'
      <3>1. Segments[i] \in Nat \ {0}
        BY InstanceFacts, Zenon
      <3>2. outbound'.segment \in 1 .. Segments'[outbound'.item]
        BY <2>2, <3>1, SameInstance
      <3> QED
        BY <1>0, <1>1, <2>1, <2>2, <3>2, SameInstance, Zenon DEF SendingType
    <2>4. \A j \in Items : InFlight(j)' <=> InFlight(j) \/ j = i
      <3>1. outbound.item = "none" /\ "none" \notin Items
        BY <1>0, <1>4, InFlightFacts, InstanceFacts, Zenon
      <3>2. \A j : InFlight(j)' <=> j = i \/ \E m \in DOMAIN queued : queued[m] = j
        BY <2>1, <2>2, Zenon DEF InFlight
      <3> QED
        BY <1>2, <3>1, <3>2, Zenon
    <2>5. OutboundInv'
      <3>1. \A m \in DOMAIN queued : queued[m] # i
        BY <1>0, <1>2, Zenon
      <3> QED
        BY <1>0, <1>1, <2>1, <2>2, <2>4, <3>1, SameInstance, Zenon DEF OutboundInv
    <2>6. QueueMoves'
      BY <2>1, <2>2, Zenon DEF QueueMoves, Busy
    <2> QED
      BY <1>1, <2>1, <2>3, <2>4, <2>5, <2>6, Zenon DEF SendingOK, SendingInv
  <1> QED
    BY <1>3, <1>4, Zenon

\* Nothing happens to the Resources to send.
LEMMA SendingKept ==
    ASSUME Same, SendingOK, UNCHANGED sending
    PROVE  /\ SendingOK' /\ ended' = ended
           /\ \A j : InFlight(j)' <=> InFlight(j)
  <1>1. outbound' = outbound /\ queued' = queued /\ stalled' = stalled /\ ended' = ended
    BY Zenon DEF sending
  <1>2. \A j : InFlight(j)' <=> InFlight(j)
    BY <1>1, Zenon DEF InFlight
  <1>3. SendingType'
    BY <1>1, SameInstance, Zenon DEF SendingOK, SendingType
  <1>4. OutboundInv'
    BY <1>1, <1>2, SameInstance, Zenon DEF SendingOK, SendingInv, OutboundInv
  <1>5. QueueMoves'
    BY <1>1, Zenon DEF SendingOK, SendingInv, QueueMoves, Busy
  <1> QED
    BY <1>1, <1>2, <1>3, <1>4, <1>5, Zenon DEF SendingOK, SendingInv

\* handle_outbound_resource_proof of a segment that is not the last.
LEMMA SegmentStep ==
    ASSUME SessionAssumption, instance \in Instances, Same, SendingOK, Busy,
           outbound.segment < Segments[outbound.item],
           outbound' = [outbound EXCEPT !.segment = @ + 1], UNCHANGED <<queued, stalled, ended>>
    PROVE  /\ SendingOK' /\ ended' = ended
           /\ \A j : InFlight(j)' <=> InFlight(j)
  <1>0. SendingType /\ OutboundInv /\ QueueMoves
    BY Zenon DEF SendingOK, SendingInv
  <1>1. outbound \in [item : Items, segment : Nat] /\ outbound.item \in Items
    BY <1>0, Zenon DEF SendingType, Busy
  <1>2. Segments[outbound.item] \in Nat
    BY <1>1, InstanceFacts, Zenon
  <1>3. outbound'.item = outbound.item /\ outbound'.segment = outbound.segment + 1
    BY <1>1, Zenon
  <1>4. outbound.segment + 1 \in Nat /\ outbound.segment + 1 \in 1 .. Segments[outbound.item]
    BY <1>1, <1>2
  <1>5. outbound' \in [item : Items, segment : Nat]
    BY <1>1, <1>4, Zenon
  <1>6. SendingType'
    BY <1>0, <1>3, <1>4, <1>5, SameInstance, Zenon DEF SendingType
  <1>7. \A j : InFlight(j)' <=> InFlight(j)
    BY <1>3, Zenon DEF InFlight
  <1>8. OutboundInv'
    BY <1>0, <1>3, <1>7, SameInstance, Zenon DEF OutboundInv
  <1>9. QueueMoves'
    BY <1>0, <1>1, <1>3, InstanceFacts, Zenon DEF QueueMoves, Busy, Idle
  <1> QED
    BY <1>6, <1>7, <1>8, <1>9, Zenon DEF SendingOK, SendingInv

\* The end of the session concludes whatever is in flight.
LEMMA CloseSending ==
    ASSUME SessionAssumption, instance \in Instances, Same, SendingOK, Close
    PROVE  /\ SendingOK' /\ \A j \in Items : ~InFlight(j)'
           /\ \A j \in Items : ended'[j] = IF InFlight(j) THEN "Err" ELSE ended[j]
  <1>0. ended \in [Items -> {"none", "Ok", "Err"}]
    BY Zenon DEF SendingOK, SendingType
  <1>1. /\ ended' = [i \in Items |-> IF InFlight(i) THEN "Err" ELSE ended[i]]
        /\ outbound' = Idle /\ queued' = <<>> /\ stalled' = FALSE
    BY Zenon DEF Close
  <1>2. \A j \in Items : ended'[j] = IF InFlight(j) THEN "Err" ELSE ended[j]
    BY <1>1, Zenon
  <1>3. ended' \in [Items -> {"none", "Ok", "Err"}]
    BY <1>0, <1>1, Zenon
  <1>4. SendingType'
    BY <1>1, <1>3, SameInstance DEF SendingType, Idle
  <1>5. \A j \in Items : ~InFlight(j)'
    BY <1>1, InstanceFacts DEF InFlight, Idle
  <1>6. OutboundInv' /\ QueueMoves'
    BY <1>1, <1>5, SameInstance DEF OutboundInv, QueueMoves
  <1> QED
    BY <1>1, <1>2, <1>4, <1>5, <1>6, Zenon DEF SendingOK, SendingInv

-----------------------------------------------------------------------------

(* Every step: the Resources to send *)

EndedKept == \A i \in Items : ended[i] # "none" => ended'[i] = ended[i]

\* A Resource that concludes had not.
LEMMA FinishesKept ==
    ASSUME NEW i, Finishes(i)
    PROVE  EndedKept
BY Zenon DEF Finishes, EndedKept

\* A body that starts belongs to a request nobody made before.
LEMMA BodyNotStarted ==
    ASSUME Sound, NEW r \in Requests, Request(r), r \in Big
    PROVE  NotStarted(r)
BY SoundFacts, Zenon DEF Request, NotStarted, AskingInv, ReportInv

\* Every step keeps what is known of the Resources to send, and changes no
\* outcome that was given.
LEMMA SendingStep ==
    ASSUME Sound, SessionNext
    PROVE  SendingOK' /\ EndedKept
  <1> USE SoundFacts
  <1>1. ASSUME NEW i \in Items, StartResource(i)
        PROVE  SendingOK' /\ EndedKept
    BY <1>1, EnqueueStep, Zenon DEF StartResource, EndedKept
  <1>2. ASSUME NEW i \in Items, CancelResource(i)
        PROVE  SendingOK' /\ EndedKept
    <2>1. CASE outbound.item = i /\ ConcludeOutbound(FALSE)
      <3>1. Busy
        BY <2>1, InFlightFacts, Zenon DEF SendingOK
      <3> QED
        BY <2>1, <3>1, ConcludeStep, FinishesKept, Zenon
    <2>2. CASE /\ \E n \in DOMAIN queued : queued[n] = i /\ queued' = Removed(queued, n)
               /\ ended' = [ended EXCEPT ![i] = "Err"]
               /\ UNCHANGED <<outbound, stalled>>
      BY <2>2, CancelStep, FinishesKept, Zenon
    <2> QED
      BY <1>2, <2>1, <2>2, Zenon DEF CancelResource
  <1>3. CASE ResourceProof
    <2>1. CASE outbound.segment < Segments[outbound.item]
      <3>1. SendingOK' /\ ended' = ended
        BY <1>3, <2>1, SegmentStep, Zenon DEF ResourceProof
      <3> QED
        BY <3>1, Zenon DEF EndedKept
    <2>2. CASE ~(outbound.segment < Segments[outbound.item])
      BY <1>3, <2>2, ConcludeStep, FinishesKept, Zenon DEF ResourceProof
    <2> QED
      BY <2>1, <2>2, Zenon
  <1>4. CASE ResourceRejection
    BY <1>4, ConcludeStep, FinishesKept, Zenon DEF ResourceRejection
  <1>5. ASSUME NEW r \in Requests, Request(r)
        PROVE  SendingOK' /\ EndedKept
    <2>1. CASE r \in Big
      <3>1. r \in Items /\ Enqueue(r)
        BY <1>5, <2>1, InstanceFacts, Zenon DEF Request
      <3> QED
        BY <1>5, <2>1, <3>1, BodyNotStarted, EnqueueStep, Zenon DEF EndedKept
    <2>2. CASE r \notin Big
      <3>1. UNCHANGED sending
        BY <1>5, <2>2, Zenon DEF Request
      <3> QED
        BY <3>1, SendingKept, Zenon DEF EndedKept
    <2> QED
      BY <2>1, <2>2, Zenon
  <1>6. CASE Tick
    <2>1. PICK how : PollOutbound(how)
      BY <1>6, Zenon DEF Tick
    <2>2. CASE how = "quiet" /\ UNCHANGED sending
      BY <2>2, SendingKept, Zenon DEF EndedKept
    <2>3. CASE how # "quiet" /\ SendingOK' /\ Finishes(outbound.item)
      BY <2>3, FinishesKept, Zenon
    <2> QED
      BY <2>1, <2>2, <2>3, PollFacts, Zenon
  <1>7. CASE Close
    <2>1. \A j \in Items : ended[j] # "none" => ~InFlight(j)
      BY Zenon DEF SendingOK, SendingInv, OutboundInv
    <2> QED
      BY <1>7, <2>1, CloseSending, Zenon DEF EndedKept
  <1>8. CASE UNCHANGED sending
    BY <1>8, SendingKept, Zenon DEF EndedKept
  <1>9. ASSUME NEW x \in Inbounds, NEW k \in 1 .. Segments[x], Advertisement(x, k)
        PROVE  UNCHANGED sending
    BY <1>9, Zenon DEF Advertisement
  <1>10. ASSUME NEW x \in Inbounds,
                \/ AcceptInbound(x) \/ RejectInbound(x) \/ CancelInbound(x)
                \/ ResourcePart(x) \/ ResourceHmuOrIcl(x)
         PROVE  UNCHANGED sending
    BY <1>10, Zenon DEF AcceptInbound, RejectInbound, CancelInbound, ResourcePart, ResourceHmuOrIcl
  <1>11. ASSUME NEW r \in Requests, RefuseRequest(r) \/ ResponsePacket(r) \/ PeerAnswers(r)
         PROVE  UNCHANGED sending
    BY <1>11, Zenon DEF RefuseRequest, ResponsePacket, PeerAnswers
  <1>12. ASSUME NEW c \in commands, BodyConcluded(c) \/ AnswerReceived(c)
         PROVE  UNCHANGED sending
    BY <1>12, Zenon DEF BodyConcluded, AnswerReceived
  <1>13. ResourceRequest => UNCHANGED sending
    BY Zenon DEF ResourceRequest
  <1> QED
    BY <1>1, <1>2, <1>3, <1>4, <1>5, <1>6, <1>7, <1>8, <1>9, <1>10, <1>11, <1>12, <1>13, Zenon DEF SessionNext
-----------------------------------------------------------------------------

(* Every step: the requests *)

\* Some requests are settled: their receipts and entries go together, and each
\* caller is told once.
Settled ==
    /\ receipts' \in [Requests -> {"none", "Sent", "SendingResource"}]
    /\ requests' \subseteq requests
    /\ results' \in [Requests -> {"none", "Ok", "Timeout", "ResourceFailed",
                                  "SessionClosed", "Refused"}]
    /\ requests' = {r \in Requests : receipts'[r] # "none"}
    /\ \A r \in requests' : receipts'[r] = receipts[r]
    /\ \A r \in requests : r \notin requests' => results'[r] # "none"
    /\ \A r \in Requests : r \notin requests \/ r \in requests' => results'[r] = results[r]

\* fail_session_request, and a response delivered.
LEMMA ConcludeSettles ==
    ASSUME AskingType, RequestsExact, NEW r \in Requests,
           NEW how \in {"Ok", "Timeout", "ResourceFailed"}, ConcludeRequest(r, how)
    PROVE  Settled /\ \A q \in Requests : results'[q] = "Ok" =>
                         results[q] = "Ok" \/ (q = r /\ how = "Ok")
  <1>1. /\ receipts' = [receipts EXCEPT ![r] = "none"]
        /\ requests' = requests \ {r}
        /\ results' = IF r \in requests THEN [results EXCEPT ![r] = how] ELSE results
    BY Zenon DEF ConcludeRequest
  <1>2. /\ receipts' \in [Requests -> {"none", "Sent", "SendingResource"}]
        /\ \A q \in Requests : receipts'[q] = IF q = r THEN "none" ELSE receipts[q]
    BY <1>1, Zenon DEF AskingType
  <1>3. /\ results' \in [Requests -> {"none", "Ok", "Timeout", "ResourceFailed",
                                      "SessionClosed", "Refused"}]
        /\ \A q \in Requests :
              results'[q] = IF q = r /\ r \in requests THEN how ELSE results[q]
    BY <1>1, Zenon DEF AskingType
  <1>4. requests' = {q \in Requests : receipts'[q] # "none"}
    BY <1>1, <1>2, Zenon DEF RequestsExact
  <1> QED
    BY <1>1, <1>2, <1>3, <1>4 DEF Settled, RequestsExact

\* link.tick and reap_concluded_requests.
LEMMA ReapSettles ==
    ASSUME AskingType, RequestsExact, NEW due \in SUBSET Awaiting, Reap(due)
    PROVE  Settled /\ \A q \in Requests : results'[q] = "Ok" => results[q] = "Ok"
  <1>1. /\ receipts' = [r \in Requests |-> IF r \in due THEN "none" ELSE receipts[r]]
        /\ requests' = {r \in requests : receipts'[r] # "none"}
        /\ results' = [r \in Requests |->
                          IF r \in requests \ requests' THEN "Timeout" ELSE results[r]]
    BY Zenon DEF Reap
  <1>2. /\ receipts' \in [Requests -> {"none", "Sent", "SendingResource"}]
        /\ \A q \in Requests : receipts'[q] = IF q \in due THEN "none" ELSE receipts[q]
    BY <1>1, Zenon DEF AskingType
  <1>3. /\ results' \in [Requests -> {"none", "Ok", "Timeout", "ResourceFailed",
                                      "SessionClosed", "Refused"}]
        /\ \A q \in Requests :
              results'[q] = IF q \in requests \ requests' THEN "Timeout" ELSE results[q]
    BY <1>1, Zenon DEF AskingType
  <1>4. requests' \subseteq requests /\ requests' \subseteq Requests
    BY <1>1, Zenon DEF AskingType
  <1>5. requests' = {q \in Requests : receipts'[q] # "none"}
    BY <1>1, <1>2, Zenon DEF RequestsExact
  <1>6. \A r \in requests' : receipts'[r] = receipts[r]
    BY <1>2, <1>5, Zenon
  <1>7. \A r \in requests : r \notin requests' => results'[r] # "none"
    BY <1>3, Zenon DEF AskingType
  <1>8. \A r \in Requests : r \notin requests \/ r \in requests' => results'[r] = results[r]
    BY <1>3, Zenon
  <1>9. \A q \in Requests : results'[q] = "Ok" => results[q] = "Ok"
    BY <1>3, Zenon
  <1> QED
    BY <1>2, <1>3, <1>4, <1>5, <1>6, <1>7, <1>8, <1>9, Zenon DEF Settled

\* Nothing is asked and nothing answered.
LEMMA NothingSettled ==
    ASSUME AskingType, RequestsExact, UNCHANGED asking
    PROVE  Settled /\ \A q \in Requests : results'[q] = "Ok" => results[q] = "Ok"
  <1>1. receipts' = receipts /\ requests' = requests /\ results' = results
    BY Zenon DEF asking
  <1> QED
    BY <1>1, Zenon DEF AskingType, RequestsExact, Settled

\* Whatever settles keeps the accounts of receipts, callers and results.
LEMMA SettledExact ==
    ASSUME AskingType, RequestsExact, Same, Settled, up' = up \/ requests' = {},
           \A r \in Requests : results'[r] = "Ok" => answered'[r] # "no"
    PROVE  RequestsExact'
  <1>1. \A r \in requests' : r \in Requests /\ results'[r] = "none"
    BY Zenon DEF Settled, RequestsExact, AskingType
  <1>2. ~up' => requests' = {}
    BY Zenon DEF Settled, RequestsExact
  <1> QED
    BY <1>1, <1>2, SameInstance, Zenon DEF Settled, RequestsExact

\* Bodies in flight stay, or report their end.
Reporting ==
    /\ \A r \in Big : InFlight(r)' => InFlight(r)
    /\ \A r \in Big : ended'[r] # "none" => ended[r] # "none" \/ InFlight(r)
    /\ \A r \in Big : ended[r] # "none" => ended'[r] # "none"
    /\ \A r \in Big : InFlight(r) /\ ~InFlight(r)' =>
                         \E c \in commands' : c.of = "body" /\ c.request = r

\* New reports are of bodies that have concluded and of answers given.
Reported ==
    /\ \A c \in commands' : c \notin commands =>
          /\ c.of = "body" => c.request \in Big /\ ended'[c.request] # "none"
          /\ c.of = "answer" /\ c.ok => answered'[c.request] = "Resource"
    /\ \A r \in Requests : answered[r] = "Resource" => answered'[r] = "Resource"

\* A request whose deadline stays suspended keeps the report of its body; one
\* whose body is in flight keeps its deadline suspended.
Suspended ==
    /\ \A r \in Big : receipts'[r] = "SendingResource" => receipts[r] = "SendingResource"
    /\ \A r \in Big : receipts'[r] = "SendingResource" =>
          \A c \in commands : c.of = "body" /\ c.request = r => c \in commands'
    /\ \A r \in Big : r \in requests' /\ InFlight(r) =>
          r \in requests /\ receipts'[r] = receipts[r]
    /\ \A r \in Big : r \in requests \/ results[r] # "none" =>
          r \in requests' \/ results'[r] # "none"

\* Then every suspended request is still followed.
LEMMA FollowedStep ==
    ASSUME AskingType, AskingInv, Same, Reporting, Reported, Suspended
    PROVE  BodiesFollowed' /\ ReportInv'
  <1>0. Big' = Big
    BY SameInstance, Zenon
  <1>1. ASSUME NEW r \in Big, receipts'[r] = "SendingResource"
        PROVE  InFlight(r)' \/ \E c \in commands' : c.of = "body" /\ c.request = r
    <2>1. receipts[r] = "SendingResource"
      BY <1>1, Zenon DEF Suspended
    <2>2. CASE InFlight(r)
      BY <2>2, Zenon DEF Reporting
    <2>3. CASE \E c \in commands : c.of = "body" /\ c.request = r
      BY <1>1, <2>3, Zenon DEF Suspended
    <2> QED
      BY <2>1, <2>2, <2>3, Zenon DEF AskingInv, BodiesFollowed
  <1>2. ASSUME NEW r \in Big, r \in requests', InFlight(r)'
        PROVE  receipts'[r] = "SendingResource"
    <2>1. InFlight(r)
      BY <1>2, Zenon DEF Reporting
    <2>2. r \in requests /\ receipts'[r] = receipts[r]
      BY <1>2, <2>1, Zenon DEF Suspended
    <2> QED
      BY <2>1, <2>2, Zenon DEF AskingInv, BodiesFollowed
  <1>3. ASSUME NEW r \in Big, InFlight(r)' \/ ended'[r] # "none"
        PROVE  r \in requests' \/ results'[r] # "none"
    <2>1. InFlight(r) \/ ended[r] # "none"
      BY <1>3, Zenon DEF Reporting
    <2>2. r \in requests \/ results[r] # "none"
      BY <2>1, Zenon DEF AskingInv, ReportInv
    <2> QED
      BY <2>2, Zenon DEF Suspended
  <1>4. ASSUME NEW c \in commands'
        PROVE  /\ c.of = "body" => c.request \in Big /\ ended'[c.request] # "none"
               /\ c.of = "answer" /\ c.ok => answered'[c.request] = "Resource"
    <2>1. CASE c \in commands
      <3>1. c.request \in Requests
        BY <2>1, Zenon DEF AskingType
      <3> QED
        BY <2>1, <3>1, Zenon DEF Reported, Reporting, AskingInv, ReportInv
    <2> QED
      BY <2>1, Zenon DEF Reported
  <1>5. BodiesFollowed'
    BY <1>0, <1>1, <1>2, Zenon DEF BodiesFollowed
  <1>6. ReportInv'
    BY <1>0, <1>3, <1>4, Zenon DEF ReportInv
  <1> QED
    BY <1>5, <1>6, Zenon

ResultsKept == \A r \in Requests : results[r] # "none" => results'[r] = results[r]

Reports == [of : {"body", "answer"}, request : Requests, ok : BOOLEAN]

\* A step that settles requests, with the bodies in flight and the reports as
\* they should be, keeps what is known of the requests.
LEMMA AskingBySettling ==
    ASSUME Sound, up' = up, Settled,
           \A r \in Requests : results'[r] = "Ok" => answered'[r] # "no",
           commands' \subseteq Reports, answered' \in [Requests -> {"no", "packet", "Resource"}],
           Reporting, Reported, \A c \in commands : c.of = "body" => c \in commands'
    PROVE  AskingOK' /\ ResultsKept
  <1> USE SoundFacts
  <1>1. AskingType'
    BY SameInstance, Zenon DEF AskingType, Settled, Reports
  <1>2. RequestsExact'
    BY SettledExact, Zenon DEF AskingInv
  <1>3. ResultsKept
    BY Zenon DEF Settled, AskingInv, RequestsExact, ResultsKept
  <1>4. Suspended
    <2>1. Big \subseteq Requests
      BY InstanceFacts, Zenon
    <2>2. \A r \in Big : receipts'[r] = "SendingResource" => r \in requests'
      BY <2>1, Zenon DEF Settled
    <2>3. \A r \in Big : results[r] # "none" => results'[r] # "none"
      BY <1>3, <2>1, Zenon DEF ResultsKept
    <2> QED
      BY <2>2, <2>3, Zenon DEF Settled, Suspended
  <1>5. BodiesFollowed' /\ ReportInv'
    BY <1>4, FollowedStep, Zenon
  <1> QED
    BY <1>1, <1>2, <1>3, <1>5, Zenon DEF AskingOK, AskingInv

\* The reports of the tasks that wait for Resources.
LEMMA BodyReportFacts ==
    ASSUME Sound, NEW i \in Items, NEW ok \in BOOLEAN
    PROVE  /\ BodyReport(i, ok) \subseteq Reports
           /\ \A c \in BodyReport(i, ok) : c.of = "body" /\ c.request = i /\ i \in Big
           /\ i \in Big => \E c \in BodyReport(i, ok) : c.of = "body" /\ c.request = i
  <1> USE SoundFacts
  <1>1. i \in Requests <=> i \in Big
    BY InstanceFacts, Zenon DEF Items
  <1> DEFINE c == [of |-> "body", request |-> i, ok |-> ok]
  <1>2. c.of = "body" /\ c.request = i /\ (i \in Requests => c \in Reports)
    BY Zenon DEF Reports
  <1>3. BodyReport(i, ok) = IF i \in Requests THEN {c} ELSE {}
    BY Zenon DEF BodyReport
  <1> HIDE DEF c
  <1> QED
    BY <1>1, <1>2, <1>3, Zenon

\* The reports of Resources received in answer to requests.
LEMMA AnswerReportFacts ==
    ASSUME NEW xs, NEW ok \in BOOLEAN
    PROVE  /\ AnswerReports(xs, ok) \subseteq Reports
           /\ \A c \in AnswerReports(xs, ok) :
                 c.of = "answer" /\ c.request \in xs \cap Requests /\ c.ok = ok
BY DEF AnswerReports, Reports

\* A Resource concludes, and the task that waits for it reports.
LEMMA ReportingEnd ==
    ASSUME Sound, NEW i, Finishes(i), NEW ok \in BOOLEAN, BodyReport(i, ok) \subseteq commands'
    PROVE  Reporting /\ \A c \in BodyReport(i, ok) : c.request \in Big /\ ended'[c.request] # "none"
  <1> USE SoundFacts
  <1>1. Big \subseteq Items /\ i \in Items
    BY InstanceFacts, Zenon DEF Finishes
  <1>2. \A r \in Big : InFlight(r) /\ ~InFlight(r)' =>
                          \E c \in commands' : c.of = "body" /\ c.request = r
    BY <1>1, BodyReportFacts DEF Finishes
  <1>3. Reporting
    BY <1>1, <1>2, Zenon DEF Reporting, Finishes
  <1>4. \A c \in BodyReport(i, ok) : c.request \in Big /\ ended'[c.request] # "none"
    BY <1>1, BodyReportFacts DEF Finishes
  <1> QED
    BY <1>3, <1>4, Zenon

\* No body starts or concludes.
LEMMA ReportingNothing ==
    ASSUME ended' = ended, \A r \in Big : InFlight(r)' <=> InFlight(r)
    PROVE  Reporting
BY Zenon DEF Reporting

\* An outbound Resource concludes and nothing else happens to the requests.
LEMMA BodyEnds ==
    ASSUME Sound, NEW i, Finishes(i), NEW ok \in BOOLEAN,
           commands' = commands \cup BodyReport(i, ok),
           UNCHANGED <<up, asking, answered>>
    PROVE  AskingOK' /\ ResultsKept
  <1> USE SoundFacts
  <1>1. Settled /\ \A q \in Requests : results'[q] = "Ok" => results[q] = "Ok"
    BY NothingSettled, Zenon DEF AskingInv
  <1>2. commands' \subseteq Reports
    BY BodyReportFacts, Zenon DEF AskingType, Reports, Finishes
  <1>3. \A r \in Requests : results'[r] = "Ok" => answered'[r] # "no"
    BY <1>1, Zenon DEF AskingInv, RequestsExact
  <1>4. Reporting /\ \A c \in BodyReport(i, ok) : c.request \in Big /\ ended'[c.request] # "none"
    BY ReportingEnd, Zenon
  <1>5. \A c \in BodyReport(i, ok) : c.of = "body"
    BY BodyReportFacts DEF Finishes
  <1>6. Reported
    BY <1>4, <1>5, Zenon DEF Reported
  <1>7. answered' \in [Requests -> {"no", "packet", "Resource"}]
    BY Zenon DEF AskingType
  <1> QED
    BY <1>1, <1>2, <1>3, <1>4, <1>6, <1>7, AskingBySettling, Zenon

\* The requests are left alone, but for reports about answers that come in.
LEMMA AskingKept ==
    ASSUME Sound, up' = up, UNCHANGED <<asking, answered>>,
           ended' = ended, \A r \in Big : InFlight(r)' <=> InFlight(r),
           NEW xs, NEW ok \in BOOLEAN,
           commands' \in {commands, commands \cup AnswerReports(xs, ok)},
           ok => \A x \in xs \cap Requests : answered[x] = "Resource"
    PROVE  AskingOK' /\ ResultsKept
  <1> USE SoundFacts
  <1>1. Settled /\ \A q \in Requests : results'[q] = "Ok" => results[q] = "Ok"
    BY NothingSettled, Zenon DEF AskingInv
  <1>2. commands' \subseteq Reports /\ commands \subseteq commands'
    BY AnswerReportFacts, Zenon DEF AskingType, Reports
  <1>3. \A r \in Requests : results'[r] = "Ok" => answered'[r] # "no"
    BY <1>1, Zenon DEF AskingInv, RequestsExact
  <1>4. Reporting
    BY ReportingNothing, Zenon
  <1>5. Reported
    BY AnswerReportFacts, Zenon DEF Reported
  <1>6. answered' \in [Requests -> {"no", "packet", "Resource"}]
    BY Zenon DEF AskingType
  <1> QED
    BY <1>1, <1>2, <1>3, <1>4, <1>5, <1>6, AskingBySettling, Zenon

\* LinkSessionCommand::Request.
LEMMA RequestAsks ==
    ASSUME Sound, NEW r \in Requests, Request(r)
    PROVE  AskingOK' /\ ResultsKept
  <1> USE SoundFacts
  <1>1. /\ results[r] = "none" /\ r \notin requests /\ requests' = requests \cup {r}
        /\ results' = results /\ commands' = commands /\ answered' = answered /\ up' = up /\ up
        /\ receipts' = [receipts EXCEPT ![r] = IF r \in Big THEN "SendingResource" ELSE "Sent"]
    BY Zenon DEF Request
  <1>2. /\ receipts' \in [Requests -> {"none", "Sent", "SendingResource"}]
        /\ \A q \in Requests :
              receipts'[q] = IF q = r THEN (IF r \in Big THEN "SendingResource" ELSE "Sent")
                             ELSE receipts[q]
    BY <1>1, Zenon DEF AskingType
  <1>3. AskingType'
    BY <1>1, <1>2, SameInstance, Zenon DEF AskingType
  <1>4. RequestsExact'
    <2>1. requests' = {q \in Requests : receipts'[q] # "none"}
      BY <1>1, <1>2 DEF AskingInv, RequestsExact
    <2> QED
      BY <1>1, <2>1, SameInstance, Zenon DEF AskingInv, RequestsExact
  <1>5. Big' = Big /\ Big \subseteq Requests /\ Big \subseteq Items
    BY SameInstance, InstanceFacts, Zenon
  <1>6. ended' = ended /\ \A q \in Big : InFlight(q)' <=> InFlight(q) \/ q = r
    <2>1. CASE r \in Big
      <3>1. Enqueue(r) /\ NotStarted(r)
        BY <2>1, BodyNotStarted, Zenon DEF Request
      <3> QED
        BY <1>5, <2>1, <3>1, EnqueueStep, Zenon
    <2>2. CASE r \notin Big
      <3>1. UNCHANGED sending
        BY <2>2, Zenon DEF Request
      <3> QED
        BY <2>2, <3>1, SendingKept, Zenon
    <2> QED
      BY <2>1, <2>2, Zenon
  <1>7. BodiesFollowed'
    <2> SUFFICES ASSUME NEW q \in Big
                 PROVE  /\ receipts'[q] = "SendingResource" =>
                             InFlight(q)' \/ \E c \in commands' : c.of = "body" /\ c.request = q
                        /\ q \in requests' /\ InFlight(q)' => receipts'[q] = "SendingResource"
      BY <1>5, Zenon DEF BodiesFollowed
    <2>1. CASE q = r
      BY <1>2, <1>5, <1>6, <2>1, Zenon
    <2>2. CASE q # r
      BY <1>1, <1>2, <1>5, <1>6, <2>2, Zenon DEF AskingInv, BodiesFollowed
    <2> QED
      BY <2>1, <2>2, Zenon
  <1>8. ReportInv'
    BY <1>1, <1>5, <1>6, Zenon DEF AskingInv, ReportInv
  <1> QED
    BY <1>1, <1>3, <1>4, <1>7, <1>8, Zenon DEF AskingOK, AskingInv, ResultsKept

\* A request that is refused leaves its result and nothing else.
LEMMA RefuseAsks ==
    ASSUME Sound, NEW r \in Requests, RefuseRequest(r)
    PROVE  AskingOK' /\ ResultsKept
  <1> USE SoundFacts
  <1>1. /\ results[r] = "none" /\ r \notin requests /\ up' = up
        /\ results' = [results EXCEPT ![r] = "Refused"]
        /\ UNCHANGED <<receipts, requests, commands, answered>> /\ UNCHANGED sending
    BY Zenon DEF RefuseRequest
  <1>2. /\ results' \in [Requests -> {"none", "Ok", "Timeout", "ResourceFailed",
                                      "SessionClosed", "Refused"}]
        /\ \A q \in Requests : results'[q] = IF q = r THEN "Refused" ELSE results[q]
    BY <1>1, Zenon DEF AskingType
  <1>3. AskingType'
    BY <1>1, <1>2, SameInstance, Zenon DEF AskingType
  <1>4. RequestsExact'
    BY <1>1, <1>2, SameInstance DEF AskingInv, RequestsExact, AskingType
  <1>5. ended' = ended /\ \A q : InFlight(q)' <=> InFlight(q)
    BY <1>1, SendingKept, Zenon
  <1>6. Reporting
    BY <1>5, ReportingNothing, Zenon
  <1>7. Reported
    BY <1>1, Zenon DEF Reported
  <1>8. Suspended
    BY <1>1, <1>2, InstanceFacts, Zenon DEF Suspended
  <1>9. BodiesFollowed' /\ ReportInv'
    BY <1>6, <1>7, <1>8, FollowedStep, Zenon
  <1> QED
    BY <1>1, <1>2, <1>3, <1>4, <1>9, Zenon DEF AskingOK, AskingInv, ResultsKept

\* RequestResourceConcluded: the report of a body is taken.
LEMMA BodyConcludedAsks ==
    ASSUME Sound, NEW c \in commands, BodyConcluded(c)
    PROVE  AskingOK' /\ ResultsKept
  <1> USE SoundFacts
  <1> DEFINE r == c.request
  <1>1. /\ c.of = "body" /\ commands' = commands \ {c} /\ up' = up /\ answered' = answered
        /\ UNCHANGED sending
    BY Zenon DEF BodyConcluded
  <1>2. r \in Big /\ r \in Requests /\ ended[r] # "none"
    BY <1>1, InstanceFacts, Zenon DEF AskingInv, ReportInv
  <1>3. ~InFlight(r)
    BY <1>2, InstanceFacts, Zenon DEF SendingOK, SendingInv, OutboundInv
  <1>4. ended' = ended /\ \A q : InFlight(q)' <=> InFlight(q)
    BY <1>1, SendingKept, Zenon
  <1>5. Reporting
    BY <1>4, ReportingNothing, Zenon
  <1>6. Reported
    BY <1>1, Zenon DEF Reported
  <1>7. /\ commands' \subseteq Reports
        /\ answered' \in [Requests -> {"no", "packet", "Resource"}]
    BY <1>1, Zenon DEF AskingType, Reports
  <1>8. Big \subseteq Requests
    BY InstanceFacts, Zenon
  <1> HIDE DEF r
  <1>9. CASE c.ok
    <2>1. /\ receipts' = IF receipts[r] = "SendingResource" THEN [receipts EXCEPT ![r] = "Sent"]
                         ELSE receipts
          /\ requests' = requests /\ results' = results
      BY <1>9, Zenon DEF BodyConcluded, r
    <2>2. /\ receipts' \in [Requests -> {"none", "Sent", "SendingResource"}]
          /\ \A q \in Requests : q # r => receipts'[q] = receipts[q]
          /\ receipts'[r] # "SendingResource"
          /\ receipts'[r] = "none" <=> receipts[r] = "none"
      BY <1>2, <2>1, Zenon DEF AskingType
    <2>3. AskingType'
      BY <1>7, <2>1, <2>2, SameInstance, Zenon DEF AskingType, Reports
    <2>4. RequestsExact'
      BY <1>1, <2>1, <2>2, SameInstance DEF AskingInv, RequestsExact
    <2>5. Suspended
      BY <1>1, <1>3, <1>8, <2>1, <2>2, Zenon DEF Suspended, r
    <2>6. BodiesFollowed' /\ ReportInv'
      BY <1>5, <1>6, <2>5, FollowedStep, Zenon
    <2> QED
      BY <2>1, <2>3, <2>4, <2>6, Zenon DEF AskingOK, AskingInv, ResultsKept
  <1>10. CASE ~c.ok
    <2>1. ConcludeRequest(r, "ResourceFailed")
      BY <1>10, Zenon DEF BodyConcluded, r
    <2>2. /\ Settled
          /\ \A q \in Requests : results'[q] = "Ok" => results[q] = "Ok"
      BY <1>2, <2>1, ConcludeSettles, Zenon DEF AskingInv
    <2>3. AskingType'
      BY <1>7, <2>2, SameInstance, Zenon DEF AskingType, Reports, Settled
    <2>4. RequestsExact'
      BY <1>1, <2>2, SettledExact, Zenon DEF AskingInv, RequestsExact
    <2>5. ResultsKept
      BY <2>2, Zenon DEF Settled, AskingInv, RequestsExact, ResultsKept
    <2>6. receipts'[r] = "none" /\ r \notin requests'
      BY <1>2, <2>1, Zenon DEF ConcludeRequest, AskingType
    <2>7. Suspended
      <3>1. \A q \in Big : receipts'[q] = "SendingResource" => q \in requests' /\ q # r
        BY <1>8, <2>2, <2>6, Zenon DEF Settled
      <3>2. \A q \in Big : results[q] # "none" => results'[q] # "none"
        BY <1>8, <2>5, Zenon DEF ResultsKept
      <3> QED
        BY <1>1, <2>2, <3>1, <3>2 DEF Settled, Suspended, r
    <2>8. BodiesFollowed' /\ ReportInv'
      BY <1>5, <1>6, <2>7, FollowedStep, Zenon
    <2> QED
      BY <2>3, <2>4, <2>5, <2>8, Zenon DEF AskingOK, AskingInv
  <1> QED
    BY <1>9, <1>10, Zenon

\* RequestResourceReceived, and a RESPONSE packet.
LEMMA AnswerReceivedAsks ==
    ASSUME Sound, NEW c \in commands, AnswerReceived(c)
    PROVE  AskingOK' /\ ResultsKept
  <1> USE SoundFacts
  <1>1. /\ c.of = "answer" /\ commands' = commands \ {c} /\ up' = up /\ answered' = answered
        /\ UNCHANGED sending
    BY Zenon DEF AnswerReceived
  <1>2. c.request \in Requests /\ (c.ok => answered[c.request] = "Resource")
    BY <1>1, Zenon DEF AskingType, AskingInv, ReportInv
  <1>3. Settled /\ \A q \in Requests : results'[q] = "Ok" =>
                      results[q] = "Ok" \/ answered[q] # "no"
    <2> DEFINE how == IF ~c.ok THEN "ResourceFailed"
                      ELSE IF receipts[c.request] = "none" THEN "Timeout" ELSE "Ok"
    <2>1. CASE c.request \in requests
      <3>1. ConcludeRequest(c.request, how)
        BY <2>1, Zenon DEF AnswerReceived
      <3>2. how \in {"Ok", "Timeout", "ResourceFailed"} /\ (how = "Ok" => c.ok)
        OBVIOUS
      <3> HIDE DEF how
      <3> QED
        BY <1>2, <3>1, <3>2, ConcludeSettles, Zenon DEF AskingInv
    <2>2. CASE c.request \notin requests
      <3>1. UNCHANGED asking
        BY <2>2, Zenon DEF AnswerReceived
      <3> QED
        BY <3>1, NothingSettled, Zenon DEF AskingInv
    <2> QED
      BY <2>1, <2>2, Zenon
  <1>4. \A r \in Requests : results'[r] = "Ok" => answered'[r] # "no"
    BY <1>1, <1>3, Zenon DEF AskingInv, RequestsExact
  <1>5. /\ commands' \subseteq Reports
        /\ answered' \in [Requests -> {"no", "packet", "Resource"}]
    BY <1>1, Zenon DEF AskingType, Reports
  <1>6. ended' = ended /\ \A q : InFlight(q)' <=> InFlight(q)
    BY <1>1, SendingKept, Zenon
  <1>7. Reporting /\ Reported
    BY <1>1, <1>6, ReportingNothing, Zenon DEF Reported
  <1> QED
    BY <1>1, <1>3, <1>4, <1>5, <1>7, AskingBySettling

\* A RESPONSE packet of the peer.
LEMMA ResponseAsks ==
    ASSUME Sound, NEW r \in Requests, ResponsePacket(r)
    PROVE  AskingOK' /\ ResultsKept
  <1> USE SoundFacts
  <1>1. /\ answered[r] = "packet" /\ commands' = commands /\ up' = up /\ answered' = answered
        /\ UNCHANGED sending
    BY Zenon DEF ResponsePacket
  <1>2. Settled /\ \A q \in Requests : results'[q] = "Ok" =>
                      results[q] = "Ok" \/ answered[q] # "no"
    <2>1. CASE receipts[r] # "none"
      BY <1>1, <2>1, ConcludeSettles, Zenon DEF ResponsePacket, AskingInv
    <2>2. CASE receipts[r] = "none"
      <3>1. UNCHANGED asking
        BY <2>2, Zenon DEF ResponsePacket
      <3> QED
        BY <3>1, NothingSettled, Zenon DEF AskingInv
    <2> QED
      BY <2>1, <2>2, Zenon
  <1>3. \A q \in Requests : results'[q] = "Ok" => answered'[q] # "no"
    BY <1>1, <1>2, Zenon DEF AskingInv, RequestsExact
  <1>4. /\ commands' \subseteq Reports
        /\ answered' \in [Requests -> {"no", "packet", "Resource"}]
    BY <1>1, Zenon DEF AskingType, Reports
  <1>5. ended' = ended /\ \A q : InFlight(q)' <=> InFlight(q)
    BY <1>1, SendingKept, Zenon
  <1>6. Reporting /\ Reported
    BY <1>1, <1>5, ReportingNothing DEF Reported
  <1> QED
    BY <1>1, <1>2, <1>3, <1>4, <1>6, AskingBySettling

\* The peer answers: what it has answered stays answered.
LEMMA PeerAsks ==
    ASSUME Sound, NEW r \in Requests, PeerAnswers(r)
    PROVE  AskingOK' /\ ResultsKept
  <1> USE SoundFacts
  <1>1. /\ answered[r] = "no" /\ commands' = commands /\ up' = up
        /\ UNCHANGED asking /\ UNCHANGED sending
    BY Zenon DEF PeerAnswers
  <1>2. PICK how \in {"packet", "Resource"} : answered' = [answered EXCEPT ![r] = how]
    BY Zenon DEF PeerAnswers
  <1>3. /\ answered' \in [Requests -> {"no", "packet", "Resource"}]
        /\ \A q \in Requests : answered[q] # "no" => answered'[q] = answered[q]
    BY <1>1, <1>2, Zenon DEF AskingType
  <1>4. Settled /\ \A q \in Requests : results'[q] = "Ok" => results[q] = "Ok"
    BY <1>1, NothingSettled, Zenon DEF AskingInv
  <1>5. \A q \in Requests : results'[q] = "Ok" => answered'[q] # "no"
    BY <1>3, <1>4, Zenon DEF AskingInv, RequestsExact
  <1>6. ended' = ended /\ \A q : InFlight(q)' <=> InFlight(q)
    BY <1>1, SendingKept, Zenon
  <1>7. Reporting /\ Reported
    BY <1>1, <1>3, <1>6, ReportingNothing DEF Reported
  <1>8. commands' \subseteq Reports
    BY <1>1, Zenon DEF AskingType, Reports
  <1> QED
    BY <1>1, <1>3, <1>4, <1>5, <1>7, <1>8, AskingBySettling

\* poll_outbound_resource, poll_inbound_resources, link.tick and
\* reap_concluded_requests.
LEMMA TickAsks ==
    ASSUME Sound, Tick
    PROVE  AskingOK' /\ ResultsKept
  <1> USE SoundFacts
  <1>1. PICK how \in {"quiet", "failed", "unsent"}, failed \in SUBSET inbound_logicals,
             due \in SUBSET Awaiting :
          /\ PollOutbound(how)
          /\ commands' = commands \cup AnswerReports(failed, FALSE)
                         \cup (IF how = "quiet" THEN {} ELSE BodyReport(outbound.item, FALSE))
          /\ Reap(due)
    <2>1. SUBSET {x \in inbound_logicals : inbound[x] # 0} \subseteq SUBSET inbound_logicals
      OBVIOUS
    <2> QED
      BY <2>1, Zenon DEF Tick
  <1>2. up' = up /\ answered' = answered
    BY Zenon DEF Tick
  <1>3. Settled /\ \A q \in Requests : results'[q] = "Ok" => results[q] = "Ok"
    BY <1>1, ReapSettles, Zenon DEF AskingInv
  <1>4. \A q \in Requests : results'[q] = "Ok" => answered'[q] # "no"
    BY <1>2, <1>3, Zenon DEF AskingInv, RequestsExact
  <1>5. answered' \in [Requests -> {"no", "packet", "Resource"}]
    BY <1>2, Zenon DEF AskingType
  <1>6. /\ AnswerReports(failed, FALSE) \subseteq Reports
        /\ \A c \in AnswerReports(failed, FALSE) : c.of = "answer" /\ ~c.ok
    BY AnswerReportFacts, Zenon
  <1>7. commands \subseteq Reports
    BY Zenon DEF AskingType, Reports
  <1>8. CASE how # "quiet"
    <2>1. Finishes(outbound.item) /\ outbound.item \in Items
      BY <1>1, <1>8, PollFacts, Zenon DEF Finishes
    <2>2. /\ BodyReport(outbound.item, FALSE) \subseteq Reports
          /\ \A c \in BodyReport(outbound.item, FALSE) : c.of = "body"
      BY <2>1, BodyReportFacts, Zenon
    <2>3. commands' = (commands \cup AnswerReports(failed, FALSE))
                      \cup BodyReport(outbound.item, FALSE)
      BY <1>1, <1>8, Zenon
    <2>4. /\ Reporting
          /\ \A c \in BodyReport(outbound.item, FALSE) :
                c.request \in Big /\ ended'[c.request] # "none"
      BY <2>1, <2>3, ReportingEnd, Zenon
    <2>5. Reported
      BY <1>2, <1>6, <2>2, <2>3, <2>4, Zenon DEF Reported
    <2>6. commands' \subseteq Reports /\ commands \subseteq commands'
      BY <1>6, <1>7, <2>2, <2>3, Zenon
    <2> QED
      BY <1>2, <1>3, <1>4, <1>5, <2>4, <2>5, <2>6, AskingBySettling
  <1>9. CASE how = "quiet"
    <2>1. UNCHANGED sending
      BY <1>1, <1>9, PollFacts, Zenon
    <2>2. commands' = commands \cup AnswerReports(failed, FALSE)
      BY <1>1, <1>9, Zenon
    <2>3. ended' = ended /\ \A q : InFlight(q)' <=> InFlight(q)
      BY <2>1, SendingKept, Zenon
    <2>4. Reporting
      BY <2>3, ReportingNothing, Zenon
    <2>5. Reported
      BY <1>2, <1>6, <2>2, Zenon DEF Reported
    <2>6. commands' \subseteq Reports /\ commands \subseteq commands'
      BY <1>6, <1>7, <2>2, Zenon
    <2> QED
      BY <1>2, <1>3, <1>4, <1>5, <2>4, <2>5, <2>6, AskingBySettling
  <1> QED
    BY <1>8, <1>9, Zenon

\* The end of the session answers every caller.
LEMMA CloseAsks ==
    ASSUME Sound, Close
    PROVE  AskingOK' /\ ResultsKept
  <1> USE SoundFacts
  <1>1. /\ results' = [r \in Requests |->
                          IF r \in requests THEN "SessionClosed" ELSE results[r]]
        /\ requests' = {} /\ receipts' = [r \in Requests |-> "none"]
        /\ commands' = {} /\ answered' = answered
    BY Zenon DEF Close
  <1>2. /\ results' \in [Requests -> {"none", "Ok", "Timeout", "ResourceFailed",
                                      "SessionClosed", "Refused"}]
        /\ \A q \in Requests :
              results'[q] = IF q \in requests THEN "SessionClosed" ELSE results[q]
    BY <1>1, Zenon DEF AskingType
  <1>3. AskingType'
    BY <1>1, <1>2, SameInstance, SMTT(20) DEF AskingType
  <1>4. RequestsExact'
    BY <1>1, <1>2, SameInstance, Zenon DEF AskingInv, RequestsExact
  <1>5. /\ \A j \in Items : ~InFlight(j)'
        /\ \A j \in Items : ended'[j] = IF InFlight(j) THEN "Err" ELSE ended[j]
        /\ Big \subseteq Items /\ Big \subseteq Requests /\ Big' = Big
    BY CloseSending, InstanceFacts, SameInstance, Zenon
  <1>6. BodiesFollowed'
    BY <1>1, <1>5, Zenon DEF BodiesFollowed
  <1>7. ReportInv'
    <2>1. \A r \in Big : ended'[r] # "none" => results'[r] # "none"
      BY <1>2, <1>5, Zenon DEF AskingInv, ReportInv
    <2> QED
      BY <1>1, <1>5, <2>1, Zenon DEF ReportInv
  <1>8. ResultsKept
    BY <1>2, Zenon DEF ResultsKept, AskingInv, RequestsExact
  <1> QED
    BY <1>3, <1>4, <1>6, <1>7, <1>8 DEF AskingOK, AskingInv

\* Every step keeps what is known of the requests, and changes no result that
\* was given.
LEMMA AskingStep ==
    ASSUME Sound, SessionNext
    PROVE  AskingOK' /\ ResultsKept
  <1> USE SoundFacts
  <1>1. ASSUME NEW i \in Items, StartResource(i)
        PROVE  AskingOK' /\ ResultsKept
    <2>1. ended' = ended /\ \A j \in Items : InFlight(j)' <=> InFlight(j) \/ j = i
      BY <1>1, EnqueueStep, Zenon DEF StartResource
    <2>2. \A r \in Big : InFlight(r)' <=> InFlight(r)
      BY <1>1, <2>1, InstanceFacts, Zenon DEF StartResource
    <2> QED
      BY <1>1, <2>1, <2>2, AskingKept, Zenon DEF StartResource
  <1>2. ASSUME NEW i \in Items, CancelResource(i)
        PROVE  AskingOK' /\ ResultsKept
    <2>1. Finishes(i)
      <3>1. CASE outbound.item = i /\ ConcludeOutbound(FALSE)
        <4>1. Busy
          BY <3>1, InFlightFacts, Zenon DEF SendingOK
        <4> QED
          BY <3>1, <4>1, ConcludeStep, Zenon
      <3>2. CASE /\ \E n \in DOMAIN queued : queued[n] = i /\ queued' = Removed(queued, n)
                 /\ ended' = [ended EXCEPT ![i] = "Err"]
                 /\ UNCHANGED <<outbound, stalled>>
        BY <3>2, CancelStep, Zenon
      <3> QED
        BY <1>2, <3>1, <3>2, Zenon DEF CancelResource
    <2> QED
      BY <1>2, <2>1, BodyEnds, Zenon DEF CancelResource
  <1>3. CASE ResourceProof
    <2>1. CASE outbound.segment < Segments[outbound.item]
      <3>1. ended' = ended /\ \A j : InFlight(j)' <=> InFlight(j)
        BY <1>3, <2>1, SegmentStep, Zenon DEF ResourceProof
      <3> QED
        BY <1>3, <2>1, <3>1, AskingKept, Zenon DEF ResourceProof
    <2>2. CASE ~(outbound.segment < Segments[outbound.item])
      <3>1. Finishes(outbound.item)
        BY <1>3, <2>2, ConcludeStep, Zenon DEF ResourceProof
      <3> QED
        BY <1>3, <2>2, <3>1, BodyEnds, Zenon DEF ResourceProof
    <2> QED
      BY <2>1, <2>2, Zenon
  <1>4. CASE ResourceRejection
    <2>1. Finishes(outbound.item)
      BY <1>4, ConcludeStep, Zenon DEF ResourceRejection
    <2> QED
      BY <1>4, <2>1, BodyEnds, Zenon DEF ResourceRejection
  <1>5. ASSUME UNCHANGED sending, up' = up, UNCHANGED <<asking, answered>>,
               NEW xs, NEW ok \in BOOLEAN,
               commands' \in {commands, commands \cup AnswerReports(xs, ok)},
               ok => \A x \in xs \cap Requests : answered[x] = "Resource"
        PROVE  AskingOK' /\ ResultsKept
    <2>1. ended' = ended /\ \A j : InFlight(j)' <=> InFlight(j)
      BY <1>5, SendingKept, Zenon
    <2> QED
      BY <1>5, <2>1, AskingKept, Zenon
  <1>6. CASE ResourceRequest
    BY <1>5, <1>6, Zenon DEF ResourceRequest
  <1>7. ASSUME NEW x \in Inbounds, NEW k \in 1 .. Segments[x], Advertisement(x, k)
        PROVE  AskingOK' /\ ResultsKept
    <2>1. commands' \in {commands, commands \cup AnswerReports({x}, FALSE)}
      BY <1>7, Zenon DEF Advertisement, FailSegment
    <2>2. UNCHANGED sending /\ up' = up /\ UNCHANGED <<asking, answered>>
      BY <1>7, Zenon DEF Advertisement
    <2> QED
      BY <1>5, <2>1, <2>2, Zenon
  <1>8. ASSUME NEW x \in Inbounds, AcceptInbound(x) \/ RejectInbound(x)
        PROVE  AskingOK' /\ ResultsKept
    BY <1>5, <1>8, Zenon DEF AcceptInbound, RejectInbound
  <1>9. ASSUME NEW x \in Inbounds, CancelInbound(x) \/ ResourceHmuOrIcl(x)
        PROVE  AskingOK' /\ ResultsKept
    BY <1>5, <1>9, Zenon DEF CancelInbound, ResourceHmuOrIcl, FailSegment
  <1>10. ASSUME NEW x \in Inbounds, ResourcePart(x)
         PROVE  AskingOK' /\ ResultsKept
    <2>1. UNCHANGED sending /\ up' = up /\ UNCHANGED <<asking, answered>>
      BY <1>10, Zenon DEF ResourcePart
    <2>2. CASE FailSegment(x)
      BY <1>5, <2>1, <2>2, Zenon DEF FailSegment
    <2>3. CASE CompleteSegment(x)
      <3>1. commands' \in {commands, commands \cup AnswerReports({x}, TRUE)}
        BY <2>3, Zenon DEF CompleteSegment
      <3>2. \A y \in {x} \cap Requests : answered[y] = "Resource"
        BY <1>10, Zenon DEF ResourcePart, ReceivingOK, ReceivingInv, LifecyclesPaired, AssemblyInv
      <3> QED
        BY <1>5, <2>1, <3>1, <3>2, Zenon
    <2> QED
      BY <1>10, <2>2, <2>3, Zenon DEF ResourcePart
  <1> QED
    BY <1>1, <1>2, <1>3, <1>4, <1>6, <1>7, <1>8, <1>9, <1>10, RequestAsks, RefuseAsks,
       BodyConcludedAsks, AnswerReceivedAsks, ResponseAsks, PeerAsks, TickAsks, CloseAsks, SMTT(30) DEF SessionNext
-----------------------------------------------------------------------------

(* The invariant, and what follows *)

\* A session starts with empty accounts.
LEMMA SessionInitially ==
    ASSUME SessionAssumption, SessionInit
    PROVE  SessionInv
  <1>1. instance \in Instances /\ up \in BOOLEAN /\ stale \in BOOLEAN
    BY Zenon DEF SessionInit
  <1>2. \A x \in Inbounds : Segments[x] \in Nat \ {0}
    BY <1>1, InstanceFacts, Zenon
  <1>3. \A i \in Items : ~InFlight(i)
    BY <1>1, InstanceFacts DEF SessionInit, Idle, InFlight
  <1>4. AskingOK
    <2>1. AskingType
      BY Zenon DEF SessionInit, AskingType
    <2>2. RequestsExact
      BY Zenon DEF SessionInit, RequestsExact
    <2>3. BodiesFollowed
      BY <1>1, InstanceFacts, Zenon DEF SessionInit, BodiesFollowed
    <2>4. ReportInv
      BY <1>1, <1>3, InstanceFacts, Zenon DEF SessionInit, ReportInv
    <2> QED
      BY <2>1, <2>2, <2>3, <2>4, Zenon DEF AskingOK, AskingInv
  <1>5. SendingOK
    <2>1. SendingType
      BY DEF SessionInit, SendingType
    <2>2. OutboundInv /\ QueueMoves
      BY DEF SessionInit, OutboundInv, QueueMoves
    <2> QED
      BY <2>1, <2>2, Zenon DEF SendingOK, SendingInv, SessionInit
  <1>6. ReceivingOK
    <2>1. \A x \in Inbounds : 0 <= Segments[x]
      BY <1>2
    <2>2. ReceivingType
      BY <2>1 DEF SessionInit, ReceivingType
    <2>3. <<>> = [k \in 1 .. 0 |-> k] /\ Len(<<>>) = 0
      OBVIOUS
    <2>4. \A x \in Inbounds : Paired(x) /\ InOrder(x) /\ Assembling(x)
      BY <2>3 DEF SessionInit, Paired, InOrder, Assembling
    <2> QED
      BY <2>2, <2>4, ByResource, Zenon DEF ReceivingOK
  <1> QED
    BY <1>1, <1>4, <1>5, <1>6, Parts, Zenon

\* Every step keeps it, and tells nobody twice.
LEMMA SessionStep ==
    ASSUME SessionAssumption, SessionInv, [SessionNext]_sessionVars
    PROVE  SessionInv' /\ (ToldStep \/ UNCHANGED sessionVars)
  <1>1. CASE SessionNext
    <2>1. Sound
      BY <1>1, Zenon DEF SessionNext, Sound
    <2>2. AskingOK' /\ SendingOK' /\ ReceivingOK' /\ ResultsKept /\ EndedKept
      BY <1>1, <2>1, AskingStep, SendingStep, ReceivingStep, Zenon
    <2>3. instance' \in Instances
      BY <2>1, SoundFacts, SMTT(20)
    <2>4. up' \in BOOLEAN /\ stale' \in BOOLEAN
      <3>1. up \in BOOLEAN /\ stale \in BOOLEAN
        BY <2>1, SoundFacts, Zenon
      <3> QED
        BY <1>1, <3>1, Zenon
           DEF SessionNext, StartResource, CancelResource, ResourceRequest, ResourceProof,
               ResourceRejection, RefuseRequest, Request, ResponsePacket, PeerAnswers,
               BodyConcluded, AnswerReceived, Advertisement, AcceptInbound, RejectInbound,
               CancelInbound, ResourcePart, ResourceHmuOrIcl, Tick, Close
    <2>5. SessionInv'
      BY <2>2, <2>3, <2>4, PartsNext, Zenon
    <2> QED
      BY <2>2, <2>5, Zenon DEF ToldStep, ResultsKept, EndedKept
  <1>2. CASE UNCHANGED sessionVars
    <2>1. Sound
      BY <1>2, Zenon DEF Sound, sessionVars, Same
    <2>2. UNCHANGED sending /\ UNCHANGED receiving /\ UNCHANGED <<asking, offered>>
          /\ UNCHANGED <<up, stale, commands, answered>>
      BY <1>2, Zenon DEF sessionVars, system
    <2>3. SendingOK' /\ ended' = ended /\ \A j : InFlight(j)' <=> InFlight(j)
      BY <2>1, <2>2, SendingKept, SoundFacts, Zenon
    <2>4. AskingOK'
      BY <2>1, <2>2, <2>3, AskingKept, Zenon
    <2>5. Offering
      BY <2>1, <2>2, SoundFacts, Zenon
         DEF Offering, offered, receiving, ReceivingOK, ReceivingType, ReceivingInv,
             LifecyclesPaired
    <2>6. ReceivingOK'
      BY <2>1, <2>2, <2>5, ReceivingKept, Zenon
    <2>7. instance' \in Instances /\ up' \in BOOLEAN /\ stale' \in BOOLEAN
      BY <2>1, <2>2, SoundFacts, Zenon
    <2>8. SessionInv'
      BY <2>3, <2>4, <2>6, <2>7, PartsNext, Zenon
    <2> QED
      BY <1>2, <2>8, Zenon
  <1> QED
    BY <1>1, <1>2, Zenon

\* The invariant holds in every state of a session.
LEMMA SessionInvariant ==
    ASSUME SessionAssumption
    PROVE  SessionSpec => []SessionInv
  <1>1. SessionInit => SessionInv
    BY SessionInitially, Zenon
  <1>2. SessionInv /\ [SessionNext]_sessionVars => SessionInv'
    BY SessionStep, Zenon
  <1> QED
    BY <1>1, <1>2, PTL DEF SessionSpec

\* Whatever commands, packets, repeated advertisements, reports and deadlines an
\* outgoing Link's actor sees, its accounts are exact: receipts and callers
\* agree, no body of a request is left behind, a Resource waits in the queue only
\* behind another, or after an advertisement that could not be repeated until the
\* next start, and every inbound Resource starts, is put together and concludes in
\* order.
THEOREM SessionAccountsExactly ==
    ASSUME SessionAssumption
    PROVE  SessionSpec => []SessionSound
  <1>1. SessionInv => SessionSound
    BY Zenon DEF SessionInv, AskingInv, SendingInv, ReceivingInv, SessionSound, RequestsSound,
           NothingStranded, InboundSound
  <1> QED
    BY <1>1, SessionInvariant, PTL

\* No caller is told twice, of a request or of a Resource it sends, however a
\* timeout, an answer, a report and a close race each other.
THEOREM CallersToldOnce ==
    ASSUME SessionAssumption
    PROVE  SessionSpec => ToldOnce
  <1>1. SessionInv /\ [SessionNext]_sessionVars => [ToldStep]_sessionVars
    BY SessionStep, Zenon
  <1> QED
    BY <1>1, SessionInvariant, PTL DEF SessionSpec, ToldOnce

=============================================================================
