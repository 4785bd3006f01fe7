-------------------------- MODULE KeepaliveProofs --------------------------
(***************************************************************************)
(* Proofs about Keepalive: whatever round trips its ends have measured,    *)
(* however the packets and ticks of a unit interleave, a dead Link is      *)
(* given up in bounded time, and one whose packets arrive is kept.         *)
(***************************************************************************)
EXTENDS Keepalive, TLAPS

-----------------------------------------------------------------------------

(* Intervals *)

\* The clamp of update_from_rtt and the grace time.
LEMMA IntervalBounds ==
  ASSUME NEW ms \in Nat
  PROVE  /\ KeepaliveInterval(ms) \in 5 .. 360
         /\ StaleTime(ms) = 2 * KeepaliveInterval(ms)
         /\ StaleGrace(ms) \in Nat
         /\ StaleGrace(ms) >= 5
<1>1. (ms * 360) \div 1750 \in Nat OBVIOUS
<1>2. (4 * ms) \div 1000 \in Nat OBVIOUS
<1> QED BY <1>1, <1>2 DEF KeepaliveInterval, StaleTime, StaleGrace, Clamp

\* A longer round trip never gives a shorter interval or grace time.
LEMMA IntervalsGrow ==
  ASSUME NEW a \in Nat, NEW b \in Nat, a <= b
  PROVE  /\ KeepaliveInterval(a) <= KeepaliveInterval(b)
         /\ StaleGrace(a) <= StaleGrace(b)
<1>1. (a * 360) \div 1750 <= (b * 360) \div 1750 OBVIOUS
<1>2. (4 * a) \div 1000 <= (4 * b) \div 1000 OBVIOUS
<1>3. /\ (a * 360) \div 1750 \in Nat /\ (b * 360) \div 1750 \in Nat
      /\ (4 * a) \div 1000 \in Nat /\ (4 * b) \div 1000 \in Nat
  OBVIOUS
<1> QED BY <1>1, <1>2, <1>3 DEF KeepaliveInterval, StaleGrace, Clamp

\* The latest that jitter puts a keepalive.
Longest(ms) == KeepaliveInterval(ms) + (KeepaliveInterval(ms) + 9) \div 10

\* Jitter never brings a keepalive under the floor, and leaves a margin of
\* nearly half an interval before two intervals have passed.
LEMMA JitterBounds ==
  ASSUME NEW ms \in Nat, NEW j \in Jittered(ms)
  PROVE  /\ j \in Nat /\ 5 <= j /\ j <= Longest(ms)
         /\ Longest(ms) \in Nat /\ KeepaliveInterval(ms) < Longest(ms)
         /\ 10 * Longest(ms) <= 11 * KeepaliveInterval(ms) + 9
<1> DEFINE i == KeepaliveInterval(ms)
<1>1. i \in 5 .. 360 BY IntervalBounds
<1>2. j \in Clamp(i - i \div 10, 5, i) .. i + (i + 9) \div 10 BY Zenon DEF Jittered
<1> HIDE DEF i
<1>3. i \div 10 \in Nat /\ i \div 10 <= i BY <1>1
<1>4. (i + 9) \div 10 \in Nat /\ 10 * ((i + 9) \div 10) <= i + 9 /\ (i + 9) \div 10 >= 1 BY <1>1
<1>5. Clamp(i - i \div 10, 5, i) \in Nat /\ Clamp(i - i \div 10, 5, i) >= 5
  BY <1>1, <1>3 DEF Clamp
<1>6. Longest(ms) = i + (i + 9) \div 10 BY Zenon DEF Longest, i
<1>7. /\ j \in Nat /\ 5 <= j /\ j <= Longest(ms)
      /\ Longest(ms) \in Nat /\ i < Longest(ms) /\ 10 * Longest(ms) <= 11 * i + 9
  BY <1>1, <1>2, <1>4, <1>5, <1>6
<1> QED BY <1>7, Zenon DEF i

-----------------------------------------------------------------------------

(* What does not change *)

Fixed ==
    /\ instance \in Instances
    /\ rtt \in [Ends -> Rtts] /\ rtt["initiator"] <= rtt["responder"]
    /\ jittered \in Jittered(rtt["initiator"])

\* The numbers of an end: its interval, its stale time and grace time, and the
\* caps of the ages, which lie beyond them.
LEMMA KnownNumbers ==
  ASSUME KeepaliveAssumption, Fixed, NEW e \in Ends
  PROVE  /\ rtt[e] \in Nat /\ MaxDelay \in Nat
         /\ KeepaliveInterval(rtt[e]) \in Nat /\ KeepaliveInterval(rtt[e]) >= 5
         /\ StaleTime(rtt[e]) = 2 * KeepaliveInterval(rtt[e])
         /\ StaleGrace(rtt[e]) \in Nat /\ StaleGrace(rtt[e]) >= 5
         /\ MaxDelay <= KeepaliveInterval(rtt[e])
         /\ Cap \in Nat /\ Cap >= StaleTime(rtt[e]) + StaleGrace(rtt[e]) + MaxDelay + 3
         /\ SendCap \in Nat /\ SendCap >= 2 * KeepaliveInterval(rtt[e])
<1>1. /\ Rtts \subseteq Nat
      /\ \E ms \in Rtts : \A other \in Rtts : other <= ms
      /\ MaxDelay \in Nat
      /\ \A ms \in Rtts : MaxDelay <= KeepaliveInterval(ms)
  BY Zenon DEF KeepaliveAssumption, Fixed, Rtts, MaxDelay
<1>2. MaxRtt \in Rtts /\ \A other \in Rtts : other <= MaxRtt BY <1>1, Zenon DEF MaxRtt
<1>3. rtt[e] \in Rtts BY Zenon DEF Fixed
<1>4. MaxRtt \in Nat /\ rtt[e] \in Nat /\ rtt[e] <= MaxRtt BY <1>1, <1>2, <1>3, Zenon
<1>5. /\ KeepaliveInterval(rtt[e]) <= KeepaliveInterval(MaxRtt)
      /\ StaleGrace(rtt[e]) <= StaleGrace(MaxRtt)
  BY <1>4, IntervalsGrow, Zenon
<1>6. /\ KeepaliveInterval(rtt[e]) \in 5 .. 360
      /\ StaleTime(rtt[e]) = 2 * KeepaliveInterval(rtt[e])
      /\ StaleGrace(rtt[e]) \in Nat /\ StaleGrace(rtt[e]) >= 5
  BY <1>4, IntervalBounds
<1>7. /\ KeepaliveInterval(MaxRtt) \in 5 .. 360
      /\ StaleTime(MaxRtt) = 2 * KeepaliveInterval(MaxRtt)
      /\ StaleGrace(MaxRtt) \in Nat /\ StaleGrace(MaxRtt) >= 5
  BY <1>4, IntervalBounds
<1>8. MaxDelay <= KeepaliveInterval(rtt[e]) BY <1>1, <1>3, Zenon
<1> DEFINE i == KeepaliveInterval(rtt[e])
           k == KeepaliveInterval(MaxRtt)
           g == StaleGrace(rtt[e])
           h == StaleGrace(MaxRtt)
<1>a. i \in Nat /\ k \in Nat /\ g \in Nat /\ h \in Nat /\ i <= k /\ g <= h
  BY <1>5, <1>6, <1>7
<1>b. Cap = 2 * k + h + MaxDelay + 3 /\ SendCap = 2 * k /\ StaleTime(rtt[e]) = 2 * i
  BY <1>6, <1>7 DEF Cap, SendCap
<1> HIDE DEF i, k, g, h
<1>c. Cap \in Nat /\ Cap >= 2 * i + g + MaxDelay + 3 /\ SendCap \in Nat /\ SendCap >= 2 * i
  BY <1>1, <1>a, <1>b
<1>9. /\ Cap \in Nat /\ Cap >= StaleTime(rtt[e]) + StaleGrace(rtt[e]) + MaxDelay + 3
      /\ SendCap \in Nat /\ SendCap >= 2 * KeepaliveInterval(rtt[e])
  BY <1>b, <1>c, Zenon DEF i, g
<1> QED BY <1>1, <1>4, <1>6, <1>8, <1>9

\* The jittered interval, in whole units.
LEMMA KnownJitter ==
  ASSUME KeepaliveAssumption, Fixed
  PROVE  /\ jittered \in Nat /\ 5 <= jittered /\ jittered <= Longest(rtt["initiator"])
         /\ Longest(rtt["initiator"]) \in Nat
         /\ KeepaliveInterval(rtt["initiator"]) < Longest(rtt["initiator"])
         /\ 10 * Longest(rtt["initiator"]) <= 11 * KeepaliveInterval(rtt["initiator"]) + 9
<1>1. "initiator" \in Ends BY Zenon DEF Ends
<1>2. rtt["initiator"] \in Nat BY <1>1, KnownNumbers, Zenon
<1> QED BY <1>2, JitterBounds, Zenon DEF Fixed

-----------------------------------------------------------------------------

(* Types *)

\* The updates of an end keep its fields in range.
LEMMA EndUpdates ==
  ASSUME KeepaliveAssumption, Fixed, NEW s \in End
  PROVE  /\ Transmitted(s) \in End /\ TransmittedKeepalive(s) \in End
         /\ Inbound(s) \in End /\ Closed(s) \in End
         /\ [s EXCEPT !.state = "stale", !.stale = 0] \in End
<1>1. 0 \in 0 .. Cap /\ 0 \in 0 .. SendCap
  <2>1. "initiator" \in Ends BY Zenon DEF Ends
  <2>2. Cap \in Nat /\ SendCap \in Nat BY <2>1, KnownNumbers, Zenon
  <2> QED BY <2>2
<1>2. Transmitted(s) \in End BY <1>1, Zenon DEF Transmitted, End
<1>3. TransmittedKeepalive(s) \in End BY <1>1, Zenon DEF TransmittedKeepalive, End
<1>4. Inbound(s) \in End
  <2>1. [s EXCEPT !.inbound = 0, !.evidence = 0, !.state = "active", !.stale = 0] \in End
    BY <1>1, Zenon DEF End
  <2>2. [s EXCEPT !.inbound = 0, !.evidence = 0] \in End BY <1>1, Zenon DEF End
  <2> QED BY <2>1, <2>2, Zenon DEF Inbound
<1>5. Closed(s) \in End BY Zenon DEF Closed, End
<1>6. [s EXCEPT !.state = "stale", !.stale = 0] \in End BY <1>1, Zenon DEF End
<1> QED BY <1>2, <1>3, <1>4, <1>5, <1>6, Zenon

\* A packet starts its way at the other end.
LEMMA PacketTyped ==
  ASSUME KeepaliveAssumption, Fixed, NEW e \in Ends,
         NEW kind \in {"keepalive", "response", "data", "proof", "close"}
  PROVE  Packet(Peer(e), kind) \in PacketType
<1>1. MaxDelay \in Nat BY KnownNumbers, Zenon
<1>2. Peer(e) \in Ends BY Zenon DEF Peer, Ends
<1>3. 0 \in 0 .. MaxDelay BY <1>1
<1> QED BY <1>2, <1>3, Zenon DEF Packet, PacketType

\* What a step leaves alone: the Link, its round trips and the ranges.
LEMMA Constancy ==
  ASSUME Next
  PROVE  /\ instance' = instance /\ rtt' = rtt /\ jittered' = jittered
         /\ MaxDelay' = MaxDelay /\ Rtts' = Rtts /\ Cap' = Cap /\ SendCap' = SendCap
         /\ End' = End /\ PacketType' = PacketType
<1>1. instance' = instance BY Zenon DEF Next, Same
<1>2. rtt' = rtt /\ jittered' = jittered
  BY Zenon DEF Next, Tick, SendData, Receive, Lose, Pass
<1>3. MaxDelay' = MaxDelay /\ Rtts' = Rtts BY <1>1, Zenon DEF MaxDelay, Rtts
<1>4. MaxRtt' = MaxRtt BY <1>3, Zenon DEF MaxRtt
<1>5. Cap' = Cap /\ SendCap' = SendCap BY <1>3, <1>4, Zenon DEF Cap, SendCap
<1>6. End' = End BY <1>5, Zenon DEF End
<1>7. PacketType' = PacketType BY <1>3, Zenon DEF PacketType
<1> QED BY <1>1, <1>2, <1>3, <1>5, <1>6, <1>7, Zenon

\* The passing of a unit leaves every age under its cap.
LEMMA OlderTyped ==
  ASSUME NEW cap \in Nat, NEW n \in 0 .. cap
  PROVE  /\ Older(n, cap) \in 0 .. cap /\ n <= Older(n, cap) /\ Older(n, cap) <= n + 1
         /\ n < cap => Older(n, cap) = n + 1
         /\ n = cap => Older(n, cap) = cap
BY DEF Older

\* What a unit does to an open and to a closed end.
Aged(s) ==
    [s EXCEPT !.inbound = Older(@, Cap), !.evidence = Older(@, Cap),
              !.outbound = Older(@, SendCap), !.keepalive = Older(@, SendCap),
              !.stale = IF s.state = "stale" THEN Older(@, Cap) ELSE 0]
ClosedAged(s) == [s EXCEPT !.closed = Older(@, Cap)]

LEMMA AgedTyped ==
  ASSUME KeepaliveAssumption, Fixed, NEW s \in End
  PROVE  /\ Aged(s) \in End /\ ClosedAged(s) \in End
         /\ Aged(s).state = s.state /\ Aged(s).closed = s.closed
         /\ Aged(s).evidence = Older(s.evidence, Cap)
         /\ Aged(s).outbound = Older(s.outbound, SendCap)
         /\ Aged(s).keepalive = Older(s.keepalive, SendCap)
         /\ s.state = "stale" => Aged(s).stale = Older(s.stale, Cap)
         /\ ClosedAged(s).state = s.state /\ ClosedAged(s).closed = Older(s.closed, Cap)
<1>1. Cap \in Nat /\ SendCap \in Nat
  <2>1. "initiator" \in Ends BY Zenon DEF Ends
  <2> QED BY <2>1, KnownNumbers, Zenon
<1>2. /\ Older(s.inbound, Cap) \in 0 .. Cap /\ Older(s.evidence, Cap) \in 0 .. Cap
      /\ Older(s.stale, Cap) \in 0 .. Cap /\ Older(s.closed, Cap) \in 0 .. Cap
      /\ Older(s.outbound, SendCap) \in 0 .. SendCap
      /\ Older(s.keepalive, SendCap) \in 0 .. SendCap
  BY <1>1, OlderTyped, Zenon DEF End
<1> DEFINE stale == IF s.state = "stale" THEN Older(s.stale, Cap) ELSE 0
<1>3. stale \in 0 .. Cap BY <1>1, <1>2
<1> HIDE DEF stale
<1>4. [s EXCEPT !.inbound = Older(@, Cap), !.evidence = Older(@, Cap),
                !.outbound = Older(@, SendCap), !.keepalive = Older(@, SendCap),
                !.stale = stale] \in End
  BY <1>2, <1>3, Zenon DEF End
<1>5. ClosedAged(s) \in End BY <1>2, Zenon DEF End, ClosedAged
<1>6. Aged(s) \in End BY <1>4, Zenon DEF Aged, stale
<1>7. /\ Aged(s).state = s.state /\ Aged(s).closed = s.closed
      /\ Aged(s).evidence = Older(s.evidence, Cap)
      /\ Aged(s).outbound = Older(s.outbound, SendCap)
      /\ Aged(s).keepalive = Older(s.keepalive, SendCap)
      /\ s.state = "stale" => Aged(s).stale = Older(s.stale, Cap)
  BY Zenon DEF Aged, End
<1>8. ClosedAged(s).state = s.state /\ ClosedAged(s).closed = Older(s.closed, Cap)
  BY Zenon DEF ClosedAged, End
<1> QED BY <1>5, <1>6, <1>7, <1>8, Zenon

\* The passing of a unit, end by end and packet by packet.
LEMMA PassEnds ==
  ASSUME TypeOK, Pass, NEW e \in Ends
  PROVE  /\ DOMAIN end' = Ends
         /\ end[e].state = "closed" => end'[e] = ClosedAged(end[e])
         /\ end[e].state # "closed" => end'[e] = Aged(end[e])
         /\ due = {} /\ due' = Ends
BY Zenon DEF Pass, Aged, ClosedAged

LEMMA PassPackets ==
  ASSUME KeepaliveAssumption, Fixed, TypeOK, Pass
  PROVE  /\ \A p \in flight : [p EXCEPT !.age = @ + 1] \in flight'
         /\ \A q \in flight' : \E p \in flight :
              /\ q.to = p.to /\ q.kind = p.kind /\ q.age = p.age + 1
              /\ q \in PacketType
<1>1. flight' = {[p EXCEPT !.age = @ + 1] : p \in flight} BY Zenon DEF Pass
<1>2. ASSUME NEW q \in flight'
      PROVE  \E p \in flight : /\ q.to = p.to /\ q.kind = p.kind /\ q.age = p.age + 1
                               /\ q \in PacketType
  <2>1. PICK p \in flight : q = [p EXCEPT !.age = @ + 1] BY <1>1, <1>2, Zenon
  <2>2. p \in PacketType BY Zenon DEF TypeOK
  <2>3. p.age < MaxDelay /\ MaxDelay \in Nat
    <3>1. "initiator" \in Ends BY Zenon DEF Ends
    <3> QED BY <3>1, KnownNumbers, Zenon DEF Pass
  <2>4. p.age + 1 \in 0 .. MaxDelay BY <2>2, <2>3 DEF PacketType
  <2>5. q \in PacketType BY <2>1, <2>2, <2>4, Zenon DEF PacketType
  <2>6. q.to = p.to /\ q.kind = p.kind /\ q.age = p.age + 1 BY <2>1, <2>2, Zenon DEF PacketType
  <2> QED BY <2>5, <2>6, Zenon
<1> QED BY <1>1, <1>2, Zenon

\* The ages and the packets stay in their ranges.
LEMMA TypeStep ==
  ASSUME KeepaliveAssumption, Fixed, TypeOK, Next
  PROVE  Fixed' /\ TypeOK'
<1>1. /\ instance' = instance /\ rtt' = rtt /\ jittered' = jittered
      /\ Rtts' = Rtts /\ End' = End /\ PacketType' = PacketType
  BY Constancy, Zenon
<1>2. Fixed' BY <1>1, Zenon DEF Fixed
<1>3. end \in [Ends -> End] /\ flight \subseteq PacketType /\ due \subseteq Ends BY Zenon DEF TypeOK
<1>4. SUFFICES end' \in [Ends -> End] /\ flight' \subseteq PacketType /\ due' \subseteq Ends
  BY <1>1, <1>2, Zenon DEF TypeOK, Fixed
<1>5. \A e \in Ends : /\ end[e] \in End
                      /\ Transmitted(end[e]) \in End /\ TransmittedKeepalive(end[e]) \in End
                      /\ Inbound(end[e]) \in End /\ Closed(end[e]) \in End
                      /\ Transmitted(Inbound(end[e])) \in End
                      /\ [end[e] EXCEPT !.state = "stale", !.stale = 0] \in End
                      /\ TransmittedKeepalive([end[e] EXCEPT !.state = "stale", !.stale = 0]) \in End
  BY <1>3, EndUpdates, Zenon
<1>6. ASSUME NEW e \in Ends, Tick(e) PROVE end' \in [Ends -> End] /\ flight' \subseteq PacketType
  <2>1. CASE SendKeepalive(e)
    BY <1>3, <1>5, <1>6, <2>1, PacketTyped, Zenon DEF SendKeepalive, Sends
  <2>2. CASE TransitionToStale(e)
    <3> DEFINE stale == [end[e] EXCEPT !.state = "stale", !.stale = 0]
    <3>1. stale \in End /\ TransmittedKeepalive(stale) \in End BY <1>5, Zenon
    <3>2. \/ /\ end' = [end EXCEPT ![e] = TransmittedKeepalive(stale)]
             /\ flight' = flight \union {Packet(Peer(e), "keepalive")}
          \/ end' = [end EXCEPT ![e] = stale] /\ flight' = flight \union {}
      BY <2>2, Zenon DEF TransitionToStale, Sends
    <3> HIDE DEF stale
    <3>3. end' \in [Ends -> End] BY <1>3, <1>6, <3>1, <3>2, Zenon
    <3>4. Packet(Peer(e), "keepalive") \in PacketType BY PacketTyped, Zenon
    <3> QED BY <1>3, <3>2, <3>3, <3>4, Zenon
  <2>3. CASE TeardownAndClose(e)
    BY <1>3, <1>5, <1>6, <2>3, PacketTyped, Zenon DEF TeardownAndClose, Sends
  <2>4. CASE TickNothing(e) BY <1>3, <2>4, Zenon DEF TickNothing
  <2> QED BY <1>6, <2>1, <2>2, <2>3, <2>4, Zenon DEF Tick
<1>7. ASSUME NEW e \in Ends, SendData(e) PROVE end' \in [Ends -> End] /\ flight' \subseteq PacketType
  BY <1>3, <1>5, <1>7, PacketTyped, Zenon DEF SendData, Sends
<1>8. ASSUME NEW p \in flight, Receive(p) PROVE end' \in [Ends -> End] /\ flight' \subseteq PacketType
  <2>1. p.to \in Ends BY <1>3, Zenon DEF PacketType
  <2>2. CASE ReceiveKeepalive(p)
    <3>1. \/ /\ end' = [end EXCEPT ![p.to] = Transmitted(Inbound(end[p.to]))]
             /\ flight' = (flight \ {p}) \union {Packet(Peer(p.to), "response")}
          \/ end' = [end EXCEPT ![p.to] = Inbound(end[p.to])] /\ flight' = flight \ {p}
      BY <2>2, Zenon DEF ReceiveKeepalive
    <3>2. end' \in [Ends -> End] BY <1>3, <1>5, <2>1, <3>1, Zenon
    <3>3. Packet(Peer(p.to), "response") \in PacketType BY <2>1, PacketTyped, Zenon
    <3> QED BY <1>3, <3>1, <3>2, <3>3, Zenon
  <2>3. CASE ReceiveData(p) BY <1>3, <1>5, <2>1, <2>3, PacketTyped, Zenon DEF ReceiveData
  <2>4. CASE ReceiveOther(p) BY <1>3, <1>5, <2>1, <2>4, Zenon DEF ReceiveOther
  <2>5. CASE ReceiveClose(p) BY <1>3, <1>5, <2>1, <2>5, Zenon DEF ReceiveClose
  <2>6. CASE ReceiveAfterClose(p) BY <1>3, <2>6, Zenon DEF ReceiveAfterClose
  <2> QED BY <1>8, <2>2, <2>3, <2>4, <2>5, <2>6, Zenon DEF Receive
<1>9. ASSUME NEW p \in flight, Lose(p) PROVE end' \in [Ends -> End] /\ flight' \subseteq PacketType
  BY <1>3, <1>9, Zenon DEF Lose
<1>10. ASSUME Pass PROVE end' \in [Ends -> End] /\ flight' \subseteq PacketType
  <2>1. flight' \subseteq PacketType BY <1>10, PassPackets, Zenon
  <2>2. \A e \in Ends : Aged(end[e]) \in End /\ ClosedAged(end[e]) \in End
    BY <1>5, AgedTyped, Zenon
  <2>3. \A e \in Ends : end'[e] \in End BY <1>10, <2>2, PassEnds, Zenon
  <2>4. end' = [e \in Ends |-> end'[e]] BY <1>10, Zenon DEF Pass
  <2> QED BY <2>1, <2>3, <2>4, Zenon
<1>11. due' \subseteq Ends BY <1>3, Zenon DEF Next, Tick, SendData, Receive, Lose, Pass
<1> QED BY <1>6, <1>7, <1>8, <1>9, <1>10, <1>11, Zenon DEF Next

-----------------------------------------------------------------------------

(* The end of a dead Link *)

\* An active end has heard something within its stale time, or, when a
\* keepalive was due first, is stale on its next tick; a stale one closes when
\* its grace time is over.
Timely(e) ==
    LET s == end[e]
        heard == StaleTime(rtt[e])
    IN  /\ s.state = "active" /\ e \in due =>
              s.evidence <= heard \/ (s.evidence = heard + 1 /\ s.keepalive <= 1)
        /\ s.state = "active" /\ e \notin due =>
              s.evidence < heard \/ (s.evidence = heard /\ s.keepalive = 0)
        /\ s.state = "stale" =>
              /\ s.evidence <= heard + 1 + s.stale
              /\ s.stale <= StaleGrace(rtt[e])
              /\ e \notin due => s.stale < StaleGrace(rtt[e])
        /\ s.state # "closed" => s.closed = 0

\* What a closed end sent it sent before it closed, so its peer has heard
\* nothing from it for as long, but for the time of a crossing.
Silenced(e) ==
    end[e].state = "closed" =>
        /\ \A p \in flight : p.to = Peer(e) => end[e].closed <= p.age
        /\ end[Peer(e)].state # "closed" => end[e].closed <= end[Peer(e)].evidence + MaxDelay

DeadInv == Fixed /\ TypeOK /\ \A e \in Ends : Timely(e) /\ Silenced(e)

\* The numbers that decide whether an end is stale and whether it closes.
LEMMA Deadlines ==
  ASSUME KeepaliveAssumption, DeadInv, NEW e \in Ends
  PROVE  /\ StaleTime(rtt[e]) \in Nat /\ StaleTime(rtt[e]) >= 10
         /\ StaleGrace(rtt[e]) \in Nat /\ StaleGrace(rtt[e]) >= 5
         /\ Cap \in Nat /\ Cap >= StaleTime(rtt[e]) + StaleGrace(rtt[e]) + MaxDelay + 3
         /\ SendCap \in Nat /\ SendCap >= 10 /\ MaxDelay \in Nat
         /\ jittered \in Nat /\ jittered >= 5
         /\ end[e] \in End
<1> DEFINE i == KeepaliveInterval(rtt[e])
<1>1. /\ i \in Nat /\ i >= 5 /\ StaleTime(rtt[e]) = 2 * i
      /\ StaleGrace(rtt[e]) \in Nat /\ StaleGrace(rtt[e]) >= 5 /\ MaxDelay \in Nat
      /\ Cap \in Nat /\ Cap >= StaleTime(rtt[e]) + StaleGrace(rtt[e]) + MaxDelay + 3
      /\ SendCap \in Nat /\ SendCap >= 2 * i
  BY KnownNumbers, Zenon DEF DeadInv
<1>2. jittered \in Nat /\ 5 <= jittered BY KnownJitter, Zenon DEF DeadInv
<1>3. end[e] \in End BY Zenon DEF DeadInv, TypeOK
<1> HIDE DEF i
<1> QED BY <1>1, <1>2, <1>3

\* What a tick does to its end.
LEMMA TickTimely ==
  ASSUME KeepaliveAssumption, DeadInv, NEW e \in Ends, Tick(e)
  PROVE  Timely(e)'
<1> DEFINE h == StaleTime(rtt[e])
           g == StaleGrace(rtt[e])
           s == end[e]
           t == end'[e]
<1>1. /\ h \in Nat /\ h >= 10 /\ g \in Nat /\ g >= 5
      /\ jittered \in Nat /\ jittered >= 5 /\ s \in End
  BY Deadlines, Zenon
<1>2. /\ rtt' = rtt /\ e \in due /\ e \notin due'
      /\ DOMAIN end = Ends
  BY Zenon DEF Tick, DeadInv, TypeOK
<1>3. /\ s.state = "active" => s.evidence <= h \/ (s.evidence = h + 1 /\ s.keepalive <= 1)
      /\ s.state = "stale" => s.evidence <= h + 1 + s.stale /\ s.stale <= g
      /\ s.state # "closed" => s.closed = 0
  BY <1>2, Zenon DEF DeadInv, Timely
<1>4. SUFFICES /\ t.state = "active" => t.evidence < h \/ (t.evidence = h /\ t.keepalive = 0)
               /\ t.state = "stale" =>
                     t.evidence <= h + 1 + t.stale /\ t.stale < g /\ t.stale <= g
               /\ t.state # "closed" => t.closed = 0
  <2>1. StaleTime(rtt'[e]) = h /\ StaleGrace(rtt'[e]) = g BY <1>2, Zenon
  <2> HIDE DEF h, g
  <2> QED BY <1>1, <1>2, <2>1, Zenon DEF Timely
<1>5. CASE SendKeepalive(e)
  <2>1. s.state = "active" /\ t = [s EXCEPT !.outbound = 0, !.keepalive = 0]
    BY <1>2, <1>5, Zenon DEF SendKeepalive, TransmittedKeepalive
  <2>2. s.keepalive >= jittered BY <1>5, Zenon DEF SendKeepalive, ShouldSend
  <2> HIDE DEF h, g, s, t
  <2> QED BY <1>1, <1>3, <2>1, <2>2 DEF End
<1>6. CASE TransitionToStale(e)
  <2>1. s.state = "active" /\ ~ ShouldSend(e) BY <1>6, Zenon DEF TransitionToStale
  <2>2. t.state = "stale" /\ t.stale = 0 /\ t.evidence = s.evidence /\ t.closed = s.closed
    <3> DEFINE r == [s EXCEPT !.state = "stale", !.stale = 0]
    <3>1. t = r \/ t = [r EXCEPT !.outbound = 0, !.keepalive = 0]
      BY <1>2, <1>6, Zenon DEF TransitionToStale, TransmittedKeepalive
    <3> HIDE DEF s, t
    <3> QED BY <1>1, <3>1, Zenon DEF End
  <2> HIDE DEF h, g, s, t
  <2> QED BY <1>1, <1>3, <2>1, <2>2 DEF End
<1>7. CASE TeardownAndClose(e)
  <2>1. t = [s EXCEPT !.state = "closed"] BY <1>2, <1>7, Zenon DEF TeardownAndClose, Closed
  <2> HIDE DEF h, g, s, t
  <2> QED BY <1>1, <2>1, Zenon DEF End
<1>8. CASE TickNothing(e)
  <2>1. /\ t = s
        /\ s.state = "active" => s.evidence < h
        /\ s.state = "stale" => s.stale < g
    BY <1>1, <1>8 DEF TickNothing, IsStale, Silence, End
  <2> HIDE DEF h, g, s, t
  <2> QED BY <1>1, <1>3, <2>1, Zenon DEF End
<1> QED BY <1>5, <1>6, <1>7, <1>8, Zenon DEF Tick

\* What else an end does: it hears its peer, or closes, or neither.
LEMMA TimelyFrom ==
  ASSUME KeepaliveAssumption, DeadInv, NEW e \in Ends,
         rtt' = rtt, e \in due' <=> e \in due,
         \/ end'[e].state = "closed"
         \/ end'[e].state = "active" /\ end'[e].evidence = 0 /\ end'[e].closed = 0
         \/ /\ end'[e].state = end[e].state /\ end'[e].evidence = end[e].evidence
            /\ end'[e].keepalive = end[e].keepalive /\ end'[e].stale = end[e].stale
            /\ end'[e].closed = end[e].closed
  PROVE  Timely(e)'
<1> DEFINE h == StaleTime(rtt[e])
           g == StaleGrace(rtt[e])
<1>1. h \in Nat /\ h >= 10 /\ g \in Nat BY Deadlines, Zenon
<1>2. StaleTime(rtt'[e]) = h /\ StaleGrace(rtt'[e]) = g OBVIOUS
<1>3. Timely(e) BY Zenon DEF DeadInv
<1> HIDE DEF h, g
<1>4. CASE end'[e].state = "closed" BY <1>4, Zenon DEF Timely
<1>5. CASE end'[e].state = "active" /\ end'[e].evidence = 0 /\ end'[e].closed = 0
  BY <1>1, <1>2, <1>5 DEF Timely
<1>6. CASE /\ end'[e].state = end[e].state /\ end'[e].evidence = end[e].evidence
           /\ end'[e].keepalive = end[e].keepalive /\ end'[e].stale = end[e].stale
           /\ end'[e].closed = end[e].closed
  BY <1>3, <1>6, Zenon DEF Timely
<1> QED BY <1>4, <1>5, <1>6, Zenon

\* A tick, a transmission or an arrival at one end: the other end does not
\* notice, what is sent goes to the other end, a closed end sends nothing and
\* only an arrival is evidence of the peer.
Acts(a) ==
    \/ Tick(a)
    \/ SendData(a)
    \/ \E p \in flight : p.to = a /\ Receive(p)

LEMMA InboundFields ==
  ASSUME NEW s \in End, s.state # "closed"
  PROVE  /\ Inbound(s).state = "active" /\ Inbound(s).evidence = 0
         /\ Inbound(s).outbound = s.outbound /\ Inbound(s).keepalive = s.keepalive
         /\ Inbound(s).closed = s.closed
         /\ Transmitted(Inbound(s)).state = "active" /\ Transmitted(Inbound(s)).evidence = 0
         /\ Transmitted(Inbound(s)).outbound = 0
         /\ Transmitted(Inbound(s)).keepalive = s.keepalive
         /\ Transmitted(Inbound(s)).closed = s.closed
BY Zenon DEF Inbound, Transmitted, End

\* What an arrival at an open end does to it and to the packets.
LEMMA ReceiveEffect ==
  ASSUME TypeOK, NEW p \in flight, Receive(p), end[p.to].state # "closed"
  PROVE  \/ /\ p.kind # "close"
            /\ \/ end' = [end EXCEPT ![p.to] = Inbound(end[p.to])]
               \/ end' = [end EXCEPT ![p.to] = Transmitted(Inbound(end[p.to]))]
         \/ p.kind = "close" /\ end' = [end EXCEPT ![p.to] = Closed(end[p.to])]
<1>1. CASE ReceiveKeepalive(p) BY <1>1, Zenon DEF ReceiveKeepalive
<1>2. CASE ReceiveData(p) BY <1>2, Zenon DEF ReceiveData
<1>3. CASE ReceiveOther(p) BY <1>3, Zenon DEF ReceiveOther
<1>4. CASE ReceiveClose(p) BY <1>4, Zenon DEF ReceiveClose
<1> QED BY <1>1, <1>2, <1>3, <1>4, Zenon DEF Receive

LEMMA ReceivePackets ==
  ASSUME TypeOK, NEW p \in flight, Receive(p)
  PROVE  /\ flight \ {p} \subseteq flight'
         /\ \A q \in flight' : q \in flight \/ (q.to = Peer(p.to) /\ q.kind # "close")
         /\ end[p.to].state = "closed" => flight' = flight \ {p}
<1>1. \A kind : Packet(Peer(p.to), kind).to = Peer(p.to) /\ Packet(Peer(p.to), kind).kind = kind
  BY Zenon DEF Packet
<1>2. CASE ReceiveKeepalive(p) /\ end[p.to].state # "closed"
  <2>1. \/ flight' = (flight \ {p}) \union {Packet(Peer(p.to), "response")}
        \/ flight' = flight \ {p}
    BY <1>2, Zenon DEF ReceiveKeepalive
  <2> QED BY <1>1, <1>2, <2>1, Zenon
<1>3. CASE ReceiveData(p) /\ end[p.to].state # "closed"
  <2>1. \/ flight' = (flight \ {p}) \union {Packet(Peer(p.to), "proof")}
        \/ flight' = flight \ {p}
    BY <1>3, Zenon DEF ReceiveData
  <2> QED BY <1>1, <1>3, <2>1, Zenon
<1>4. CASE ReceiveOther(p) /\ end[p.to].state # "closed" BY <1>4, Zenon DEF ReceiveOther
<1>5. CASE ReceiveClose(p) /\ end[p.to].state # "closed" BY <1>5, Zenon DEF ReceiveClose
<1>6. CASE ReceiveAfterClose(p) /\ end[p.to].state = "closed" BY <1>6, Zenon DEF ReceiveAfterClose
<1> QED BY <1>2, <1>3, <1>4, <1>5, <1>6, Zenon DEF Receive

LEMMA PeerFacts ==
  ASSUME NEW e \in Ends
  PROVE  Peer(e) \in Ends /\ Peer(e) # e /\ Peer(Peer(e)) = e
BY Zenon DEF Ends, Peer

\* What an end does to itself: it stays closed once closed, and the age of the
\* evidence of its peer is reset only by an arrival.
LEMMA ActsEnd ==
  ASSUME TypeOK, NEW a \in Ends, Acts(a)
  PROVE  /\ end'[Peer(a)] = end[Peer(a)]
         /\ end'[a].closed = end[a].closed
         /\ end[a].state = "closed" => end'[a].state = "closed"
         /\ \/ end'[a].evidence = end[a].evidence
            \/ end'[a].evidence = 0 /\ \E p \in flight : p.to = a
<1> DEFINE s == end[a]
<1>1. end \in [Ends -> End] /\ Peer(a) \in Ends /\ Peer(a) # a /\ s \in End
  BY PeerFacts, Zenon DEF TypeOK
<1>2. ASSUME NEW t, end' = [end EXCEPT ![a] = t], t.closed = s.closed,
             s.state = "closed" => t.state = "closed",
             \/ t.evidence = s.evidence
             \/ t.evidence = 0 /\ \E p \in flight : p.to = a
      PROVE  /\ end'[Peer(a)] = end[Peer(a)]
             /\ end'[a].closed = end[a].closed
             /\ end[a].state = "closed" => end'[a].state = "closed"
             /\ \/ end'[a].evidence = end[a].evidence
                \/ end'[a].evidence = 0 /\ \E p \in flight : p.to = a
  BY <1>1, <1>2, Zenon
<1>3. CASE end' = end BY <1>1, <1>3, Zenon
<1>4. ASSUME Tick(a) PROVE end' = end \/ \E t : /\ end' = [end EXCEPT ![a] = t]
                                                /\ t.closed = s.closed /\ s.state # "closed"
                                                /\ t.evidence = s.evidence
  <2>1. CASE SendKeepalive(a)
    <3>1. end' = [end EXCEPT ![a] = TransmittedKeepalive(s)] /\ s.state = "active"
      BY <2>1, Zenon DEF SendKeepalive
    <3>2. /\ TransmittedKeepalive(s).closed = s.closed
          /\ TransmittedKeepalive(s).evidence = s.evidence
      BY <1>1, Zenon DEF TransmittedKeepalive, End
    <3> QED BY <3>1, <3>2, Zenon
  <2>2. CASE TransitionToStale(a)
    <3> DEFINE r == [s EXCEPT !.state = "stale", !.stale = 0]
    <3>1. /\ s.state = "active"
          /\ \/ end' = [end EXCEPT ![a] = r]
             \/ end' = [end EXCEPT ![a] = TransmittedKeepalive(r)]
      BY <2>2, Zenon DEF TransitionToStale
    <3>2. /\ r.closed = s.closed /\ r.evidence = s.evidence
          /\ TransmittedKeepalive(r).closed = s.closed
          /\ TransmittedKeepalive(r).evidence = s.evidence
      BY <1>1, Zenon DEF TransmittedKeepalive, End
    <3> QED BY <3>1, <3>2, Zenon
  <2>3. CASE TeardownAndClose(a)
    <3>1. end' = [end EXCEPT ![a] = Closed(s)] /\ s.state = "stale"
      BY <2>3, Zenon DEF TeardownAndClose
    <3>2. Closed(s).closed = s.closed /\ Closed(s).evidence = s.evidence
      BY <1>1, Zenon DEF Closed, End
    <3> QED BY <3>1, <3>2, Zenon
  <2> QED BY <1>4, <2>1, <2>2, <2>3, Zenon DEF Tick, TickNothing
<1>5. ASSUME SendData(a) PROVE \E t : /\ end' = [end EXCEPT ![a] = t]
                                      /\ t.closed = s.closed /\ s.state # "closed"
                                      /\ t.evidence = s.evidence
  <2>1. end' = [end EXCEPT ![a] = Transmitted(s)] /\ s.state # "closed" BY <1>5, Zenon DEF SendData
  <2>2. Transmitted(s).closed = s.closed /\ Transmitted(s).evidence = s.evidence
    BY <1>1, Zenon DEF Transmitted, End
  <2> QED BY <2>1, <2>2, Zenon
<1>6. ASSUME NEW p \in flight, p.to = a, Receive(p)
      PROVE  end' = end \/ \E t : /\ end' = [end EXCEPT ![a] = t]
                                  /\ t.closed = s.closed /\ s.state # "closed"
                                  /\ t.evidence = s.evidence \/ t.evidence = 0
  <2>1. CASE s.state = "closed"
    BY <1>6, <2>1, Zenon DEF Receive, ReceiveAfterClose
  <2>2. CASE s.state # "closed"
    <3>1. \/ end' = [end EXCEPT ![a] = Inbound(s)]
          \/ end' = [end EXCEPT ![a] = Transmitted(Inbound(s))]
          \/ end' = [end EXCEPT ![a] = Closed(s)]
      BY <1>6, <2>2, ReceiveEffect, Zenon
    <3>2. /\ Inbound(s).closed = s.closed /\ Inbound(s).evidence = 0
          /\ Transmitted(Inbound(s)).closed = s.closed
          /\ Transmitted(Inbound(s)).evidence = 0
      BY <1>1, <2>2, InboundFields, Zenon
    <3>3. Closed(s).closed = s.closed /\ Closed(s).evidence = s.evidence
      BY <1>1, Zenon DEF Closed, End
    <3> QED BY <2>2, <3>1, <3>2, <3>3, Zenon
  <2> QED BY <2>1, <2>2, Zenon
<1> QED BY <1>2, <1>3, <1>4, <1>5, <1>6, Zenon DEF Acts

\* What an end sends goes to its peer, and a closed end sends nothing.
LEMMA ActsPackets ==
  ASSUME TypeOK, NEW a \in Ends, Acts(a)
  PROVE  /\ \A q \in flight' : q \in flight \/ q.to = Peer(a)
         /\ end[a].state = "closed" => \A q \in flight' : q \in flight
<1>1. \A kind : Packet(Peer(a), kind).to = Peer(a) BY Zenon DEF Packet
<1>2. CASE Tick(a)
  <2>1. end[a].state = "closed" => flight' = flight
    BY <1>2, Zenon DEF Tick, SendKeepalive, TransitionToStale, TeardownAndClose, TickNothing
  <2>2. \/ flight' = flight \union {Packet(Peer(a), "keepalive")}
        \/ flight' = flight \union {Packet(Peer(a), "close")}
        \/ flight' = flight \union {}
        \/ flight' = flight
    BY <1>2, Zenon DEF Tick, SendKeepalive, TransitionToStale, TeardownAndClose, TickNothing, Sends
  <2> QED BY <1>1, <2>1, <2>2, Zenon
<1>3. CASE SendData(a)
  <2>1. flight' = flight \union {Packet(Peer(a), "data")} /\ end[a].state # "closed"
    BY <1>3, Zenon DEF SendData, Sends
  <2> QED BY <1>1, <2>1, Zenon
<1>4. ASSUME NEW p \in flight, p.to = a, Receive(p)
      PROVE  /\ \A q \in flight' : q \in flight \/ q.to = Peer(a)
             /\ end[a].state = "closed" => \A q \in flight' : q \in flight
  BY <1>4, ReceivePackets, Zenon
<1> QED BY <1>2, <1>3, <1>4, Zenon DEF Acts

LEMMA ActsTimely ==
  ASSUME KeepaliveAssumption, DeadInv, NEW a \in Ends, Acts(a), NEW e \in Ends
  PROVE  Timely(e)'
<1> DEFINE s == end[a]
<1>1. TypeOK /\ s \in End /\ Peer(a) \in Ends /\ (e # a => e = Peer(a))
  BY Zenon DEF DeadInv, TypeOK, Peer, Ends
<1>2. rtt' = rtt BY Zenon DEF Acts, Tick, SendData, Receive
<1>3. due' = due \/ (Tick(a) /\ due' = due \ {a}) BY Zenon DEF Acts, Tick, SendData, Receive
<1>4. CASE e # a
  <2>1. end'[e] = end[e] BY <1>1, <1>4, ActsEnd, Zenon
  <2>2. e \in due' <=> e \in due BY <1>3, <1>4, Zenon
  <2> QED BY <1>2, <2>1, <2>2, TimelyFrom, Zenon
<1>5. CASE e = a /\ Tick(a) BY <1>5, TickTimely, Zenon
<1>6. CASE e = a /\ SendData(a)
  <2>1. end'[a] = Transmitted(s) /\ due' = due BY <1>6, <1>1, Zenon DEF SendData, TypeOK
  <2>2. /\ Transmitted(s).state = s.state /\ Transmitted(s).evidence = s.evidence
        /\ Transmitted(s).keepalive = s.keepalive /\ Transmitted(s).stale = s.stale
        /\ Transmitted(s).closed = s.closed
    BY <1>1, Zenon DEF Transmitted, End
  <2> HIDE DEF s
  <2> QED BY <1>2, <1>6, <2>1, <2>2, TimelyFrom, Zenon DEF s
<1>7. ASSUME e = a, NEW p \in flight, p.to = a, Receive(p) PROVE Timely(e)'
  <2>1. due' = due BY <1>7, Zenon DEF Receive
  <2>2. CASE s.state = "closed"
    <3>1. end'[a] = s BY <1>7, <2>2, Zenon DEF Receive, ReceiveAfterClose
    <3> QED BY <1>2, <1>7, <2>1, <3>1, TimelyFrom, Zenon
  <2>3. CASE s.state # "closed"
    <3>1. end'[a] = Inbound(s) \/ end'[a] = Transmitted(Inbound(s)) \/ end'[a] = Closed(s)
      BY <1>1, <1>7, <2>3, ReceiveEffect, Zenon DEF TypeOK
    <3>2. s.closed = 0 BY <2>3, Zenon DEF DeadInv, Timely
    <3>3. /\ Inbound(s).state = "active" /\ Inbound(s).evidence = 0 /\ Inbound(s).closed = 0
          /\ Transmitted(Inbound(s)).state = "active"
          /\ Transmitted(Inbound(s)).evidence = 0 /\ Transmitted(Inbound(s)).closed = 0
      BY <1>1, <2>3, <3>2, InboundFields, Zenon
    <3>4. Closed(s).state = "closed" BY <1>1, Zenon DEF Closed, End
    <3>5. \/ end'[e].state = "closed"
          \/ end'[e].state = "active" /\ end'[e].evidence = 0 /\ end'[e].closed = 0
      BY <1>7, <3>1, <3>3, <3>4, Zenon
    <3> QED BY <1>2, <2>1, <3>5, TimelyFrom, Zenon
  <2> QED BY <2>2, <2>3, Zenon
<1> QED BY <1>4, <1>5, <1>6, <1>7, Zenon DEF Acts

\* An end that closes has been closed for no time; while it is closed, what its
\* peer hears it had sent before.
LEMMA ActsSilenced ==
  ASSUME KeepaliveAssumption, DeadInv, NEW a \in Ends, Acts(a), TypeOK',
         MaxDelay' = MaxDelay, PacketType' = PacketType, End' = End, NEW e \in Ends
  PROVE  Silenced(e)'
<1>1. /\ TypeOK /\ Peer(a) \in Ends /\ Peer(a) # a /\ (e # a => e = Peer(a))
      /\ Peer(Peer(a)) = a /\ Peer(e) \in Ends
  BY PeerFacts, Zenon DEF DeadInv, Peer, Ends
<1>2. MaxDelay \in Nat /\ Cap \in Nat BY Deadlines, Zenon
<1>3. flight' \subseteq PacketType /\ flight \subseteq PacketType
  BY <1>1, Zenon DEF TypeOK
<1>4. end'[Peer(e)] \in End /\ end[Peer(e)] \in End /\ end[e] \in End
  BY <1>1, Zenon DEF TypeOK
<1>5. /\ end'[Peer(a)] = end[Peer(a)]
      /\ end'[a].closed = end[a].closed
      /\ end[a].state = "closed" => end'[a].state = "closed"
      /\ \/ end'[a].evidence = end[a].evidence
         \/ end'[a].evidence = 0 /\ \E p \in flight : p.to = a
  BY <1>1, ActsEnd, Zenon
<1>6. /\ \A q \in flight' : q \in flight \/ q.to = Peer(a)
      /\ end[a].state = "closed" => \A q \in flight' : q \in flight
  BY <1>1, ActsPackets, Zenon
<1>7. Silenced(e) BY Zenon DEF DeadInv
<1>8. CASE e = a
  <2>1. CASE end[a].state = "closed"
    BY <1>1, <1>5, <1>6, <1>7, <1>8, <2>1, Zenon DEF Silenced
  <2>2. CASE end[a].state # "closed"
    <3>1. end'[e].closed = 0 BY <1>5, <1>8, <2>2, Zenon DEF DeadInv, Timely
    <3>2. \A q \in flight' : 0 <= q.age BY <1>3 DEF PacketType
    <3>3. 0 <= end'[Peer(e)].evidence + MaxDelay' BY <1>2, <1>4 DEF End
    <3> QED BY <3>1, <3>2, <3>3, Zenon DEF Silenced
  <2> QED BY <2>1, <2>2, Zenon
<1>9. CASE e # a /\ end[e].state = "closed"
  <2>1. e = Peer(a) /\ Peer(e) = a /\ end'[e] = end[e] BY <1>1, <1>5, <1>9, Zenon
  <2>2. \A q \in flight' : q.to = Peer(e) => end'[e].closed <= q.age
    BY <1>1, <1>6, <1>7, <1>9, <2>1, Zenon DEF Silenced
  <2>3. ASSUME end'[a].state # "closed" PROVE end'[e].closed <= end'[a].evidence + MaxDelay'
    <3>1. end[e].closed <= end[a].evidence + MaxDelay BY <1>5, <1>7, <1>9, <2>1, <2>3, Zenon DEF Silenced
    <3>2. CASE end'[a].evidence = end[a].evidence BY <2>1, <3>1, <3>2, Zenon
    <3>3. CASE end'[a].evidence = 0 /\ \E p \in flight : p.to = a
      <4>1. PICK p \in flight : p.to = a BY <3>3, Zenon
      <4>2. end[e].closed <= p.age BY <1>7, <1>9, <2>1, <4>1, Zenon DEF Silenced
      <4>3. p.age \in Nat /\ p.age <= MaxDelay BY <1>2, <1>3 DEF PacketType
      <4>4. end[e].closed \in Nat BY <1>2, <1>4 DEF End
      <4>5. end[e].closed <= 0 + MaxDelay BY <1>2, <4>2, <4>3, <4>4
      <4> QED BY <2>1, <3>3, <4>5, Zenon
    <3> QED BY <1>5, <3>2, <3>3, Zenon
  <2> QED BY <2>1, <2>2, <2>3, Zenon DEF Silenced
<1>10. CASE e # a /\ end[e].state # "closed"
  BY <1>1, <1>5, <1>10, Zenon DEF Silenced
<1> QED BY <1>8, <1>9, <1>10, Zenon

\* When a unit passes, every age grows by one.
LEMMA PassTimely ==
  ASSUME KeepaliveAssumption, DeadInv, Pass, NEW e \in Ends
  PROVE  Timely(e)'
<1> DEFINE h == StaleTime(rtt[e])
           g == StaleGrace(rtt[e])
           s == end[e]
           t == end'[e]
<1>1. /\ h \in Nat /\ h >= 10 /\ g \in Nat /\ g >= 5 /\ s \in End /\ MaxDelay \in Nat
      /\ Cap \in Nat /\ Cap >= h + g + MaxDelay + 3 /\ SendCap \in Nat /\ SendCap >= 10
  BY Deadlines, Zenon
<1>2. rtt' = rtt /\ TypeOK /\ Fixed BY Zenon DEF Pass, DeadInv
<1>3. /\ e \notin due /\ e \in due'
      /\ s.state = "closed" => t = ClosedAged(s)
      /\ s.state # "closed" => t = Aged(s)
  BY <1>2, PassEnds, Zenon
<1>4. StaleTime(rtt'[e]) = h /\ StaleGrace(rtt'[e]) = g BY <1>2, Zenon
<1>5. /\ s.state = "active" => s.evidence < h \/ (s.evidence = h /\ s.keepalive = 0)
      /\ s.state = "stale" => s.evidence <= h + 1 + s.stale /\ s.stale < g
      /\ s.state # "closed" => s.closed = 0
  BY <1>3, Zenon DEF DeadInv, Timely
<1>6. CASE s.state = "closed"
  BY <1>1, <1>2, <1>3, <1>6, AgedTyped DEF Timely
<1>7. CASE s.state # "closed"
  <2>1. /\ t.state = s.state /\ t.closed = s.closed
        /\ t.evidence = Older(s.evidence, Cap) /\ t.keepalive = Older(s.keepalive, SendCap)
        /\ s.state = "stale" => t.stale = Older(s.stale, Cap)
    BY <1>1, <1>2, <1>3, <1>7, AgedTyped
  <2>2. /\ s.evidence \in 0 .. Cap /\ s.keepalive \in 0 .. SendCap /\ s.stale \in 0 .. Cap
        /\ s.state \in {"active", "stale", "closed"}
    BY <1>1, Zenon DEF End
  <2> HIDE DEF h, g, s, t
  <2>3. /\ t.evidence \in Nat /\ t.evidence <= s.evidence + 1
        /\ t.keepalive \in Nat /\ t.keepalive <= s.keepalive + 1
    <3>1. Cap \in Nat /\ SendCap \in Nat BY <1>1, Zenon
    <3>2. /\ Older(s.evidence, Cap) \in 0 .. Cap
          /\ Older(s.evidence, Cap) <= s.evidence + 1
      BY <2>2, <3>1, OlderTyped, Zenon
    <3>3. /\ Older(s.keepalive, SendCap) \in 0 .. SendCap
          /\ Older(s.keepalive, SendCap) <= s.keepalive + 1
      BY <2>2, <3>1, OlderTyped, Zenon
    <3> QED BY <2>1, <3>1, <3>2, <3>3
  <2>4. s.state = "stale" => t.stale = s.stale + 1
    BY <1>1, <1>5, <2>1, <2>2, OlderTyped, SMTT(30)
  <2>5. /\ t.state = "active" => t.evidence <= h \/ (t.evidence = h + 1 /\ t.keepalive <= 1)
        /\ t.state = "stale" => t.evidence <= h + 1 + t.stale /\ t.stale <= g
        /\ t.state # "closed" => t.closed = 0
    BY <1>1, <1>5, <2>1, <2>2, <2>3, <2>4
  <2> QED BY <1>3, <1>4, <2>5, Zenon DEF Timely, t
<1> QED BY <1>6, <1>7, Zenon

LEMMA PassSilenced ==
  ASSUME KeepaliveAssumption, DeadInv, Pass, Same, NEW e \in Ends
  PROVE  Silenced(e)'
<1> DEFINE s == end[e]
           o == end[Peer(e)]
<1>1. /\ TypeOK /\ Fixed /\ Peer(e) \in Ends /\ MaxDelay' = MaxDelay
      /\ s \in End /\ o \in End /\ Silenced(e) /\ Timely(Peer(e))
  BY PeerFacts, Zenon DEF DeadInv, TypeOK, Same, MaxDelay
<1>2. Cap \in Nat /\ MaxDelay \in Nat BY Deadlines, Zenon
<1>3. CASE s.state = "closed"
  <2>1. end'[e].state = "closed" /\ end'[e].closed = Older(s.closed, Cap)
    BY <1>1, <1>3, PassEnds, AgedTyped
  <2>2. end'[e].closed \in Nat /\ end'[e].closed <= s.closed + 1
    BY <1>1, <1>2, <2>1, OlderTyped DEF End
  <2>3. ASSUME NEW q \in flight', q.to = Peer(e) PROVE end'[e].closed <= q.age
    <3>1. PICK p \in flight : q.to = p.to /\ q.age = p.age + 1 BY <1>1, PassPackets, Zenon
    <3>2. s.closed <= p.age BY <1>1, <1>3, <2>3, <3>1, Zenon DEF Silenced
    <3>3. p.age \in Nat /\ s.closed \in Nat BY <1>1, <1>2 DEF TypeOK, PacketType, End
    <3> QED BY <2>2, <3>1, <3>2, <3>3
  <2>4. ASSUME end'[Peer(e)].state # "closed"
        PROVE  end'[e].closed <= end'[Peer(e)].evidence + MaxDelay'
    <3>1. o.state # "closed" /\ end'[Peer(e)].evidence = Older(o.evidence, Cap)
      BY <1>1, <2>4, PassEnds, AgedTyped
    <3>2. s.closed <= o.evidence + MaxDelay BY <1>1, <1>3, <3>1, Zenon DEF Silenced
    <3>3. o.evidence \in 0 .. Cap /\ s.closed \in 0 .. Cap /\ end'[e].closed \in 0 .. Cap
      BY <1>1, <1>2, <2>1, OlderTyped, Zenon DEF End
    <3>4. /\ o.evidence < Cap => end'[Peer(e)].evidence = o.evidence + 1
          /\ o.evidence = Cap => end'[Peer(e)].evidence = Cap
      BY <1>2, <3>1, <3>3, OlderTyped, Zenon
    <3> HIDE DEF s, o
    <3> QED BY <1>1, <1>2, <2>2, <3>2, <3>3, <3>4
  <2> QED BY <2>1, <2>3, <2>4, Zenon DEF Silenced
<1>4. CASE s.state # "closed"
  BY <1>1, <1>4, PassEnds, AgedTyped DEF Silenced
<1> QED BY <1>3, <1>4, Zenon

LEMMA DeadInit ==
  ASSUME KeepaliveAssumption, Init
  PROVE  DeadInv
<1>1. Fixed BY Zenon DEF Init, Fixed
<1>2. PICK proof \in 0 .. MaxDelay, request \in 0 .. MaxDelay, report \in 0 .. MaxDelay :
        end = [initiator |-> [state |-> "active", inbound |-> request + proof + report,
                              evidence |-> report, outbound |-> report,
                              keepalive |-> SendCap, stale |-> 0, closed |-> 0],
               responder |-> [state |-> "active", inbound |-> proof + report, evidence |-> 0,
                              outbound |-> proof + report, keepalive |-> SendCap,
                              stale |-> 0, closed |-> 0]]
  BY Zenon DEF Init
<1> DEFINE i == KeepaliveInterval(rtt["initiator"])
           g == StaleGrace(rtt["initiator"])
           h == StaleTime(rtt["initiator"])
<1>3. /\ MaxDelay \in Nat /\ i \in Nat /\ i >= 5 /\ h = 2 * i /\ g \in Nat /\ g >= 5
      /\ MaxDelay <= i /\ Cap \in Nat /\ Cap >= h + g + MaxDelay + 3
      /\ SendCap \in Nat /\ SendCap >= 2 * i
  <2>1. "initiator" \in Ends BY Zenon DEF Ends
  <2> QED BY <1>1, <2>1, KnownNumbers, Zenon
<1> HIDE DEF i, g, h
<1>4. /\ request + proof + report \in 0 .. Cap /\ report \in 0 .. Cap /\ 0 \in 0 .. Cap
      /\ proof + report \in 0 .. Cap /\ proof + report \in 0 .. SendCap
      /\ report \in 0 .. SendCap /\ SendCap \in 0 .. SendCap
      /\ report <= h
  BY <1>3
<1>5. end["initiator"] \in End /\ end["responder"] \in End BY <1>2, <1>4, Zenon DEF End
<1>6. jittered \in Nat BY <1>1, KnownJitter, Zenon
<1>7. end \in [Ends -> End] BY <1>2, <1>5, Zenon DEF Ends
<1>8. TypeOK BY <1>1, <1>6, <1>7, Zenon DEF Init, TypeOK, Fixed
<1>9. \A e \in Ends : end[e].state = "active" /\ end[e].closed = 0 /\ e \in due
  BY <1>2 DEF Init, Ends
<1>10. Timely("initiator") BY <1>2, <1>4, <1>9, Zenon DEF Timely, Ends, h
<1>11. Timely("responder")
  <2>1. "responder" \in Ends BY Zenon DEF Ends
  <2>2. StaleTime(rtt["responder"]) \in Nat
    <3> DEFINE k == KeepaliveInterval(rtt["responder"])
    <3>1. k \in Nat /\ StaleTime(rtt["responder"]) = 2 * k BY <1>1, <2>1, KnownNumbers, Zenon
    <3> HIDE DEF k
    <3> QED BY <3>1
  <2>3. end["responder"].evidence = 0 BY <1>2, Zenon
  <2> QED BY <1>9, <2>1, <2>2, <2>3 DEF Timely
<1> QED BY <1>1, <1>8, <1>9, <1>10, <1>11, Zenon DEF DeadInv, Silenced, Ends

\* The invariant of a dead Link is inductive.
LEMMA DeadStep ==
  ASSUME KeepaliveAssumption, DeadInv, [Next]_vars
  PROVE  DeadInv'
<1>1. CASE Next
  <2>1. Fixed' /\ TypeOK' BY <1>1, TypeStep, Zenon DEF DeadInv
  <2>2. MaxDelay' = MaxDelay /\ PacketType' = PacketType /\ End' = End BY <1>1, Constancy, Zenon
  <2>3. ASSUME NEW a \in Ends, Acts(a) PROVE \A e \in Ends : Timely(e)' /\ Silenced(e)'
    BY <2>1, <2>2, <2>3, ActsTimely, ActsSilenced, Zenon
  <2>4. ASSUME NEW p \in flight, Receive(p) PROVE \E a \in Ends : Acts(a)
    <3>1. p.to \in Ends BY Zenon DEF DeadInv, TypeOK, PacketType
    <3> QED BY <2>4, <3>1, Zenon DEF Acts
  <2>5. ASSUME NEW p \in flight, Lose(p) PROVE \A e \in Ends : Timely(e)' /\ Silenced(e)'
    <3>1. rtt' = rtt /\ end' = end /\ due' = due /\ flight' \subseteq flight BY <2>5, Zenon DEF Lose
    <3>2. \A e \in Ends : Timely(e)' BY <3>1, TimelyFrom, Zenon
    <3>3. \A e \in Ends : Silenced(e)' BY <2>2, <3>1, Zenon DEF DeadInv, Silenced
    <3> QED BY <3>2, <3>3, Zenon
  <2>6. ASSUME Pass, Same PROVE \A e \in Ends : Timely(e)' /\ Silenced(e)'
    BY <2>6, PassTimely, PassSilenced, Zenon
  <2>7. (\E a \in Ends : Acts(a)) \/ (\E p \in flight : Lose(p)) \/ (Pass /\ Same)
    BY <1>1, <2>4, Zenon DEF Next, Acts
  <2>8. \A e \in Ends : Timely(e)' /\ Silenced(e)' BY <2>3, <2>5, <2>6, <2>7, Zenon
  <2> QED BY <2>1, <2>8, Zenon DEF DeadInv
<1>2. CASE UNCHANGED vars
  BY <1>2 DEF vars, DeadInv, Fixed, TypeOK, Timely, Silenced, Rtts, End, PacketType, Cap,
     SendCap, MaxRtt, MaxDelay
<1> QED BY <1>1, <1>2, Zenon

\* A silent end is closed within its stale time, its grace time and two ticks,
\* and so is one whose peer has closed, within the time of a crossing more.
LEMMA DeadBounds ==
  ASSUME KeepaliveAssumption, DeadInv
  PROVE  DeadLinkCloses
<1>1. ASSUME NEW e \in Ends, end[e].state # "closed"
      PROVE  end[e].evidence <= StaleTime(rtt[e]) + StaleGrace(rtt[e]) + 2
  <2> DEFINE h == StaleTime(rtt[e])
             g == StaleGrace(rtt[e])
             s == end[e]
  <2>1. h \in Nat /\ g \in Nat /\ g >= 5 /\ s \in End /\ Cap \in Nat BY Deadlines, Zenon
  <2>2. /\ s.evidence \in Nat /\ s.stale \in Nat /\ s.state \in {"active", "stale", "closed"}
    BY <2>1 DEF End
  <2>3. /\ s.state = "active" => s.evidence <= h + 1
        /\ s.state = "stale" => s.evidence <= h + 1 + s.stale /\ s.stale <= g
    <3>1. Timely(e) BY Zenon DEF DeadInv
    <3>2. CASE e \in due BY <2>1, <2>2, <3>1, <3>2 DEF Timely
    <3>3. CASE e \notin due BY <2>1, <2>2, <3>1, <3>3 DEF Timely
    <3> QED BY <3>2, <3>3, Zenon
  <2>4. s.state = "active" \/ s.state = "stale" BY <1>1, <2>2, Zenon
  <2> HIDE DEF h, g, s
  <2>5. s.evidence <= h + g + 2 BY <2>1, <2>2, <2>3, <2>4
  <2> QED BY <2>5, Zenon DEF h, g, s
<1>2. DetectionBounded BY <1>1, Zenon DEF DetectionBounded, Silence
<1>3. ASSUME NEW e \in Ends, end[e].state = "closed", end[Peer(e)].state # "closed"
      PROVE  end[e].closed <=
               StaleTime(rtt[Peer(e)]) + StaleGrace(rtt[Peer(e)]) + MaxDelay + 2
  <2> DEFINE h == StaleTime(rtt[Peer(e)])
             g == StaleGrace(rtt[Peer(e)])
  <2>1. Peer(e) \in Ends BY PeerFacts, Zenon
  <2>2. h \in Nat /\ g \in Nat /\ MaxDelay \in Nat /\ Cap \in Nat /\ end[Peer(e)] \in End
    BY <2>1, Deadlines, Zenon
  <2>3. end[e] \in End BY Zenon DEF DeadInv, TypeOK
  <2>4. end[e].closed <= end[Peer(e)].evidence + MaxDelay BY <1>3, Zenon DEF DeadInv, Silenced
  <2>5. end[Peer(e)].evidence <= h + g + 2 BY <1>1, <1>3, <2>1, Zenon
  <2>6. end[e].closed \in Nat /\ end[Peer(e)].evidence \in Nat BY <2>2, <2>3 DEF End
  <2> HIDE DEF h, g
  <2>7. end[e].closed <= h + g + MaxDelay + 2 BY <2>2, <2>4, <2>5, <2>6
  <2> QED BY <2>7, Zenon DEF h, g
<1>4. HalfOpenBounded BY <1>3, Zenon DEF HalfOpenBounded
<1> QED BY <1>2, <1>4, Zenon DEF DeadLinkCloses

\* Link::tick_at and is_stale: however packets are lost or delayed and whatever
\* its own application sends, an end that hears nothing closes within its
\* stale time and grace time, and a Link one end has closed does not stay
\* half open.
THEOREM DeadLinksClose ==
  ASSUME KeepaliveAssumption
  PROVE  Spec => []DeadLinkCloses
<1>1. Init => DeadInv BY DeadInit, Zenon
<1>2. DeadInv /\ [Next]_vars => DeadInv' BY DeadStep, Zenon
<1>3. DeadInv => DeadLinkCloses BY DeadBounds, Zenon
<1> QED BY <1>1, <1>2, <1>3, PTL DEF Spec

-----------------------------------------------------------------------------

(* The life of a Link whose packets arrive *)

\* Both ends are there, the responder has no doubt of it and nobody has said
\* otherwise.
BothUp ==
    /\ end["initiator"].state # "closed" /\ end["responder"].state = "active"
    /\ \A p \in flight : p.kind # "close"

\* The initiator is never silent for longer than its jittered interval: while
\* it is active a keepalive is due by then, and while it is stale it has just
\* sent one.
InitiatorSends ==
    LET s == end["initiator"]
        longest == Longest(rtt["initiator"])
    IN  /\ s.outbound <= s.keepalive
        /\ s.outbound <= longest
        /\ "initiator" \notin due => s.outbound < longest

\* What the responder has not heard is on its way.
ResponderHears ==
    LET silence == end["responder"].evidence
    IN  \/ silence <= end["initiator"].outbound
        \/ \E p \in flight :
             p.to = "responder" /\ silence <= Longest(rtt["initiator"]) + p.age

\* The responder answers the next keepalive, unless the initiator has heard
\* what made it keep silent, or will.
ResponderAnswers ==
    \/ end["responder"].outbound >= KeepaliveInterval(rtt["responder"])
    \/ end["initiator"].evidence <= end["responder"].outbound
    \/ \E p \in flight : p.to = "initiator"

\* A stale initiator has sent a keepalive that is still on its way, or an
\* answer is on its way back.
RecoveryUnderway ==
    LET s == end["initiator"]
    IN  s.state = "stale" =>
          /\ s.outbound <= s.stale
          /\ s.evidence >= StaleTime(rtt["initiator"])
          /\ \/ \E p \in flight : /\ p.to = "responder" /\ p.kind = "keepalive"
                                  /\ s.stale <= p.age
             \/ \E p \in flight : p.to = "initiator" /\ s.stale <= MaxDelay + p.age

Live == BothUp /\ InitiatorSends /\ ResponderHears /\ ResponderAnswers /\ RecoveryUnderway

LiveInv == Fixed /\ TypeOK /\ (~ instance.lossy => Live)

LEMMA EndNames == "initiator" \in Ends /\ "responder" \in Ends /\ Peer("initiator") = "responder"
                  /\ Peer("responder") = "initiator"
BY Zenon DEF Ends, Peer

\* The timing of a Link whose packets arrive: the longest jittered interval and
\* a crossing together stay under the responder's stale time.
LEMMA LiveNumbers ==
  ASSUME KeepaliveAssumption, TimingAssumption, Fixed, ~ instance.lossy,
         NEW i, i = KeepaliveInterval(rtt["initiator"]),
         NEW k, k = KeepaliveInterval(rtt["responder"]),
         NEW l, l = Longest(rtt["initiator"])
  PROVE  /\ i \in Nat /\ i >= 5 /\ k \in Nat /\ i <= k /\ k <= 2 * i
         /\ StaleTime(rtt["initiator"]) = 2 * i /\ StaleTime(rtt["responder"]) = 2 * k
         /\ MaxDelay \in Nat /\ 2 * MaxDelay < i
         /\ StaleGrace(rtt["initiator"]) \in Nat
         /\ 2 * MaxDelay < StaleGrace(rtt["initiator"])
         /\ l \in Nat /\ i < l /\ l + MaxDelay < 2 * k
         /\ jittered \in Nat /\ jittered <= l
         /\ SendCap \in Nat /\ l < SendCap /\ k < SendCap
         /\ Cap \in Nat /\ 2 * i < Cap /\ l + MaxDelay < Cap
<1>1. /\ rtt["initiator"] \in Nat /\ i \in Nat /\ i >= 5
      /\ StaleTime(rtt["initiator"]) = 2 * i /\ StaleGrace(rtt["initiator"]) \in Nat
      /\ MaxDelay \in Nat
  BY EndNames, KnownNumbers, Zenon
<1>2. /\ rtt["responder"] \in Nat /\ k \in Nat /\ k >= 5
      /\ StaleTime(rtt["responder"]) = 2 * k /\ StaleGrace(rtt["responder"]) \in Nat
      /\ Cap \in Nat
      /\ Cap >= StaleTime(rtt["responder"]) + StaleGrace(rtt["responder"]) + MaxDelay + 3
      /\ SendCap \in Nat /\ SendCap >= 2 * k
  BY EndNames, KnownNumbers, Zenon
<1>3. i <= k BY <1>1, <1>2, IntervalsGrow, Zenon DEF Fixed
<1>4. /\ 2 * MaxDelay < StaleGrace(rtt["initiator"])
      /\ 2 * MaxDelay < i /\ k <= StaleTime(rtt["initiator"])
  <2>1. rtt["initiator"] \in Rtts /\ rtt["responder"] \in Rtts BY EndNames, Zenon DEF Fixed
  <2> QED BY <2>1, Zenon DEF TimingAssumption, Fixed, Rtts, MaxDelay
<1>5. jittered \in Nat /\ jittered <= l /\ l \in Nat /\ i < l /\ 10 * l <= 11 * i + 9
  BY KnownJitter, Zenon
<1>6. k <= 2 * i BY <1>1, <1>4, Zenon
<1>7. l + MaxDelay < 2 * k BY <1>1, <1>2, <1>3, <1>4, <1>5
<1>8. l < SendCap /\ k < SendCap BY <1>1, <1>2, <1>3, <1>5, <1>7
<1>9. 2 * i < Cap /\ l + MaxDelay < Cap
  <2> DEFINE g == StaleGrace(rtt["responder"])
  <2>1. g \in Nat /\ Cap >= 2 * k + g + MaxDelay + 3 BY <1>2, Zenon
  <2> HIDE DEF g
  <2> QED BY <1>1, <1>2, <1>3, <1>5, <1>7, <2>1
<1> QED BY <1>1, <1>2, <1>3, <1>4, <1>5, <1>6, <1>7, <1>8, <1>9, Zenon

\* So the responder is not stale, and the initiator recovers before its grace
\* time is over.
LEMMA LiveMargins ==
  ASSUME KeepaliveAssumption, TimingAssumption, Fixed, TypeOK, ~ instance.lossy, Live
  PROVE  /\ end["responder"].evidence < StaleTime(rtt["responder"])
         /\ end["responder"].evidence <= Longest(rtt["initiator"]) + MaxDelay
         /\ end["initiator"].state = "stale" =>
              end["initiator"].stale <= 2 * MaxDelay
<1> DEFINE i == KeepaliveInterval(rtt["initiator"])
           k == KeepaliveInterval(rtt["responder"])
           l == Longest(rtt["initiator"])
<1>1. /\ MaxDelay \in Nat /\ l \in Nat /\ l + MaxDelay < 2 * k /\ k \in Nat
      /\ StaleTime(rtt["responder"]) = 2 * k /\ SendCap \in Nat /\ Cap \in Nat
  BY LiveNumbers, Zenon
<1>2. end["initiator"] \in End /\ end["responder"] \in End BY EndNames, Zenon DEF TypeOK
<1>3. \A p \in flight : p.age \in Nat /\ p.age <= MaxDelay BY <1>1 DEF TypeOK, PacketType
<1>4. /\ end["initiator"].outbound \in Nat /\ end["responder"].evidence \in Nat
      /\ end["initiator"].stale \in Nat
  BY <1>1, <1>2 DEF End
<1> HIDE DEF i, k, l
<1>5. end["initiator"].outbound <= l BY Zenon DEF Live, InitiatorSends, l
<1>6. end["responder"].evidence <= l + MaxDelay
  <2>1. CASE end["responder"].evidence <= end["initiator"].outbound
    BY <1>1, <1>4, <1>5, <2>1
  <2>2. CASE \E p \in flight : p.to = "responder" /\ end["responder"].evidence <= l + p.age
    <3>1. PICK p \in flight : end["responder"].evidence <= l + p.age BY <2>2, Zenon
    <3>2. p.age \in Nat /\ p.age <= MaxDelay BY <1>3, Zenon
    <3> QED BY <1>1, <1>4, <3>1, <3>2
  <2> QED BY <2>1, <2>2, Zenon DEF Live, ResponderHears, l
<1>7. end["responder"].evidence < StaleTime(rtt["responder"]) BY <1>1, <1>4, <1>6
<1>8. ASSUME end["initiator"].state = "stale" PROVE end["initiator"].stale <= 2 * MaxDelay
  <2>1. PICK p \in flight : \/ end["initiator"].stale <= p.age
                            \/ end["initiator"].stale <= MaxDelay + p.age
    BY <1>8, Zenon DEF Live, RecoveryUnderway
  <2>2. p.age \in Nat /\ p.age <= MaxDelay BY <1>3, Zenon
  <2> QED BY <1>1, <1>4, <2>1, <2>2
<1> QED BY <1>6, <1>7, <1>8, Zenon DEF l

\* The initiator sends a keepalive or data, and may have become stale.
LEMMA InitiatorTransmits ==
  ASSUME KeepaliveAssumption, TimingAssumption, Fixed, TypeOK, TypeOK', ~ instance.lossy, Live,
         rtt' = rtt, MaxDelay' = MaxDelay, End' = End, NEW q,
         flight' = flight \union {q}, q.to = "responder", q.age = 0, q.kind # "close",
         end'["responder"] = end["responder"],
         end'["initiator"].outbound = 0, end'["initiator"].state # "closed",
         end'["initiator"].evidence = end["initiator"].evidence,
         end'["initiator"].state = "stale" =>
           \/ end["initiator"].state = "stale" /\ end'["initiator"].stale = end["initiator"].stale
           \/ /\ end'["initiator"].stale = 0 /\ q.kind = "keepalive"
              /\ end["initiator"].evidence >= StaleTime(rtt["initiator"])
  PROVE  Live'
<1> DEFINE s == end["initiator"]
           t == end'["initiator"]
           l == Longest(rtt["initiator"])
<1>1. l \in Nat /\ l > 0 /\ SendCap \in Nat /\ Cap \in Nat
  <2> DEFINE i == KeepaliveInterval(rtt["initiator"])
  <2>1. i \in Nat /\ i >= 5 /\ l \in Nat /\ i < l /\ SendCap \in Nat /\ Cap \in Nat
    BY LiveNumbers, Zenon
  <2> HIDE DEF i, l
  <2> QED BY <2>1
<1>2. t \in End /\ s \in End /\ end["responder"] \in End BY EndNames, Zenon DEF TypeOK
<1>3. t.keepalive \in Nat /\ t.stale \in Nat /\ s.outbound \in Nat
      /\ end["responder"].evidence \in Nat
  BY <1>1, <1>2 DEF End
<1>4. Longest(rtt'["initiator"]) = l OBVIOUS
<1> HIDE DEF l
<1>5. BothUp' BY Zenon DEF Live, BothUp
<1>6. InitiatorSends' BY <1>1, <1>3, <1>4 DEF InitiatorSends
<1>7. ResponderHears'
  <2>1. CASE end["responder"].evidence <= s.outbound
    <3>1. s.outbound <= l BY Zenon DEF Live, InitiatorSends, l
    <3>2. end["responder"].evidence <= l + q.age BY <1>1, <1>3, <2>1, <3>1
    <3> QED BY <1>4, <3>2, Zenon DEF ResponderHears
  <2>2. CASE \E p \in flight : p.to = "responder" /\ end["responder"].evidence <= l + p.age
    BY <1>4, <2>2, Zenon DEF ResponderHears
  <2> QED BY <2>1, <2>2, Zenon DEF Live, ResponderHears, l
<1>8. ResponderAnswers' BY Zenon DEF Live, ResponderAnswers
<1>9. RecoveryUnderway'
  <2>1. SUFFICES ASSUME t.state = "stale" PROVE RecoveryUnderway' BY Zenon DEF RecoveryUnderway
  <2>2. CASE s.state = "stale" /\ t.stale = s.stale
    BY <1>3, <2>1, <2>2 DEF Live, RecoveryUnderway
  <2>3. CASE /\ t.stale = 0 /\ q.kind = "keepalive"
             /\ s.evidence >= StaleTime(rtt["initiator"])
    BY <2>1, <2>3 DEF RecoveryUnderway
  <2> QED BY <2>1, <2>2, <2>3, Zenon
<1> QED BY <1>5, <1>6, <1>7, <1>8, <1>9, Zenon DEF Live

\* The responder sends data.
LEMMA ResponderTransmits ==
  ASSUME Live, rtt' = rtt, MaxDelay' = MaxDelay, due' = due, NEW q,
         flight' = flight \union {q}, q.to = "initiator", q.kind # "close",
         end'["initiator"] = end["initiator"],
         end'["responder"].state = "active",
         end'["responder"].evidence = end["responder"].evidence
  PROVE  Live'
<1>1. BothUp' BY Zenon DEF Live, BothUp
<1>2. InitiatorSends' BY Zenon DEF Live, InitiatorSends
<1>3. ResponderHears' BY Zenon DEF Live, ResponderHears
<1>4. ResponderAnswers' BY Zenon DEF Live, ResponderAnswers
<1>5. RecoveryUnderway' BY Zenon DEF Live, RecoveryUnderway
<1> QED BY <1>1, <1>2, <1>3, <1>4, <1>5, Zenon DEF Live

\* The initiator's tick.
LEMMA InitiatorTicks ==
  ASSUME KeepaliveAssumption, TimingAssumption, Fixed, TypeOK, TypeOK', ~ instance.lossy, Live,
         MaxDelay' = MaxDelay, End' = End, Tick("initiator")
  PROVE  Live'
<1> DEFINE s == end["initiator"]
           l == Longest(rtt["initiator"])
<1>1. rtt' = rtt /\ due' = due \ {"initiator"} BY Zenon DEF Tick
<1>2. s \in End /\ DOMAIN end = Ends BY EndNames, Zenon DEF TypeOK
<1>3. /\ Packet("responder", "keepalive").to = "responder"
      /\ Packet("responder", "keepalive").age = 0
      /\ Packet("responder", "keepalive").kind = "keepalive"
  BY Zenon DEF Packet
<1>4. CASE SendKeepalive("initiator")
  <2>1. /\ end' = [end EXCEPT !["initiator"] = TransmittedKeepalive(s)] /\ s.state = "active"
        /\ flight' = flight \union {Packet("responder", "keepalive")}
    BY <1>4, EndNames, Zenon DEF SendKeepalive, Sends
  <2>2. /\ end'["responder"] = end["responder"]
        /\ end'["initiator"] = TransmittedKeepalive(s)
    BY <1>2, <2>1, EndNames, Zenon
  <2>3. /\ TransmittedKeepalive(s).outbound = 0 /\ TransmittedKeepalive(s).state = "active"
        /\ TransmittedKeepalive(s).evidence = s.evidence
    BY <1>2, <2>1, Zenon DEF TransmittedKeepalive, End
  <2> QED BY <1>1, <1>3, <2>1, <2>2, <2>3, InitiatorTransmits, Zenon
<1>5. CASE TransitionToStale("initiator")
  <2> DEFINE r == [s EXCEPT !.state = "stale", !.stale = 0]
  <2>1. /\ end' = [end EXCEPT !["initiator"] = TransmittedKeepalive(r)]
        /\ flight' = flight \union {Packet("responder", "keepalive")}
        /\ s.evidence >= StaleTime(rtt["initiator"])
    BY <1>5, EndNames, Zenon DEF TransitionToStale, Sends, IsStale, Silence
  <2>2. /\ end'["responder"] = end["responder"]
        /\ end'["initiator"] = TransmittedKeepalive(r)
    BY <1>2, <2>1, EndNames, Zenon
  <2>3. /\ TransmittedKeepalive(r).outbound = 0 /\ TransmittedKeepalive(r).state = "stale"
        /\ TransmittedKeepalive(r).stale = 0 /\ TransmittedKeepalive(r).evidence = s.evidence
    BY <1>2, Zenon DEF TransmittedKeepalive, End
  <2> HIDE DEF r
  <2> QED BY <1>1, <1>3, <2>1, <2>2, <2>3, InitiatorTransmits, Zenon
<1>6. CASE TeardownAndClose("initiator")
  <2>1. s.state = "stale" /\ s.stale >= StaleGrace(rtt["initiator"])
    BY <1>6, Zenon DEF TeardownAndClose
  <2>2. s.stale <= 2 * MaxDelay BY <2>1, LiveMargins, Zenon
  <2>3. /\ MaxDelay \in Nat /\ StaleGrace(rtt["initiator"]) \in Nat /\ Cap \in Nat
        /\ 2 * MaxDelay < StaleGrace(rtt["initiator"])
    BY LiveNumbers, Zenon
  <2>4. s.stale \in Nat BY <1>2, <2>3 DEF End
  <2> QED BY <2>1, <2>2, <2>3, <2>4
<1>7. CASE TickNothing("initiator")
  <2>1. end' = end /\ flight' = flight BY <1>7, Zenon DEF TickNothing
  <2>2. s.outbound < l
    <3> DEFINE i == KeepaliveInterval(rtt["initiator"])
    <3>1. /\ i \in Nat /\ l \in Nat /\ i < l /\ MaxDelay \in Nat /\ 2 * MaxDelay < i
          /\ jittered \in Nat /\ jittered <= l /\ SendCap \in Nat /\ Cap \in Nat
      BY LiveNumbers, Zenon
    <3>2. s.outbound \in Nat /\ s.keepalive \in Nat /\ s.stale \in Nat BY <1>2, <3>1 DEF End
    <3>3. CASE s.state = "active"
      <4>1. s.outbound <= s.keepalive BY Zenon DEF Live, InitiatorSends
      <4>2. ~ ShouldSend("initiator") BY <1>7, <3>3, Zenon DEF TickNothing
      <4>3. ~ (s.outbound >= jittered /\ s.keepalive >= jittered) BY <4>2, Zenon DEF ShouldSend
      <4> HIDE DEF l
      <4> QED BY <3>1, <3>2, <4>1, <4>3
    <3>4. CASE s.state = "stale"
      <4>1. s.outbound <= s.stale BY <3>4, Zenon DEF Live, RecoveryUnderway
      <4>2. s.stale <= 2 * MaxDelay BY <3>4, LiveMargins, Zenon
      <4> HIDE DEF l, i
      <4> QED BY <3>1, <3>2, <4>1, <4>2
    <3> QED BY <3>3, <3>4, <1>2, Zenon DEF Live, BothUp, End
  <2>3. InitiatorSends' BY <1>1, <2>1, <2>2, Zenon DEF Live, InitiatorSends
  <2>4. BothUp' /\ ResponderHears' /\ ResponderAnswers' /\ RecoveryUnderway'
    BY <1>1, <2>1, Zenon DEF Live, BothUp, ResponderHears, ResponderAnswers, RecoveryUnderway
  <2> QED BY <2>3, <2>4, Zenon DEF Live
<1> QED BY <1>4, <1>5, <1>6, <1>7, Zenon DEF Tick

\* The responder's tick does nothing: it sends no keepalives and is not stale.
LEMMA ResponderTicks ==
  ASSUME KeepaliveAssumption, TimingAssumption, Fixed, TypeOK, ~ instance.lossy, Live,
         MaxDelay' = MaxDelay, Tick("responder")
  PROVE  Live'
<1>1. rtt' = rtt /\ due' = due \ {"responder"} BY Zenon DEF Tick
<1>2. end["responder"].state = "active" BY Zenon DEF Live, BothUp
<1>3. ~ ShouldSend("responder") BY Zenon DEF ShouldSend
<1>4. ~ IsStale("responder")
  <2> DEFINE k == KeepaliveInterval(rtt["responder"])
             h == StaleTime(rtt["responder"])
  <2>1. k \in Nat /\ h = 2 * k /\ Cap \in Nat BY LiveNumbers, Zenon
  <2>2. end["responder"].evidence < h BY LiveMargins, Zenon
  <2>3. end["responder"].evidence \in Nat BY <2>1, EndNames DEF TypeOK, End
  <2> HIDE DEF k, h
  <2>4. ~ (end["responder"].evidence >= h) BY <2>1, <2>2, <2>3
  <2> QED BY <2>4, Zenon DEF IsStale, Silence, h
<1>5. end' = end /\ flight' = flight
  BY <1>2, <1>3, <1>4, Zenon DEF Tick, SendKeepalive, TransitionToStale, TeardownAndClose, TickNothing
<1>6. InitiatorSends' BY <1>1, <1>5, Zenon DEF Live, InitiatorSends
<1>7. BothUp' /\ ResponderHears' /\ ResponderAnswers' /\ RecoveryUnderway'
  BY <1>1, <1>5, Zenon DEF Live, BothUp, ResponderHears, ResponderAnswers, RecoveryUnderway
<1> QED BY <1>6, <1>7, Zenon DEF Live

\* Data from either end.
LEMMA LiveSends ==
  ASSUME KeepaliveAssumption, TimingAssumption, Fixed, TypeOK, TypeOK', ~ instance.lossy, Live,
         MaxDelay' = MaxDelay, End' = End, NEW e \in Ends, SendData(e)
  PROVE  Live'
<1> DEFINE s == end[e]
           q == Packet(Peer(e), "data")
<1>1. /\ end' = [end EXCEPT ![e] = Transmitted(s)] /\ flight' = flight \union {q}
      /\ rtt' = rtt /\ due' = due
  BY Zenon DEF SendData, Sends
<1>2. s \in End /\ DOMAIN end = Ends BY Zenon DEF TypeOK
<1>3. /\ Transmitted(s).outbound = 0 /\ Transmitted(s).state = s.state
      /\ Transmitted(s).evidence = s.evidence /\ Transmitted(s).stale = s.stale
  BY <1>2, Zenon DEF Transmitted, End
<1>4. q.to = Peer(e) /\ q.age = 0 /\ q.kind = "data" BY Zenon DEF Packet
<1>5. end'[e] = Transmitted(s) /\ end'[Peer(e)] = end[Peer(e)]
  BY <1>1, <1>2, PeerFacts, Zenon
<1> HIDE DEF q
<1>6. CASE e = "initiator"
  <2>1. s.state # "closed" BY <1>6, Zenon DEF Live, BothUp
  <2> QED BY <1>1, <1>3, <1>4, <1>5, <1>6, <2>1, EndNames, InitiatorTransmits
<1>7. CASE e = "responder"
  <2>1. s.state = "active" BY <1>7, Zenon DEF Live, BothUp
  <2> QED BY <1>1, <1>3, <1>4, <1>5, <1>7, <2>1, EndNames, ResponderTransmits, Zenon
<1> QED BY <1>6, <1>7, Zenon DEF Ends

\* An arrival either only counts as evidence, or is answered: then the answer
\* is on its way and the end has transmitted.
LEMMA Answered ==
  ASSUME TypeOK, NEW p \in flight, Receive(p), end[p.to].state # "closed", p.kind # "close"
  PROVE  \/ /\ end' = [end EXCEPT ![p.to] = Inbound(end[p.to])]
            /\ flight' = flight \ {p}
            /\ p.kind = "keepalive" => ~ ShouldRespond(p.to)
         \/ /\ end' = [end EXCEPT ![p.to] = Transmitted(Inbound(end[p.to]))]
            /\ \E q : /\ flight' = (flight \ {p}) \union {q}
                      /\ q.to = Peer(p.to) /\ q.age = 0 /\ q.kind # "close"
<1>1. \A kind : /\ Packet(Peer(p.to), kind).to = Peer(p.to) /\ Packet(Peer(p.to), kind).age = 0
                /\ Packet(Peer(p.to), kind).kind = kind
  BY Zenon DEF Packet
<1>2. CASE ReceiveKeepalive(p)
  <2>1. CASE ShouldRespond(p.to)
    <3>1. /\ end' = [end EXCEPT ![p.to] = Transmitted(Inbound(end[p.to]))]
          /\ flight' = (flight \ {p}) \union {Packet(Peer(p.to), "response")}
      BY <1>2, <2>1, Zenon DEF ReceiveKeepalive
    <3> QED BY <1>1, <3>1
  <2>2. CASE ~ ShouldRespond(p.to)
    <3>1. end' = [end EXCEPT ![p.to] = Inbound(end[p.to])] /\ flight' = flight \ {p}
      BY <1>2, <2>2, Zenon DEF ReceiveKeepalive
    <3> QED BY <2>2, <3>1, Zenon
  <2> QED BY <2>1, <2>2, Zenon
<1>3. CASE ReceiveData(p)
  <2>1. p.kind = "data" BY <1>3, Zenon DEF ReceiveData
  <2>2. \/ /\ end' = [end EXCEPT ![p.to] = Transmitted(Inbound(end[p.to]))]
           /\ flight' = (flight \ {p}) \union {Packet(Peer(p.to), "proof")}
        \/ end' = [end EXCEPT ![p.to] = Inbound(end[p.to])] /\ flight' = flight \ {p}
    BY <1>3, Zenon DEF ReceiveData
  <2> QED BY <1>1, <2>1, <2>2
<1>4. CASE ReceiveOther(p)
  <2>1. p.kind # "keepalive" BY <1>4, Zenon DEF ReceiveOther
  <2>2. end' = [end EXCEPT ![p.to] = Inbound(end[p.to])] /\ flight' = flight \ {p}
    BY <1>4, Zenon DEF ReceiveOther
  <2> QED BY <2>1, <2>2, Zenon
<1> QED BY <1>2, <1>3, <1>4, Zenon DEF Receive, ReceiveClose

\* The initiator hears: it is active, whatever it was.
LEMMA InitiatorReceives ==
  ASSUME KeepaliveAssumption, TimingAssumption, Fixed, TypeOK, TypeOK', ~ instance.lossy, Live,
         MaxDelay' = MaxDelay, End' = End, NEW p \in flight, p.to = "initiator", Receive(p)
  PROVE  Live'
<1> DEFINE s == end["initiator"]
           t == end'["initiator"]
           l == Longest(rtt["initiator"])
<1>1. rtt' = rtt /\ due' = due /\ Longest(rtt'["initiator"]) = l BY Zenon DEF Receive
<1>2. /\ s \in End /\ t \in End /\ end["responder"] \in End /\ DOMAIN end = Ends
      /\ flight \subseteq PacketType
  BY EndNames, Zenon DEF TypeOK
<1>3. p.kind # "close" /\ s.state # "closed" BY Zenon DEF Live, BothUp
<1>4. l \in Nat /\ l > 0 /\ SendCap \in Nat /\ Cap \in Nat
  <2> DEFINE i == KeepaliveInterval(rtt["initiator"])
  <2>1. i \in Nat /\ i >= 5 /\ l \in Nat /\ i < l /\ SendCap \in Nat /\ Cap \in Nat
    BY LiveNumbers, Zenon
  <2> HIDE DEF i, l
  <2> QED BY <2>1
<1>5. /\ Inbound(s).state = "active" /\ Inbound(s).evidence = 0
      /\ Inbound(s).outbound = s.outbound /\ Inbound(s).keepalive = s.keepalive
      /\ Transmitted(Inbound(s)).state = "active" /\ Transmitted(Inbound(s)).evidence = 0
      /\ Transmitted(Inbound(s)).outbound = 0 /\ Transmitted(Inbound(s)).keepalive = s.keepalive
  BY <1>2, <1>3, InboundFields, Zenon
<1>6. \/ t = Inbound(s) /\ flight' = flight \ {p}
      \/ /\ t = Transmitted(Inbound(s))
         /\ \E q : flight' = (flight \ {p}) \union {q} /\ q.to = "responder" /\ q.age = 0
                   /\ q.kind # "close"
  BY <1>2, <1>3, Answered, EndNames
<1>7. end'["responder"] = end["responder"] BY <1>2, <1>3, Answered, EndNames, Zenon
<1>8. t.state = "active" /\ t.evidence = 0 /\ t.keepalive = s.keepalive BY <1>5, <1>6, Zenon
<1>9. /\ s.outbound \in Nat /\ s.keepalive \in Nat /\ end["responder"].evidence \in Nat
      /\ end["responder"].outbound \in Nat
  BY <1>2, <1>4 DEF End
<1> HIDE DEF l
<1>10. BothUp' BY <1>6, <1>7, <1>8, Zenon DEF Live, BothUp
<1>11. InitiatorSends'
  <2>1. t.outbound = s.outbound \/ t.outbound = 0 BY <1>5, <1>6, Zenon
  <2>2. /\ s.outbound <= s.keepalive /\ s.outbound <= l
        /\ "initiator" \notin due => s.outbound < l
    BY Zenon DEF Live, InitiatorSends, l
  <2> QED BY <1>1, <1>4, <1>8, <1>9, <2>1, <2>2 DEF InitiatorSends
<1>12. ResponderHears'
  <2>1. CASE t = Inbound(s) /\ flight' = flight \ {p}
    <3>1. t.outbound = s.outbound BY <1>5, <2>1, Zenon
    <3>2. CASE end["responder"].evidence <= s.outbound
      BY <1>7, <3>1, <3>2, Zenon DEF ResponderHears
    <3>3. CASE \E q \in flight : q.to = "responder" /\ end["responder"].evidence <= l + q.age
      <4>1. PICK q \in flight : q.to = "responder" /\ end["responder"].evidence <= l + q.age
        BY <3>3, Zenon
      <4>2. q \in flight' BY <2>1, <4>1, Zenon
      <4> QED BY <1>1, <1>7, <4>1, <4>2, Zenon DEF ResponderHears
    <3> QED BY <3>2, <3>3, Zenon DEF Live, ResponderHears, l
  <2>2. ASSUME NEW q, t = Transmitted(Inbound(s)), flight' = (flight \ {p}) \union {q},
               q.to = "responder", q.age = 0
        PROVE  ResponderHears'
    <3>1. CASE end["responder"].evidence <= s.outbound
      <4>1. s.outbound <= l BY Zenon DEF Live, InitiatorSends, l
      <4>2. end["responder"].evidence <= l + q.age BY <1>4, <1>9, <2>2, <3>1, <4>1
      <4> QED BY <1>1, <1>7, <2>2, <4>2, Zenon DEF ResponderHears
    <3>2. CASE \E x \in flight : x.to = "responder" /\ end["responder"].evidence <= l + x.age
      <4>1. PICK x \in flight : x.to = "responder" /\ end["responder"].evidence <= l + x.age
        BY <3>2, Zenon
      <4>2. x \in flight' BY <2>2, <4>1, Zenon
      <4> QED BY <1>1, <1>7, <4>1, <4>2, Zenon DEF ResponderHears
    <3> QED BY <3>1, <3>2, Zenon DEF Live, ResponderHears, l
  <2> QED BY <1>6, <2>1, <2>2, Zenon
<1>13. ResponderAnswers'
  <2>1. t.evidence <= end'["responder"].outbound BY <1>7, <1>8, <1>9
  <2> QED BY <2>1, Zenon DEF ResponderAnswers
<1>14. RecoveryUnderway' BY <1>8, Zenon DEF RecoveryUnderway
<1> QED BY <1>10, <1>11, <1>12, <1>13, <1>14, Zenon DEF Live

\* The responder hears: it answers the keepalive of a stale initiator, or has
\* sent something that will reach it.
LEMMA ResponderReceives ==
  ASSUME KeepaliveAssumption, TimingAssumption, Fixed, TypeOK, TypeOK', ~ instance.lossy, Live,
         MaxDelay' = MaxDelay, End' = End, NEW p \in flight, p.to = "responder", Receive(p)
  PROVE  Live'
<1> DEFINE s == end["initiator"]
           r == end["responder"]
           t == end'["responder"]
           i == KeepaliveInterval(rtt["initiator"])
           k == KeepaliveInterval(rtt["responder"])
<1>1. rtt' = rtt /\ due' = due BY Zenon DEF Receive
<1>2. /\ s \in End /\ r \in End /\ DOMAIN end = Ends
      /\ flight \subseteq PacketType
  BY EndNames, Zenon DEF TypeOK
<1>3. p.kind # "close" /\ r.state = "active" BY Zenon DEF Live, BothUp
<1>4. /\ i \in Nat /\ k \in Nat /\ k <= 2 * i /\ StaleTime(rtt["initiator"]) = 2 * i
      /\ MaxDelay \in Nat /\ SendCap \in Nat /\ Cap \in Nat
  BY LiveNumbers, Zenon
<1>5. /\ Inbound(r).state = "active" /\ Inbound(r).evidence = 0
      /\ Inbound(r).outbound = r.outbound
      /\ Transmitted(Inbound(r)).state = "active" /\ Transmitted(Inbound(r)).evidence = 0
  BY <1>2, <1>3, InboundFields, Zenon
<1> DEFINE Silent == /\ t = Inbound(r) /\ flight' = flight \ {p}
                     /\ p.kind = "keepalive" => ~ ShouldRespond("responder")
           Answer(q) == /\ t = Transmitted(Inbound(r)) /\ flight' = (flight \ {p}) \union {q}
                        /\ q.to = "initiator" /\ q.age = 0 /\ q.kind # "close"
<1>6. Silent \/ \E q : Answer(q) BY <1>2, <1>3, Answered, EndNames
<1>7. end'["initiator"] = s BY <1>2, <1>3, Answered, EndNames, Zenon
<1>8. t.state = "active" /\ t.evidence = 0 BY <1>5, <1>6, Zenon
<1>9. /\ s.outbound \in Nat /\ s.stale \in Nat /\ s.evidence \in Nat /\ r.outbound \in Nat
      /\ \A q \in flight : q.age \in Nat /\ q.age <= MaxDelay
  BY <1>2, <1>4 DEF End, PacketType
<1>10. BothUp' BY <1>6, <1>7, <1>8, Zenon DEF Live, BothUp
<1>11. InitiatorSends' BY <1>1, <1>7, Zenon DEF Live, InitiatorSends
<1>12. ResponderHears' BY <1>7, <1>8, <1>9 DEF ResponderHears
<1>13. \A q \in flight : q.to = "initiator" => q \in flight' BY <1>6, Zenon
<1>14. ResponderAnswers'
  <2>1. CASE Silent
    <3>1. t.outbound = r.outbound BY <1>5, <2>1, Zenon
    <3>2. CASE \E q \in flight : q.to = "initiator"
      BY <1>13, <3>2, Zenon DEF ResponderAnswers
    <3>3. CASE r.outbound >= k \/ s.evidence <= r.outbound
      BY <1>1, <1>7, <3>1, <3>3, Zenon DEF ResponderAnswers
    <3> QED BY <3>2, <3>3, Zenon DEF Live, ResponderAnswers
  <2>2. ASSUME NEW q, Answer(q) PROVE ResponderAnswers'
    BY <2>2, Zenon DEF ResponderAnswers
  <2> QED BY <1>6, <2>1, <2>2, Zenon
<1>15. RecoveryUnderway'
  <2>1. SUFFICES ASSUME s.state = "stale"
                 PROVE  \/ \E q \in flight' : /\ q.to = "responder" /\ q.kind = "keepalive"
                                              /\ s.stale <= q.age
                        \/ \E q \in flight' : q.to = "initiator" /\ s.stale <= MaxDelay + q.age
    BY <1>1, <1>7, Zenon DEF Live, RecoveryUnderway
  <2>2. s.evidence >= 2 * i BY <1>4, <2>1, Zenon DEF Live, RecoveryUnderway
  <2>3. CASE \E q \in flight : q.to = "initiator" /\ s.stale <= MaxDelay + q.age
    BY <1>13, <2>3, Zenon
  <2>4. ASSUME NEW q \in flight, q.to = "responder", q.kind = "keepalive", s.stale <= q.age,
               q # p
        PROVE  \E x \in flight' : /\ x.to = "responder" /\ x.kind = "keepalive"
                                  /\ s.stale <= x.age
    <3>1. q \in flight' BY <1>6, <2>4, Zenon
    <3> QED BY <2>4, <3>1, Zenon
  <2>5. ASSUME p.kind = "keepalive", s.stale <= p.age
        PROVE  \E q \in flight' : q.to = "initiator" /\ s.stale <= MaxDelay + q.age
    <3>1. s.stale <= MaxDelay BY <1>4, <1>9, <2>5
    <3>2. CASE Silent
      <4>1. ~ (r.outbound >= k) BY <2>5, <3>2, Zenon DEF ShouldRespond
      <4>2. ~ (s.evidence <= r.outbound)
        <5> HIDE DEF i, k
        <5> QED BY <1>4, <1>9, <2>2, <4>1
      <4>3. PICK q \in flight : q.to = "initiator"
        BY <4>1, <4>2, Zenon DEF Live, ResponderAnswers
      <4>4. q.age \in Nat BY <1>9, Zenon
      <4>5. s.stale <= MaxDelay + q.age BY <1>4, <1>9, <3>1, <4>4
      <4> QED BY <1>13, <4>3, <4>5, Zenon
    <3>3. ASSUME NEW q, Answer(q)
          PROVE  q \in flight' /\ q.to = "initiator" /\ s.stale <= MaxDelay + q.age
      <4>1. q \in flight' /\ q.to = "initiator" /\ q.age = 0 BY <3>3, Zenon
      <4>2. s.stale <= MaxDelay + 0 BY <1>4, <1>9, <3>1
      <4> QED BY <4>1, <4>2, Zenon
    <3> QED BY <1>6, <3>2, <3>3, Zenon
  <2> QED BY <2>1, <2>3, <2>4, <2>5, Zenon DEF Live, RecoveryUnderway
<1> QED BY <1>10, <1>11, <1>12, <1>14, <1>15, Zenon DEF Live

\* A unit passes: ages grow together.
LEMMA LivePasses ==
  ASSUME KeepaliveAssumption, TimingAssumption, Fixed, TypeOK, ~ instance.lossy, Live,
         MaxDelay' = MaxDelay, Pass
  PROVE  Live'
<1> DEFINE s == end["initiator"]
           r == end["responder"]
           t == end'["initiator"]
           u == end'["responder"]
           i == KeepaliveInterval(rtt["initiator"])
           k == KeepaliveInterval(rtt["responder"])
           l == Longest(rtt["initiator"])
<1>1. rtt' = rtt /\ due = {} /\ due' = Ends BY Zenon DEF Pass
<1>2. s \in End /\ r \in End BY EndNames, Zenon DEF TypeOK
<1>3. s.state # "closed" /\ r.state = "active" BY Zenon DEF Live, BothUp
<1>4. /\ i \in Nat /\ k \in Nat /\ l \in Nat /\ MaxDelay \in Nat /\ 2 * MaxDelay < i
      /\ SendCap \in Nat /\ l < SendCap /\ k < SendCap
      /\ Cap \in Nat /\ 2 * i < Cap
  BY LiveNumbers
<1>5. t = Aged(s) /\ u = Aged(r) BY <1>3, PassEnds, EndNames, Zenon
<1>6. /\ t.state = s.state /\ u.state = r.state
      /\ t.evidence = Older(s.evidence, Cap) /\ u.evidence = Older(r.evidence, Cap)
      /\ t.outbound = Older(s.outbound, SendCap) /\ u.outbound = Older(r.outbound, SendCap)
      /\ t.keepalive = Older(s.keepalive, SendCap)
      /\ s.state = "stale" => t.stale = Older(s.stale, Cap)
  BY <1>2, <1>5, AgedTyped
<1>7. /\ s.evidence \in 0 .. Cap /\ r.evidence \in 0 .. Cap /\ s.stale \in 0 .. Cap
      /\ s.outbound \in 0 .. SendCap /\ r.outbound \in 0 .. SendCap
      /\ s.keepalive \in 0 .. SendCap
  BY <1>2, Zenon DEF End
<1>8. \A p \in flight : p \in PacketType /\ p.age \in Nat
  BY <1>4 DEF TypeOK, PacketType
<1>9. \A p \in flight : \E q \in flight' : q.to = p.to /\ q.kind = p.kind /\ q.age = p.age + 1
  <2>1. ASSUME NEW p \in flight
        PROVE  \E q \in flight' : q.to = p.to /\ q.kind = p.kind /\ q.age = p.age + 1
    <3>1. [p EXCEPT !.age = @ + 1] \in flight' BY PassPackets, Zenon
    <3>2. p \in PacketType BY <1>8, Zenon
    <3>3. /\ [p EXCEPT !.age = @ + 1].to = p.to /\ [p EXCEPT !.age = @ + 1].kind = p.kind
          /\ [p EXCEPT !.age = @ + 1].age = p.age + 1
      BY <3>2, Zenon DEF PacketType
    <3> QED BY <3>1, <3>3, Zenon
  <2> QED BY <2>1, Zenon
<1>10. /\ s.outbound <= s.keepalive /\ s.outbound < l
  BY <1>1, Zenon DEF Live, InitiatorSends
<1>11. /\ \A q \in flight' : q.kind # "close"
       /\ BothUp'
  <2>1. \A q \in flight' : q.kind # "close" BY PassPackets, Zenon DEF Live, BothUp
  <2> QED BY <1>3, <1>6, <2>1, Zenon DEF BothUp
<1>12. StaleTime(rtt'["initiator"]) = 2 * i /\ Longest(rtt'["initiator"]) = l
       /\ KeepaliveInterval(rtt'["responder"]) = k
  BY <1>1, LiveNumbers, Zenon
<1>13. RecoveryUnderway /\ ResponderHears /\ ResponderAnswers BY Zenon DEF Live
<1>14. s.state = "stale" => /\ s.stale <= 2 * MaxDelay
                            /\ s.outbound <= s.stale /\ s.evidence >= 2 * i
  BY <1>13, LiveMargins, LiveNumbers, Zenon DEF RecoveryUnderway
<1>15. /\ \/ r.evidence <= s.outbound
          \/ \E p \in flight : p.to = "responder" /\ r.evidence <= l + p.age
       /\ r.outbound >= k \/ s.evidence <= r.outbound \/ \E p \in flight : p.to = "initiator"
  BY <1>13, Zenon DEF ResponderHears, ResponderAnswers
<1>16. s.state = "stale" =>
          \/ \E p \in flight : p.to = "responder" /\ p.kind = "keepalive" /\ s.stale <= p.age
          \/ \E p \in flight : p.to = "initiator" /\ s.stale <= MaxDelay + p.age
  BY <1>13, Zenon DEF RecoveryUnderway
<1> HIDE DEF s, r, t, u, i, k, l
<1>17. t.outbound = s.outbound + 1 /\ t.outbound \in Nat
  BY <1>4, <1>6, <1>7, <1>10 DEF Older
<1>18. InitiatorSends'
  <2>1. t.outbound <= t.keepalive BY <1>4, <1>6, <1>7, <1>10, <1>17 DEF Older
  <2>2. t.outbound <= l BY <1>4, <1>7, <1>10, <1>17
  <2>3. "initiator" \in due' BY <1>1, EndNames, Zenon
  <2> QED BY <1>12, <2>1, <2>2, <2>3, Zenon DEF InitiatorSends, t
<1>19. u.evidence \in Nat /\ u.evidence <= r.evidence + 1 BY <1>4, <1>6, <1>7 DEF Older
<1>20. ResponderHears'
  <2>1. CASE r.evidence <= s.outbound
    <3>1. u.evidence <= t.outbound BY <1>7, <1>17, <1>19, <2>1
    <3> QED BY <3>1, Zenon DEF ResponderHears, t, u
  <2>2. CASE \E p \in flight : p.to = "responder" /\ r.evidence <= l + p.age
    <3>1. PICK p \in flight : p.to = "responder" /\ r.evidence <= l + p.age BY <2>2, Zenon
    <3>2. PICK q \in flight' : q.to = p.to /\ q.age = p.age + 1 BY <1>9, Zenon
    <3>3. p.age \in Nat BY <1>8, Zenon
    <3>4. u.evidence <= l + q.age BY <1>4, <1>7, <1>19, <3>1, <3>2, <3>3
    <3> QED BY <1>12, <3>1, <3>2, <3>4, Zenon DEF ResponderHears, u
  <2> QED BY <1>15, <2>1, <2>2, Zenon
<1>21. ResponderAnswers'
  <2>1. CASE r.outbound >= k
    <3>1. u.outbound >= k BY <1>4, <1>6, <1>7, <2>1 DEF Older
    <3> QED BY <1>12, <3>1, Zenon DEF ResponderAnswers, u
  <2>2. CASE ~ (r.outbound >= k) /\ s.evidence <= r.outbound
    <3>1. t.evidence <= u.outbound BY <1>4, <1>6, <1>7, <2>2 DEF Older
    <3> QED BY <3>1, Zenon DEF ResponderAnswers, t, u
  <2>3. CASE \E p \in flight : p.to = "initiator" BY <1>9, <2>3, Zenon DEF ResponderAnswers
  <2> QED BY <1>15, <2>1, <2>2, <2>3, Zenon
<1>22. ASSUME s.state = "stale" PROVE RecoveryUnderway'
  <2>1. t.stale = s.stale + 1 BY <1>4, <1>6, <1>7, <1>14, <1>22 DEF Older
  <2>2. t.outbound <= t.stale BY <1>7, <1>14, <1>17, <1>22, <2>1
  <2>3. t.evidence >= 2 * i BY <1>4, <1>6, <1>7, <1>14, <1>22 DEF Older
  <2>4. CASE \E p \in flight : p.to = "responder" /\ p.kind = "keepalive" /\ s.stale <= p.age
    <3>1. PICK p \in flight : p.to = "responder" /\ p.kind = "keepalive" /\ s.stale <= p.age
      BY <2>4, Zenon
    <3>2. PICK q \in flight' : q.to = p.to /\ q.kind = p.kind /\ q.age = p.age + 1 BY <1>9, Zenon
    <3>3. t.stale <= q.age BY <1>7, <1>8, <2>1, <3>1, <3>2
    <3> QED BY <1>12, <2>2, <2>3, <3>1, <3>2, <3>3 DEF RecoveryUnderway, t
  <2>5. CASE \E p \in flight : p.to = "initiator" /\ s.stale <= MaxDelay + p.age
    <3>1. PICK p \in flight : p.to = "initiator" /\ s.stale <= MaxDelay + p.age BY <2>5, Zenon
    <3>2. PICK q \in flight' : q.to = p.to /\ q.age = p.age + 1 BY <1>9, Zenon
    <3>3. p.age \in Nat BY <1>8, Zenon
    <3>4. t.stale <= MaxDelay' + q.age BY <1>4, <1>7, <2>1, <3>1, <3>2, <3>3
    <3> QED BY <1>12, <2>2, <2>3, <3>1, <3>2, <3>4, Zenon DEF RecoveryUnderway, t
  <2> QED BY <1>16, <1>22, <2>4, <2>5, Zenon
<1>23. ASSUME s.state # "stale" PROVE RecoveryUnderway'
  BY <1>6, <1>23, Zenon DEF RecoveryUnderway, t
<1> QED BY <1>11, <1>18, <1>20, <1>21, <1>22, <1>23, Zenon DEF Live

LEMMA LiveInit ==
  ASSUME KeepaliveAssumption, TimingAssumption, Init, Fixed, TypeOK, ~ instance.lossy
  PROVE  Live
<1>1. PICK proof \in 0 .. MaxDelay, request \in 0 .. MaxDelay, report \in 0 .. MaxDelay :
        end = [initiator |-> [state |-> "active", inbound |-> request + proof + report,
                              evidence |-> report, outbound |-> report,
                              keepalive |-> SendCap, stale |-> 0, closed |-> 0],
               responder |-> [state |-> "active", inbound |-> proof + report, evidence |-> 0,
                              outbound |-> proof + report, keepalive |-> SendCap,
                              stale |-> 0, closed |-> 0]]
  BY Zenon DEF Init
<1> DEFINE i == KeepaliveInterval(rtt["initiator"])
           l == Longest(rtt["initiator"])
<1>2. /\ i \in Nat /\ l \in Nat /\ i < l /\ MaxDelay \in Nat /\ 2 * MaxDelay < i
      /\ SendCap \in Nat /\ l < SendCap
  BY LiveNumbers, Zenon
<1> HIDE DEF i, l
<1>3. report <= l /\ report <= SendCap /\ 0 <= report /\ report <= proof + report BY <1>2
<1>4. flight = {} /\ due = Ends BY Zenon DEF Init
<1>5. BothUp /\ RecoveryUnderway BY <1>1, <1>4, Zenon DEF BothUp, RecoveryUnderway
<1>6. InitiatorSends BY <1>1, <1>3, <1>4, EndNames, Zenon DEF InitiatorSends, l
<1>7. ResponderHears BY <1>1, <1>3, Zenon DEF ResponderHears
<1>8. ResponderAnswers BY <1>1, <1>3, Zenon DEF ResponderAnswers
<1> QED BY <1>5, <1>6, <1>7, <1>8, Zenon DEF Live

\* The invariant of a live Link is inductive.
LEMMA LiveStep ==
  ASSUME KeepaliveAssumption, TimingAssumption, LiveInv, [Next]_vars
  PROVE  LiveInv'
<1>1. CASE Next
  <2>1. Fixed' /\ TypeOK' BY <1>1, TypeStep, Zenon DEF LiveInv
  <2>2. MaxDelay' = MaxDelay /\ End' = End /\ instance' = instance BY <1>1, Constancy, Zenon
  <2>3. SUFFICES ASSUME ~ instance.lossy PROVE Live' BY <2>1, <2>2, Zenon DEF LiveInv
  <2>4. Fixed /\ TypeOK /\ Live BY <2>3, Zenon DEF LiveInv
  <2>5. ASSUME NEW e \in Ends, Tick(e) PROVE Live'
    BY <2>1, <2>2, <2>3, <2>4, <2>5, InitiatorTicks, ResponderTicks, Zenon DEF Ends
  <2>6. ASSUME NEW e \in Ends, SendData(e) PROVE Live'
    BY <2>1, <2>2, <2>3, <2>4, <2>6, LiveSends, Zenon
  <2>7. ASSUME NEW p \in flight, Receive(p) PROVE Live'
    <3>1. p.to = "initiator" \/ p.to = "responder" BY <2>4, Zenon DEF TypeOK, PacketType, Ends
    <3> QED BY <2>1, <2>2, <2>3, <2>4, <2>7, <3>1, InitiatorReceives, ResponderReceives, Zenon
  <2>8. ASSUME Pass PROVE Live' BY <2>2, <2>3, <2>4, <2>8, LivePasses, Zenon
  <2>9. \A p \in flight : ~ Lose(p) BY <2>3, Zenon DEF Lose
  <2> QED BY <1>1, <2>5, <2>6, <2>7, <2>8, <2>9, Zenon DEF Next
<1>2. CASE UNCHANGED vars
  <2>1. Fixed' /\ TypeOK'
    BY <1>2 DEF vars, LiveInv, Fixed, TypeOK, Rtts, End, PacketType, Cap, SendCap, MaxRtt,
       MaxDelay
  <2>2. Live => Live'
    BY <1>2, Zenon DEF vars, Live, BothUp, InitiatorSends, ResponderHears, ResponderAnswers,
       RecoveryUnderway, MaxDelay
  <2> QED BY <1>2, <2>1, <2>2, Zenon DEF LiveInv, vars
<1> QED BY <1>1, <1>2, Zenon

\* should_send_keepalive_at, should_respond_to_keepalive_at and is_stale: while
\* no packet is lost and a round trip fits in an interval and in the grace
\* time, neither end ever gives the Link up, and the responder never even
\* doubts it, however little the applications send and however the ticks and
\* the crossings interleave.
THEOREM LiveLinksStayUp ==
  ASSUME KeepaliveAssumption, TimingAssumption
  PROVE  Spec => []LiveLinkStaysUp
<1>1. Init => LiveInv
  <2> SUFFICES ASSUME Init PROVE LiveInv OBVIOUS
  <2>1. Fixed /\ TypeOK BY DeadInit, Zenon DEF DeadInv
  <2> QED BY <2>1, LiveInit, Zenon DEF LiveInv
<1>2. LiveInv /\ [Next]_vars => LiveInv' BY LiveStep, Zenon
<1>3. LiveInv => LiveLinkStaysUp
  BY Zenon DEF LiveInv, Live, BothUp, LiveLinkStaysUp, LiveLinkKept, ResponderNeverStale, Ends
<1> QED BY <1>1, <1>2, <1>3, PTL DEF Spec

=============================================================================
