------------------------------ MODULE Keepalive ------------------------------
(***************************************************************************)
(* How the two ends of an established Link decide that the other is still  *)
(* there: KeepaliveState of rns-link/src/keepalive.rs, the Active and      *)
(* Stale arms of Link::tick_at, and what the initiator's session actor and *)
(* the responder's LinkManager do on their one-second ticks.               *)
(*                                                                         *)
(* Time is discrete, one unit is the tick period.  The instants the code   *)
(* keeps are held as ages, which stop growing beyond every                 *)
(* threshold they are compared with.  Each end ticks once in every unit,   *)
(* in either order and before or after any delivery of that unit; a packet *)
(* crosses in at most MaxDelay units, or is lost in a lossy instance.      *)
(* Round trip times are in milliseconds; intervals are the code's, rounded *)
(* down to the unit.                                                       *)
(***************************************************************************)
EXTENDS Integers, FiniteSets

CONSTANT Instances      \* the Links considered

Ends == {"initiator", "responder"}

VARIABLES
    instance,
    rtt,      \* what each end measured when the Link was established
    jittered, \* the initiator's interval with its jitter
    end,      \* per end: state, the ages of its instants and (ghost) of its closing
    flight,   \* packets on their way, with the units each has been
    due       \* the ends that have not ticked in this unit

vars == <<instance, rtt, jittered, end, flight, due>>

Rtts == instance.rtts
MaxDelay == instance.delay
Traffic == instance.traffic

Peer(e) == IF e = "initiator" THEN "responder" ELSE "initiator"

Clamp(x, lo, hi) == IF x < lo THEN lo ELSE IF x > hi THEN hi ELSE x

-----------------------------------------------------------------------------
(* keepalive.rs *)

\* update_from_rtt: 360 s at a round trip of 1.75 s, never under 5 s.
KeepaliveInterval(ms) == Clamp((ms * 360) \div 1750, 5, 360)

StaleTime(ms) == 2 * KeepaliveInterval(ms)

\* stale_grace_timeout: four round trips and five seconds.
StaleGrace(ms) == (4 * ms) \div 1000 + 5

\* The +-10 % of update_from_rtt, with the floor of should_send_keepalive_at,
\* in whole units: a fraction waits for the next tick.
Jittered(ms) ==
    LET interval == KeepaliveInterval(ms)
    IN  Clamp(interval - interval \div 10, 5, interval) .. interval + (interval + 9) \div 10

\* An instance: the round trip times an end may have measured (ms), the units
\* a packet may be on its way, the ends whose application may send data, and
\* whether packets may be lost.  No packet takes longer than an interval.
KeepaliveAssumption ==
    \A x \in Instances :
        /\ x.rtts \subseteq Nat
        /\ \E ms \in x.rtts : \A other \in x.rtts : other <= ms
        /\ x.delay \in Nat
        /\ \A ms \in x.rtts : x.delay <= KeepaliveInterval(ms)
        /\ x.traffic \subseteq Ends
        /\ x.lossy \in BOOLEAN

\* What keeps the Link of two responsive ends up: a packet and its answer cross
\* within the grace time and within an interval, and the responder, whose
\* interval decides which keepalives it answers, did not measure so much more
\* than the initiator that its interval exceeds the initiator's stale time.
TimingAssumption ==
    \A x \in Instances : ~ x.lossy =>
        \A ms, other \in x.rtts :
            /\ 2 * x.delay < StaleGrace(ms)
            /\ 2 * x.delay < KeepaliveInterval(ms)
            /\ KeepaliveInterval(other) <= StaleTime(ms)

MaxRtt == CHOOSE ms \in Rtts : \A other \in Rtts : other <= ms
Cap == StaleTime(MaxRtt) + StaleGrace(MaxRtt) + MaxDelay + 3
SendCap == 2 * KeepaliveInterval(MaxRtt)

ShouldSend(e) ==
    /\ e = "initiator"
    /\ end[e].inbound >= jittered \/ end[e].outbound >= jittered
    /\ end[e].keepalive >= jittered

RespondsRarely(e) ==
    /\ e = "responder"
    /\ end[e].outbound >= 4 * KeepaliveInterval(rtt[e])
ShouldRespond(e) ==
    /\ e = "responder"
    /\ end[e].outbound >= KeepaliveInterval(rtt[e])

\* The age of the latest evidence of the peer: inbound traffic, a proof or
\* the activation of the Link.
Silence(e) == end[e].evidence

\* is_stale counting the end's own transmissions as evidence
IsStaleUnlessSending(e) ==
    /\ Silence(e) >= StaleTime(rtt[e])
    /\ end[e].outbound >= StaleTime(rtt[e])
IsStale(e) == Silence(e) >= StaleTime(rtt[e])

-----------------------------------------------------------------------------
Packet(to, kind) == [to |-> to, kind |-> kind, age |-> 0]

\* Both ends are Active: the responder just read the round trip time and
\* takes the greater of it and its own; its LRPROOF counts as transmission.
Init ==
    /\ instance \in Instances
    /\ rtt \in [Ends -> Rtts]
    /\ rtt["initiator"] <= rtt["responder"]
    /\ jittered \in Jittered(rtt["initiator"])
    /\ \E proof \in 0 .. MaxDelay, request \in 0 .. MaxDelay, report \in 0 .. MaxDelay :
         end = [initiator |-> [state |-> "active", inbound |-> request + proof + report,
                               evidence |-> report,
                               outbound |-> report, keepalive |-> SendCap, stale |-> 0, closed |-> 0],
                responder |-> [state |-> "active", inbound |-> proof + report,
                               evidence |-> 0,
                               outbound |-> proof + report, keepalive |-> SendCap, stale |-> 0, closed |-> 0]]
    /\ flight = {}
    /\ due = Ends

Sends(packets) == flight' = flight \union packets

\* record_tx and record_tx_keepalive
Transmitted(s) == [s EXCEPT !.outbound = 0]
TransmittedKeepalive(s) == [s EXCEPT !.outbound = 0, !.keepalive = 0]

\* Link::record_inbound: a Stale Link recovers.
Inbound(s) ==
    IF s.state = "stale"
    THEN [s EXCEPT !.inbound = 0, !.evidence = 0, !.state = "active", !.stale = 0]
    ELSE [s EXCEPT !.inbound = 0, !.evidence = 0]

Closed(s) == [s EXCEPT !.state = "closed"]

-----------------------------------------------------------------------------
(* The tick of one end: link.tick() and what its owner does with the       *)
(* action it returns.                                                      *)

SendKeepalive(e) ==
    /\ end[e].state = "active" /\ ShouldSend(e)
    /\ end' = [end EXCEPT ![e] = TransmittedKeepalive(@)]
    /\ Sends({Packet(Peer(e), "keepalive")})

TransitionToStale(e) ==
    /\ end[e].state = "active" /\ ~ ShouldSend(e) /\ IsStale(e)
    /\ LET stale == [end[e] EXCEPT !.state = "stale", !.stale = 0]
       IN  IF e = "initiator"
           THEN /\ end' = [end EXCEPT ![e] = TransmittedKeepalive(stale)]
                /\ Sends({Packet(Peer(e), "keepalive")})
           ELSE /\ end' = [end EXCEPT ![e] = stale]
                /\ Sends({})

TeardownAndClose(e) ==
    /\ end[e].state = "stale" /\ end[e].stale >= StaleGrace(rtt[e])
    /\ end' = [end EXCEPT ![e] = Closed(@)]
    /\ Sends({Packet(Peer(e), "close")})

TickNothing(e) ==
    /\ \/ end[e].state = "active" /\ ~ ShouldSend(e) /\ ~ IsStale(e)
       \/ end[e].state = "stale" /\ end[e].stale < StaleGrace(rtt[e])
       \/ end[e].state = "closed"
    /\ UNCHANGED <<end, flight>>

Tick(e) ==
    /\ e \in due
    /\ due' = due \ {e}
    /\ SendKeepalive(e) \/ TransitionToStale(e) \/ TeardownAndClose(e) \/ TickNothing(e)
    /\ UNCHANGED <<rtt, jittered>>

-----------------------------------------------------------------------------
\* The application sends a packet; the Link may be Stale.  A second packet
\* in the same unit would change no age.
SendData(e) ==
    /\ e \in Traffic /\ end[e].outbound > 0
    /\ end[e].state \in {"active", "stale"}
    /\ end' = [end EXCEPT ![e] = Transmitted(@)]
    /\ Sends({Packet(Peer(e), "data")})
    /\ UNCHANGED <<rtt, jittered, due>>

\* last_keepalive_sent is read at the initiator only.
ReceiveKeepalive(p) ==
    /\ p.kind = "keepalive"
    /\ LET e == p.to
       IN  IF ShouldRespond(e)
           THEN /\ end' = [end EXCEPT ![e] = Transmitted(Inbound(@))]
                /\ flight' = (flight \ {p}) \union {Packet(Peer(e), "response")}
           ELSE /\ end' = [end EXCEPT ![e] = Inbound(@)]
                /\ flight' = flight \ {p}

\* The initiator's session proves every packet, the responder's destination
\* as its proof strategy decides; a proof is a transmission too.
ReceiveData(p) ==
    /\ p.kind = "data"
    /\ LET e == p.to
       IN  \/ /\ end' = [end EXCEPT ![e] = Transmitted(Inbound(@))]
              /\ flight' = (flight \ {p}) \union {Packet(Peer(e), "proof")}
           \/ /\ e = "responder"
              /\ end' = [end EXCEPT ![e] = Inbound(@)]
              /\ flight' = flight \ {p}

ReceiveOther(p) ==
    /\ p.kind \in {"response", "proof"}
    /\ end' = [end EXCEPT ![p.to] = Inbound(@)]
    /\ flight' = flight \ {p}

ReceiveClose(p) ==
    /\ p.kind = "close"
    /\ end' = [end EXCEPT ![p.to] = Closed(@)]
    /\ flight' = flight \ {p}

\* The Link is no longer in the owner's table.
ReceiveAfterClose(p) ==
    /\ flight' = flight \ {p}
    /\ UNCHANGED end

Receive(p) ==
    /\ \/ /\ end[p.to].state # "closed"
          /\ ReceiveKeepalive(p) \/ ReceiveData(p) \/ ReceiveOther(p) \/ ReceiveClose(p)
       \/ end[p.to].state = "closed" /\ ReceiveAfterClose(p)
    /\ UNCHANGED <<rtt, jittered, due>>

\* The network drops a packet.
Lose(p) ==
    /\ instance.lossy
    /\ flight' = flight \ {p}
    /\ UNCHANGED <<rtt, jittered, end, due>>

\* A unit passes once both ends have ticked and no packet is overdue.
Older(n, cap) == IF n < cap THEN n + 1 ELSE cap

Pass ==
    /\ due = {}
    /\ \A p \in flight : p.age < MaxDelay
    /\ end' = [e \in Ends |->
                 IF end[e].state = "closed"
                 THEN [end[e] EXCEPT !.closed = Older(@, Cap)]
                 ELSE [end[e] EXCEPT !.inbound = Older(@, Cap), !.evidence = Older(@, Cap),
                                     !.outbound = Older(@, SendCap),
                                     !.keepalive = Older(@, SendCap),
                                     !.stale = IF end[e].state = "stale"
                                               THEN Older(@, Cap) ELSE 0]]
    /\ flight' = {[p EXCEPT !.age = @ + 1] : p \in flight}
    /\ due' = Ends
    /\ UNCHANGED <<rtt, jittered>>

-----------------------------------------------------------------------------
Same == UNCHANGED instance

Next ==
    \/ \E e \in Ends : Tick(e) /\ Same
    \/ \E e \in Ends : SendData(e) /\ Same
    \/ \E p \in flight : Receive(p) /\ Same
    \/ \E p \in flight : Lose(p) /\ Same
    \/ Pass /\ Same

Spec == Init /\ [][Next]_vars

-----------------------------------------------------------------------------
End == [state : {"active", "stale", "closed"}, inbound : 0 .. Cap, evidence : 0 .. Cap,
        outbound : 0 .. SendCap, keepalive : 0 .. SendCap, stale : 0 .. Cap, closed : 0 .. Cap]
PacketType == [to : Ends, kind : {"keepalive", "response", "data", "proof", "close"},
               age : 0 .. MaxDelay]

\* The ages stay under the cap and the states are the code's.
TypeOK ==
    /\ rtt \in [Ends -> Rtts]
    /\ jittered \in Nat
    /\ end \in [Ends -> End]
    /\ flight \subseteq PacketType
    /\ due \subseteq Ends

\* While the network loses nothing, neither end gives the Link up, however
\* little the applications send: the keepalives of the initiator, the replies
\* the responder does not suppress, the stale transition's extra keepalive
\* and the grace time are together enough.
LiveLinkKept == ~ instance.lossy => \A e \in Ends : end[e].state # "closed"

\* An end that hears nothing closes the Link within its stale time and its
\* grace time, give or take the ticks the two decisions wait for (one of them
\* when a keepalive was due on the tick that would have found it stale).
\* What the end itself sends does not postpone that.
DetectionBounded ==
    \A e \in Ends :
        end[e].state # "closed" => Silence(e) <= StaleTime(rtt[e]) + StaleGrace(rtt[e]) + 2

\* A Link one end has closed is closed by the other within the time the other
\* takes to find it silent, also when the teardown packet is lost: a closed
\* Link answers nothing.
HalfOpenBounded ==
    \A e \in Ends :
        LET other == rtt[Peer(e)]
        IN  (end[e].state = "closed" /\ end[Peer(e)].state # "closed") =>
                end[e].closed <=
                    StaleTime(other) + StaleGrace(other) + MaxDelay + 2

\* The responder's stale state is never entered while the initiator's
\* keepalives arrive: its stale time, derived from a round trip at least the
\* initiator's, spans two of them.
ResponderNeverStale == ~ instance.lossy => end["responder"].state # "stale"

\* Without loss the Link of two responsive ends stays up.
LiveLinkStaysUp == TypeOK /\ LiveLinkKept /\ ResponderNeverStale

\* A dead Link does not: an end that hears nothing, or whose peer has closed,
\* closes in bounded time.
DeadLinkCloses == DetectionBounded /\ HalfOpenBounded
=============================================================================
