------------------------------ MODULE Channel ------------------------------
(***************************************************************************)
(* One direction of a Channel over a Link: `Channel` and `LinkChannel` of  *)
(* crates/rns-protocol/src/channel.rs, driven by the LinkManager of        *)
(* crates/rns-runtime/src/link_manager.rs at both ends.                    *)
(*                                                                         *)
(* The n-th message sent is the number n.  It travels under the sequence   *)
(* number (n - 1) % SEQ_MODULUS; the packet of its t-th transmission is    *)
(* encrypted afresh, so its hash is <<n, t>>.  Packets and proofs that     *)
(* were handed to the transport may be lost, delayed, reordered or         *)
(* duplicated (inbound Channel packets bypass the transport's duplicate    *)
(* filter): both are sets that an element never leaves.                    *)
(***************************************************************************)
EXTENDS ChannelWindow, Sequences, FiniteSets

CONSTANTS
    SEQ_MODULUS,     \* size of the sequence-number space (0x10000)
    MAX_TRIES,       \* transmissions of one envelope
    Types,           \* message types the sending application uses
    Registered,      \* those the receiving application has registered
    MaxMessages,     \* bound: messages sent in one behaviour
    Horizon          \* no packet arrives this many messages early or late

ASSUME ChannelAssumption ==
    /\ SEQ_MODULUS \in Nat \ {0}
    /\ MAX_TRIES \in Nat \ {0}
    /\ Registered \subseteq Types
    /\ MaxMessages \in Nat
    /\ Horizon \in Nat \ {0, 1}
    /\ Horizon + WINDOW_MAX <= SEQ_MODULUS

VARIABLES
    tx_state,                \* the sender's channel: active, shutdown, closed
    sent,                    \* messages sent so far
    next_tx_sequence,
    tx_ring,                 \* envelopes from the oldest one not delivered
    window,
    outbound_packet_hashes,  \* packet hash |-> sequence, as a set of pairs
    rx_state,
    next_rx_sequence,
    rx_ring,                 \* envelopes received ahead of a gap
    delivered,               \* messages handed to the receiving application
    packets,                 \* Channel packets given to the transport
    proofs                   \* hashes the receiver has proved

txVars == <<tx_state, sent, next_tx_sequence, tx_ring, window,
            outbound_packet_hashes>>
rxVars == <<rx_state, next_rx_sequence, rx_ring, delivered>>
vars == <<txVars, rxVars, packets, proofs>>

States == {"active", "shutdown", "closed"}
Sequences16 == 0 .. SEQ_MODULUS - 1
Envelope == [msg : Nat, type : Types, sequence : Sequences16,
             delivered : BOOLEAN, tries : Nat]
Packet == [msg : Nat, type : Types, sequence : Sequences16, try : Nat]
PacketHash(p) == <<p.msg, p.try>>

Init ==
    /\ tx_state = "active" /\ rx_state = "active"
    /\ sent = 0
    /\ next_tx_sequence = 0 /\ next_rx_sequence = 0
    /\ tx_ring = <<>> /\ rx_ring = {}
    /\ \E rtt \in RttClass : window = NewWindow(rtt)
    /\ outbound_packet_hashes = {}
    /\ delivered = <<>>
    /\ packets = {} /\ proofs = {}

-----------------------------------------------------------------------------
(* The sender.                                                             *)

NextSequence(s) == (s + 1) % SEQ_MODULUS

Outstanding(ring) == {i \in DOMAIN ring : ~ ring[i].delivered}

is_ready_to_send ==
    /\ tx_state = "active"
    /\ Cardinality(Outstanding(tx_ring)) <
         (IF window.window < WINDOW_MAX THEN window.window ELSE WINDOW_MAX)

\* The packet of an envelope's latest transmission, and its hash entry.
PacketOf(env) == [msg |-> env.msg, type |-> env.type,
                  sequence |-> env.sequence, try |-> env.tries]
HashEntry(env) == <<PacketHash(PacketOf(env)), env.sequence>>

\* send_channel_message.  A closed channel, a full window or a full transport
\* queue is an error that changes nothing.
SendChannelMessage(type) ==
    /\ sent < MaxMessages
    /\ Len(tx_ring) < Horizon       \* an envelope settles within Horizon sends
    /\ is_ready_to_send
    /\ LET env == [msg |-> sent + 1, type |-> type,
                   sequence |-> next_tx_sequence,
                   delivered |-> FALSE, tries |-> 1]
       IN  /\ tx_ring' = Append(tx_ring, env)
           /\ outbound_packet_hashes' =
                outbound_packet_hashes \cup {HashEntry(env)}
           /\ packets' = packets \cup {PacketOf(env)}
    /\ sent' = sent + 1
    /\ next_tx_sequence' = NextSequence(next_tx_sequence)
    /\ UNCHANGED <<tx_state, window, rxVars, proofs>>

\* The first envelope with the sequence number.
Find(ring, sequence) ==
    CHOOSE i \in DOMAIN ring :
        /\ ring[i].sequence = sequence
        /\ \A j \in 1 .. i - 1 : ring[j].sequence # sequence

\* Drop the delivered envelopes at the front.
PopFront(ring) == IF ring = <<>> THEN ring ELSE Tail(ring)
PopDelivered(ring) ==
    LET out   == Outstanding(ring)
        first == CHOOSE i \in out : \A j \in out : i <= j
    IN  IF out = {} THEN <<>> ELSE SubSeq(ring, first, Len(ring))

\* Forget every transmission of the proved envelope.
UntrackOne(entry) == outbound_packet_hashes \ {entry}
Untrack(entry) == {other \in outbound_packet_hashes : other[2] # entry[2]}

\* LinkChannel::delivered_by_packet_hash, from handle_link_packet_proof.  A
\* proof whose hash is not tracked is not a Channel proof and is passed on.
HandleLinkPacketProof(hash, rtt) ==
    /\ tx_state # "closed"
    /\ hash \in proofs
    /\ \E entry \in outbound_packet_hashes :
        /\ entry[1] = hash
        /\ outbound_packet_hashes' = Untrack(entry)
        /\ tx_ring' = PopDelivered(
             [tx_ring EXCEPT ![Find(tx_ring, entry[2])].delivered = TRUE])
    /\ window' = Grow(window, rtt)
    /\ UNCHANGED <<tx_state, sent, next_tx_sequence, rxVars, packets, proofs>>

\* Removing an ActiveLink drops its channel.
DropTxChannel ==
    /\ tx_ring' = <<>>
    /\ outbound_packet_hashes' = {}
    /\ UNCHANGED <<sent, next_tx_sequence, window>>

Exhausted(tries) == tries > MAX_TRIES

\* The Channel part of on_tick: every envelope whose proof timer has expired
\* (the sequences `timed_out`) is counted and sent again, or closes the Link
\* after its last try.  The retransmission is a try_send whose failure nobody
\* sees, which the network's freedom to lose a packet covers.
OnTick(timed_out) ==
    LET timed  == {Find(tx_ring, s) : s \in timed_out}
        ring   == [i \in DOMAIN tx_ring |->
                     IF i \in timed THEN [tx_ring[i] EXCEPT !.tries = @ + 1]
                     ELSE tx_ring[i]]
        resent == {ring[i] : i \in {j \in timed : ~ Exhausted(ring[j].tries)}}
    IN  /\ tx_state = "active"
        /\ timed_out # {}
        /\ packets' = packets \cup {PacketOf(env) : env \in resent}
        /\ IF \E i \in timed : Exhausted(ring[i].tries)
           THEN tx_state' = "closed" /\ DropTxChannel
           ELSE /\ tx_ring' = ring
                /\ window' = ShrinkBy(window, Cardinality(resent))
                /\ outbound_packet_hashes' = outbound_packet_hashes
                     \cup {HashEntry(env) : env \in resent}
                /\ UNCHANGED <<tx_state, sent, next_tx_sequence>>
        /\ UNCHANGED <<rxVars, proofs>>

\* timed_out_sequences: any of these timers may have expired.
SequencesWithTriesLeft ==
    {tx_ring[i].sequence :
        i \in {j \in Outstanding(tx_ring) : tx_ring[j].tries < MAX_TRIES}}
OutstandingSequences == {tx_ring[i].sequence : i \in Outstanding(tx_ring)}

\* The application shuts the channel down, or the Link closes.
ShutdownTx ==
    /\ tx_state = "active"
    /\ tx_state' = "shutdown"
    /\ DropTxChannel
    /\ UNCHANGED <<rxVars, packets, proofs>>

CloseTxLink ==
    /\ tx_state # "closed"
    /\ tx_state' = "closed"
    /\ DropTxChannel
    /\ UNCHANGED <<rxVars, packets, proofs>>

-----------------------------------------------------------------------------
(* The receiver.                                                           *)

AcceptAnySequence(sequence) == sequence \in Sequences16
is_acceptable_sequence(sequence) ==
    LET window_overflow == (next_rx_sequence + WINDOW_MAX) % SEQ_MODULUS
    IN  IF sequence >= next_rx_sequence
        THEN sequence <= next_rx_sequence + WINDOW_MAX
        ELSE /\ window_overflow < next_rx_sequence
             /\ sequence <= window_overflow

\* emplace_envelope.  The ring is kept in order of distance from the next
\* sequence, but only looked up by sequence number: a set.
Emplace(p) ==
    IF \E e \in rx_ring : e.sequence = p.sequence THEN rx_ring
    ELSE rx_ring \cup {[msg |-> p.msg, sequence |-> p.sequence]}

Ahead(k) == (next_rx_sequence + k) % SEQ_MODULUS
Holds(ring, sequence) == \E e \in ring : e.sequence = sequence

\* How many envelopes the receive loop takes off the ring.
DrainCountOne(ring) == IF Holds(ring, next_rx_sequence) THEN 1 ELSE 0
DrainCount(ring) ==
    CHOOSE k \in 0 .. WINDOW_MAX + 1 :
        /\ \A j \in 0 .. k - 1 : Holds(ring, Ahead(j))
        /\ ~ Holds(ring, Ahead(k))

Receive(p) ==
    LET ring == Emplace(p)
        k    == DrainCount(ring)
        at(j) == CHOOSE e \in ring : e.sequence = Ahead(j - 1)
    IN  /\ delivered' = delivered \o [j \in 1 .. k |-> at(j).msg]
        /\ next_rx_sequence' = Ahead(k)
        /\ rx_ring' = ring \ {at(j) : j \in 1 .. k}

\* The network and the application keep a packet and the receiver within
\* Horizon messages of each other: fewer than a sequence-number wrap.
Timely(p) == /\ p.msg < Len(delivered) + 1 + Horizon
             /\ Len(delivered) + 1 < p.msg + Horizon

\* The Channel context of handle_inbound_packet.  The packet is proved before
\* the channel looks at it; the channel then refuses a type it does not know
\* and drops a sequence outside its window.  (A proof the transport will not
\* take leaves everything unchanged.)
InboundChannel(p) ==
    /\ rx_state # "closed"
    /\ p \in packets
    /\ Timely(p)
    /\ proofs' = proofs \cup {PacketHash(p)}
    /\ IF /\ rx_state = "active"
          /\ p.type \in Registered
          /\ is_acceptable_sequence(p.sequence)
       THEN Receive(p)
       ELSE UNCHANGED <<delivered, next_rx_sequence, rx_ring>>
    /\ UNCHANGED <<rx_state, txVars, packets>>

DropRxChannel(state) ==
    /\ rx_state' = state
    /\ rx_ring' = {}
    /\ UNCHANGED <<next_rx_sequence, delivered, txVars, packets, proofs>>

ShutdownRx == rx_state = "active" /\ DropRxChannel("shutdown")
CloseRxLink == rx_state # "closed" /\ DropRxChannel("closed")

-----------------------------------------------------------------------------
Next ==
    \/ \E type \in Types : SendChannelMessage(type)
    \/ \E hash \in proofs, rtt \in RttClass : HandleLinkPacketProof(hash, rtt)
    \/ \E timed_out \in SUBSET OutstandingSequences : OnTick(timed_out)
    \/ ShutdownTx
    \/ CloseTxLink
    \/ \E p \in packets : InboundChannel(p)
    \/ ShutdownRx
    \/ CloseRxLink

Spec == Init /\ [][Next]_vars

\* Ticks keep coming and an unanswered timer expires, for every envelope.
TickFor(n) ==
    \E timed_out \in SUBSET OutstandingSequences :
        /\ \E i \in Outstanding(tx_ring) :
              tx_ring[i].msg = n /\ tx_ring[i].sequence \in timed_out
        /\ OnTick(timed_out)

FairSpec == Spec /\ \A n \in 1 .. MaxMessages : WF_vars(TickFor(n))

-----------------------------------------------------------------------------
(* Properties.                                                             *)

TypeOK ==
    /\ tx_state \in States /\ rx_state \in States
    /\ sent \in Nat
    /\ next_tx_sequence \in Sequences16 /\ next_rx_sequence \in Sequences16
    /\ tx_ring \in Seq(Envelope)
    /\ window \in WindowType
    /\ outbound_packet_hashes \subseteq (Nat \X Nat) \X Sequences16
    /\ rx_ring \subseteq [msg : Nat, sequence : Sequences16]
    /\ delivered \in Seq(Nat)
    /\ packets \subseteq Packet
    /\ proofs \subseteq Nat \X Nat

Waiting == {tx_ring[i].msg : i \in Outstanding(tx_ring)}
Arrived == {hash[1] : hash \in proofs}

\* `Channel::receive` hands messages up once each and in the order they were
\* sent, however packets are lost, repeated and reordered and although the
\* sequence number wraps.
InOrder == \A i \in DOMAIN delivered : delivered[i] = i

\* The reorder buffer holds only messages ahead of a gap, inside the admission
\* window, each once: after every `receive`, nothing deliverable is left in it.
RingAheadOfGap ==
    /\ \A e \in rx_ring :
         e.msg \in Len(delivered) + 2 .. Len(delivered) + 1 + WINDOW_MAX
    /\ \A e, f \in rx_ring : e.sequence = f.sequence => e = f

\* The sender stops waiting for a message (marks its envelope Delivered, or
\* pops it) only after the receiver proved a packet of that very message: the
\* map from packet hashes to sequence numbers never credits another message.
SettledWasProved ==
    tx_state = "active" => (1 .. sent) \ Waiting \subseteq Arrived

\* `outbound_packet_hashes` holds exactly the transmissions of the messages
\* waited for: a proof of any attempt finds its envelope, and a delivered
\* message leaves no entry behind.
HashesTrackOutstanding ==
    outbound_packet_hashes =
        UNION {{<<<<tx_ring[i].msg, t>>, tx_ring[i].sequence>> :
                   t \in 1 .. tx_ring[i].tries} : i \in Outstanding(tx_ring)}

\* "Maximum send attempts per envelope, including its initial transmission."
AttemptsBounded == \A p \in packets : p.try \in 1 .. MAX_TRIES

\* No more messages are in flight than the receiver can buffer, although the
\* window shrinks and grows while they are.
OutstandingBounded == Cardinality(Outstanding(tx_ring)) <= WINDOW_MAX

\* The channel implements the ordered channel.
Ordered == INSTANCE OrderedChannel WITH
    open <- tx_state = "active",
    waiting <- Waiting,
    arrived <- Arrived

\* Every behaviour of the two ends is one of the abstract ordered channel.
ImplementsOrderedChannel == Ordered!Spec

\* Every message is acknowledged in the end, or the channel gives up: no
\* envelope waits for ever, because each timeout uses up one of its tries.
EveryMessageSettles ==
    \A n \in 1 .. MaxMessages :
        sent >= n ~> (n \notin Waiting \/ tx_state # "active")

\* The sender's account of its transmissions is exact and bounded.
SenderExact == HashesTrackOutstanding /\ AttemptsBounded /\ OutstandingBounded
=============================================================================
