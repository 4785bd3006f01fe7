------------------------------ MODULE Framing -------------------------------
(***************************************************************************)
(* How packets are cut out of a stream: hdlc.rs and kiss.rs of             *)
(* rns-interface, and the fragments of its ble_peer.rs.                    *)
(*                                                                         *)
(* A peer sends packets.  A byte stream (TCP, serial, KISS TNC) reaches    *)
(* the deframer in pieces of any size, from any point on: a serial reader  *)
(* may open its port in the middle of a frame.  A GATT characteristic      *)
(* carries whole fragments in order, and a connection may end between two  *)
(* of them while the reassembly state of the peer stays.                   *)
(***************************************************************************)
EXTENDS Integers, Sequences, SequencesExt

CONSTANTS
    Loads,           \* what is sent: a codec and the packets
    MAX_FRAME_SIZE,  \* bytes of an escaped frame
    MAX_FRAGMENTS,
    Mtu,             \* of a GATT write
    MostBytes        \* the largest piece that a read returns

FramingAssumption ==
    /\ \A x \in Loads : x.codec \in {"hdlc", "kiss", "ble"} /\ x.packets # <<>>
    /\ MAX_FRAME_SIZE \in Nat /\ MAX_FRAGMENTS \in Nat /\ Mtu \in Nat /\ MostBytes \in Nat \ {0}

VARIABLES
    load,        \* the codec and the packets sent
    wire, ends,  \* the bytes or fragments they become, and where in them a packet ends
    first,       \* where the reader joins: bytes or fragments that it does not see
    at,          \* how far it has read
    lost,        \* the packet that a lost connection cut off, 0 for none
    d,           \* HdlcDeframer, RawKissDeframer
    reassembly,  \* FragmentReassembly: the slots of every total
    up           \* the packets handed up

vars == <<load, wire, ends, first, at, lost, d, reassembly, up>>

-----------------------------------------------------------------------------
(* Escaping *)

\* FLAG, ESC and what follows an ESC for each of them.
Code(codec) ==
    IF codec = "hdlc" THEN [flag |-> 126, esc |-> 125, tflag |-> 94, tesc |-> 93]
    ELSE [flag |-> 192, esc |-> 219, tflag |-> 220, tesc |-> 221]

CMD_DATA == 0
NoCommand == -1

escape(c, data) ==
    FlattenSeq([k \in 1..Len(data) |->
        CASE data[k] = c.flag -> <<c.esc, c.tflag>>
          [] data[k] = c.esc -> <<c.esc, c.tesc>>
          [] OTHER -> <<data[k]>>])

\* An unknown escape and one at the end are passed on as they are.
unescape(c, data) ==
    LET Step(r, b) ==
            IF r.escaped
            THEN [escaped |-> FALSE,
                  out |-> r.out \o (CASE b = c.tflag -> <<c.flag>>
                                      [] b = c.tesc -> <<c.esc>>
                                      [] OTHER -> <<c.esc, b>>)]
            ELSE IF b = c.esc THEN [r EXCEPT !.escaped = TRUE]
            ELSE [r EXCEPT !.out = Append(@, b)]
        end == FoldLeft(Step, [escaped |-> FALSE, out |-> <<>>], data)
    IN IF end.escaped THEN Append(end.out, c.esc) ELSE end.out

frame(codec, data) ==
    LET c == Code(codec) IN
    <<c.flag>> \o (IF codec = "kiss" THEN <<CMD_DATA>> ELSE <<>>) \o escape(c, data) \o <<c.flag>>

-----------------------------------------------------------------------------
(* Deframing *)

Fresh == [buffer |-> <<>>, in_frame |-> FALSE, command |-> NoCommand]

\* Mutant: only what one read brings is compared with the limit.
append_chunk(codec, s, chunk) ==
    LET cmd == codec = "kiss" /\ s.command = NoCommand /\ chunk # <<>>
        body == IF cmd THEN Tail(chunk) ELSE chunk
        e == IF cmd THEN [s EXCEPT !.command = Head(chunk)] ELSE s
    IN IF Len(body) > MAX_FRAME_SIZE THEN Fresh ELSE [e EXCEPT !.buffer = @ \o body]

\* The first byte of a KISS frame is its command; a frame over the limit is dropped, and the rest of
\* it up to the next flag with it.
append_in_frame(codec, s, chunk) ==
    LET cmd == codec = "kiss" /\ s.command = NoCommand /\ chunk # <<>>
        body == IF cmd THEN Tail(chunk) ELSE chunk
        e == IF cmd THEN [s EXCEPT !.command = Head(chunk)] ELSE s
    IN IF Len(s.buffer) + Len(body) > MAX_FRAME_SIZE THEN Fresh
       ELSE [e EXCEPT !.buffer = @ \o body]

\* What a read brings, piece by piece between the flags.
RECURSIVE feed(_, _, _)
feed(codec, s, data) ==
    LET c == Code(codec)
        hit == SelectInSeq(data, LAMBDA b : b = c.flag)
    IN IF hit = 0
       THEN [state |-> IF s.in_frame /\ data # <<>> THEN append_in_frame(codec, s, data) ELSE s,
             frames |-> <<>>]
       ELSE LET e == IF s.in_frame THEN append_in_frame(codec, s, SubSeq(data, 1, hit - 1)) ELSE s
                out == IF s.in_frame /\ e.buffer # <<>> THEN <<unescape(c, e.buffer)>> ELSE <<>>
                more == feed(codec,
                             [buffer |-> IF s.in_frame THEN <<>> ELSE s.buffer,
                              in_frame |-> TRUE, command |-> NoCommand],
                             SubSeq(data, hit + 1, Len(data)))
            IN [more EXCEPT !.frames = out \o @]

-----------------------------------------------------------------------------
(* Fragments *)

FRAGMENT_HEADER_LEN == 5
Start == 1
Continue == 2
End == 3

raw_packet_needs_fragment_envelope(data) == data # <<>> /\ data[1] \in {Start, Continue, End}

make_fragment(kind, seq, total, payload) ==
    <<kind, seq \div 256, seq % 256, total \div 256, total % 256>> \o payload

Chunks(data, n) ==
    [k \in 1..((Len(data) + n - 1) \div n) |->
        SubSeq(data, (k - 1) * n + 1, IF k * n < Len(data) THEN k * n ELSE Len(data))]

fragment_packet(data) ==
    LET n == Mtu - FRAGMENT_HEADER_LEN
        chunks == Chunks(data, n)
        total == Len(chunks)
        Kind(k) == IF k = 1 THEN Start ELSE IF k = total THEN End ELSE Continue
    IN IF n <= 0 \/ (Len(data) <= Mtu - 3 /\ ~raw_packet_needs_fragment_envelope(data))
       THEN <<data>>
       ELSE IF total = 1 THEN <<make_fragment(Start, 0, 2, data), make_fragment(End, 1, 2, <<>>)>>
       ELSE [k \in 1..total |-> make_fragment(Kind(k), k - 1, total, chunks[k])]

\* A header, or NoHeader for a packet that was sent as it is.
NoHeader == [kind |-> 0, seq |-> 0, total |-> 0]
parse_fragment_header(data) ==
    LET kind == data[1]
        seq == data[2] * 256 + data[3]
        total == data[4] * 256 + data[5]
    IN IF /\ Len(data) >= FRAGMENT_HEADER_LEN /\ kind \in {Start, Continue, End}
          /\ total \in 1..MAX_FRAGMENTS /\ seq < total
          /\ CASE kind = Start -> seq = 0 /\ total >= 2
               [] kind = Continue -> total >= 3 /\ seq > 0 /\ seq < total - 1
               [] kind = End -> total >= 2 /\ seq = total - 1
       THEN [kind |-> kind, seq |-> seq, total |-> total] ELSE NoHeader

Missing == <<-1>>
NoSlots == <<>>

\* consume_ble_frame: the slots it leaves and the packet it hands up, if any.
consume_ble_frame(data) ==
    LET h == parse_fragment_header(data)
        slots == IF h.kind = Start THEN [k \in 1..h.total |-> Missing] ELSE reassembly[h.total]
        full == [slots EXCEPT ![h.seq + 1] = SubSeq(data, FRAGMENT_HEADER_LEN + 1, Len(data))]
        done == h.kind = End /\ \A k \in DOMAIN full : full[k] # Missing
    IN IF h = NoHeader \/ (h.kind # Start /\ reassembly[h.total] = NoSlots)
       THEN [reassembly |-> reassembly, out |-> <<data>>]
       ELSE [reassembly |-> [reassembly EXCEPT ![h.total] = IF done THEN NoSlots ELSE full],
             out |-> IF done THEN <<FlattenSeq(full)>> ELSE <<>>]

-----------------------------------------------------------------------------
(* The stream *)

Units(codec, packet) == IF codec = "ble" THEN fragment_packet(packet) ELSE frame(codec, packet)

Init ==
    /\ load \in Loads
    /\ LET sent == [k \in 1..Len(load.packets) |-> Units(load.codec, load.packets[k])] IN
          /\ wire = FlattenSeq(sent)
          /\ ends = [k \in 0..Len(sent) |-> FoldLeft(LAMBDA n, u : n + Len(u), 0, SubSeq(sent, 1, k))]
    /\ first \in (IF load.codec = "ble" THEN {0} ELSE 0..(Len(wire) - 1))
    /\ at = first /\ lost = 0
    /\ d = Fresh /\ reassembly = [n \in 1..MAX_FRAGMENTS |-> NoSlots] /\ up = <<>>

\* A read of a byte stream, and the loop over its frames.
Read(n) ==
    /\ load.codec # "ble" /\ at + n <= Len(wire)
    /\ LET r == feed(load.codec, d, SubSeq(wire, at + 1, at + n)) IN
          d' = r.state /\ up' = up \o r.frames
    /\ at' = at + n
    /\ UNCHANGED <<load, wire, ends, first, lost, reassembly>>

Notification ==
    /\ load.codec = "ble" /\ at < Len(wire)
    /\ LET r == consume_ble_frame(wire[at + 1]) IN
          reassembly' = r.reassembly /\ up' = up \o r.out
    /\ at' = at + 1
    /\ UNCHANGED <<load, wire, ends, first, lost, d>>

\* The connection ends in a packet, and the next one begins behind it.
Reconnect ==
    /\ load.codec = "ble" /\ lost = 0
    /\ \E k \in 1..Len(load.packets) :
          /\ ends[k - 1] < at /\ at < ends[k]
          /\ at' = ends[k] /\ lost' = k
    /\ UNCHANGED <<load, wire, ends, first, d, reassembly, up>>

Next == (\E n \in 1..MostBytes : Read(n)) \/ Notification \/ Reconnect

Spec == Init /\ [][Next]_vars

-----------------------------------------------------------------------------
(* Properties *)

TypeOK ==
    /\ first \in Nat /\ at \in Nat /\ lost \in 0..Len(load.packets)
    /\ d.in_frame \in BOOLEAN
    /\ Len(d.buffer) <= MAX_FRAME_SIZE

\* The packets that lie in what was read: not those that began before the reader joined, nor the one
\* a lost connection cut, nor a frame over the limit.
Whole(k) ==
    /\ ends[k - 1] >= first /\ ends[k] <= at /\ k # lost
    /\ load.codec # "ble" =>
          ends[k] - ends[k - 1] - (IF load.codec = "kiss" THEN 3 ELSE 2) <= MAX_FRAME_SIZE

\* However a stream is cut into reads, wherever it is joined and wherever a connection ends in it,
\* the packets handed up are the whole packets sent, unchanged and in their order: nothing of a
\* partial frame, of a frame over the limit or of a packet cut off is mixed into another.
FramesExact ==
    /\ TypeOK
    /\ LET ks == SelectSeq([k \in 1..Len(load.packets) |-> k], Whole)
       IN up = [j \in 1..Len(ks) |-> load.packets[ks[j]]]

=============================================================================
