--------------------------- MODULE ChannelProofs ---------------------------
(***************************************************************************)
(* Proofs about the Channel, for every size of the sequence space, window, *)
(* number of tries and number of messages: what the receiver delivers, that *)
(* the two ends are an ordered channel, and the sender's account of what it *)
(* has transmitted.                                                        *)
(***************************************************************************)
EXTENDS Channel, TLAPS, WellFoundedInduction, FiniteSetTheorems

\* Every non-empty set of natural numbers has a least element: what the
\* loops that stop at the first index with some property rely on.
LEMMA LeastNat ==
  ASSUME NEW T, T \subseteq Nat, T # {}
  PROVE \E x \in T : \A y \in T : x <= y
<1>1. \E x \in T : \A y \in T : ~ (<<y, x>> \in OpToRel(<,Nat))
  BY NatLessThanWellFounded, WFMin, Zenon
<1>2. PICK x \in T : \A y \in T : ~ (<<y, x>> \in OpToRel(<,Nat)) BY <1>1, Zenon
<1> DEFINE R == {ss \in Nat \X Nat : ss[1] < ss[2]}
<1>0. OpToRel(<,Nat) = R BY Zenon DEF OpToRel
<1>4. \A y \in T : ~ (<<y, x>> \in R)
  BY <1>2, <1>0, Zenon
<1>3. SUFFICES ASSUME NEW y \in T, ~(x <= y) PROVE FALSE
  OBVIOUS
<1>5. y \in Nat /\ x \in Nat /\ y < x BY <1>3
<1>6. <<y,x>> \in R BY <1>5, Zenon
<1> QED BY <1>6, <1>4, Zenon

\* A remainder is below its modulus.
LEMMA ModRange ==
  ASSUME NEW M \in Nat \ {0}, NEW a \in Nat
  PROVE  a % M \in 0 .. M - 1
OBVIOUS

\* Quotient and remainder make up the number.
LEMMA ModSplit ==
  ASSUME NEW M \in Nat \ {0}, NEW a \in Nat
  PROVE  /\ a \div M \in Nat
         /\ a = M * (a \div M) + (a % M)
OBVIOUS

\* A number below the modulus is its own remainder.
LEMMA ModSmall ==
  ASSUME NEW M \in Nat \ {0}, NEW a \in 0 .. M - 1
  PROVE  a % M = a
OBVIOUS

\* A positive multiple of M is at least M.
LEMMA MulGap ==
  ASSUME NEW M \in Nat \ {0}, NEW d \in Int, d >= 1
  PROVE  M * d >= M
OBVIOUS

\* The only multiple of M strictly between -M and M is zero.
LEMMA MulNear ==
  ASSUME NEW M \in Nat \ {0}, NEW d \in Int, M * d < M, M * d > -M
  PROVE  d = 0
<1>3. CASE d >= 1
  <2>1. M * d >= M BY <1>3, MulGap, Zenon
  <2> QED BY <2>1
<1>4. CASE d <= -1
  <2>1. M * (-d) >= M BY <1>4, MulGap
  <2>2. M * (-d) = - (M * d) OBVIOUS
  <2> QED BY <2>1, <2>2
<1> QED BY <1>3, <1>4

\* Numbers less than a modulus apart are told apart by their remainders: the
\* argument behind every wrapping sequence number.
LEMMA ModInjective ==
  ASSUME NEW M \in Nat \ {0}, NEW a \in Nat, NEW b \in Nat,
         a % M = b % M, a - b < M, b - a < M
  PROVE  a = b
<1> DEFINE q == a \div M
           s == b \div M
<1>1. q \in Nat /\ s \in Nat /\ a = M * q + (a % M) /\ b = M * s + (b % M)
  BY ModSplit, Zenon
<1>2. b - a = M * (s - q)
  BY <1>1
<1> HIDE DEF q, s
<1>3. s - q = 0
  BY <1>1, <1>2, MulNear
<1> QED BY <1>1, <1>3

\* Adding a multiple of the modulus leaves the remainder.
LEMMA ModMultiple ==
  ASSUME NEW M \in Nat \ {0}, NEW x \in Nat, NEW q \in Nat
  PROVE  (x + M * q) % M = x % M
<1> DEFINE y == x + M * q
           u == x \div M
           v == y \div M
<1>0. y \in Nat OBVIOUS
<1>1. u \in Nat /\ v \in Nat /\ x = M * u + (x % M) /\ y = M * v + (y % M)
  BY ModSplit, <1>0, Zenon
<1>2. x % M \in 0 .. M-1 /\ y % M \in 0 .. M-1 
  BY ModRange, <1>0, Zenon
<1>3. (y % M) - (x % M) = M * (q + u - v)
  BY <1>1
<1> HIDE DEF u, v
<1>4. q + u - v = 0
  BY <1>1, <1>2, <1>3, MulNear
<1> QED BY <1>1, <1>2, <1>3, <1>4

\* A wrapped counter can be advanced from its remainder.
LEMMA ModAdd ==
  ASSUME NEW M \in Nat \ {0}, NEW a \in Nat, NEW k \in Nat
  PROVE  ((a % M) + k) % M = (a + k) % M
<1> DEFINE x == (a % M) + k
           q == a \div M
<1>1. q \in Nat /\ a % M \in Nat /\ a = M * q + (a % M)
  BY ModSplit, ModRange
<1>2. a + k = x + M * q
  BY <1>1
<1>3. x \in Nat BY <1>1
<1> HIDE DEF x, q
<1>4. (x + M * q) % M = x % M BY <1>1, <1>3, ModMultiple, Zenon
<1> QED BY <1>4, <1>2, Zenon DEF x

-----------------------------------------------------------------------------

Stamp(n) == (n - 1) % SEQ_MODULUS

\* What the sender and the network know: the ring holds the latest messages, one
\* after the other and fewer than a wrap, and every envelope and every packet
\* carries the sequence number of its message.
SenderStamps ==
    /\ next_tx_sequence = sent % SEQ_MODULUS
    /\ Len(tx_ring) <= sent /\ Len(tx_ring) <= Horizon
    /\ \A i \in DOMAIN tx_ring :
         /\ tx_ring[i].msg = sent - Len(tx_ring) + i
         /\ tx_ring[i].sequence = Stamp(tx_ring[i].msg)
    /\ \A p \in packets :
         p.msg \in 1 .. sent /\ p.sequence = Stamp(p.msg)

\* What the receiver knows: it has handed up exactly the messages before the
\* one it expects, and buffers only messages beyond that one.
ReceiverInOrder ==
    /\ next_rx_sequence = Len(delivered) % SEQ_MODULUS
    /\ InOrder
    /\ \A e \in rx_ring :
         /\ e.msg \in Len(delivered) + 2 .. Len(delivered) + 1 + WINDOW_MAX
         /\ e.sequence = Stamp(e.msg)

\* Every tracked packet hash is of a message in the ring that is waited for.
HashesPoint ==
    \A entry \in outbound_packet_hashes :
        \E i \in Outstanding(tx_ring) :
            /\ entry[1][1] = tx_ring[i].msg
            /\ entry[2] = tx_ring[i].sequence

\* What is buffered has arrived, and what has arrived was sent.
BufferedArrived ==
    /\ \A e \in rx_ring : e.msg \in Arrived
    /\ Arrived \subseteq 1 .. sent

ChannelInv ==
    /\ TypeOK
    /\ BufferedArrived
    /\ SenderStamps
    /\ ReceiverInOrder
    /\ HashesPoint
    /\ SettledWasProved

-----------------------------------------------------------------------------
(* The constants.                                                          *)

\* What the proofs use of the assumptions on the constants.
LEMMA Constants ==
  /\ SEQ_MODULUS \in Nat \ {0}
  /\ WINDOW_MAX \in Nat \ {0}
  /\ Horizon \in Nat
  /\ Horizon + WINDOW_MAX <= SEQ_MODULUS
  /\ WINDOW_MAX + 1 < SEQ_MODULUS
BY ChannelAssumption, WindowAssumption DEF WINDOW_MAX

\* Growing, shrinking and clamping keep the fields natural numbers.
LEMMA ClampType ==
  ASSUME NEW w \in WindowType
  PROVE  Clamp(w) \in WindowType
BY WindowAssumption, Zenon DEF Clamp, WindowType, WINDOW_MAX

\* Channel::new sets up a window of the right type.
LEMMA NewWindowType ==
  ASSUME NEW rtt \in RttClass
  PROVE  NewWindow(rtt) \in WindowType
BY WindowAssumption DEF NewWindow, WindowType, RoundsCap

\* Opening the window keeps its type.
LEMMA OpenedType ==
  ASSUME NEW w \in WindowType
  PROVE  Opened(w) \in WindowType
BY DEF Opened, WindowType

\* Counting a round stays within the cap.
LEMMA CountRoundType ==
  ASSUME NEW r \in 0 .. RoundsCap
  PROVE  CountRound(r) \in 0 .. RoundsCap
BY WindowAssumption DEF CountRound, RoundsCap

\* A promotion to a faster tier keeps the window's type.
LEMMA PromoteType ==
  ASSUME NEW w \in WindowType, NEW r, NEW max \in Nat, NEW min \in Nat
  PROVE  Promote(w, r, max, min) \in WindowType
BY Zenon DEF Promote, WindowType

\* The round counters keep their type.
LEMMA RoundsType ==
  ASSUME NEW w \in WindowType, NEW f \in 0 .. RoundsCap, NEW m \in 0 .. RoundsCap
  PROVE  /\ [w EXCEPT !.fast_rate_rounds = f] \in WindowType
         /\ [w EXCEPT !.fast_rate_rounds = f, !.medium_rate_rounds = m] \in WindowType
BY Zenon DEF WindowType

\* Rating a round-trip time keeps the window's type.
LEMMA RatedType ==
  ASSUME NEW w \in WindowType, NEW rtt \in RttClass
  PROVE  Rated(w, rtt) \in WindowType
<1>1. w.fast_rate_rounds \in 0 .. RoundsCap /\ w.medium_rate_rounds \in 0 .. RoundsCap
  BY Zenon DEF WindowType
<1>2. /\ CountRound(w.fast_rate_rounds) \in 0 .. RoundsCap
      /\ CountRound(w.medium_rate_rounds) \in 0 .. RoundsCap
  BY <1>1, CountRoundType, Zenon
<1>3. 0 \in 0 .. RoundsCap BY WindowAssumption, SMTT(20) DEF RoundsCap
<1>4. /\ [w EXCEPT !.fast_rate_rounds = CountRound(w.fast_rate_rounds)] \in WindowType
      /\ [w EXCEPT !.fast_rate_rounds = 0,
                   !.medium_rate_rounds = CountRound(w.medium_rate_rounds)] \in WindowType
      /\ [w EXCEPT !.fast_rate_rounds = 0, !.medium_rate_rounds = 0] \in WindowType
  BY <1>2, <1>3, RoundsType, Zenon
<1>5. /\ WINDOW_MAX_FAST \in Nat /\ WINDOW_MIN_LIMIT_FAST \in Nat
      /\ WINDOW_MAX_MEDIUM \in Nat /\ WINDOW_MIN_LIMIT_MEDIUM \in Nat
  BY WindowAssumption
<1> QED
  BY <1>4, <1>5, PromoteType, Zenon DEF Rated

\* Growth on a proof keeps the window's type.
LEMMA GrowType ==
  ASSUME NEW w \in WindowType, NEW rtt \in RttClass
  PROVE  Grow(w, rtt) \in WindowType
BY ClampType, OpenedType, RatedType, Zenon DEF Grow

\* Narrowing keeps the window's type.
LEMMA ReducedType ==
  ASSUME NEW c \in WindowType, NEW a \in Nat, NEW b \in Nat
  PROVE  [c EXCEPT !.window = a, !.window_max = b] \in WindowType
BY Zenon DEF WindowType

\* Any number of timeouts keeps the window's type.
LEMMA ShrinkByType ==
  ASSUME NEW w \in WindowType, NEW k \in Nat
  PROVE  ShrinkBy(w, k) \in WindowType
<1> DEFINE c == Clamp(w)
           least(a, b) == IF a < b THEN a ELSE b
           above(a, b) == IF a > b THEN a - b ELSE 0
           steps == least(k, above(c.window, c.window_min))
           drop  == least(steps, above(c.window_max, c.window_min + c.window_flexibility))
<1>1. c \in WindowType BY ClampType, Zenon
<1>2. /\ c.window \in Nat /\ c.window_min \in Nat
      /\ c.window_max \in Nat /\ c.window_flexibility \in Nat
  BY <1>1, Zenon DEF WindowType
<1> HIDE DEF c
<1>3. steps \in Nat /\ c.window - steps \in Nat BY <1>2
<1> HIDE DEF steps
<1>4. c.window_max - drop \in Nat BY <1>2, <1>3
<1> HIDE DEF drop
<1>5. [c EXCEPT !.window = c.window - steps,
                !.window_max = c.window_max - drop] \in WindowType
  BY <1>1, <1>3, <1>4, ReducedType, Zenon
<1> QED BY <1>5, Zenon DEF ShrinkBy, steps, drop, c

-----------------------------------------------------------------------------
(* The receiver.                                                           *)

\* The receive guard, with its two comparisons, admits exactly the sequence
\* numbers at most WINDOW_MAX steps ahead on the circle.
LEMMA AcceptableIsAhead ==
  ASSUME NEW s \in Sequences16, next_rx_sequence \in Sequences16,
         is_acceptable_sequence(s)
  PROVE  \E d \in 0 .. WINDOW_MAX : Ahead(d) = s
<1> DEFINE M == SEQ_MODULUS
           next == next_rx_sequence
<1>0. M \in Nat \ {0} /\ WINDOW_MAX \in Nat /\ WINDOW_MAX < M
      /\ s \in 0 .. M - 1 /\ next \in 0 .. M - 1
  BY Constants DEF Sequences16
<1>1. CASE s >= next
  <2>1. s - next \in 0 .. WINDOW_MAX
    BY <1>0, <1>1 DEF is_acceptable_sequence
  <2>2. next + (s - next) = s BY <1>0
  <2>3. s % M = s BY <1>0, ModSmall, Zenon
  <2>4. Ahead(s - next) = s BY <2>2, <2>3, Zenon DEF Ahead
  <2> QED BY <2>1, <2>4, Zenon
<1>2. CASE s < next
  <2> DEFINE over == (next + WINDOW_MAX) % M
  <2>1. over < next /\ s <= over
    BY <1>0, <1>2 DEF is_acceptable_sequence
  <2>2. CASE next + WINDOW_MAX < M
    <3>1. over = next + WINDOW_MAX BY <2>2, <1>0, ModSmall
    <3> QED BY <3>1, <2>1, <1>0
  <2>3. CASE next + WINDOW_MAX >= M
    <3> DEFINE r == next + WINDOW_MAX - M
    <3>1. r \in 0 .. M - 1 BY <2>3, <1>0
    <3>2. next + WINDOW_MAX = r + M * 1 BY <1>0
    <3>3. (r + M * 1) % M = r % M BY <3>1, <1>0, ModMultiple
    <3>4. over = r BY <3>1, <3>2, <3>3, <1>0, ModSmall, Zenon
    <3>5. s + M - next \in 0 .. WINDOW_MAX BY <3>4, <2>1, <1>0
    <3>6. next + (s + M - next) = s + M * 1 BY <1>0
    <3>7. (s + M * 1) % M = s % M BY <1>0, ModMultiple
    <3>8. s % M = s BY <1>0, ModSmall, Zenon
    <3>9. Ahead(s + M - next) = s BY <3>6, <3>7, <3>8, Zenon DEF Ahead
    <3> QED BY <3>5, <3>9, Zenon
  <2> QED BY <2>2, <2>3, <1>0
<1> QED BY <1>0, <1>1, <1>2

\* The j-th sequence ahead is the stamp of the j-th message ahead.
LEMMA AheadOfCount ==
  ASSUME NEW L \in Nat, next_rx_sequence = L % SEQ_MODULUS, NEW d \in Nat
  PROVE  Ahead(d) = (L + d) % SEQ_MODULUS
BY Constants, ModAdd, Zenon DEF Ahead

\* A timely packet that is admitted carries one of the next messages.
LEMMA AdmittedIsNext ==
  ASSUME NEW L \in Nat, next_rx_sequence = L % SEQ_MODULUS,
         NEW n \in Nat \ {0}, n < L + 1 + Horizon, L + 1 < n + Horizon,
         is_acceptable_sequence(Stamp(n))
  PROVE  n \in L + 1 .. L + 1 + WINDOW_MAX
<1>0. next_rx_sequence \in Sequences16 /\ Stamp(n) \in Sequences16
  BY Constants, ModRange DEF Sequences16, Stamp
<1>1. PICK d \in 0 .. WINDOW_MAX : Ahead(d) = Stamp(n)
  BY <1>0, AcceptableIsAhead, Zenon
<1>a. /\ d \in Nat /\ n - 1 \in Nat /\ L + d \in Nat
      /\ (L + d) - (n - 1) < SEQ_MODULUS
      /\ (n - 1) - (L + d) < SEQ_MODULUS
  BY Constants
<1>2. (L + d) % SEQ_MODULUS = (n - 1) % SEQ_MODULUS
  <2>1. Ahead(d) = (L + d) % SEQ_MODULUS BY <1>a, AheadOfCount, Zenon
  <2> QED BY <2>1, <1>1, Zenon DEF Stamp
<1>b. SEQ_MODULUS \in Nat \ {0} BY Constants, Zenon
<1>3. L + d = n - 1
  BY ONLY <1>a, <1>b, <1>2, ModInjective, Zenon
<1> QED BY <1>3, Constants

\* A ring whose members are stamped and near has one member per message.
NearRing(ring, L) ==
    \A e \in ring : /\ e.msg \in L + 1 .. L + 1 + WINDOW_MAX
                    /\ e.sequence = Stamp(e.msg)

\* The envelope found under a sequence number is the one admitted for it.
LEMMA RingLookup ==
  ASSUME NEW L \in Nat, next_rx_sequence = L % SEQ_MODULUS,
         NEW ring, NearRing(ring, L),
         NEW e \in ring, NEW j \in 0 .. WINDOW_MAX + 1, e.sequence = Ahead(j)
  PROVE  e.msg = L + 1 + j
<1>1. e.msg \in L + 1 .. L + 1 + WINDOW_MAX /\ e.sequence = (e.msg - 1) % SEQ_MODULUS
  BY Zenon DEF NearRing, Stamp
<1>a. /\ j \in Nat /\ e.msg - 1 \in Nat /\ L + j \in Nat
      /\ (L + j) - (e.msg - 1) < SEQ_MODULUS
      /\ (e.msg - 1) - (L + j) < SEQ_MODULUS
  <2>1. PICK n \in L + 1 .. L + 1 + WINDOW_MAX : n = e.msg BY <1>1, Zenon
  <2>2. WINDOW_MAX \in Nat /\ SEQ_MODULUS \in Nat /\ WINDOW_MAX + 1 < SEQ_MODULUS
    BY Constants, Zenon
  <2>3. /\ j \in Nat /\ n - 1 \in Nat /\ L + j \in Nat
        /\ (L + j) - (n - 1) < SEQ_MODULUS
        /\ (n - 1) - (L + j) < SEQ_MODULUS
    BY <2>2
  <2> QED BY <2>1, <2>3, Zenon
<1>2. (e.msg - 1) % SEQ_MODULUS = (L + j) % SEQ_MODULUS
  <2>1. Ahead(j) = (L + j) % SEQ_MODULUS BY <1>a, AheadOfCount, Zenon
  <2> QED BY <2>1, <1>1, Zenon
<1>b. SEQ_MODULUS \in Nat \ {0} BY Constants, Zenon
<1>3. e.msg - 1 = L + j
  BY ONLY <1>a, <1>b, <1>2, ModInjective, Zenon
<1> QED BY <1>1, <1>3, Constants

\* The receive loop stops: there is a first sequence number the ring lacks.
LEMMA DrainCountExists ==
  ASSUME NEW L \in Nat, next_rx_sequence = L % SEQ_MODULUS,
         NEW ring, NearRing(ring, L)
  PROVE  LET k == DrainCount(ring)
         IN  /\ k \in 0 .. WINDOW_MAX + 1
             /\ \A j \in 0 .. k - 1 : Holds(ring, Ahead(j))
             /\ ~ Holds(ring, Ahead(k))
<1> DEFINE T == {k \in Nat : ~ Holds(ring, Ahead(k))}
<1>1. WINDOW_MAX + 1 \in T
  <2>1. SUFFICES ASSUME Holds(ring, Ahead(WINDOW_MAX + 1)) PROVE FALSE
    BY Constants
  <2>2. PICK e \in ring : e.sequence = Ahead(WINDOW_MAX + 1)
    BY <2>1, Zenon DEF Holds
  <2>a. WINDOW_MAX + 1 \in 0 .. WINDOW_MAX + 1 BY Constants
  <2>3. e.msg = L + 1 + (WINDOW_MAX + 1) BY <2>2, <2>a, RingLookup
  <2> QED BY <2>3, Constants DEF NearRing
<1>2. PICK k \in T : \A y \in T : k <= y
  BY <1>1, LeastNat, Zenon
<1>3. k \in 0 .. WINDOW_MAX + 1
  BY <1>1, <1>2, Constants
<1>4. \A j \in 0 .. k - 1 : Holds(ring, Ahead(j))
  <2>1. SUFFICES ASSUME NEW j \in 0 .. k - 1, ~ Holds(ring, Ahead(j)) PROVE FALSE
    OBVIOUS
  <2>2. j \in T BY <2>1, <1>3, Constants
  <2> QED BY <2>2, <1>2, <1>3, Constants
<1>5. ~ Holds(ring, Ahead(k)) BY <1>2, Zenon
<1> HIDE DEF T
<1> QED BY <1>3, <1>4, <1>5, Zenon DEF DrainCount

\* Admitting a packet and draining the ring keeps delivery in order.
LEMMA ReceiveInOrder ==
  ASSUME TypeOK, SenderStamps, ReceiverInOrder,
         NEW p \in packets, Timely(p), is_acceptable_sequence(p.sequence),
         Receive(p)
  PROVE  /\ delivered' \in Seq(Nat)
         /\ next_rx_sequence' \in Sequences16
         /\ rx_ring' \subseteq [msg : Nat, sequence : Sequences16]
         /\ ReceiverInOrder'
         /\ \A e \in rx_ring' : e.msg \in {p.msg} \cup {f.msg : f \in rx_ring}
         /\ \E k \in Nat :
              /\ delivered' = delivered \o [j \in 1 .. k |-> Len(delivered) + j]
              /\ \A j \in 1 .. k :
                   Len(delivered) + j \in {p.msg} \cup {f.msg : f \in rx_ring}
<1> DEFINE L    == Len(delivered)
           ring == Emplace(p)
           k    == DrainCount(ring)
           at(j) == CHOOSE e \in ring : e.sequence = Ahead(j - 1)
<1>0. L \in Nat /\ next_rx_sequence = L % SEQ_MODULUS /\ delivered \in Seq(Nat)
  BY DEF TypeOK, ReceiverInOrder
<1>1. /\ p.msg \in Nat \ {0} /\ p.sequence = Stamp(p.msg)
      /\ p.sequence \in Sequences16
  BY DEF SenderStamps, TypeOK, Packet
<1>2. p.msg \in L + 1 .. L + 1 + WINDOW_MAX
  BY <1>0, <1>1, AdmittedIsNext DEF Timely
<1>3. NearRing(ring, L)
  <2>1. NearRing(rx_ring, L)
    BY <1>0, Constants DEF NearRing, ReceiverInOrder
  <2> QED BY <2>1, <1>1, <1>2 DEF Emplace, NearRing
<1>4. ring \subseteq [msg : Nat, sequence : Sequences16]
  BY <1>1 DEF Emplace, TypeOK
<1>a. \A e \in ring : e.msg \in {p.msg} \cup {f.msg : f \in rx_ring}
  BY DEF Emplace
<1>5. /\ k \in 0 .. WINDOW_MAX + 1
      /\ \A j \in 0 .. k - 1 : Holds(ring, Ahead(j))
      /\ ~ Holds(ring, Ahead(k))
  BY <1>0, <1>3, DrainCountExists, Zenon
<1>6. /\ delivered' = delivered \o [j \in 1 .. k |-> at(j).msg]
      /\ next_rx_sequence' = Ahead(k)
      /\ rx_ring' = ring \ {at(j) : j \in 1 .. k}
  BY Zenon DEF Receive
<1> HIDE DEF ring, k
<1>7. \A j \in 1 .. k : at(j) \in ring /\ at(j).sequence = Ahead(j - 1)
                        /\ at(j).msg = L + j
  <2> SUFFICES ASSUME NEW j \in 1 .. k
               PROVE  at(j) \in ring /\ at(j).sequence = Ahead(j - 1) /\ at(j).msg = L + j
    OBVIOUS
  <2>1. j - 1 \in 0 .. k - 1 /\ j - 1 \in 0 .. WINDOW_MAX + 1
    BY <1>5, Constants
  <2>2. at(j) \in ring /\ at(j).sequence = Ahead(j - 1)
    BY <2>1, <1>5, Zenon DEF Holds
  <2>3. at(j).msg = L + 1 + (j - 1)
    BY <2>1, <2>2, <1>0, <1>3, RingLookup, Zenon
  <2> QED BY <2>2, <2>3, <1>0
<1> HIDE DEF at
<1>8. k \in Nat BY <1>5, Constants
<1> DEFINE run == [j \in 1 .. k |-> L + j]
<1>9. [j \in 1 .. k |-> at(j).msg] = run BY <1>7, Zenon
<1>10. run \in Seq(Nat) /\ Len(run) = k BY <1>0, <1>8
<1>11. delivered' \in Seq(Nat) /\ Len(delivered') = L + k
  BY <1>0, <1>6, <1>8, <1>9, <1>10
<1>12. InOrder'
  <2> SUFFICES ASSUME NEW i \in 1 .. L + k PROVE delivered'[i] = i
    BY <1>11 DEF InOrder
  <2>1. CASE i <= L
    <3>1. delivered'[i] = delivered[i]
      BY <2>1, <1>0, <1>6, <1>8, <1>9, <1>10, SMTT(30)
    <3> QED BY <3>1, <2>1, <1>0 DEF ReceiverInOrder, InOrder
  <2>2. CASE i > L
    <3>1. delivered'[i] = run[i - L]
      BY <2>2, <1>0, <1>6, <1>8, <1>9, <1>10, SMTT(20)
    <3> QED BY <3>1, <2>2, <1>0, <1>8
  <2> QED BY <2>1, <2>2, <1>0, <1>8
<1>13. next_rx_sequence' = (L + k) % SEQ_MODULUS
  BY <1>0, <1>6, <1>8, AheadOfCount, Zenon
<1>14. next_rx_sequence' \in Sequences16
  BY <1>0, <1>8, <1>13, Constants, ModRange DEF Sequences16
<1>15. \A e \in rx_ring' :
         /\ e.msg \in L + k + 2 .. L + k + 1 + WINDOW_MAX
         /\ e.sequence = Stamp(e.msg)
  <2> SUFFICES ASSUME NEW e \in rx_ring'
               PROVE  /\ e.msg \in L + k + 2 .. L + k + 1 + WINDOW_MAX
                      /\ e.sequence = Stamp(e.msg)
    OBVIOUS
  <2>1. e \in ring /\ \A j \in 1 .. k : e # at(j)
    BY <1>6, Zenon
  <2>2. e.msg \in L + 1 .. L + 1 + WINDOW_MAX /\ e.sequence = Stamp(e.msg)
    BY <2>1, <1>3, Zenon DEF NearRing
  <2>3. PICK n \in L + 1 .. L + 1 + WINDOW_MAX : n = e.msg
    BY <2>2, Zenon
  <2>4. n - L - 1 \in Nat /\ L + (n - L - 1) = n - 1 BY <1>0, <2>3, Constants, SMTT(20)
  <2>5. e.sequence = Ahead(n - L - 1)
    <3>1. Ahead(n - L - 1) = (n - 1) % SEQ_MODULUS
      BY <1>0, <2>4, AheadOfCount
    <3> QED BY <3>1, <2>2, <2>3 DEF Stamp
  <2>6. n # L + k + 1
    <3> SUFFICES ASSUME n = L + k + 1 PROVE FALSE
      OBVIOUS
    <3>1. n - L - 1 = k BY <1>0, <1>8
    <3> QED BY <3>1, <2>1, <2>5, <1>5 DEF Holds
  <2>7. ~ (n <= L + k)
    <3> SUFFICES ASSUME n <= L + k PROVE FALSE
      OBVIOUS
    <3>1. n - L \in 1 .. k BY <1>0, <1>8, Constants
    <3>2. PICK j \in 1 .. k : j = n - L BY <3>1, Zenon
    <3>3. at(j) \in ring /\ at(j).msg = n /\ at(j).sequence = Stamp(n)
      BY <1>0, <1>3, <1>7, <3>2, <2>3, SMTT(30) DEF NearRing
    <3>4. at(j) = e
      BY <3>3, <2>1, <2>2, <2>3, <1>4
    <3> QED BY <3>4, <2>1
  <2> QED BY <2>2, <2>3, <2>6, <2>7, <1>0, <1>8, Constants, SMTT(20)
<1>16. rx_ring' \subseteq [msg : Nat, sequence : Sequences16]
  BY <1>4, <1>6, Zenon
<1>17. \A e \in rx_ring' : e.msg \in {p.msg} \cup {f.msg : f \in rx_ring}
  BY <1>a, <1>6
<1>18. \E n \in Nat :
         /\ delivered' = delivered \o [j \in 1 .. n |-> L + j]
         /\ \A j \in 1 .. n : L + j \in {p.msg} \cup {f.msg : f \in rx_ring}
  BY <1>a, <1>6, <1>7, <1>8, <1>9, Zenon
<1>19. ReceiverInOrder'
  BY <1>11, <1>12, <1>13, <1>15 DEF ReceiverInOrder
<1> QED
  BY <1>11, <1>14, <1>16, <1>17, <1>18, <1>19, Zenon

-----------------------------------------------------------------------------
(* The sender.                                                             *)

\* A sequence number that occurs in the ring is found.
LEMMA FindFinds ==
  ASSUME NEW ring \in Seq(Envelope), NEW i \in DOMAIN ring
  PROVE  LET f == Find(ring, ring[i].sequence)
         IN  f \in DOMAIN ring /\ ring[f].sequence = ring[i].sequence
<1> DEFINE T == {j \in DOMAIN ring : ring[j].sequence = ring[i].sequence}
<1>1. T \subseteq Nat /\ T # {} OBVIOUS
<1>2. PICK f \in T : \A y \in T : f <= y BY <1>1, LeastNat, Zenon
<1>3. \A j \in 1 .. f - 1 : ring[j].sequence # ring[i].sequence
  <2> SUFFICES ASSUME NEW j \in 1 .. f - 1, ring[j].sequence = ring[i].sequence
               PROVE  FALSE
    OBVIOUS
  <2>1. j \in T /\ j < f OBVIOUS
  <2> QED BY <2>1, <1>2
<1>4. f \in DOMAIN ring /\ ring[f].sequence = ring[i].sequence BY <1>2, Zenon
<1> HIDE DEF T
<1> QED BY <1>3, <1>4, Zenon DEF Find

\* Popping the delivered prefix leaves a suffix of the ring.
LEMMA PopDeliveredIsSuffix ==
  ASSUME NEW ring \in Seq(Envelope)
  PROVE  \/ Outstanding(ring) = {} /\ PopDelivered(ring) = <<>>
         \/ \E f \in Outstanding(ring) :
              /\ PopDelivered(ring) = SubSeq(ring, f, Len(ring))
              /\ \A j \in Outstanding(ring) : f <= j
<1>1. CASE Outstanding(ring) = {}
  BY <1>1, Zenon DEF PopDelivered
<1>2. CASE Outstanding(ring) # {}
  <2>1. Outstanding(ring) \subseteq Nat BY DEF Outstanding
  <2>2. \E f \in Outstanding(ring) : \A j \in Outstanding(ring) : f <= j
    BY <2>1, <1>2, LeastNat
  <2> QED BY <2>2, <1>2, Zenon DEF PopDelivered
<1> QED BY <1>1, <1>2, Zenon

\* Popping from the front keeps the undelivered envelopes.
LEMMA PopDeliveredElements ==
  ASSUME NEW ring \in Seq(Envelope)
  PROVE  LET r == PopDelivered(ring)
         IN  /\ r \in Seq(Envelope)
             /\ Len(r) <= Len(ring)
             /\ \A i \in DOMAIN r : /\ i + Len(ring) - Len(r) \in DOMAIN ring
                                    /\ r[i] = ring[i + Len(ring) - Len(r)]
             /\ \A j \in Outstanding(ring) : j > Len(ring) - Len(r)
<1>1. CASE Outstanding(ring) = {} /\ PopDelivered(ring) = <<>>
  BY <1>1
<1>2. ASSUME NEW f \in Outstanding(ring),
             PopDelivered(ring) = SubSeq(ring, f, Len(ring)),
             \A j \in Outstanding(ring) : f <= j
      PROVE  LET r == PopDelivered(ring)
             IN  /\ r \in Seq(Envelope)
                 /\ Len(r) <= Len(ring)
                 /\ \A i \in DOMAIN r : /\ i + Len(ring) - Len(r) \in DOMAIN ring
                                        /\ r[i] = ring[i + Len(ring) - Len(r)]
                 /\ \A j \in Outstanding(ring) : j > Len(ring) - Len(r)
  <2> DEFINE sub == SubSeq(ring, f, Len(ring))
  <2>1. f \in 1 .. Len(ring) BY DEF Outstanding
  <2>2. sub \in Seq(Envelope) /\ Len(sub) = Len(ring) - f + 1 BY <2>1
  <2>3. \A i \in 1 .. Len(ring) - f + 1 : sub[i] = ring[f + i - 1]
    BY <2>1
  <2> HIDE DEF sub
  <2>4. \A i \in DOMAIN sub : /\ i + Len(ring) - Len(sub) \in DOMAIN ring
                              /\ sub[i] = ring[i + Len(ring) - Len(sub)]
    <3> SUFFICES ASSUME NEW i \in 1 .. Len(ring) - f + 1
                 PROVE  /\ i + Len(ring) - Len(sub) \in DOMAIN ring
                        /\ sub[i] = ring[i + Len(ring) - Len(sub)]
      BY <2>2
    <3>1. f + i - 1 \in DOMAIN ring /\ i + Len(ring) - Len(sub) = f + i - 1
      BY <2>1, <2>2
    <3> QED BY <3>1, <2>3
  <2>5. \A j \in Outstanding(ring) : j > Len(ring) - Len(sub)
    BY <1>2, <2>1, <2>2, SMTT(30) DEF Outstanding
  <2> QED BY <1>2, <2>1, <2>2, <2>4, <2>5 DEF sub
<1> QED BY <1>1, <1>2, PopDeliveredIsSuffix, Zenon

\* Marking an envelope changes nothing else in the ring.
LEMMA MarkDelivered ==
  ASSUME NEW ring \in Seq(Envelope), NEW f \in DOMAIN ring
  PROVE  LET marked == [ring EXCEPT ![f].delivered = TRUE]
         IN  /\ marked \in Seq(Envelope)
             /\ Len(marked) = Len(ring)
             /\ DOMAIN marked = DOMAIN ring
             /\ \A i \in DOMAIN ring : /\ marked[i].msg = ring[i].msg
                                       /\ marked[i].sequence = ring[i].sequence
                                       /\ marked[i].tries = ring[i].tries
             /\ Outstanding(marked) = Outstanding(ring) \ {f}
<1> DEFINE env == [ring[f] EXCEPT !.delivered = TRUE]
           marked == [ring EXCEPT ![f] = env]
<1>1. ring[f] \in Envelope /\ \A i \in DOMAIN ring : ring[i] \in Envelope
  OBVIOUS
<1>2. /\ env \in Envelope /\ env.msg = ring[f].msg
      /\ env.sequence = ring[f].sequence /\ env.tries = ring[f].tries /\ env.delivered
  BY <1>1, Zenon DEF Envelope
<1> HIDE DEF env
<1>3. marked \in Seq(Envelope) /\ Len(marked) = Len(ring) /\ DOMAIN marked = DOMAIN ring
  BY <1>2
<1>4. \A i \in DOMAIN ring : marked[i] = IF i = f THEN env ELSE ring[i]
  OBVIOUS
<1>5. Outstanding(marked) = Outstanding(ring) \ {f}
  BY <1>2, <1>3, <1>4 DEF Outstanding
<1>6. \A i \in DOMAIN ring : /\ marked[i].msg = ring[i].msg
                             /\ marked[i].sequence = ring[i].sequence
                             /\ marked[i].tries = ring[i].tries
  BY <1>2, <1>4
<1>7. marked = [ring EXCEPT ![f].delivered = TRUE]
  BY Zenon DEF env
<1> QED BY <1>3, <1>5, <1>6, <1>7, Zenon

\* Within one ring a sequence number names one envelope.
LEMMA UniqueInRing ==
  ASSUME TypeOK, SenderStamps, NEW i \in DOMAIN tx_ring, NEW j \in DOMAIN tx_ring,
         tx_ring[i].sequence = tx_ring[j].sequence
  PROVE  i = j
<1> DEFINE N == Len(tx_ring)
           a == sent - N + i
           b == sent - N + j
<1>1. /\ N \in Nat /\ sent \in Nat /\ N <= sent /\ N <= Horizon
      /\ i \in 1 .. N /\ j \in 1 .. N
  BY DEF TypeOK, SenderStamps
<1>2. tx_ring[i].sequence = (a - 1) % SEQ_MODULUS /\ tx_ring[j].sequence = (b - 1) % SEQ_MODULUS
  BY Zenon DEF SenderStamps, Stamp
<1> HIDE DEF N
<1>3. /\ a - 1 \in Nat /\ b - 1 \in Nat
      /\ (a - 1) - (b - 1) < SEQ_MODULUS /\ (b - 1) - (a - 1) < SEQ_MODULUS
  BY <1>1, Constants
<1>4. (a - 1) % SEQ_MODULUS = (b - 1) % SEQ_MODULUS BY <1>2, Zenon
<1>5. SEQ_MODULUS \in Nat \ {0} BY Constants, Zenon
<1>6. a - 1 = b - 1
  BY ONLY <1>3, <1>4, <1>5, ModInjective, Zenon
<1> QED BY <1>1, <1>6

-----------------------------------------------------------------------------
(* The steps of the sender.                                                *)

\* A proof settles exactly the message it is for.
LEMMA ProofStep ==
  ASSUME TypeOK, SenderStamps, HashesPoint,
         NEW hash \in proofs, NEW rtt \in RttClass, HandleLinkPacketProof(hash, rtt)
  PROVE  /\ tx_ring' \in Seq(Envelope)
         /\ SenderStamps'
         /\ HashesPoint'
         /\ hash[1] \in Waiting
         /\ Waiting' = Waiting \ {hash[1]}
<1>1. PICK entry \in outbound_packet_hashes :
        /\ entry[1] = hash
        /\ outbound_packet_hashes' = Untrack(entry)
        /\ tx_ring' = PopDelivered(
             [tx_ring EXCEPT ![Find(tx_ring, entry[2])].delivered = TRUE])
  BY Zenon DEF HandleLinkPacketProof
<1>2. sent' = sent /\ next_tx_sequence' = next_tx_sequence /\ packets' = packets
  BY Zenon DEF HandleLinkPacketProof
<1>3. tx_ring \in Seq(Envelope) BY Zenon DEF TypeOK
<1>4. PICK f \in Outstanding(tx_ring) :
        entry[1][1] = tx_ring[f].msg /\ entry[2] = tx_ring[f].sequence
  BY Zenon DEF HashesPoint
<1>5. f \in DOMAIN tx_ring BY Zenon DEF Outstanding
<1>6. Find(tx_ring, entry[2]) = f
  BY <1>3, <1>4, <1>5, FindFinds, UniqueInRing
<1> DEFINE marked == [tx_ring EXCEPT ![f].delivered = TRUE]
           ring == PopDelivered(marked)
           d == Len(tx_ring) - Len(ring)
<1>7. tx_ring' = ring BY <1>1, <1>6, Zenon
<1>8. /\ marked \in Seq(Envelope)
      /\ Len(marked) = Len(tx_ring)
      /\ DOMAIN marked = DOMAIN tx_ring
      /\ \A i \in DOMAIN tx_ring : /\ marked[i].msg = tx_ring[i].msg
                                   /\ marked[i].sequence = tx_ring[i].sequence
      /\ Outstanding(marked) = Outstanding(tx_ring) \ {f}
  BY <1>3, <1>5, MarkDelivered
<1> HIDE DEF marked
<1>9. /\ ring \in Seq(Envelope)
      /\ Len(ring) <= Len(tx_ring)
      /\ \A i \in DOMAIN ring : i + d \in DOMAIN tx_ring /\ ring[i] = marked[i + d]
      /\ \A j \in Outstanding(marked) : j > d
  <2>1. /\ ring \in Seq(Envelope)
        /\ Len(ring) <= Len(marked)
        /\ \A i \in DOMAIN ring : /\ i + Len(marked) - Len(ring) \in DOMAIN marked
                                  /\ ring[i] = marked[i + Len(marked) - Len(ring)]
        /\ \A j \in Outstanding(marked) : j > Len(marked) - Len(ring)
    BY <1>8, PopDeliveredElements
  <2>2. \A i \in DOMAIN ring : i + Len(marked) - Len(ring) = i + d
    BY <2>1, <1>8, <1>3
  <2> QED BY <2>1, <2>2, <1>8
<1>10. Len(ring) \in Nat /\ Len(tx_ring) \in Nat /\ sent \in Nat /\ d \in Nat
  BY <1>3, <1>9 DEF TypeOK
<1>11. \A i \in DOMAIN ring : /\ ring[i].msg = tx_ring[i + d].msg
                              /\ ring[i].sequence = tx_ring[i + d].sequence
  BY <1>8, <1>9, Zenon
<1> HIDE DEF ring
<1>12. SenderStamps'
  <2>1. /\ Len(ring) <= sent /\ Len(ring) <= Horizon
    BY <1>9, <1>10, Constants DEF SenderStamps
  <2>2. ASSUME NEW i \in DOMAIN ring
        PROVE  /\ ring[i].msg = sent - Len(ring) + i
               /\ ring[i].sequence = Stamp(ring[i].msg)
    <3>1. i + d \in DOMAIN tx_ring BY <1>9, Zenon
    <3>2. tx_ring[i + d].msg = sent - Len(tx_ring) + (i + d)
      BY <3>1, Zenon DEF SenderStamps
    <3>3. tx_ring[i + d].sequence = Stamp(tx_ring[i + d].msg)
      BY <3>1, Zenon DEF SenderStamps
    <3>4. sent - Len(tx_ring) + (i + d) = sent - Len(ring) + i
      BY <1>9, <1>10
    <3> QED BY <3>2, <3>3, <3>4, <1>11, Zenon
  <2>3. next_tx_sequence = sent % SEQ_MODULUS
        /\ \A p \in packets : p.msg \in 1 .. sent /\ p.sequence = Stamp(p.msg)
    BY Zenon DEF SenderStamps
  <2> QED BY <2>1, <2>2, <2>3, <1>2, <1>7, Zenon DEF SenderStamps, Stamp
<1>13. \A i \in DOMAIN ring : i \in Outstanding(ring) <=> i + d \in Outstanding(marked)
  BY <1>8, <1>9 DEF Outstanding
<1>14. \A j \in Outstanding(marked) : j - d \in Outstanding(ring) /\ (j - d) + d = j
  <2> SUFFICES ASSUME NEW j \in Outstanding(marked)
               PROVE  j - d \in Outstanding(ring) /\ (j - d) + d = j
    OBVIOUS
  <2>1. j \in 1 .. Len(tx_ring) /\ j > d BY <1>8, <1>9 DEF Outstanding
  <2>2. j - d \in DOMAIN ring /\ (j - d) + d = j BY <2>1, <1>9, <1>10
  <2> QED BY <2>2, <1>13
<1>15. HashesPoint'
  <2> SUFFICES ASSUME NEW other \in outbound_packet_hashes, other[2] # entry[2]
               PROVE  \E i \in Outstanding(ring) : /\ other[1][1] = ring[i].msg
                                                   /\ other[2] = ring[i].sequence
    BY <1>1, <1>7 DEF HashesPoint, Untrack
  <2>1. PICK j \in Outstanding(tx_ring) :
          other[1][1] = tx_ring[j].msg /\ other[2] = tx_ring[j].sequence
    BY Zenon DEF HashesPoint
  <2>2. j \in Outstanding(marked) BY <2>1, <1>4, <1>8, Zenon
  <2>3. j - d \in Outstanding(ring) /\ (j - d) + d = j BY <2>2, <1>14, Zenon
  <2>4. j - d \in DOMAIN ring BY <2>3, Zenon DEF Outstanding
  <2>5. ring[j - d].msg = tx_ring[j].msg /\ ring[j - d].sequence = tx_ring[j].sequence
    BY <2>3, <2>4, <1>11
  <2> QED BY <2>1, <2>3, <2>5, Zenon
<1>16. Waiting' = {ring[i].msg : i \in Outstanding(ring)}
  BY <1>7 DEF Waiting
<1>17. Waiting' = {tx_ring[j].msg : j \in Outstanding(marked)}
  <2>1. ASSUME NEW i \in Outstanding(ring)
        PROVE  \E j \in Outstanding(marked) : ring[i].msg = tx_ring[j].msg
    <3>1. i \in DOMAIN ring BY Zenon DEF Outstanding
    <3> QED BY <3>1, <1>11, <1>13, Zenon
  <2>2. ASSUME NEW j \in Outstanding(marked)
        PROVE  \E i \in Outstanding(ring) : ring[i].msg = tx_ring[j].msg
    <3>1. j - d \in Outstanding(ring) /\ (j - d) + d = j BY <1>14, Zenon
    <3>2. j - d \in DOMAIN ring BY <3>1, Zenon DEF Outstanding
    <3> QED BY <3>1, <3>2, <1>11, Zenon
  <2> QED BY <2>1, <2>2, <1>16
<1>18. \A j \in Outstanding(tx_ring) : tx_ring[j].msg = tx_ring[f].msg <=> j = f
  <2> SUFFICES ASSUME NEW j \in Outstanding(tx_ring), tx_ring[j].msg = tx_ring[f].msg
               PROVE  j = f
    OBVIOUS
  <2>1. j \in DOMAIN tx_ring BY Zenon DEF Outstanding
  <2>2. /\ tx_ring[j].msg = sent - Len(tx_ring) + j
        /\ tx_ring[f].msg = sent - Len(tx_ring) + f
    BY <2>1, <1>5, Zenon DEF SenderStamps
  <2>3. sent - Len(tx_ring) + j = sent - Len(tx_ring) + f BY <2>2, Zenon
  <2>4. j \in Nat /\ f \in Nat BY <2>1, <1>3, <1>5
  <2> QED BY ONLY <2>3, <2>4, <1>10
<1>19. hash[1] = tx_ring[f].msg BY <1>1, <1>4
<1>20. Waiting' = Waiting \ {hash[1]}
  <2>1. Waiting' = {tx_ring[j].msg : j \in Outstanding(tx_ring) \ {f}}
    BY <1>8, <1>17
  <2>2. ASSUME NEW n \in Waiting', n = tx_ring[f].msg PROVE FALSE
    BY <2>1, <2>2, <1>18
  <2>3. ASSUME NEW n \in Waiting, n # tx_ring[f].msg PROVE n \in Waiting'
    BY <2>1, <2>3, Zenon DEF Waiting
  <2>4. Waiting' \subseteq Waiting
    BY <2>1, Zenon DEF Waiting
  <2> QED BY <2>2, <2>3, <2>4, <1>19
<1> QED
  BY <1>4, <1>7, <1>9, <1>12, <1>15, <1>19, <1>20, Zenon DEF Waiting

\* A tick resends messages under their own sequence numbers.
LEMMA TickStep ==
  ASSUME TypeOK, SenderStamps, HashesPoint,
         NEW timed_out \in SUBSET OutstandingSequences, OnTick(timed_out)
  PROVE  /\ TypeOK'
         /\ SenderStamps'
         /\ HashesPoint'
         /\ tx_state' = "active" => Waiting' = Waiting
<1> DEFINE timed == {Find(tx_ring, q) : q \in timed_out}
           ring  == [i \in DOMAIN tx_ring |->
                       IF i \in timed THEN [tx_ring[i] EXCEPT !.tries = @ + 1]
                       ELSE tx_ring[i]]
           again == {j \in timed : ~ Exhausted(ring[j].tries)}
           resent == {ring[i] : i \in again}
<1>1. /\ tx_ring \in Seq(Envelope) /\ Len(tx_ring) \in Nat
      /\ DOMAIN tx_ring = 1 .. Len(tx_ring)
      /\ \A i \in DOMAIN tx_ring : tx_ring[i] \in Envelope
  BY DEF TypeOK
<1>2. timed \subseteq Outstanding(tx_ring)
  <2> SUFFICES ASSUME NEW q \in timed_out PROVE Find(tx_ring, q) \in Outstanding(tx_ring)
    OBVIOUS
  <2>1. PICK i \in Outstanding(tx_ring) : q = tx_ring[i].sequence
    BY Zenon DEF OutstandingSequences
  <2>2. i \in DOMAIN tx_ring BY Zenon DEF Outstanding
  <2>3. Find(tx_ring, q) = i BY <1>1, <2>1, <2>2, FindFinds, UniqueInRing
  <2> QED BY <2>3
<1>3. timed \subseteq DOMAIN tx_ring BY <1>2, Zenon DEF Outstanding
<1>4. /\ packets' = packets \cup {PacketOf(env) : env \in resent}
      /\ proofs' = proofs
      /\ rx_state' = rx_state /\ next_rx_sequence' = next_rx_sequence
      /\ rx_ring' = rx_ring /\ delivered' = delivered
      /\ sent' = sent /\ next_tx_sequence' = next_tx_sequence
  BY Zenon DEF OnTick, rxVars, DropTxChannel
<1>5. \/ /\ tx_state' = "closed" /\ tx_ring' = <<>>
         /\ outbound_packet_hashes' = {} /\ window' = window
      \/ /\ tx_ring' = ring
         /\ window' = ShrinkBy(window, Cardinality(resent))
         /\ outbound_packet_hashes' = outbound_packet_hashes
                     \cup {HashEntry(env) : env \in resent}
         /\ tx_state' = tx_state
  BY Zenon DEF OnTick, DropTxChannel
<1> HIDE DEF timed
<1>6. /\ ring \in Seq(Envelope) /\ Len(ring) = Len(tx_ring)
      /\ DOMAIN ring = DOMAIN tx_ring
      /\ \A i \in DOMAIN tx_ring :
           /\ ring[i] \in Envelope
           /\ ring[i].msg = tx_ring[i].msg
           /\ ring[i].sequence = tx_ring[i].sequence
           /\ ring[i].delivered = tx_ring[i].delivered
  <2>1. ASSUME NEW i \in DOMAIN tx_ring
        PROVE  /\ ring[i] \in Envelope
               /\ ring[i].msg = tx_ring[i].msg
               /\ ring[i].sequence = tx_ring[i].sequence
               /\ ring[i].delivered = tx_ring[i].delivered
    <3>1. tx_ring[i] \in Envelope BY <1>1, Zenon
    <3>2. ring[i] = IF i \in timed THEN [tx_ring[i] EXCEPT !.tries = @ + 1]
                    ELSE tx_ring[i]
      OBVIOUS
    <3> QED BY <3>1, <3>2 DEF Envelope
  <2>2. DOMAIN ring = 1 .. Len(tx_ring) BY <1>1, Zenon
  <2>3. ring \in [1 .. Len(tx_ring) -> Envelope] BY <2>1, <2>2, <1>1
  <2> QED BY <2>1, <2>2, <2>3, <1>1
<1> HIDE DEF ring
<1>7. Outstanding(ring) = Outstanding(tx_ring)
  BY <1>6 DEF Outstanding
<1>8. again \subseteq DOMAIN tx_ring /\ again \subseteq Outstanding(tx_ring)
  BY <1>2, <1>3
<1>9. \A env \in resent : \E i \in Outstanding(tx_ring) :
        i \in DOMAIN tx_ring /\ env = ring[i]
  BY <1>8
<1>10. \A env \in resent : /\ PacketOf(env) \in Packet
                           /\ HashEntry(env) \in (Nat \X Nat) \X Sequences16
  BY <1>6, <1>9, Zenon DEF PacketOf, HashEntry, PacketHash, Packet, Envelope
<1>11. Cardinality(resent) \in Nat
  <2>1. IsFiniteSet(DOMAIN tx_ring) BY <1>1, FS_Interval
  <2>2. IsFiniteSet(again) BY <2>1, <1>8, FS_Subset, Zenon
  <2>a. [i \in again |-> ring[i]] \in Surjection(again, resent)
    BY Zenon DEF Surjection
  <2>3. IsFiniteSet(resent) BY <2>2, <2>a, FS_Surjection
  <2> QED BY <2>3, FS_CardinalityType, Zenon
<1> HIDE DEF again, resent
<1>12. TypeOK'
  <2>1. window' \in WindowType
    BY <1>5, <1>11, ShrinkByType DEF TypeOK
  <2>a. <<>> \in Seq(Envelope) OBVIOUS
  <2>2. tx_ring' \in Seq(Envelope) BY <2>a, <1>5, <1>6, Zenon
  <2>3. packets' \subseteq Packet BY <1>4, <1>10, SMTT(30) DEF TypeOK
  <2>4. outbound_packet_hashes' \subseteq (Nat \X Nat) \X Sequences16
    BY <1>5, <1>10 DEF TypeOK
  <2>5. tx_state' \in States BY <1>5 DEF TypeOK, States
  <2> QED BY <2>1, <2>2, <2>3, <2>4, <2>5, <1>4, SMTT(30) DEF TypeOK
<1>13. \A i \in DOMAIN tx_ring :
         /\ tx_ring[i].msg \in 1 .. sent
         /\ tx_ring[i].msg = sent - Len(tx_ring) + i
         /\ tx_ring[i].sequence = Stamp(tx_ring[i].msg)
  BY <1>1 DEF SenderStamps, TypeOK
<1>14. \A p \in packets' : p.msg \in 1 .. sent /\ p.sequence = Stamp(p.msg)
  <2> SUFFICES ASSUME NEW env \in resent
               PROVE  /\ PacketOf(env).msg \in 1 .. sent
                      /\ PacketOf(env).sequence = Stamp(PacketOf(env).msg)
    BY <1>4, Zenon DEF SenderStamps
  <2>1. PICK i \in DOMAIN tx_ring : env = ring[i] BY <1>9, Zenon
  <2> QED BY <2>1, <1>6, <1>13, Zenon DEF PacketOf
<1>15. SenderStamps'
  <2>1. CASE tx_ring' = <<>>
    BY <2>1, <1>4, <1>14, Constants DEF SenderStamps, Stamp, TypeOK
  <2>2. CASE tx_ring' = ring
    <3>1. \A i \in DOMAIN ring :
             /\ ring[i].msg = sent - Len(ring) + i
             /\ ring[i].sequence = Stamp(ring[i].msg)
      BY <1>6, <1>13, Zenon
    <3> QED BY <2>2, <3>1, <1>4, <1>6, <1>14, Zenon DEF SenderStamps, Stamp
  <2> QED BY <2>1, <2>2, <1>5, Zenon
<1>16. HashesPoint'
  <2>1. CASE outbound_packet_hashes' = {}
    BY <2>1 DEF HashesPoint
  <2>2. CASE /\ tx_ring' = ring
             /\ outbound_packet_hashes' = outbound_packet_hashes
                     \cup {HashEntry(env) : env \in resent}
    <3>1. \A i \in Outstanding(tx_ring) : i \in DOMAIN tx_ring BY Zenon DEF Outstanding
    <3>2. ASSUME NEW entry \in outbound_packet_hashes
          PROVE  \E i \in Outstanding(ring) :
                    entry[1][1] = ring[i].msg /\ entry[2] = ring[i].sequence
      <4>1. PICK i \in Outstanding(tx_ring) :
              entry[1][1] = tx_ring[i].msg /\ entry[2] = tx_ring[i].sequence
        BY Zenon DEF HashesPoint
      <4> QED BY <4>1, <3>1, <1>6, <1>7, Zenon
    <3>3. ASSUME NEW env \in resent
          PROVE  \E i \in Outstanding(ring) :
                    /\ HashEntry(env)[1][1] = ring[i].msg
                    /\ HashEntry(env)[2] = ring[i].sequence
      <4>1. PICK i \in Outstanding(tx_ring) : env = ring[i] BY <1>9
      <4> QED BY <4>1, <1>7 DEF HashEntry, PacketHash, PacketOf
    <3> QED BY <2>2, <3>2, <3>3 DEF HashesPoint
  <2> QED BY <2>1, <2>2, <1>5, Zenon
<1>17. tx_state' = "active" => Waiting' = Waiting
  <2> SUFFICES ASSUME tx_ring' = ring PROVE Waiting' = Waiting
    BY <1>5
  <2>1. \A i \in Outstanding(tx_ring) : ring[i].msg = tx_ring[i].msg
    BY <1>6, Zenon DEF Outstanding
  <2> QED BY <2>1, <1>7 DEF Waiting
<1> QED BY <1>12, <1>15, <1>16, <1>17

\* A send appends the next message under the next sequence number.
LEMMA SendStep ==
  ASSUME TypeOK, SenderStamps, HashesPoint,
         NEW type \in Types, SendChannelMessage(type)
  PROVE  /\ TypeOK'
         /\ SenderStamps'
         /\ HashesPoint'
         /\ Waiting' = Waiting \cup {sent + 1}
<1> DEFINE env == [msg |-> sent + 1, type |-> type, sequence |-> next_tx_sequence,
                   delivered |-> FALSE, tries |-> 1]
           N == Len(tx_ring)
<1>1. /\ tx_ring' = Append(tx_ring, env)
      /\ outbound_packet_hashes' = outbound_packet_hashes \cup {HashEntry(env)}
      /\ packets' = packets \cup {PacketOf(env)}
      /\ sent' = sent + 1
      /\ next_tx_sequence' = NextSequence(next_tx_sequence)
      /\ tx_state' = tx_state /\ window' = window /\ proofs' = proofs
      /\ rx_state' = rx_state /\ next_rx_sequence' = next_rx_sequence
      /\ rx_ring' = rx_ring /\ delivered' = delivered
      /\ N < Horizon
  BY Zenon DEF SendChannelMessage, rxVars
<1>2. /\ sent \in Nat /\ tx_ring \in Seq(Envelope) /\ N \in Nat
      /\ next_tx_sequence \in Sequences16 /\ N <= sent
  BY DEF TypeOK, SenderStamps
<1>3. env \in Envelope BY <1>2 DEF Envelope
<1>4. /\ env.msg = sent + 1 /\ env.sequence = next_tx_sequence /\ ~ env.delivered
      /\ env.tries = 1
  OBVIOUS
<1>5. next_tx_sequence = Stamp(sent + 1)
  <2>1. (sent + 1) - 1 = sent BY <1>2
  <2> QED BY <2>1, Zenon DEF SenderStamps, Stamp
<1> HIDE DEF env
<1>6. /\ tx_ring' \in Seq(Envelope) /\ Len(tx_ring') = N + 1
      /\ DOMAIN tx_ring' = 1 .. N + 1
      /\ \A i \in 1 .. N : tx_ring'[i] = tx_ring[i]
      /\ tx_ring'[N + 1] = env
  BY <1>1, <1>2, <1>3
<1>7. /\ PacketOf(env) \in Packet
      /\ HashEntry(env) \in (Nat \X Nat) \X Sequences16
  BY <1>3, Zenon DEF PacketOf, HashEntry, PacketHash, Packet, Envelope
<1>8. next_tx_sequence' = (sent + 1) % SEQ_MODULUS
  BY <1>1, <1>2, Constants, ModAdd, Zenon DEF SenderStamps, NextSequence
<1>9. next_tx_sequence' \in Sequences16
  BY <1>2, <1>8, Constants, ModRange, SMTT(30) DEF Sequences16
<1>10. TypeOK'
  BY <1>1, <1>2, <1>6, <1>7, <1>9 DEF TypeOK
<1>11. SenderStamps'
  <2>1. ASSUME NEW i \in 1 .. N + 1
        PROVE  /\ tx_ring'[i].msg = (sent + 1) - (N + 1) + i
               /\ tx_ring'[i].sequence = Stamp(tx_ring'[i].msg)
    <3>1. CASE i \in 1 .. N
      <4>1. tx_ring'[i] = tx_ring[i] /\ tx_ring[i].msg = sent - N + i
            /\ tx_ring[i].sequence = Stamp(tx_ring[i].msg)
        BY <3>1, <1>2, <1>6 DEF SenderStamps
      <4> QED BY <4>1, <1>2
    <3>2. CASE i = N + 1
      BY <3>2, <1>2, <1>4, <1>5, <1>6, SMTT(30)
    <3> QED BY <3>1, <3>2, <1>2, SMTT(30)
  <2>2. \A p \in packets' : p.msg \in 1 .. sent + 1 /\ p.sequence = Stamp(p.msg)
    <3>1. PacketOf(env).msg = sent + 1 /\ PacketOf(env).sequence = next_tx_sequence
      BY <1>4, Zenon DEF PacketOf
    <3>2. \A p \in packets : p.msg \in 1 .. sent /\ p.sequence = Stamp(p.msg)
      BY Zenon DEF SenderStamps
    <3> QED BY <3>1, <3>2, <1>1, <1>2, <1>5
  <2>3. N + 1 <= sent + 1 /\ N + 1 <= Horizon BY <1>1, <1>2, Constants
  <2> QED BY <2>1, <2>2, <2>3, <1>1, <1>6, <1>8, Zenon DEF SenderStamps, Stamp
<1>12. Outstanding(tx_ring') = Outstanding(tx_ring) \cup {N + 1}
  BY <1>2, <1>4, <1>6 DEF Outstanding
<1>13. \A i \in Outstanding(tx_ring) : i \in 1 .. N BY <1>2 DEF Outstanding
<1>14. HashesPoint'
  <2>1. HashEntry(env)[1][1] = sent + 1 /\ HashEntry(env)[2] = next_tx_sequence
    BY <1>4, Zenon DEF HashEntry, PacketHash, PacketOf
  <2>2. ASSUME NEW entry \in outbound_packet_hashes
        PROVE  \E i \in Outstanding(tx_ring') :
                 entry[1][1] = tx_ring'[i].msg /\ entry[2] = tx_ring'[i].sequence
    BY <1>6, <1>12, <1>13 DEF HashesPoint
  <2>3. \E i \in Outstanding(tx_ring') :
           HashEntry(env)[1][1] = tx_ring'[i].msg /\ HashEntry(env)[2] = tx_ring'[i].sequence
    BY <2>1, <1>4, <1>6, <1>12, Zenon
  <2> QED BY <2>2, <2>3, <1>1, Zenon DEF HashesPoint
<1>15. Waiting' = Waiting \cup {sent + 1}
  BY <1>4, <1>6, <1>12, <1>13 DEF Waiting
<1> QED BY <1>10, <1>11, <1>14, <1>15

-----------------------------------------------------------------------------
(* The invariant.                                                          *)

\* The invariant holds of two fresh ends.
LEMMA InitEstablishes == Init => ChannelInv
<1> SUFFICES ASSUME Init PROVE ChannelInv
  OBVIOUS
<1>1. window \in WindowType BY NewWindowType, Zenon DEF Init
<1>2. 0 % SEQ_MODULUS = 0 /\ 0 \in Sequences16
  BY Constants, ModSmall DEF Sequences16
<1>3. TypeOK BY <1>1, <1>2, SMTT(30) DEF Init, TypeOK, States
<1>4. SenderStamps BY <1>2, Constants DEF Init, SenderStamps
<1>5. ReceiverInOrder BY <1>2 DEF Init, ReceiverInOrder, InOrder
<1>6. HashesPoint BY Zenon DEF Init, HashesPoint
<1>7. SettledWasProved BY DEF Init, SettledWasProved
<1>8. BufferedArrived BY Zenon DEF Init, BufferedArrived, Arrived
<1> QED BY <1>3, <1>4, <1>5, <1>6, <1>7, <1>8, Zenon DEF ChannelInv

\* A step that leaves the receiver alone keeps its part of the invariant.
LEMMA ReceiverUnchanged ==
  ASSUME ReceiverInOrder, UNCHANGED rxVars
  PROVE  ReceiverInOrder'
BY Zenon DEF ReceiverInOrder, InOrder, rxVars, Stamp

\* What has arrived depends only on the proofs sent.
LEMMA ArrivedUnchanged ==
  ASSUME UNCHANGED proofs
  PROVE  Arrived' = Arrived
BY Zenon DEF Arrived

\* Dropping the sender's channel leaves an empty ring and no hashes.
LEMMA DropTxStep ==
  ASSUME TypeOK, SenderStamps, DropTxChannel, UNCHANGED <<rxVars, packets, proofs>>,
         tx_state' \in States
  PROVE  TypeOK' /\ SenderStamps' /\ HashesPoint' /\ Waiting' = {}
<1>1. /\ tx_ring' = <<>> /\ outbound_packet_hashes' = {}
      /\ sent' = sent /\ next_tx_sequence' = next_tx_sequence /\ window' = window
  BY Zenon DEF DropTxChannel
<1>2. TypeOK' BY <1>1 DEF TypeOK, rxVars
<1>3. SenderStamps' BY <1>1, Constants DEF SenderStamps, TypeOK, Stamp
<1>4. HashesPoint' BY <1>1, Zenon DEF HashesPoint
<1>5. Waiting' = {} BY <1>1 DEF Waiting, Outstanding
<1> QED BY <1>2, <1>3, <1>4, <1>5, Zenon

\* The receiver's steps leave the sender and the packets alone.
LEMMA SenderUnchanged ==
  ASSUME SenderStamps, HashesPoint, UNCHANGED <<txVars, packets>>
  PROVE  SenderStamps' /\ HashesPoint' /\ Waiting' = Waiting
<1>1. /\ tx_ring' = tx_ring /\ outbound_packet_hashes' = outbound_packet_hashes
      /\ sent' = sent /\ next_tx_sequence' = next_tx_sequence /\ packets' = packets
  BY Zenon DEF txVars
<1>2. SenderStamps' BY <1>1, Zenon DEF SenderStamps, Stamp
<1>3. HashesPoint' BY <1>1, Zenon DEF HashesPoint
<1>4. Waiting' = Waiting BY <1>1, Zenon DEF Waiting
<1> QED BY <1>2, <1>3, <1>4

\* A received packet is proved, and delivered in order or not at all.
LEMMA InboundStep ==
  ASSUME ChannelInv, NEW p \in packets, InboundChannel(p)
  PROVE  /\ TypeOK' /\ ReceiverInOrder'
         /\ Arrived' = Arrived \cup {p.msg}
         /\ BufferedArrived'
         /\ p.msg \in 1 .. sent
         /\ \E k \in Nat :
              /\ delivered' = delivered \o [j \in 1 .. k |-> Len(delivered) + j]
              /\ \A j \in 1 .. k : Len(delivered) + j \in Arrived'
<1> USE DEF ChannelInv
<1>1. /\ Timely(p) /\ proofs' = proofs \cup {PacketHash(p)}
      /\ rx_state' = rx_state /\ UNCHANGED txVars /\ packets' = packets
  BY Zenon DEF InboundChannel
<1>2. \/ is_acceptable_sequence(p.sequence) /\ Receive(p)
      \/ UNCHANGED <<delivered, next_rx_sequence, rx_ring>>
  BY Zenon DEF InboundChannel
<1>3. /\ delivered' \in Seq(Nat)
      /\ next_rx_sequence' \in Sequences16
      /\ rx_ring' \subseteq [msg : Nat, sequence : Sequences16]
      /\ ReceiverInOrder'
  <2>1. CASE is_acceptable_sequence(p.sequence) /\ Receive(p)
    BY <2>1, <1>1, ReceiveInOrder, SMTT(30)
  <2>2. CASE UNCHANGED <<delivered, next_rx_sequence, rx_ring>>
    BY <2>2 DEF TypeOK, ReceiverInOrder, InOrder, Stamp
  <2> QED BY <1>2, <2>1, <2>2
<1>4. PacketHash(p) \in Nat \X Nat /\ PacketHash(p)[1] = p.msg
  BY DEF PacketHash, TypeOK, Packet
<1>5. TypeOK' BY <1>1, <1>3, <1>4, SMTT(30) DEF TypeOK, txVars
<1>6. Arrived' = Arrived \cup {p.msg} BY <1>1, <1>4, SMTT(30) DEF Arrived
<1>7. p.msg \in 1 .. sent /\ sent' = sent BY <1>1 DEF SenderStamps, txVars
<1>8. /\ \A e \in rx_ring' : e.msg \in Arrived'
      /\ \E k \in Nat :
           /\ delivered' = delivered \o [j \in 1 .. k |-> Len(delivered) + j]
           /\ \A j \in 1 .. k : Len(delivered) + j \in Arrived'
  <2>1. CASE is_acceptable_sequence(p.sequence) /\ Receive(p)
    <3>1. /\ \A e \in rx_ring' : e.msg \in {p.msg} \cup {f.msg : f \in rx_ring}
          /\ \E k \in Nat :
               /\ delivered' = delivered \o [j \in 1 .. k |-> Len(delivered) + j]
               /\ \A j \in 1 .. k :
                    Len(delivered) + j \in {p.msg} \cup {f.msg : f \in rx_ring}
      BY <2>1, <1>1, ReceiveInOrder, Zenon
    <3>2. {p.msg} \cup {f.msg : f \in rx_ring} \subseteq Arrived'
      BY <1>6 DEF BufferedArrived
    <3> QED BY <3>1, <3>2, Zenon
  <2>2. CASE UNCHANGED <<delivered, next_rx_sequence, rx_ring>>
    <3>1. delivered \in Seq(Nat) BY Zenon DEF TypeOK
    <3>2. delivered' = delivered \o [j \in 1 .. 0 |-> Len(delivered) + j]
      BY <2>2, <3>1
    <3>3. \A j \in 1 .. 0 : Len(delivered) + j \in Arrived' OBVIOUS
    <3>4. \A e \in rx_ring' : e.msg \in Arrived' BY <2>2, <1>6 DEF BufferedArrived
    <3> QED BY <3>2, <3>3, <3>4, Zenon
  <2> QED BY <1>2, <2>1, <2>2, Zenon
<1>9. BufferedArrived' BY <1>6, <1>7, <1>8, Zenon DEF BufferedArrived
<1> QED BY <1>3, <1>5, <1>6, <1>7, <1>8, <1>9, Zenon

\* Every step preserves the invariant.
LEMMA StepPreserves == ChannelInv /\ [Next]_vars => ChannelInv'
<1> SUFFICES ASSUME ChannelInv, [Next]_vars PROVE ChannelInv'
  OBVIOUS
<1> USE DEF ChannelInv
<1>1. ASSUME NEW type \in Types, SendChannelMessage(type) PROVE ChannelInv'
  <2>1. TypeOK' /\ SenderStamps' /\ HashesPoint' /\ Waiting' = Waiting \cup {sent + 1}
    BY <1>1, SendStep, SMTT(30)
  <2>2. /\ UNCHANGED rxVars /\ UNCHANGED proofs /\ tx_state' = tx_state
        /\ sent' = sent + 1 /\ sent \in Nat
    BY <1>1 DEF SendChannelMessage, TypeOK
  <2>3. SettledWasProved'
    BY <2>1, <2>2, ArrivedUnchanged DEF SettledWasProved
  <2>4. BufferedArrived'
    <3>1. Arrived' = Arrived /\ rx_ring' = rx_ring
      BY <2>2, ArrivedUnchanged, Zenon DEF rxVars
    <3>2. 1 .. sent \subseteq 1 .. sent' BY <2>2
    <3> QED BY <3>1, <3>2, Zenon DEF BufferedArrived
  <2> QED BY <2>1, <2>2, <2>3, <2>4, ReceiverUnchanged
<1>2. ASSUME NEW hash \in proofs, NEW rtt \in RttClass,
             HandleLinkPacketProof(hash, rtt)
      PROVE  ChannelInv'
  <2>1. /\ tx_ring' \in Seq(Envelope) /\ SenderStamps' /\ HashesPoint'
        /\ Waiting' = Waiting \ {hash[1]}
    BY <1>2, ProofStep, Zenon
  <2>2. /\ UNCHANGED rxVars /\ UNCHANGED proofs /\ tx_state' = tx_state
        /\ sent' = sent /\ next_tx_sequence' = next_tx_sequence /\ packets' = packets
        /\ window' = Grow(window, rtt)
        /\ outbound_packet_hashes' \subseteq outbound_packet_hashes
    BY <1>2, Zenon DEF HandleLinkPacketProof, Untrack
  <2>3. window' \in WindowType BY <2>2, GrowType, Zenon DEF TypeOK
  <2>4. TypeOK' BY <2>1, <2>2, <2>3, Zenon DEF TypeOK, rxVars
  <2>5. hash[1] \in Arrived BY Zenon DEF Arrived
  <2>6. SettledWasProved'
    BY <2>1, <2>2, <2>5, ArrivedUnchanged, SMTT(30) DEF SettledWasProved
  <2>7. BufferedArrived'
    BY <2>2, ArrivedUnchanged, Zenon DEF BufferedArrived, rxVars
  <2> QED BY <2>1, <2>2, <2>4, <2>6, <2>7, ReceiverUnchanged, Zenon
<1>3. ASSUME NEW timed_out \in SUBSET OutstandingSequences, OnTick(timed_out)
      PROVE  ChannelInv'
  <2>1. /\ TypeOK' /\ SenderStamps' /\ HashesPoint'
        /\ tx_state' = "active" => Waiting' = Waiting
    BY <1>3, TickStep
  <2>2. /\ UNCHANGED rxVars /\ UNCHANGED proofs /\ sent' = sent /\ tx_state = "active"
    BY <1>3, SMTT(30) DEF OnTick, DropTxChannel
  <2>3. SettledWasProved'
    BY <2>1, <2>2, ArrivedUnchanged DEF SettledWasProved
  <2>4. BufferedArrived'
    BY <2>2, ArrivedUnchanged, Zenon DEF BufferedArrived, rxVars
  <2> QED BY <2>1, <2>2, <2>3, <2>4, ReceiverUnchanged, SMTT(30)
<1>4. CASE ShutdownTx \/ CloseTxLink
  <2>1. /\ DropTxChannel /\ UNCHANGED <<rxVars, packets, proofs>>
        /\ tx_state' \in States /\ tx_state' # "active" /\ sent' = sent
    BY <1>4 DEF ShutdownTx, CloseTxLink, States, DropTxChannel
  <2>2. TypeOK' /\ SenderStamps' /\ HashesPoint' BY <2>1, DropTxStep
  <2>3. SettledWasProved' BY <2>1 DEF SettledWasProved
  <2>4. BufferedArrived'
    BY <2>1, ArrivedUnchanged, Zenon DEF BufferedArrived, rxVars
  <2> QED BY <2>1, <2>2, <2>3, <2>4, ReceiverUnchanged, SMTT(30)
<1>5. ASSUME NEW p \in packets, InboundChannel(p) PROVE ChannelInv'
  <2>1. /\ TypeOK' /\ ReceiverInOrder' /\ Arrived' = Arrived \cup {p.msg}
        /\ BufferedArrived'
    BY <1>5, InboundStep
  <2>2. UNCHANGED <<txVars, packets>> BY <1>5 DEF InboundChannel
  <2>3. SenderStamps' /\ HashesPoint' /\ Waiting' = Waiting
    BY <2>2, SenderUnchanged
  <2>4. SettledWasProved'
    BY <2>1, <2>2, <2>3 DEF SettledWasProved, txVars
  <2> QED BY <2>1, <2>3, <2>4
<1>6. CASE ShutdownRx \/ CloseRxLink
  <2>1. /\ rx_ring' = {} /\ rx_state' \in States
        /\ next_rx_sequence' = next_rx_sequence /\ delivered' = delivered
        /\ UNCHANGED <<txVars, packets>> /\ UNCHANGED proofs
    BY <1>6 DEF ShutdownRx, CloseRxLink, DropRxChannel, States
  <2>2. TypeOK' BY <2>1 DEF TypeOK, txVars
  <2>3. SenderStamps' /\ HashesPoint' /\ Waiting' = Waiting
    BY <2>1, SenderUnchanged, SMTT(30)
  <2>4. ReceiverInOrder' BY <2>1 DEF ReceiverInOrder, InOrder
  <2>5. SettledWasProved'
    BY <2>1, <2>3, ArrivedUnchanged DEF SettledWasProved, txVars
  <2>6. BufferedArrived'
    BY <2>1, ArrivedUnchanged, Zenon DEF BufferedArrived, txVars
  <2> QED BY <2>2, <2>3, <2>4, <2>5, <2>6
<1>7. CASE UNCHANGED vars
  <2>1. UNCHANGED <<txVars, packets>> /\ UNCHANGED rxVars /\ UNCHANGED proofs
    BY <1>7 DEF vars
  <2>2. TypeOK' BY <2>1 DEF TypeOK, txVars, rxVars
  <2>3. SenderStamps' /\ HashesPoint' /\ Waiting' = Waiting
    BY <2>1, SenderUnchanged
  <2>4. SettledWasProved'
    BY <2>1, <2>3, ArrivedUnchanged DEF SettledWasProved, txVars
  <2>5. BufferedArrived'
    BY <2>1, ArrivedUnchanged, Zenon DEF BufferedArrived, txVars, rxVars
  <2> QED BY <2>1, <2>2, <2>3, <2>4, <2>5, ReceiverUnchanged, SMTT(30)
<1> QED
  BY <1>1, <1>2, <1>3, <1>4, <1>5, <1>6, <1>7, Zenon DEF Next

\* The inductive invariant of the channel holds in every reachable state.
THEOREM ChannelInvariant == Spec => []ChannelInv
<1>1. Init => ChannelInv BY InitEstablishes
<1>2. ChannelInv /\ [Next]_vars => ChannelInv' BY StepPreserves
<1> QED BY <1>1, <1>2, PTL DEF Spec

\* Both ends keep their state well typed, for every instance.
THEOREM ChannelTypeCorrect == Spec => []TypeOK
<1>1. ChannelInv => TypeOK BY Zenon DEF ChannelInv
<1> QED BY <1>1, ChannelInvariant, PTL

\* `Channel::receive` hands messages up in order and once each, for every size
\* of window and sequence space that the sequence check can tell apart.
THEOREM DeliversInOrder == Spec => []InOrder
<1>1. ChannelInv => InOrder BY DEF ChannelInv, ReceiverInOrder
<1> QED BY <1>1, ChannelInvariant, PTL

\* The sender settles only messages whose packets the receiver has proved.
THEOREM SettlesOnlyProved == Spec => []SettledWasProved
<1>1. ChannelInv => SettledWasProved BY Zenon DEF ChannelInv
<1> QED BY <1>1, ChannelInvariant, PTL

\* The reorder buffer holds only messages beyond the one expected, each once.
THEOREM BuffersAheadOfGap == Spec => []RingAheadOfGap
<1>1. ChannelInv => RingAheadOfGap
  <2> SUFFICES ASSUME ChannelInv PROVE RingAheadOfGap
    OBVIOUS
  <2> USE DEF ChannelInv
  <2> DEFINE L == Len(delivered)
  <2>1. L \in Nat /\ next_rx_sequence = L % SEQ_MODULUS
    BY DEF TypeOK, ReceiverInOrder
  <2>2. \A e \in rx_ring : /\ e.msg \in L + 2 .. L + 1 + WINDOW_MAX
                           /\ e.sequence = (e.msg - 1) % SEQ_MODULUS
    BY Zenon DEF ReceiverInOrder, Stamp
  <2>3. ASSUME NEW e \in rx_ring, NEW f \in rx_ring, e.sequence = f.sequence
        PROVE  e = f
    <3>1. PICK m \in L + 2 .. L + 1 + WINDOW_MAX : m = e.msg BY <2>2, Zenon
    <3>2. PICK n \in L + 2 .. L + 1 + WINDOW_MAX : n = f.msg BY <2>2, Zenon
    <3>3. (m - 1) % SEQ_MODULUS = (n - 1) % SEQ_MODULUS
      BY <2>2, <2>3, <3>1, <3>2, Zenon
    <3>4. /\ m - 1 \in Nat /\ n - 1 \in Nat /\ SEQ_MODULUS \in Nat \ {0}
          /\ (m - 1) - (n - 1) < SEQ_MODULUS /\ (n - 1) - (m - 1) < SEQ_MODULUS
      BY <2>1, Constants
    <3>5. m - 1 = n - 1 BY ONLY <3>3, <3>4, ModInjective, Zenon
    <3>6. m = n BY <3>4, <3>5, <2>1, Constants
    <3>7. /\ e \in [msg : Nat, sequence : Sequences16]
          /\ f \in [msg : Nat, sequence : Sequences16]
      BY Zenon DEF TypeOK
    <3>8. e.msg = f.msg BY <3>1, <3>2, <3>6
    <3> QED BY ONLY <3>7, <3>8, <2>3
  <2> QED BY <2>2, <2>3 DEF RingAheadOfGap
<1> QED BY <1>1, ChannelInvariant, PTL

-----------------------------------------------------------------------------
(* Refinement of the ordered channel.                                      *)

\* Two fresh ends are a fresh ordered channel.
LEMMA InitRefines == Init => Ordered!Init
BY DEF Init, Ordered!Init, Waiting, Outstanding, Arrived

\* Every step of the two ends is a step of the ordered channel or a stutter.
LEMMA StepRefines ==
  ChannelInv /\ [Next]_vars => [Ordered!Next]_(Ordered!vars)
<1> SUFFICES ASSUME ChannelInv, [Next]_vars PROVE [Ordered!Next]_(Ordered!vars)
  OBVIOUS
<1> USE DEF ChannelInv
<1>1. ASSUME NEW type \in Types, SendChannelMessage(type) PROVE Ordered!Send
  <2>1. Waiting' = Waiting \cup {sent + 1} BY <1>1, SendStep, SMTT(30)
  <2>2. /\ tx_state = "active" /\ tx_state' = tx_state /\ sent' = sent + 1
        /\ UNCHANGED proofs /\ delivered' = delivered
    BY <1>1, SMTT(30) DEF SendChannelMessage, is_ready_to_send, rxVars
  <2> QED BY <2>1, <2>2, ArrivedUnchanged DEF Ordered!Send
<1>2. ASSUME NEW hash \in proofs, NEW rtt \in RttClass,
             HandleLinkPacketProof(hash, rtt)
      PROVE  \E n \in Waiting \cap Arrived : Ordered!Acknowledge(n)
  <2>1. hash[1] \in Waiting /\ Waiting' = Waiting \ {hash[1]}
    BY <1>2, ProofStep
  <2>2. /\ tx_state' = tx_state /\ sent' = sent
        /\ UNCHANGED proofs /\ delivered' = delivered
    BY <1>2 DEF HandleLinkPacketProof, rxVars
  <2>3. hash[1] \in Arrived BY Zenon DEF Arrived
  <2> QED BY <2>1, <2>2, <2>3, ArrivedUnchanged DEF Ordered!Acknowledge
<1>3. ASSUME NEW timed_out \in SUBSET OutstandingSequences, OnTick(timed_out)
      PROVE  Ordered!Close \/ UNCHANGED Ordered!vars
  <2>1. tx_state' = "active" => Waiting' = Waiting BY <1>3, TickStep
  <2>2. /\ tx_state = "active" /\ sent' = sent /\ UNCHANGED proofs
        /\ delivered' = delivered
        /\ tx_state' = "active" \/ (tx_state' = "closed" /\ tx_ring' = <<>>)
    BY <1>3, Zenon DEF OnTick, DropTxChannel, rxVars
  <2>3. CASE tx_state' = "active"
    BY <2>1, <2>2, <2>3, ArrivedUnchanged DEF Ordered!vars
  <2>4. CASE tx_state' = "closed" /\ tx_ring' = <<>>
    <3>1. Waiting' = {} BY <2>4 DEF Waiting, Outstanding
    <3> QED BY <2>2, <2>4, <3>1, ArrivedUnchanged DEF Ordered!Close
  <2> QED BY <2>2, <2>3, <2>4
<1>4. CASE ShutdownTx \/ CloseTxLink
  <2>1. /\ DropTxChannel /\ UNCHANGED <<rxVars, packets, proofs>>
        /\ tx_state' \in States /\ tx_state' # "active" /\ sent' = sent
        /\ UNCHANGED proofs /\ delivered' = delivered
    BY <1>4 DEF ShutdownTx, CloseTxLink, States, DropTxChannel, rxVars
  <2>2. Waiting' = {} BY <2>1, DropTxStep
  <2> QED BY <2>1, <2>2, ArrivedUnchanged DEF Ordered!Close, Ordered!Next
<1>5. ASSUME NEW p \in packets, InboundChannel(p)
      PROVE  \E n \in 1 .. sent : Ordered!Arrive(n)
  <2>1. /\ Arrived' = Arrived \cup {p.msg} /\ p.msg \in 1 .. sent
        /\ BufferedArrived' /\ UNCHANGED <<txVars, packets>>
    BY <1>5, InboundStep DEF InboundChannel
  <2>2. PICK k \in Nat :
          /\ delivered' = delivered \o [j \in 1 .. k |-> Len(delivered) + j]
          /\ \A j \in 1 .. k : Len(delivered) + j \in Arrived'
    BY <1>5, InboundStep, Zenon
  <2>3. tx_state' = tx_state /\ sent' = sent /\ Waiting' = Waiting
    BY <2>1, SenderUnchanged DEF txVars
  <2>4. k \in 0 .. sent
    <3>1. CASE k = 0 BY <3>1 DEF TypeOK
    <3>2. CASE k > 0
      <4>1. k \in 1 .. k BY <3>2
      <4>2. Len(delivered) + k \in 1 .. sent
        BY <4>1, <2>1, <2>2, <2>3 DEF BufferedArrived
      <4>3. Len(delivered) \in Nat /\ sent \in Nat BY DEF TypeOK
      <4> QED BY <4>2, <4>3
    <3> QED BY <3>1, <3>2
  <2>5. Ordered!Arrive(p.msg)
    BY <2>1, <2>2, <2>3, <2>4, Zenon DEF Ordered!Arrive
  <2> QED BY <2>1, <2>5, SMTT(30)
<1>6. CASE ShutdownRx \/ CloseRxLink
  <2>1. /\ delivered' = delivered /\ UNCHANGED <<txVars, packets>> /\ UNCHANGED proofs
    BY <1>6 DEF ShutdownRx, CloseRxLink, DropRxChannel
  <2>2. tx_state' = tx_state /\ sent' = sent /\ Waiting' = Waiting
    BY <2>1, SenderUnchanged DEF txVars
  <2> QED BY <2>1, <2>2, ArrivedUnchanged DEF Ordered!vars
<1>7. CASE UNCHANGED vars
  <2>1. /\ delivered' = delivered /\ UNCHANGED <<txVars, packets>> /\ UNCHANGED proofs
    BY <1>7 DEF vars, rxVars
  <2>2. tx_state' = tx_state /\ sent' = sent /\ Waiting' = Waiting
    BY <2>1, SenderUnchanged DEF txVars
  <2> QED BY <2>1, <2>2, ArrivedUnchanged DEF Ordered!vars
<1>8. CASE Next
  BY <1>8, <1>1, <1>2, <1>3, <1>4, <1>5, <1>6, Zenon DEF Next, Ordered!Next
<1> QED BY <1>7, <1>8

\* Every behaviour of the two ends of a Channel over a lossy, duplicating and
\* reordering network is a behaviour of the abstract ordered channel.
THEOREM ChannelRefinesOrdered == Spec => ImplementsOrderedChannel
<1>1. Init => Ordered!Init BY InitRefines, Zenon
<1>2. ChannelInv /\ [Next]_vars => [Ordered!Next]_(Ordered!vars) BY StepRefines, Zenon
<1> QED BY <1>1, <1>2, ChannelInvariant, PTL
  DEF Spec, ImplementsOrderedChannel, Ordered!Spec

-----------------------------------------------------------------------------
(* The sender's account of what it has transmitted.                        *)

\* The entry of a transmission of an envelope.
Transmission(env, t) == <<<<env.msg, t>>, env.sequence>>

\* It is of a message that the ring waits for.
Tracks(ring, entry) ==
    \E i \in Outstanding(ring) : \E t \in 1 .. ring[i].tries :
        entry = Transmission(ring[i], t)

\* Every envelope in the ring has been transmitted.
Transmitted == \A i \in DOMAIN tx_ring : tx_ring[i].tries \in Nat \ {0}

SenderInv == SenderExact /\ Transmitted

-----------------------------------------------------------------------------

\* The account, entry by entry.
LEMMA AccountByEntry ==
  HashesTrackOutstanding <=>
     \A entry : entry \in outbound_packet_hashes <=> Tracks(tx_ring, entry)
BY DEF HashesTrackOutstanding, Tracks, Transmission

\* The positions waited for are finitely many.
LEMMA OutstandingFinite ==
  ASSUME NEW ring \in Seq(Envelope)
  PROVE  /\ Outstanding(ring) \subseteq 1 .. Len(ring)
         /\ IsFiniteSet(Outstanding(ring))
         /\ Cardinality(Outstanding(ring)) \in Nat
<1>1. Outstanding(ring) \subseteq 1 .. Len(ring) /\ Len(ring) \in Nat BY DEF Outstanding
<1>2. IsFiniteSet(1 .. Len(ring)) BY <1>1, FS_Interval
<1>3. IsFiniteSet(Outstanding(ring)) BY <1>1, <1>2, FS_Subset, Zenon
<1> QED BY <1>1, <1>3, FS_CardinalityType, Zenon

\* Settling an envelope leaves the others, moved to the front of the ring.
LEMMA SettledRing ==
  ASSUME NEW ring \in Seq(Envelope), NEW f \in Outstanding(ring)
  PROVE  LET rest == PopDelivered([ring EXCEPT ![f].delivered = TRUE])
         IN  /\ rest \in Seq(Envelope)
             /\ \E d \in Nat :
                  /\ \A i \in DOMAIN rest :
                       /\ i + d \in DOMAIN ring
                       /\ rest[i].msg = ring[i + d].msg
                       /\ rest[i].sequence = ring[i + d].sequence
                       /\ rest[i].tries = ring[i + d].tries
                  /\ \A i \in Outstanding(rest) : i + d \in Outstanding(ring) \ {f}
                  /\ \A j \in Outstanding(ring) \ {f} : j - d \in Outstanding(rest)
<1> DEFINE marked == [ring EXCEPT ![f].delivered = TRUE]
           rest == PopDelivered(marked)
           d == Len(ring) - Len(rest)
<1>1. f \in DOMAIN ring BY Zenon DEF Outstanding
<1>2. /\ marked \in Seq(Envelope)
      /\ Len(marked) = Len(ring)
      /\ DOMAIN marked = DOMAIN ring
      /\ \A i \in DOMAIN ring : /\ marked[i].msg = ring[i].msg
                                /\ marked[i].sequence = ring[i].sequence
                                /\ marked[i].tries = ring[i].tries
      /\ Outstanding(marked) = Outstanding(ring) \ {f}
  BY <1>1, MarkDelivered, Zenon
<1> HIDE DEF marked
<1>3. /\ rest \in Seq(Envelope)
      /\ Len(rest) <= Len(marked)
      /\ \A i \in DOMAIN rest : /\ i + Len(marked) - Len(rest) \in DOMAIN marked
                                /\ rest[i] = marked[i + Len(marked) - Len(rest)]
      /\ \A j \in Outstanding(marked) : j > Len(marked) - Len(rest)
  BY <1>2, PopDeliveredElements, SMTT(20)
<1> HIDE DEF rest
<1>4. Len(rest) \in Nat /\ Len(ring) \in Nat /\ d \in Nat BY <1>2, <1>3
<1>5. \A i \in DOMAIN rest : i + d \in DOMAIN ring /\ rest[i] = marked[i + d]
  <2>1. \A i \in DOMAIN rest : i + Len(marked) - Len(rest) = i + d BY <1>2, <1>3, <1>4, Zenon
  <2> QED BY <2>1, <1>2, <1>3, Zenon
<1>6. \A i \in Outstanding(rest) : i + d \in Outstanding(ring) \ {f}
  BY <1>2, <1>5, Zenon DEF Outstanding
<1>7. ASSUME NEW j \in Outstanding(ring) \ {f} PROVE j - d \in Outstanding(rest)
  <2>1. j \in 1 .. Len(ring) /\ j > d /\ j \in Outstanding(marked)
    BY <1>2, <1>3 DEF Outstanding
  <2>2. j - d \in DOMAIN rest /\ (j - d) + d = j BY <2>1, <1>3, <1>4
  <2>3. rest[j - d] = marked[j] BY <2>2, <1>5, Zenon
  <2> QED BY <2>1, <2>2, <2>3, Zenon DEF Outstanding
<1> HIDE DEF d
<1>8. \A i \in DOMAIN rest : /\ i + d \in DOMAIN ring
                             /\ rest[i].msg = ring[i + d].msg
                             /\ rest[i].sequence = ring[i + d].sequence
                             /\ rest[i].tries = ring[i + d].tries
  BY <1>2, <1>5
<1>9. d \in Nat BY <1>4, Zenon DEF d
<1> QED BY <1>3, <1>6, <1>7, <1>8, <1>9, Zenon DEF rest, marked

-----------------------------------------------------------------------------

\* A send adds its own transmission, within the window.
LEMMA SendAccounts ==
  ASSUME ChannelInv, SenderInv, NEW type \in Types, SendChannelMessage(type)
  PROVE  SenderInv'
<1> DEFINE env == [msg |-> sent + 1, type |-> type, sequence |-> next_tx_sequence,
                   delivered |-> FALSE, tries |-> 1]
           N == Len(tx_ring)
<1>1. /\ tx_ring' = Append(tx_ring, env)
      /\ outbound_packet_hashes' = outbound_packet_hashes \cup {HashEntry(env)}
      /\ packets' = packets \cup {PacketOf(env)}
      /\ is_ready_to_send
  BY Zenon DEF SendChannelMessage
<1>2. /\ sent \in Nat /\ tx_ring \in Seq(Envelope) /\ N \in Nat
      /\ next_tx_sequence \in Sequences16 /\ window \in WindowType
  BY SMTT(30) DEF ChannelInv, TypeOK
<1>3. /\ env \in Envelope /\ env.tries = 1 /\ ~ env.delivered
      /\ HashEntry(env) = Transmission(env, 1) /\ PacketOf(env).try = 1
  BY <1>2, SMTT(30) DEF Envelope, HashEntry, PacketHash, PacketOf, Transmission
<1> HIDE DEF env
<1>4. /\ DOMAIN tx_ring = 1 .. N /\ DOMAIN tx_ring' = 1 .. N + 1
      /\ \A i \in 1 .. N : tx_ring'[i] = tx_ring[i]
      /\ tx_ring'[N + 1] = env
  BY <1>1, <1>2, <1>3, SMTT(30)
<1>5. Outstanding(tx_ring') = Outstanding(tx_ring) \cup {N + 1}
  BY <1>2, <1>3, <1>4 DEF Outstanding
<1>6. Outstanding(tx_ring) \subseteq 1 .. N BY <1>4, Zenon DEF Outstanding
<1> HIDE DEF N
<1>7. HashesTrackOutstanding'
  <2> SUFFICES ASSUME NEW entry
               PROVE  entry \in outbound_packet_hashes' <=> Tracks(tx_ring', entry)
    BY DEF HashesTrackOutstanding, Tracks, Transmission
  <2>1. entry \in outbound_packet_hashes <=> Tracks(tx_ring, entry)
    BY AccountByEntry, Zenon DEF SenderInv, SenderExact
  <2>2. Tracks(tx_ring', entry) <=> Tracks(tx_ring, entry) \/ entry = Transmission(env, 1)
    BY <1>2, <1>3, <1>4, <1>5, <1>6, SMTT(30) DEF Tracks
  <2> QED BY <2>1, <2>2, <1>1, <1>3, Zenon
<1>8. AttemptsBounded'
  <2>1. 1 \in 1 .. MAX_TRIES BY ChannelAssumption
  <2> QED BY <2>1, <1>1, <1>3, Zenon DEF SenderInv, SenderExact, AttemptsBounded
<1>9. OutstandingBounded'
  <2>1. /\ IsFiniteSet(Outstanding(tx_ring)) /\ Cardinality(Outstanding(tx_ring)) \in Nat
    BY <1>2, OutstandingFinite, Zenon
  <2>2. Cardinality(Outstanding(tx_ring')) \in
           {Cardinality(Outstanding(tx_ring)), Cardinality(Outstanding(tx_ring)) + 1}
    BY <2>1, <1>5, FS_AddElement, Zenon
  <2>3. Cardinality(Outstanding(tx_ring)) < WINDOW_MAX
    BY <1>1, <1>2, <2>1, Constants, SMTT(30) DEF is_ready_to_send, WindowType
  <2> QED BY <2>1, <2>2, <2>3, Constants DEF OutstandingBounded
<1>10. Transmitted'
  BY <1>2, <1>3, <1>4 DEF SenderInv, Transmitted
<1> QED BY <1>7, <1>8, <1>9, <1>10, Zenon DEF SenderInv, SenderExact

\* A proof settles its envelope and forgets all its transmissions, and no other.
LEMMA ProofAccounts ==
  ASSUME ChannelInv, SenderInv, NEW hash \in proofs, NEW rtt \in RttClass,
         HandleLinkPacketProof(hash, rtt)
  PROVE  SenderInv'
<1>1. PICK entry \in outbound_packet_hashes :
        /\ entry[1] = hash
        /\ outbound_packet_hashes' = Untrack(entry)
        /\ tx_ring' = PopDelivered(
             [tx_ring EXCEPT ![Find(tx_ring, entry[2])].delivered = TRUE])
  BY Zenon DEF HandleLinkPacketProof
<1>2. tx_ring \in Seq(Envelope) /\ packets' = packets
  BY Zenon DEF HandleLinkPacketProof, ChannelInv, TypeOK
<1>3. PICK f \in Outstanding(tx_ring) : entry[2] = tx_ring[f].sequence
  BY Zenon DEF ChannelInv, HashesPoint
<1>4. f \in DOMAIN tx_ring /\ \A i \in Outstanding(tx_ring) : i \in DOMAIN tx_ring
  BY Zenon DEF Outstanding
<1>5. \A i, j \in DOMAIN tx_ring : tx_ring[i].sequence = tx_ring[j].sequence => i = j
  BY UniqueInRing, Zenon DEF ChannelInv
<1>6. Find(tx_ring, entry[2]) = f
  BY <1>2, <1>3, <1>4, <1>5, FindFinds
<1> DEFINE rest == PopDelivered([tx_ring EXCEPT ![f].delivered = TRUE])
<1>7. tx_ring' = rest BY <1>1, <1>6, Zenon
<1>8. rest \in Seq(Envelope) BY <1>2, SettledRing, Zenon
<1>9. PICK d \in Nat :
        /\ \A i \in DOMAIN rest : /\ i + d \in DOMAIN tx_ring
                                  /\ rest[i].msg = tx_ring[i + d].msg
                                  /\ rest[i].sequence = tx_ring[i + d].sequence
                                  /\ rest[i].tries = tx_ring[i + d].tries
        /\ \A i \in Outstanding(rest) : i + d \in Outstanding(tx_ring) \ {f}
        /\ \A j \in Outstanding(tx_ring) \ {f} : j - d \in Outstanding(rest)
  BY <1>2, SettledRing, Zenon
<1> HIDE DEF rest
<1>10. /\ Outstanding(rest) \subseteq DOMAIN rest /\ DOMAIN rest \subseteq Nat
       /\ Outstanding(tx_ring) \subseteq Nat
  BY <1>2, <1>8 DEF Outstanding
<1>11. HashesTrackOutstanding'
  <2> SUFFICES ASSUME NEW other
               PROVE  other \in outbound_packet_hashes' <=> Tracks(tx_ring', other)
    BY DEF HashesTrackOutstanding, Tracks, Transmission
  <2>1. \A e : e \in outbound_packet_hashes <=> Tracks(tx_ring, e)
    BY AccountByEntry, Zenon DEF SenderInv, SenderExact
  <2>2. ASSUME Tracks(rest, other) PROVE other \in Untrack(entry)
    <3>0. PICK i \in Outstanding(rest) : \E t \in 1 .. rest[i].tries :
             other = Transmission(rest[i], t)
      BY <2>2, Zenon DEF Tracks
    <3>1. PICK t \in 1 .. rest[i].tries : other = Transmission(rest[i], t) BY <3>0, Zenon
    <3>2. /\ i + d \in Outstanding(tx_ring) \ {f} /\ i \in DOMAIN rest
      BY <1>9, <1>10, Zenon
    <3>3. other = Transmission(tx_ring[i + d], t) /\ t \in 1 .. tx_ring[i + d].tries
      BY <3>1, <3>2, <1>9, Zenon DEF Transmission
    <3>4. Tracks(tx_ring, other) BY <3>2, <3>3, Zenon DEF Tracks
    <3>5. tx_ring[i + d].sequence # tx_ring[f].sequence BY <3>2, <1>4, <1>5, SMTT(30)
    <3>6. other[2] # entry[2] BY <3>3, <3>5, <1>3, SMTT(30) DEF Transmission
    <3> QED BY <3>4, <3>6, <2>1, Zenon DEF Untrack
  <2>3. ASSUME other \in Untrack(entry) PROVE Tracks(rest, other)
    <3>1. Tracks(tx_ring, other) /\ other[2] # entry[2] BY <2>1, <2>3, SMTT(30) DEF Untrack
    <3>0. PICK j \in Outstanding(tx_ring) : \E t \in 1 .. tx_ring[j].tries :
             other = Transmission(tx_ring[j], t)
      BY <3>1 DEF Tracks
    <3>2. PICK t \in 1 .. tx_ring[j].tries : other = Transmission(tx_ring[j], t) BY <3>0, SMTT(30)
    <3>3. j # f BY <3>1, <3>2, <1>3, SMTT(30) DEF Transmission
    <3>4. j - d \in Outstanding(rest) /\ j - d \in DOMAIN rest /\ (j - d) + d = j
      BY <3>3, <1>9, <1>10
    <3>5. other = Transmission(rest[j - d], t) /\ t \in 1 .. rest[j - d].tries
      BY <3>2, <3>4, <1>9, Zenon DEF Transmission
    <3> QED BY <3>4, <3>5 DEF Tracks
  <2> QED BY <2>2, <2>3, <1>1, <1>7, SMTT(30)
<1>12. AttemptsBounded'
  BY <1>2, Zenon DEF SenderInv, SenderExact, AttemptsBounded
<1>13. OutstandingBounded'
  <2> DEFINE shift == [i \in Outstanding(rest) |-> i + d]
  <2>1. shift \in Injection(Outstanding(rest), Outstanding(tx_ring))
    BY <1>9, <1>10 DEF Injection, IsInjective
  <2>2. IsFiniteSet(Outstanding(tx_ring)) /\ Cardinality(Outstanding(tx_ring)) \in Nat
    BY <1>2, OutstandingFinite, Zenon
  <2>3. Cardinality(Outstanding(rest)) <= Cardinality(Outstanding(tx_ring))
    BY <2>1, <2>2, FS_Injection, Zenon
  <2>4. Cardinality(Outstanding(rest)) \in Nat
    BY <1>8, OutstandingFinite, Zenon
  <2>5. Cardinality(Outstanding(tx_ring)) <= WINDOW_MAX
    BY Zenon DEF SenderInv, SenderExact, OutstandingBounded
  <2>6. Cardinality(Outstanding(rest)) <= WINDOW_MAX
    BY <2>2, <2>3, <2>4, <2>5, Constants, SMTT(20)
  <2> QED BY <2>6, <1>7, Zenon DEF OutstandingBounded
<1>14. Transmitted'
  BY <1>7, <1>9 DEF SenderInv, Transmitted
<1> QED BY <1>11, <1>12, <1>13, <1>14, Zenon DEF SenderInv, SenderExact

\* A tick adds one transmission to each envelope it sends again.
LEMMA TickAccounts ==
  ASSUME ChannelInv, SenderInv,
         NEW timed_out \in SUBSET OutstandingSequences, OnTick(timed_out)
  PROVE  SenderInv'
<1> DEFINE timed == {Find(tx_ring, q) : q \in timed_out}
           ring  == [i \in DOMAIN tx_ring |->
                       IF i \in timed THEN [tx_ring[i] EXCEPT !.tries = @ + 1]
                       ELSE tx_ring[i]]
           again == {j \in timed : ~ Exhausted(ring[j].tries)}
           resent == {ring[i] : i \in again}
<1>1. /\ tx_ring \in Seq(Envelope)
      /\ \A i \in DOMAIN tx_ring : tx_ring[i] \in Envelope
  BY DEF ChannelInv, TypeOK
<1>2. timed \subseteq Outstanding(tx_ring)
  <2> SUFFICES ASSUME NEW q \in timed_out PROVE Find(tx_ring, q) \in Outstanding(tx_ring)
    OBVIOUS
  <2>1. PICK i \in Outstanding(tx_ring) : q = tx_ring[i].sequence
    BY DEF OutstandingSequences
  <2>2. i \in DOMAIN tx_ring BY DEF Outstanding
  <2>3. Find(tx_ring, q) = i
    BY <1>1, <2>1, <2>2, FindFinds, UniqueInRing DEF ChannelInv
  <2> QED BY <2>3
<1>3. timed \subseteq DOMAIN tx_ring BY <1>2 DEF Outstanding
<1>4. packets' = packets \cup {PacketOf(env) : env \in resent}
  BY Zenon DEF OnTick
<1>5. \/ tx_ring' = <<>> /\ outbound_packet_hashes' = {}
      \/ /\ tx_ring' = ring /\ again = timed
         /\ outbound_packet_hashes' = outbound_packet_hashes
                     \cup {HashEntry(env) : env \in resent}
  BY Zenon DEF OnTick, DropTxChannel
<1> HIDE DEF timed
<1>6. /\ DOMAIN ring = DOMAIN tx_ring
      /\ \A i \in DOMAIN tx_ring :
           /\ ring[i].msg = tx_ring[i].msg
           /\ ring[i].sequence = tx_ring[i].sequence
           /\ ring[i].delivered = tx_ring[i].delivered
           /\ ring[i].tries = IF i \in timed THEN tx_ring[i].tries + 1 ELSE tx_ring[i].tries
  BY <1>1 DEF Envelope
<1> HIDE DEF ring
<1>7. Outstanding(ring) = Outstanding(tx_ring) BY <1>6, SMTT(30) DEF Outstanding
<1>8. \A i \in DOMAIN tx_ring : tx_ring[i].tries \in Nat \ {0} /\ ring[i].tries \in Nat \ {0}
  BY <1>6, SMTT(20) DEF SenderInv, Transmitted
<1>9. \A i \in DOMAIN tx_ring :
         /\ HashEntry(ring[i]) = Transmission(ring[i], ring[i].tries)
         /\ PacketOf(ring[i]).try = ring[i].tries
  BY SMTT(20) DEF HashEntry, PacketHash, PacketOf, Transmission
<1>10. AttemptsBounded'
  <2>1. \A i \in again : ring[i].tries \in 1 .. MAX_TRIES
    BY <1>3, <1>8, ChannelAssumption DEF Exhausted
  <2> QED BY <1>3, <1>4, <1>9, <2>1, SMTT(30) DEF SenderInv, SenderExact, AttemptsBounded
<1>11. CASE tx_ring' = <<>> /\ outbound_packet_hashes' = {}
  <2>1. Outstanding(tx_ring') = {} BY <1>11 DEF Outstanding
  <2>2. HashesTrackOutstanding' BY <1>11, <2>1 DEF HashesTrackOutstanding
  <2>3. OutstandingBounded' BY <2>1, FS_EmptySet, Constants DEF OutstandingBounded
  <2>4. Transmitted' BY <1>11, SMTT(20) DEF Transmitted
  <2> QED BY <2>2, <2>3, <2>4, <1>10 DEF SenderInv, SenderExact
<1>12. CASE /\ tx_ring' = ring /\ again = timed
            /\ outbound_packet_hashes' = outbound_packet_hashes
                     \cup {HashEntry(env) : env \in resent}
  <2>1. HashesTrackOutstanding'
    <3> SUFFICES ASSUME NEW entry
                 PROVE  entry \in outbound_packet_hashes' <=> Tracks(ring, entry)
      BY <1>12 DEF HashesTrackOutstanding, Tracks, Transmission
    <3>1. entry \in outbound_packet_hashes' <=>
             \/ Tracks(tx_ring, entry)
             \/ \E i \in timed : entry = Transmission(ring[i], ring[i].tries)
      <4>1. entry \in outbound_packet_hashes <=> Tracks(tx_ring, entry)
        BY AccountByEntry, Zenon DEF SenderInv, SenderExact
      <4> QED BY <4>1, <1>3, <1>9, <1>12, Zenon
    <3>2. \A i \in DOMAIN tx_ring : \A t : Transmission(ring[i], t) = Transmission(tx_ring[i], t)
      BY <1>6, Zenon DEF Transmission
    <3>3. \A i \in Outstanding(tx_ring) : i \in DOMAIN tx_ring BY Zenon DEF Outstanding
    <3>4. \A i \in DOMAIN tx_ring : \A t :
             t \in 1 .. ring[i].tries <=>
                t \in 1 .. tx_ring[i].tries \/ (i \in timed /\ t = ring[i].tries)
      BY <1>6, <1>8, SMTT(30)
    <3>5. Tracks(ring, entry) <=>
             \/ Tracks(tx_ring, entry)
             \/ \E i \in timed : entry = Transmission(ring[i], ring[i].tries)
      BY <3>2, <3>3, <3>4, <1>2, <1>7, SMTT(20) DEF Tracks
    <3> QED BY <3>1, <3>5, Zenon
  <2>2. OutstandingBounded'
    BY <1>7, <1>12, Zenon DEF SenderInv, SenderExact, OutstandingBounded
  <2>3. Transmitted' BY <1>6, <1>8, <1>12, Zenon DEF Transmitted
  <2> QED BY <2>1, <2>2, <2>3, <1>10, Zenon DEF SenderInv, SenderExact
<1> QED BY <1>5, <1>11, <1>12

\* A dropped channel has nothing left to account for.
LEMMA DropAccounts ==
  ASSUME SenderInv, DropTxChannel, UNCHANGED packets
  PROVE  SenderInv'
<1>1. tx_ring' = <<>> /\ outbound_packet_hashes' = {} BY Zenon DEF DropTxChannel
<1>2. Outstanding(tx_ring') = {} BY <1>1 DEF Outstanding
<1>3. HashesTrackOutstanding' BY <1>1, <1>2, Zenon DEF HashesTrackOutstanding
<1>4. OutstandingBounded' BY <1>2, FS_EmptySet, Constants, SMTT(30) DEF OutstandingBounded
<1>5. AttemptsBounded' /\ Transmitted'
  BY <1>1 DEF SenderInv, SenderExact, AttemptsBounded, Transmitted
<1> QED BY <1>3, <1>4, <1>5, Zenon DEF SenderInv, SenderExact

\* The sender's account is exact in every state: every transmission of a
\* message waited for, and nothing else, is tracked by its packet hash; no
\* envelope is sent more than MAX_TRIES times; and no more messages are in
\* flight than the receiver can buffer.
THEOREM SenderAccountsExactly == Spec => []SenderExact
<1>1. Init => SenderInv
  <2> SUFFICES ASSUME Init PROVE SenderInv
    OBVIOUS
  <2>1. tx_ring = <<>> /\ outbound_packet_hashes = {} /\ packets = {} BY Zenon DEF Init
  <2>2. Outstanding(tx_ring) = {} BY <2>1 DEF Outstanding
  <2>3. HashesTrackOutstanding BY <2>1, <2>2, Zenon DEF HashesTrackOutstanding
  <2>4. OutstandingBounded BY <2>2, FS_EmptySet, Constants DEF OutstandingBounded
  <2>5. AttemptsBounded /\ Transmitted BY <2>1 DEF AttemptsBounded, Transmitted
  <2> QED BY <2>3, <2>4, <2>5, Zenon DEF SenderInv, SenderExact
<1>2. ChannelInv /\ SenderInv /\ [Next]_vars => SenderInv'
  <2> SUFFICES ASSUME ChannelInv, SenderInv, [Next]_vars PROVE SenderInv'
    OBVIOUS
  <2>1. ASSUME NEW type \in Types, SendChannelMessage(type) PROVE SenderInv'
    BY <2>1, SendAccounts, Zenon
  <2>2. ASSUME NEW hash \in proofs, NEW rtt \in RttClass, HandleLinkPacketProof(hash, rtt)
        PROVE  SenderInv'
    BY <2>2, ProofAccounts, Zenon
  <2>3. ASSUME NEW timed_out \in SUBSET OutstandingSequences, OnTick(timed_out)
        PROVE  SenderInv'
    BY <2>3, TickAccounts, Zenon
  <2>4. CASE ShutdownTx \/ CloseTxLink
    BY <2>4, DropAccounts, Zenon DEF ShutdownTx, CloseTxLink
  <2>5. ASSUME UNCHANGED <<tx_ring, outbound_packet_hashes, packets>> PROVE SenderInv'
    BY <2>5 DEF SenderInv, SenderExact, HashesTrackOutstanding, AttemptsBounded,
                OutstandingBounded, Transmitted
  <2>6. ASSUME NEW p \in packets, InboundChannel(p) PROVE SenderInv'
    BY <2>5, <2>6, Zenon DEF InboundChannel, txVars
  <2>7. CASE ShutdownRx \/ CloseRxLink
    BY <2>5, <2>7, Zenon DEF ShutdownRx, CloseRxLink, DropRxChannel, txVars
  <2>8. CASE UNCHANGED vars
    BY <2>5, <2>8, Zenon DEF vars, txVars
  <2> QED BY <2>1, <2>2, <2>3, <2>4, <2>6, <2>7, <2>8, SMTT(20) DEF Next
<1>3. SenderInv => SenderExact BY Zenon DEF SenderInv
<1> QED BY <1>1, <1>2, <1>3, ChannelInvariant, PTL DEF Spec

=============================================================================
