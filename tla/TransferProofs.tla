--------------------------- MODULE TransferProofs ---------------------------
(***************************************************************************)
(* Proofs about ResourceTransfer, for Resources of every size, every       *)
(* window and every budget: the receiver always waits for something, the   *)
(* sender finds what it is asked for, success at the sender is success at  *)
(* the receiver, and nothing but progress refills a retry budget.          *)
(***************************************************************************)
EXTENDS ResourceTransfer, TLAPS, WellFoundedInduction, FiniteSetTheorems

-----------------------------------------------------------------------------

(* Numbers *)

\* Every non-empty set of natural numbers has a least element: what the
\* loops that stop at the first index with some property rely on.
LEMMA LeastNat ==
  ASSUME NEW T, T \subseteq Nat, T # {}
  PROVE \E x \in T : \A y \in T : x <= y
<1>1. \E x \in T : \A y \in T : ~ (<<y, x>> \in OpToRel(<,Nat))
  BY NatLessThanWellFounded, WFMin, Zenon
<1>2. PICK x \in T : \A y \in T : ~ (<<y, x>> \in OpToRel(<,Nat)) BY <1>1, Zenon
<1> DEFINE R == {ss \in Nat \X Nat : ss[1] < ss[2]}
<1>0. OpToRel(<,Nat) = R BY Zenon DEF OpToRel
<1>4. \A y \in T : ~ (<<y, x>> \in R)
  BY <1>2, <1>0, Zenon
<1>3. SUFFICES ASSUME NEW y \in T, ~(x <= y) PROVE FALSE
  OBVIOUS
<1>5. y \in Nat /\ x \in Nat /\ y < x BY <1>3
<1>6. <<y,x>> \in R BY <1>5, Zenon
<1> QED BY <1>6, <1>4, Zenon

\* A remainder is below its modulus.
LEMMA ModRange ==
  ASSUME NEW M \in Nat \ {0}, NEW a \in Nat
  PROVE  a % M \in 0 .. M - 1
OBVIOUS

\* Quotient and remainder make up the number.
LEMMA ModSplit ==
  ASSUME NEW M \in Nat \ {0}, NEW a \in Nat
  PROVE  /\ a \div M \in Nat
         /\ a = M * (a \div M) + (a % M)
OBVIOUS

-----------------------------------------------------------------------------

\* The receiver's window is never empty and never wider than the search range
\* of the sender assumes.
Open(w) ==
    /\ w \in WindowType
    /\ w.window \in 1 .. WINDOW_MAX_FAST
    /\ w.window_min >= 1
    /\ w.window_max <= WINDOW_MAX_FAST

\* A transfer under way.
Incomplete(t) ==
    /\ t \in Inbound
    /\ Open(t.window)
    /\ ~IsComplete(t)
    /\ t.hashmap_height >= 1

\* It waits for more of the map, or for parts it has still to receive.
Waiting(t) ==
    /\ Incomplete(t)
    /\ t.outstanding_parts <= Cardinality(Wanted(t))
    /\ t.waiting_for_hmu \/ t.outstanding_parts > 0

-----------------------------------------------------------------------------
(* The sizes of an instance, and what the receiver's helpers return.       *)

\* What an instance is known to satisfy.
LEMMA InstanceFacts ==
  ASSUME ResourceAssumption, instance \in Instances
  PROVE  /\ NumParts \in Nat \ {0}
         /\ HashmapMaxLen \in Nat \ {0}
         /\ MAX_ADV_RETRIES \in Nat
BY Zenon DEF ResourceAssumption, NumParts, HashmapMaxLen, MAX_ADV_RETRIES

\* update_consecutive stops at the first missing part.
LEMMA ConsecutiveFacts ==
  ASSUME NumParts \in Nat \ {0}, NEW parts
  PROVE  LET n == Consecutive(parts)
         IN  /\ n \in 0 .. NumParts
             /\ 0 .. n - 1 \subseteq parts
             /\ n = NumParts \/ n \notin parts
<1> DEFINE Missing == {n \in 0 .. NumParts : n = NumParts \/ n \notin parts}
<1>1. Missing \subseteq Nat /\ NumParts \in Missing
  OBVIOUS
<1>2. PICK n \in Missing : \A m \in Missing : n <= m
  BY <1>1, LeastNat, Zenon
<1>3. ASSUME NEW m \in 0 .. n - 1 PROVE m \in parts
  BY <1>2, <1>3
<1>4. /\ n \in 0 .. NumParts
      /\ 0 .. n - 1 \subseteq parts /\ (n = NumParts \/ n \notin parts)
  BY <1>3, Zenon
<1> HIDE DEF Missing
<1> QED BY <1>4, Zenon DEF Consecutive

\* More parts never move it back.
LEMMA ConsecutiveGrows ==
  ASSUME NumParts \in Nat \ {0}, NEW parts, NEW more, parts \subseteq more
  PROVE  Consecutive(parts) <= Consecutive(more)
<1> DEFINE a == Consecutive(parts)
           b == Consecutive(more)
<1>1. a \in 0 .. NumParts /\ 0 .. a - 1 \subseteq parts
  BY ConsecutiveFacts, Zenon
<1>2. b \in 0 .. NumParts /\ (b = NumParts \/ b \notin more)
  BY ConsecutiveFacts, Zenon
<1> HIDE DEF a, b
<1>3. a <= b
  BY <1>1, <1>2
<1> QED BY <1>3, Zenon DEF a, b

\* It reaches the end only when every part is there.
LEMMA ConsecutiveBelow ==
  ASSUME NumParts \in Nat \ {0}, NEW t, t.parts \subseteq Parts, ~IsComplete(t)
  PROVE  /\ Consecutive(t.parts) \in 0 .. NumParts - 1
         /\ Consecutive(t.parts) \notin t.parts
<1> DEFINE n == Consecutive(t.parts)
<1>1. n \in 0 .. NumParts /\ 0 .. n - 1 \subseteq t.parts /\ (n = NumParts \/ n \notin t.parts)
  BY ConsecutiveFacts, Zenon
<1> HIDE DEF n
<1>2. n # NumParts
  BY <1>1, Zenon DEF IsComplete, Parts
<1>3. n \in 0 .. NumParts - 1 /\ n \notin t.parts
  BY <1>1, <1>2
<1> QED BY <1>3, Zenon DEF n

\* The window is asked for in finite pieces.
LEMMA WantedFacts ==
  ASSUME NumParts \in Nat \ {0}, NEW t, t.window.window \in Nat
  PROVE  /\ SearchEnd(t) \in 0 .. NumParts
         /\ Wanted(t) \subseteq Parts
         /\ IsFiniteSet(Wanted(t))
         /\ Cardinality(Wanted(t)) \in 0 .. NumParts
<1>1. Consecutive(t.parts) \in 0 .. NumParts
  BY ConsecutiveFacts, Zenon
<1>2. SearchEnd(t) \in 0 .. NumParts
  BY <1>1 DEF SearchEnd, Least
<1>3. Wanted(t) \subseteq Parts
  BY <1>1, <1>2 DEF Wanted, Parts
<1>4. IsFiniteSet(Parts) /\ Cardinality(Parts) = NumParts
  BY FS_Interval, SMTT(30) DEF Parts
<1>5. IsFiniteSet(Wanted(t)) /\ Cardinality(Wanted(t)) <= NumParts
  BY <1>3, <1>4, FS_Subset, Zenon
<1>6. Cardinality(Wanted(t)) \in Nat
  BY <1>5, FS_CardinalityType, Zenon
<1> QED BY <1>2, <1>3, <1>5, <1>6

-----------------------------------------------------------------------------
(* The window.                                                             *)

\* Setting fields of an open window within their bounds leaves it open.
LEMMA OpenResized ==
  ASSUME WINDOW_MAX_FAST \in Nat, NEW w, Open(w),
         NEW a \in 1 .. WINDOW_MAX_FAST, NEW c \in 0 .. WINDOW_MAX_FAST
  PROVE  Open([w EXCEPT !.window = a, !.window_max = c])
<1> DEFINE v == [w EXCEPT !.window = a, !.window_max = c]
<1>1. w \in WindowType /\ a \in Nat /\ c \in Nat
  BY DEF Open
<1>2. v \in WindowType
  BY <1>1, Zenon DEF WindowType
<1>3. v.window = a /\ v.window_min = w.window_min /\ v.window_max = c
  BY <1>1, Zenon DEF WindowType
<1> QED BY <1>2, <1>3 DEF Open

\* So does raising its lower end,
LEMMA OpenRaised ==
  ASSUME WINDOW_MAX_FAST \in Nat, NEW w, Open(w),
         NEW a \in 1 .. WINDOW_MAX_FAST, NEW b \in Nat, b >= 1
  PROVE  Open([w EXCEPT !.window = a, !.window_min = b])
<1> DEFINE v == [w EXCEPT !.window = a, !.window_min = b]
<1>1. w \in WindowType /\ a \in Nat
  BY DEF Open
<1>2. v \in WindowType
  BY <1>1, Zenon DEF WindowType
<1>3. v.window = a /\ v.window_min = b /\ v.window_max = w.window_max
  BY <1>1, Zenon DEF WindowType
<1> QED BY <1>2, <1>3, Zenon DEF Open

\* a change of its limit with the rate of the transfer,
LEMMA OpenRated ==
  ASSUME WINDOW_MAX_FAST \in Nat, NEW w, Open(w),
         NEW x \in 0 .. FAST_RATE_THRESHOLD, NEW y \in 0 .. VERY_SLOW_RATE_THRESHOLD,
         NEW c \in 0 .. WINDOW_MAX_FAST
  PROVE  Open([w EXCEPT !.fast_rate_rounds = x, !.very_slow_rate_rounds = y, !.window_max = c])
<1> DEFINE v == [w EXCEPT !.fast_rate_rounds = x, !.very_slow_rate_rounds = y, !.window_max = c]
<1>1. w \in WindowType /\ c \in Nat
  BY DEF Open
<1>2. v \in WindowType
  BY <1>1, Zenon DEF WindowType
<1>3. v.window = w.window /\ v.window_min = w.window_min /\ v.window_max = c
  BY <1>1, Zenon DEF WindowType
<1> QED BY <1>2, <1>3 DEF Open

\* a fall to the slowest limit,
LEMMA OpenDemoted ==
  ASSUME WINDOW_MAX_FAST \in Nat, NEW w, Open(w),
         NEW x \in 0 .. FAST_RATE_THRESHOLD, NEW y \in 0 .. VERY_SLOW_RATE_THRESHOLD,
         NEW c \in 0 .. WINDOW_MAX_FAST, NEW a \in 1 .. WINDOW_MAX_FAST
  PROVE  Open([w EXCEPT !.very_slow_rate_rounds = y, !.fast_rate_rounds = x,
                            !.window_max = c, !.window = a])
<1> DEFINE v == [w EXCEPT !.very_slow_rate_rounds = y, !.fast_rate_rounds = x,
                            !.window_max = c, !.window = a]
<1>1. w \in WindowType /\ a \in Nat /\ c \in Nat
  BY DEF Open
<1>2. v \in WindowType
  BY <1>1, Zenon DEF WindowType
<1>3. v.window = a /\ v.window_min = w.window_min /\ v.window_max = c
  BY <1>1, Zenon DEF WindowType
<1> QED BY <1>2, <1>3 DEF Open

\* and counting the rounds of a rate.
LEMMA OpenCounted ==
  ASSUME WINDOW_MAX_FAST \in Nat, NEW w, Open(w),
         NEW x \in 0 .. FAST_RATE_THRESHOLD, NEW y \in 0 .. VERY_SLOW_RATE_THRESHOLD
  PROVE  Open([w EXCEPT !.fast_rate_rounds = x, !.very_slow_rate_rounds = y])
<1> DEFINE v == [w EXCEPT !.fast_rate_rounds = x, !.very_slow_rate_rounds = y]
<1>1. w \in WindowType
  BY Zenon DEF Open
<1>2. v \in WindowType
  BY <1>1, Zenon DEF WindowType
<1>3. v.window = w.window /\ v.window_min = w.window_min /\ v.window_max = w.window_max
  BY <1>1, Zenon DEF WindowType
<1> QED BY <1>2, <1>3, Zenon DEF Open

\* A window that is open stays open whatever rates and timeouts it is told.
LEMMA OpenWindows ==
  ASSUME ResourceWindowAssumption
  PROVE  /\ Open(NewWindow)
         /\ \A w : Open(w) => Open(Shrink(w))
         /\ \A w, rate : Open(w) => Open(Grow(w, rate))
<1>0. /\ WINDOW_MAX_FAST \in Nat /\ WINDOW_FLEXIBILITY \in Nat \ {0}
      /\ WINDOW_MAX_VERY_SLOW \in 1 .. WINDOW_MAX_FAST
      /\ FAST_RATE_THRESHOLD \in Nat \ {0} /\ VERY_SLOW_RATE_THRESHOLD \in Nat \ {0}
      /\ 0 \in 0 .. FAST_RATE_THRESHOLD /\ 0 \in 0 .. VERY_SLOW_RATE_THRESHOLD
  BY DEF ResourceWindowAssumption
<1>1. Open(NewWindow)
  BY DEF Open, NewWindow, WindowType, ResourceWindowAssumption
<1>2. ASSUME NEW w, Open(w)
      PROVE  /\ w.window \in 1 .. WINDOW_MAX_FAST
             /\ w.window_min \in Nat /\ w.window_min >= 1
             /\ w.window_max \in 0 .. WINDOW_MAX_FAST
             /\ w.fast_rate_rounds \in 0 .. FAST_RATE_THRESHOLD
             /\ w.very_slow_rate_rounds \in 0 .. VERY_SLOW_RATE_THRESHOLD
  BY <1>0, <1>2 DEF Open, WindowType
<1>3. ASSUME NEW w, Open(w) PROVE Open(Shrink(w))
  <2> DEFINE window  == IF w.window > w.window_min THEN w.window - 1 ELSE w.window
             ceiling == IF w.window_max > w.window_min THEN w.window_max - 1 ELSE w.window_max
             lower   == IF ceiling - window > WINDOW_FLEXIBILITY - 1
                        THEN ceiling - 1 ELSE ceiling
  <2>1. window \in 1 .. WINDOW_MAX_FAST /\ lower \in 0 .. WINDOW_MAX_FAST
    BY <1>0, <1>2, <1>3
  <2>2. Shrink(w) = [w EXCEPT !.window = window, !.window_max = lower]
    BY Zenon DEF Shrink
  <2> HIDE DEF window, ceiling, lower
  <2>3. Open([w EXCEPT !.window = window, !.window_max = lower])
    BY <1>0, <1>3, <2>1, OpenResized, Zenon
  <2> QED BY <2>2, <2>3, Zenon
<1>4. ASSUME NEW w, Open(w) PROVE Open(Opened(w))
  <2>1. CASE w.window < w.window_max
    <3> DEFINE floor == IF w.window + 1 - w.window_min > WINDOW_FLEXIBILITY - 1
                        THEN w.window_min + 1 ELSE w.window_min
    <3>1. w.window + 1 \in 1 .. WINDOW_MAX_FAST /\ floor \in Nat /\ floor >= 1
      BY <1>0, <1>2, <1>4, <2>1
    <3>2. Opened(w) = [w EXCEPT !.window = w.window + 1, !.window_min = floor]
      BY <2>1, Zenon DEF Opened
    <3> HIDE DEF floor
    <3>3. Open([w EXCEPT !.window = w.window + 1, !.window_min = floor])
      BY <1>0, <1>4, <3>1, OpenRaised, Zenon
    <3> QED BY <3>2, <3>3, Zenon
  <2> QED BY <1>4, <2>1, Zenon DEF Opened
<1>5. ASSUME NEW w, Open(w) PROVE Open(RatedFast(w))
  <2> DEFINE rounds  == CountRound(w.fast_rate_rounds, FAST_RATE_THRESHOLD)
             ceiling == IF rounds >= FAST_RATE_THRESHOLD THEN WINDOW_MAX_FAST ELSE w.window_max
  <2>1. rounds \in 0 .. FAST_RATE_THRESHOLD
    BY <1>0, <1>2, <1>5 DEF CountRound
  <2>2. ceiling \in 0 .. WINDOW_MAX_FAST
    BY <1>0, <1>2, <1>5
  <2>3. RatedFast(w) = [w EXCEPT !.fast_rate_rounds = rounds, !.very_slow_rate_rounds = 0,
                                 !.window_max = ceiling]
    BY Zenon DEF RatedFast
  <2> HIDE DEF rounds, ceiling
  <2>4. Open([w EXCEPT !.fast_rate_rounds = rounds, !.very_slow_rate_rounds = 0,
                       !.window_max = ceiling])
    BY <1>0, <1>5, <2>1, <2>2, OpenRated, Zenon
  <2> QED BY <2>3, <2>4, Zenon
<1>6. ASSUME NEW w, Open(w) PROVE Open(RatedVerySlow(w))
  <2> DEFINE rounds  == CountRound(w.very_slow_rate_rounds, VERY_SLOW_RATE_THRESHOLD)
             demoted == rounds >= VERY_SLOW_RATE_THRESHOLD
             ceiling == IF demoted THEN WINDOW_MAX_VERY_SLOW ELSE w.window_max
             window  == IF demoted /\ w.window > WINDOW_MAX_VERY_SLOW
                        THEN WINDOW_MAX_VERY_SLOW ELSE w.window
  <2>1. rounds \in 0 .. VERY_SLOW_RATE_THRESHOLD
    BY <1>0, <1>2, <1>6 DEF CountRound
  <2>2. ceiling \in 0 .. WINDOW_MAX_FAST /\ window \in 1 .. WINDOW_MAX_FAST
    BY <1>0, <1>2, <1>6
  <2>3. RatedVerySlow(w) = [w EXCEPT !.very_slow_rate_rounds = rounds, !.fast_rate_rounds = 0,
                                     !.window_max = ceiling, !.window = window]
    BY Zenon DEF RatedVerySlow
  <2> HIDE DEF rounds, demoted, ceiling, window
  <2>4. Open([w EXCEPT !.very_slow_rate_rounds = rounds, !.fast_rate_rounds = 0,
                       !.window_max = ceiling, !.window = window])
    BY <1>0, <1>6, <2>1, <2>2, OpenDemoted, Zenon
  <2> QED BY <2>3, <2>4, Zenon
<1>7. ASSUME NEW w, Open(w)
      PROVE  Open([w EXCEPT !.fast_rate_rounds = 0, !.very_slow_rate_rounds = 0])
  BY <1>0, <1>7, OpenCounted, Zenon
<1>8. ASSUME NEW w, NEW rate, Open(w) PROVE Open(Grow(w, rate))
  BY <1>4, <1>5, <1>6, <1>7, <1>8, Zenon DEF Grow
<1> QED BY <1>1, <1>3, <1>8, Zenon

-----------------------------------------------------------------------------
(* The receiver's bookkeeping.                                             *)

\* What Incomplete says of the fields.
LEMMA IncompleteFields ==
  ASSUME ResourceAssumption, instance \in Instances, NEW t, Incomplete(t)
  PROVE  /\ t.parts \subseteq Parts
         /\ t.hashmap_height \in 1 .. NumParts
         /\ t.window.window \in 1 .. WINDOW_MAX_FAST
         /\ t.outstanding_parts \in 0 .. NumParts
         /\ t.retries_left \in 0 .. MAX_RETRIES
         /\ t.waiting_for_hmu \in BOOLEAN
<1>1. t \in Inbound /\ Open(t.window) /\ t.hashmap_height >= 1
  BY Zenon DEF Incomplete
<1>2. t.window.window \in 1 .. WINDOW_MAX_FAST
  BY <1>1, Zenon DEF Open
<1> QED BY <1>1, <1>2, InstanceFacts DEF Inbound

\* A window within the known map holds a part to ask for.
LEMMA SomethingWanted ==
  ASSUME ResourceAssumption, instance \in Instances, NEW t, Incomplete(t), ~Exhausted(t)
  PROVE  Cardinality(Wanted(t)) > 0
<1>1. NumParts \in Nat \ {0} /\ t.parts \subseteq Parts /\ t.window.window \in Nat \ {0}
  BY InstanceFacts, IncompleteFields
<1>2. Consecutive(t.parts) \in 0 .. NumParts - 1 /\ Consecutive(t.parts) \notin t.parts
  BY <1>1, ConsecutiveBelow, Zenon DEF Incomplete
<1>3. SearchEnd(t) > Consecutive(t.parts) /\ SearchEnd(t) \in Nat
  BY <1>1, <1>2 DEF SearchEnd, Least
<1>4. SearchEnd(t) <= t.hashmap_height /\ t.hashmap_height \in Nat
  BY <1>3, InstanceFacts, IncompleteFields DEF Exhausted
<1>5. Consecutive(t.parts) \in Wanted(t)
  BY <1>2, <1>3, <1>4 DEF Wanted
<1>6. IsFiniteSet(Wanted(t)) /\ Cardinality(Wanted(t)) \in Nat
  BY <1>1, WantedFacts
<1> QED BY <1>5, <1>6, FS_EmptySet

\* A request names parts of the Resource, and asks for more of the map only
\* when the window reaches past it.
LEMMA NextRequestFacts ==
  ASSUME ResourceAssumption, instance \in Instances, NEW t, Incomplete(t)
  PROVE  LET r == NextRequest(t)
         IN  /\ r \in Request
             /\ r.exhausted => /\ r.last = t.hashmap_height
                               /\ r.last < Consecutive(t.parts) + WINDOW_MAX_FAST
<1> DEFINE r == NextRequest(t)
<1>1. /\ NumParts \in Nat \ {0} /\ t.hashmap_height \in 0 .. NumParts
      /\ t.window.window \in 1 .. WINDOW_MAX_FAST /\ WINDOW_MAX_FAST \in Nat
  BY InstanceFacts, IncompleteFields DEF ResourceAssumption, ResourceWindowAssumption
<1>2. Wanted(t) \subseteq Parts
  BY <1>1, WantedFacts
<1>3. Exhausted(t) \in BOOLEAN /\ 0 \in 0 .. NumParts
  BY <1>1 DEF Exhausted
<1>4. r \in Request
  BY <1>1, <1>2, <1>3, Zenon DEF NextRequest, Request
<1>5. ASSUME Exhausted(t) PROVE t.hashmap_height < Consecutive(t.parts) + WINDOW_MAX_FAST
  <2>1. Consecutive(t.parts) \in 0 .. NumParts
    BY <1>1, ConsecutiveFacts, Zenon
  <2> QED BY <1>1, <1>5, <2>1 DEF Exhausted, SearchEnd, Least
<1>6. r.exhausted => r.last = t.hashmap_height /\ Exhausted(t)
  BY Zenon DEF NextRequest
<1> QED BY <1>4, <1>5, <1>6, Zenon

\* What a step may add to the requests under way: one that reports the height
\* the receiver has then.
Asks ==
    \/ requests' = requests
    \/ \E r \in Request :
         /\ requests' = With(requests, r)
         /\ r.exhausted => /\ r.last = inb'.hashmap_height
                           /\ r.last < Consecutive(inb'.parts) + WINDOW_MAX_FAST

\* request_next leaves a transfer that waits for what it has just asked for.
LEMMA AskedWaits ==
  ASSUME ResourceAssumption, instance \in Instances, NEW t, Incomplete(t),
         t.waiting_for_hmu => t.outstanding_parts = 0, RequestNext(t)
  PROVE  /\ Waiting(inb')
         /\ inb'.parts = t.parts /\ inb'.hashmap_height = t.hashmap_height
         /\ inb'.retries_left = t.retries_left
         /\ Asks
<1>1. NumParts \in Nat \ {0} /\ t.window.window \in Nat
  BY InstanceFacts, IncompleteFields
<1>2. Cardinality(Wanted(t)) \in 0 .. NumParts
  BY <1>1, WantedFacts, Zenon
<1>3. CASE t.waiting_for_hmu
  <2>1. inb' = t /\ requests' = requests
    BY <1>3, Zenon DEF RequestNext
  <2> QED BY <1>2, <1>3, <2>1 DEF Waiting, Asks
<1>4. CASE ~t.waiting_for_hmu
  <2> DEFINE n == Cardinality(Wanted(t))
  <2>1. inb' = [t EXCEPT !.outstanding_parts = n, !.waiting_for_hmu = Exhausted(t)]
    BY <1>4, Zenon DEF RequestNext, Incomplete
  <2>2. requests' = With(requests, NextRequest(t))
    BY <1>4, Zenon DEF RequestNext, Incomplete
  <2>3. t \in Inbound /\ Exhausted(t) \in BOOLEAN
    BY DEF Incomplete, Exhausted
  <2> HIDE DEF n
  <2>4. inb' \in Inbound
    BY <1>2, <2>1, <2>3, Zenon DEF Inbound, n
  <2>5. /\ inb'.parts = t.parts /\ inb'.hashmap_height = t.hashmap_height
        /\ inb'.retries_left = t.retries_left /\ inb'.window = t.window
        /\ inb'.outstanding_parts = n /\ inb'.waiting_for_hmu = Exhausted(t)
    BY <2>1, <2>3, Zenon DEF Inbound
  <2>6. Incomplete(inb')
    BY <2>4, <2>5, Zenon DEF Incomplete, IsComplete
  <2>7. Wanted(inb') = Wanted(t)
    BY <2>5, Zenon DEF Wanted, SearchEnd
  <2>8. Exhausted(t) \/ n > 0
    BY SomethingWanted, Zenon DEF n
  <2>9. inb'.outstanding_parts <= Cardinality(Wanted(inb'))
    BY <1>2, <2>5, <2>7 DEF n
  <2>10. Waiting(inb')
    BY <2>5, <2>6, <2>8, <2>9, Zenon DEF Waiting
  <2>11. Asks
    <3> DEFINE r == NextRequest(t)
    <3>1. r \in Request /\ (r.exhausted => /\ r.last = t.hashmap_height
                                           /\ r.last < Consecutive(t.parts) + WINDOW_MAX_FAST)
      BY NextRequestFacts, Zenon
    <3> QED BY <2>2, <2>5, <3>1, Zenon DEF Asks
  <2> QED BY <2>5, <2>10, <2>11, Zenon
<1> QED BY <1>3, <1>4, Zenon

\* A part that fills a slot leaves at least the others to wait for.
LEMMA FilledWaits ==
  ASSUME ResourceAssumption, instance \in Instances, NEW t, Waiting(t),
         NEW p, Accepts(t, p), ~IsComplete(Filled(t, p))
  PROVE  LET f == Filled(t, p)
         IN  /\ Incomplete(f)
             /\ f.parts = t.parts \union {p} /\ p \notin t.parts
             /\ f.hashmap_height = t.hashmap_height
             /\ f.outstanding_parts \in Nat
             /\ f.outstanding_parts <= Cardinality(Wanted(f))
<1> DEFINE f == Filled(t, p)
           n == IF t.outstanding_parts > 0 THEN t.outstanding_parts - 1 ELSE 0
<1>1. /\ NumParts \in Nat \ {0} /\ MAX_RETRIES \in Nat
      /\ t \in Inbound /\ Incomplete(t) /\ t.window.window \in Nat
      /\ t.outstanding_parts \in 0 .. NumParts /\ t.hashmap_height \in Nat
      /\ t.parts \subseteq Parts
  BY InstanceFacts, IncompleteFields DEF Waiting, Incomplete, ResourceAssumption
<1>2. Consecutive(t.parts) \in 0 .. NumParts /\ SearchEnd(t) \in 0 .. NumParts
  BY <1>1, ConsecutiveFacts, WantedFacts, Zenon
<1>3. p \in Wanted(t) /\ p \in Parts
  BY <1>1, <1>2 DEF Accepts, Wanted, Parts
<1>4. n \in 0 .. NumParts
  BY <1>1
<1>5. f = [t EXCEPT !.parts = t.parts \union {p}, !.retries_left = MAX_RETRIES,
                    !.outstanding_parts = n]
  BY Zenon DEF Filled
<1> HIDE DEF f, n
<1>6. t.parts \union {p} \in SUBSET Parts /\ MAX_RETRIES \in 0 .. MAX_RETRIES
  BY <1>1, <1>3
<1>7. f \in Inbound
  BY <1>1, <1>4, <1>5, <1>6, Zenon DEF Inbound
<1>8. /\ f.parts = t.parts \union {p} /\ f.hashmap_height = t.hashmap_height
      /\ f.window = t.window /\ f.outstanding_parts = n
  BY <1>1, <1>5, Zenon DEF Inbound
<1>9. Incomplete(f)
  BY <1>1, <1>7, <1>8 DEF Incomplete, f
<1>10. p \notin t.parts
  BY Zenon DEF Accepts
<1>11. Wanted(t) \ {p} \subseteq Wanted(f)
  <2> SUFFICES ASSUME NEW q \in Wanted(t), q # p PROVE q \in Wanted(f)
    OBVIOUS
  <2> DEFINE a == Consecutive(t.parts)
             b == Consecutive(f.parts)
  <2>1. /\ q \in a .. SearchEnd(t) - 1 /\ q < t.hashmap_height /\ q \notin f.parts
        /\ q \in Int
    BY <1>2, <1>8 DEF Wanted
  <2>2. a <= b
    BY <1>1, <1>8, ConsecutiveGrows, Zenon
  <2>3. b \in 0 .. NumParts /\ 0 .. b - 1 \subseteq f.parts
    BY <1>1, ConsecutiveFacts, Zenon
  <2>4. SearchEnd(t) <= SearchEnd(f) /\ SearchEnd(f) \in Int
    BY <1>1, <1>2, <1>8, <2>2, <2>3 DEF SearchEnd, Least
  <2>5. q >= b
    BY <1>2, <2>1, <2>3
  <2> HIDE DEF a, b
  <2>6. q \in b .. SearchEnd(f) - 1
    BY <1>2, <2>1, <2>4, <2>5, <2>3
  <2> QED BY <1>8, <2>1, <2>6 DEF Wanted, b
<1>12. /\ IsFiniteSet(Wanted(t)) /\ Cardinality(Wanted(t)) \in Nat
       /\ IsFiniteSet(Wanted(f)) /\ Cardinality(Wanted(f)) \in Nat
  BY <1>1, <1>8, WantedFacts
<1>13. /\ IsFiniteSet(Wanted(t) \ {p})
       /\ Cardinality(Wanted(t) \ {p}) = Cardinality(Wanted(t)) - 1
  BY <1>3, <1>12, FS_RemoveElement, Zenon
<1>14. Cardinality(Wanted(t)) - 1 <= Cardinality(Wanted(f))
  BY <1>11, <1>12, <1>13, FS_Subset
<1>15. t.outstanding_parts <= Cardinality(Wanted(t))
  BY Zenon DEF Waiting
<1>16. n <= Cardinality(Wanted(f))
  BY <1>1, <1>12, <1>14, <1>15 DEF n
<1> QED BY <1>4, <1>8, <1>9, <1>10, <1>16 DEF f

\* An instance is the same ever after, and so is what is defined from it.
LEMMA SameInstance ==
  ASSUME UNCHANGED instance
  PROVE  /\ NumParts' = NumParts /\ HashmapMaxLen' = HashmapMaxLen
         /\ MAX_ADV_RETRIES' = MAX_ADV_RETRIES /\ Guard' = Guard
         /\ Outbound' = Outbound /\ Inbound' = Inbound /\ Request' = Request
<1>1. /\ NumParts' = NumParts /\ HashmapMaxLen' = HashmapMaxLen
      /\ MAX_ADV_RETRIES' = MAX_ADV_RETRIES
  BY Zenon DEF NumParts, HashmapMaxLen, MAX_ADV_RETRIES
<1>2. Guard' = Guard
  BY <1>1, Zenon DEF Guard
<1>3. Parts' = Parts
  BY <1>1, Zenon DEF Parts
<1>4. Outbound' = Outbound /\ Inbound' = Inbound /\ Request' = Request
  BY <1>1, <1>3, Zenon DEF Outbound, Inbound, Request
<1> QED BY <1>1, <1>2, <1>4, Zenon

\* What a transfer waits for is a matter of the transfer and the instance.
LEMMA SameWaiting ==
  ASSUME UNCHANGED instance
  PROVE  /\ Consecutive(inb.parts)' = Consecutive(inb'.parts)
         /\ Waiting(inb') => Waiting(inb)'
         /\ Wanted(inb)' = Wanted(inb')
<1>1. NumParts' = NumParts
  BY Zenon DEF NumParts
<1>2. Consecutive(inb.parts)' = Consecutive(inb'.parts)
  BY Zenon DEF Consecutive, NumParts
<1>3. SearchEnd(inb)' = SearchEnd(inb')
  BY <1>1, <1>2, Zenon DEF SearchEnd
<1>4. Wanted(inb)' = Wanted(inb')
  BY <1>2, <1>3, Zenon DEF Wanted
<1>5. Incomplete(inb') => Incomplete(inb)'
  BY SameInstance, Zenon DEF Incomplete, IsComplete, Parts
<1> QED BY <1>2, <1>4, <1>5, Zenon DEF Waiting

-----------------------------------------------------------------------------
(* What each handler of the receiver does to the transfer.                 *)

\* An advertisement starts a transfer that asks for its first parts, or changes
\* nothing.
LEMMA AdvertisementTaken ==
  ASSUME ResourceAssumption, instance \in Instances,
         NEW answer \in Answers, ReceiveAdvertisement(answer)
  PROVE  \/ UNCHANGED <<inb, requests>> /\ begun' = begun
         \/ /\ ~receiving /\ begun' = Least(begun + 1, 2)
            /\ Waiting(inb') /\ Asks
            /\ inb'.hashmap_height = Least(HashmapMaxLen, NumParts)
<1> DEFINE t == FromAdvertisement
           h == Least(HashmapMaxLen, NumParts)
<1>1. CASE receiving \/ answer # "take"
  <2>1. UNCHANGED <<inb, requests>>
    BY <1>1, Zenon DEF ReceiveAdvertisement, Answers
  <2>2. begun' = begun
    BY <1>1, Zenon DEF ReceiveAdvertisement
  <2> QED BY <2>1, <2>2, Zenon
<1>2. CASE ~receiving /\ answer = "take"
  <2>1. NumParts \in Nat \ {0} /\ h \in 1 .. NumParts /\ MAX_RETRIES \in Nat
    BY InstanceFacts DEF Least, ResourceAssumption
  <2>2. Open(NewWindow)
    BY OpenWindows, Zenon DEF ResourceAssumption
  <2>3. t = [parts |-> {}, hashmap_height |-> h, window |-> NewWindow, outstanding_parts |-> 0,
             retries_left |-> MAX_RETRIES, waiting_for_hmu |-> FALSE]
    BY Zenon DEF FromAdvertisement
  <2> HIDE DEF t, h
  <2>4. /\ {} \in SUBSET Parts /\ h \in 0 .. NumParts /\ NewWindow \in WindowType
        /\ 0 \in 0 .. NumParts /\ MAX_RETRIES \in 0 .. MAX_RETRIES
    BY <2>1, <2>2 DEF Open
  <2>5. t \in Inbound
    BY <2>3, <2>4, Zenon DEF Inbound
  <2>6. ~IsComplete(t)
    BY <2>1, <2>3 DEF IsComplete, Parts
  <2>7. Incomplete(t)
    BY <2>1, <2>2, <2>3, <2>5, <2>6 DEF Incomplete
  <2>8. RequestNext(t)
    BY <1>2, Zenon DEF ReceiveAdvertisement, t
  <2>9. Waiting(inb') /\ Asks /\ inb'.hashmap_height = h
    BY <2>3, <2>7, <2>8, AskedWaits
  <2>10. begun' = Least(begun + 1, 2)
    BY <1>2, Zenon DEF ReceiveAdvertisement
  <2> QED BY <1>2, <2>9, <2>10, Zenon DEF h
<1> QED BY <1>1, <1>2, Zenon

\* A part is put in its place, completes the transfer, or changes nothing.
LEMMA PartReceived ==
  ASSUME ResourceAssumption, instance \in Instances, Waiting(inb),
         NEW p, NEW rate, NEW verdict, ReceivePart(p, rate, verdict)
  PROVE  \/ UNCHANGED <<inb, requests, proved, delivered, cancels>>
         \/ inb' = NoTransfer /\ requests' = requests /\ Completes(verdict)
         \/ /\ Waiting(inb') /\ Asks
            /\ inb'.parts = inb.parts \union {p} /\ p \notin inb.parts
            /\ inb'.hashmap_height = inb.hashmap_height
            /\ UNCHANGED <<proved, delivered, cancels>>
<1> DEFINE f == Filled(inb, p)
           g == [f EXCEPT !.window = Grow(@, rate)]
<1>1. CASE ~Accepts(inb, p)
  BY <1>1, Zenon DEF ReceivePart, Ignored
<1>2. CASE Accepts(inb, p) /\ IsComplete(f)
  BY <1>2, Zenon DEF ReceivePart, Completes, DropInbound
<1>3. CASE Accepts(inb, p) /\ ~IsComplete(f)
  <2>1. /\ Incomplete(f) /\ f.parts = inb.parts \union {p} /\ p \notin inb.parts
        /\ f.hashmap_height = inb.hashmap_height
        /\ f.outstanding_parts \in Nat /\ f.outstanding_parts <= Cardinality(Wanted(f))
    BY <1>3, FilledWaits, Zenon
  <2>2. UNCHANGED <<proved, delivered, cancels>>
    BY <1>3, Zenon DEF ReceivePart
  <2>3. IF f.outstanding_parts = 0 THEN RequestNext(g) ELSE inb' = f /\ UNCHANGED requests
    BY <1>3, Zenon DEF ReceivePart
  <2> HIDE DEF f
  <2>4. CASE f.outstanding_parts = 0
    <3>1. Open(f.window) /\ f \in Inbound
      BY <2>1, Zenon DEF Incomplete
    <3>2. Open(Grow(f.window, rate)) /\ Grow(f.window, rate) \in WindowType
      BY <3>1, OpenWindows, Zenon DEF ResourceAssumption, Open
    <3>3. g \in Inbound
      BY <3>1, <3>2, Zenon DEF Inbound
    <3>4. /\ g.parts = f.parts /\ g.hashmap_height = f.hashmap_height
          /\ g.window = Grow(f.window, rate) /\ g.outstanding_parts = 0
      BY <2>4, <3>1, Zenon DEF Inbound
    <3> HIDE DEF g
    <3>5. Incomplete(g)
      BY <2>1, <3>2, <3>3, <3>4 DEF Incomplete, IsComplete
    <3>6. RequestNext(g)
      BY <2>3, <2>4
    <3>7. /\ Waiting(inb') /\ Asks /\ inb'.parts = g.parts
          /\ inb'.hashmap_height = g.hashmap_height
      BY <3>4, <3>5, <3>6, AskedWaits, SMTT(20)
    <3> QED BY <2>1, <2>2, <3>4, <3>7
  <2>5. CASE f.outstanding_parts # 0
    <3>1. inb' = f /\ requests' = requests
      BY <2>3, <2>5, Zenon
    <3>2. Waiting(f)
      BY <2>1, <2>5 DEF Waiting
    <3> QED BY <2>1, <2>2, <3>1, <3>2 DEF Asks
  <2> QED BY <2>4, <2>5, Zenon
<1> QED BY <1>1, <1>2, <1>3, Zenon

\* A hashmap update extends the map and asks again, or ends the transfer.
LEMMA HmuReceived ==
  ASSUME ResourceAssumption, instance \in Instances, Waiting(inb), NEW s \in Nat, ReceiveHmu(s)
  PROVE  \/ inb' = NoTransfer /\ requests' = requests
         \/ /\ Waiting(inb') /\ Asks /\ inb'.parts = inb.parts
            /\ inb'.hashmap_height = Least(s * HashmapMaxLen + HashmapMaxLen, NumParts)
            /\ inb'.hashmap_height > inb.hashmap_height
<1> DEFINE end == Least(s * HashmapMaxLen + HashmapMaxLen, NumParts)
           t == [inb EXCEPT !.hashmap_height = end, !.retries_left = MAX_RETRIES,
                            !.waiting_for_hmu = FALSE]
<1>1. CASE DropInbound
  BY <1>1, Zenon DEF DropInbound
<1>2. CASE end > inb.hashmap_height /\ RequestNext(t)
  <2>1. /\ NumParts \in Nat \ {0} /\ HashmapMaxLen \in Nat /\ inb.hashmap_height \in 1 .. NumParts
        /\ MAX_RETRIES \in 0 .. MAX_RETRIES
    BY InstanceFacts, IncompleteFields DEF Waiting, ResourceAssumption
  <2>2. inb \in Inbound /\ Incomplete(inb)
    BY Zenon DEF Waiting, Incomplete
  <2>3. s * HashmapMaxLen \in Nat
    BY <2>1
  <2>4. end \in 0 .. NumParts
    BY <2>1, <2>3 DEF Least
  <2> HIDE DEF end
  <2>5. t \in Inbound
    BY <2>1, <2>2, <2>4, Zenon DEF Inbound
  <2>6. /\ t.parts = inb.parts /\ t.hashmap_height = end /\ t.window = inb.window
        /\ t.waiting_for_hmu = FALSE
    BY <2>2, Zenon DEF Inbound
  <2>7. end >= 1
    BY <1>2, <2>1, <2>4
  <2> HIDE DEF t
  <2>8. Incomplete(t)
    BY <2>2, <2>5, <2>6, <2>7, Zenon DEF Incomplete, IsComplete
  <2>9. Waiting(inb') /\ Asks /\ inb'.parts = t.parts /\ inb'.hashmap_height = t.hashmap_height
    BY <1>2, <2>6, <2>8, AskedWaits, Zenon
  <2> QED BY <1>2, <2>6, <2>9 DEF end
<1> QED BY <1>1, <1>2, Zenon DEF ReceiveHmu

\* A deadline makes the receiver ask again, or give up.
LEMMA WaitPassed ==
  ASSUME ResourceAssumption, instance \in Instances, Waiting(inb), ReceiverTimeout
  PROVE  \/ inb' = NoTransfer /\ requests' = requests
         \/ /\ Waiting(inb') /\ Asks /\ inb'.parts = inb.parts
            /\ inb'.hashmap_height = inb.hashmap_height
            /\ inb'.retries_left < inb.retries_left
<1> DEFINE t == [inb EXCEPT !.window = Shrink(@), !.retries_left = @ - 1,
                            !.waiting_for_hmu = FALSE]
<1>1. CASE inb.retries_left > 0
  <2>1. inb \in Inbound /\ Incomplete(inb) /\ Open(inb.window)
    BY Zenon DEF Waiting, Incomplete
  <2>2. Open(Shrink(inb.window)) /\ Shrink(inb.window) \in WindowType
    BY <2>1, OpenWindows, Zenon DEF ResourceAssumption, Open
  <2>3. inb.retries_left - 1 \in 0 .. MAX_RETRIES /\ inb.retries_left - 1 < inb.retries_left
    BY <1>1, <2>1, IncompleteFields DEF ResourceAssumption
  <2>4. t \in Inbound
    BY <2>1, <2>2, <2>3, Zenon DEF Inbound
  <2>5. /\ t.parts = inb.parts /\ t.hashmap_height = inb.hashmap_height
        /\ t.window = Shrink(inb.window) /\ t.retries_left = inb.retries_left - 1
        /\ t.waiting_for_hmu = FALSE
    BY <2>1, Zenon DEF Inbound
  <2>6. RequestNext(t)
    BY <1>1, Zenon DEF ReceiverTimeout
  <2> HIDE DEF t
  <2>7. Incomplete(t)
    BY <2>1, <2>2, <2>4, <2>5, Zenon DEF Incomplete, IsComplete
  <2>8. /\ Waiting(inb') /\ Asks /\ inb'.parts = t.parts
        /\ inb'.hashmap_height = t.hashmap_height /\ inb'.retries_left = t.retries_left
    BY <2>5, <2>6, <2>7, AskedWaits, Zenon
  <2> QED BY <2>3, <2>5, <2>8, Zenon
<1>2. CASE ~(inb.retries_left > 0)
  BY <1>2, Zenon DEF ReceiverTimeout, DropInbound
<1> QED BY <1>1, <1>2, Zenon

-----------------------------------------------------------------------------

(* What the proofs assume, and the invariants *)

(***************************************************************************)
(* The search range of the sender starts a window below the height that    *)
(* the handled request reported.  It still reaches everything the receiver *)
(* can ask for when the map segments that may overtake a request are       *)
(* together shorter than a window: for one segment, HASHMAP_MAX_LEN (74    *)
(* hashes for the default MTU) below WINDOW_MAX_FAST (75).                 *)
(***************************************************************************)
ReachAssumption ==
    \A i \in Instances : Horizon * i.hashes < WINDOW_MAX_FAST

-----------------------------------------------------------------------------
(* The inductive invariant.                                                *)

ReceiverInv == receiving => Waiting(inb)

\* The budget of advertisements, and what a proof and a conclusion witness.
OwnerInv ==
    /\ out.state = "None" => advs = 0 /\ out.retries = 0
    /\ out.state = "Advertised" => advs <= out.retries + 1
    /\ proved => delivered > 0
    /\ concluded = "Complete" => proved

TransferInv ==
    /\ instance \in Instances
    /\ TypeOK
    /\ ReceiverInv
    /\ OwnerInv

start == out.receiver_min_consecutive_height

\* The search range begins a window below a height that was reported, and
\* ends above everything the receiver knows or may be told.
RangeInv ==
    /\ start <= Consecutive(inb.parts)
    /\ start = 0 \/ start + 1 + WINDOW_MAX_FAST <= inb.hashmap_height
    /\ inb.hashmap_height <= start + Guard

\* A request reported a height the receiver had, with a window reaching past
\* it; a map segment that was sent continued such a height.
AskedInv ==
    /\ \A r \in DOMAIN requests : r.exhausted =>
         /\ r.last \in 1 .. inb.hashmap_height
         /\ r.last < Consecutive(inb.parts) + WINDOW_MAX_FAST
    /\ \A s \in hmus :
         /\ s * HashmapMaxLen <= inb.hashmap_height
         /\ Least(s * HashmapMaxLen + HashmapMaxLen, NumParts) <= start + Guard

ReachInv ==
    /\ begun = 0 => /\ ~receiving /\ DOMAIN requests = {} /\ hmus = {}
                    /\ start = 0
    /\ receiving /\ begun = 1 => RangeInv /\ AskedInv

-----------------------------------------------------------------------------
(* Types.                                                                  *)

TypedRequests == \A r \in DOMAIN requests : r \in Request /\ requests[r] \in 1 .. MaxCopies

\* A request put on the wire is a request.
LEMMA RequestAdded ==
  ASSUME MaxCopies \in Nat \ {0}, TypedRequests, NEW r \in Request
  PROVE  \A x \in DOMAIN With(requests, r) :
           x \in Request /\ With(requests, r)[x] \in 1 .. MaxCopies
BY DEF TypedRequests, With, Least

\* Those that stay on the wire are.
LEMMA RequestTaken ==
  ASSUME MaxCopies \in Nat \ {0}, TypedRequests, NEW r
  PROVE  /\ DOMAIN Without(requests, r) \subseteq DOMAIN requests
         /\ \A x \in DOMAIN Without(requests, r) :
              x \in Request /\ Without(requests, r)[x] \in 1 .. MaxCopies
BY DEF TypedRequests, Without

\* A quotient is no larger than what is divided.
LEMMA QuotientBelow ==
  ASSUME NEW M \in Nat \ {0}, NEW n \in Nat
  PROVE  n \div M \in 0 .. n
<1> DEFINE q == n \div M
<1>1. q \in Nat /\ n = M * q + (n % M) /\ n % M \in Nat
  BY ModSplit, ModRange
<1> HIDE DEF q
<1>2. M * q >= q
  BY <1>1
<1>3. M * q \in Nat
  BY <1>1
<1> QED BY <1>1, <1>2, <1>3 DEF q

\* What handle_request_packet computes from a request stays within the map.
LEMMA PartIndexFacts ==
  ASSUME ResourceAssumption, instance \in Instances, out \in Outbound, NEW r \in Request
  PROVE  /\ PartIndex(r) \in 0 .. NumParts
         /\ MinHeight(r) \in 0 .. NumParts
         /\ PartIndex(r) \div HashmapMaxLen \in 0 .. NumParts
<1>1. /\ NumParts \in Nat \ {0} /\ HashmapMaxLen \in Nat \ {0} /\ WINDOW_MAX_FAST \in Nat
      /\ start \in 0 .. NumParts /\ r.last \in 0 .. NumParts
  BY InstanceFacts, Zenon DEF ResourceAssumption, ResourceWindowAssumption, Outbound, Request, start
<1>2. PartIndex(r) \in 0 .. NumParts
  BY <1>1 DEF PartIndex, Least, Guard, start
<1>3. MinHeight(r) \in 0 .. NumParts
  BY <1>1, <1>2 DEF MinHeight, WINDOW_MAX, start
<1>4. \A n \in 0 .. NumParts : n \div HashmapMaxLen \in 0 .. NumParts
  BY <1>1, QuotientBelow
<1> QED BY <1>2, <1>3, <1>4, Zenon

\* Every step keeps the types.
LEMMA TypeStep ==
  ASSUME ResourceAssumption, TransferInv, Next
  PROVE  TypeOK'
<1> DEFINE T == /\ out' \in Outbound
                /\ concluded' \in Conclusions
                /\ inb' \in Inbound \union {NoTransfer}
                /\ delivered' \in Nat /\ begun' \in 0 .. 2
                /\ advs' \in 0 .. MAX_ADV_RETRIES + 1
                /\ \A r \in DOMAIN requests' : r \in Request /\ requests'[r] \in 1 .. MaxCopies
                /\ hmus' \subseteq 0 .. NumParts
                /\ proved' \in BOOLEAN
                /\ cancels' \subseteq {"icl", "rcl"}
<1>1. /\ instance \in Instances /\ TypeOK /\ OwnerInv
      /\ receiving => Waiting(inb)
  BY Zenon DEF TransferInv, ReceiverInv
<1>2. /\ out \in Outbound /\ concluded \in Conclusions /\ inb \in Inbound \union {NoTransfer}
      /\ delivered \in Nat /\ begun \in 0 .. 2 /\ advs \in 0 .. MAX_ADV_RETRIES + 1
      /\ TypedRequests /\ hmus \subseteq 0 .. NumParts
      /\ proved \in BOOLEAN /\ cancels \subseteq {"icl", "rcl"}
  BY <1>1, Zenon DEF TypeOK, TypedRequests
<1>3. /\ NumParts \in Nat \ {0} /\ MAX_ADV_RETRIES \in Nat /\ MaxCopies \in Nat \ {0}
  BY <1>1, InstanceFacts DEF ResourceAssumption
<1>4. ASSUME Waiting(inb') \/ inb' = NoTransfer \/ inb' = inb
      PROVE  inb' \in Inbound \union {NoTransfer}
  BY <1>2, <1>4 DEF Waiting, Incomplete
<1>5. ASSUME Asks \/ requests' = requests
      PROVE  \A r \in DOMAIN requests' : r \in Request /\ requests'[r] \in 1 .. MaxCopies
  <2>1. CASE requests' = requests
    BY <1>2, <2>1, Zenon DEF TypedRequests
  <2>2. ASSUME NEW r \in Request, requests' = With(requests, r)
        PROVE  \A x \in DOMAIN requests' : x \in Request /\ requests'[x] \in 1 .. MaxCopies
    BY <1>2, <1>3, <2>2, RequestAdded, Zenon
  <2> QED BY <1>5, <2>1, <2>2 DEF Asks
<1>6. instance' = instance /\ T => TypeOK'
  BY SameInstance, Zenon DEF TypeOK
<1>7. instance' = instance
  BY Zenon DEF Next, Same
<1> SUFFICES T
  BY <1>6, <1>7, Zenon
<1>8. ASSUME StartTransfer PROVE T
  <2>1. out' \in Outbound
    BY <1>2, <1>8, Zenon DEF StartTransfer, Outbound
  <2>2. advs' \in 0 .. MAX_ADV_RETRIES + 1
    BY <1>1, <1>3, <1>8 DEF StartTransfer, OwnerInv
  <2> QED BY <1>2, <1>8, <2>1, <2>2 DEF StartTransfer, receiver, TypedRequests
<1>9. ASSUME NEW answer \in Answers, ReceiveAdvertisement(answer) PROVE T
  <2>1. /\ inb' \in Inbound \union {NoTransfer} /\ begun' \in 0 .. 2
        /\ \A r \in DOMAIN requests' : r \in Request /\ requests'[r] \in 1 .. MaxCopies
    <3>1. CASE UNCHANGED <<inb, requests>> /\ begun' = begun
      BY <1>2, <1>4, <1>5, <3>1, SMTT(30)
    <3>2. CASE Waiting(inb') /\ Asks /\ begun' = Least(begun + 1, 2)
      BY <1>2, <1>4, <1>5, <3>2 DEF Least
    <3> QED BY <1>1, <1>9, <3>1, <3>2, AdvertisementTaken
  <2>2. advs' \in 0 .. MAX_ADV_RETRIES + 1
    BY <1>2, <1>3, <1>9 DEF ReceiveAdvertisement
  <2>3. cancels' \subseteq {"icl", "rcl"}
    BY <1>2, <1>9, Zenon DEF ReceiveAdvertisement, Answers
  <2> QED BY <1>2, <1>9, <2>1, <2>2, <2>3 DEF ReceiveAdvertisement, sender
<1>10. ASSUME NEW r \in DOMAIN requests, HandleRequest(r) PROVE T
  <2> DEFINE answered == r.parts \intersect SearchRange
             sent     == out.sent_part_indices \union answered
  <2>1. r \in Request /\ r.parts \subseteq Parts
    BY <1>2, Zenon DEF TypedRequests, Request
  <2>2. /\ PartIndex(r) \in 0 .. NumParts /\ MinHeight(r) \in 0 .. NumParts
        /\ PartIndex(r) \div HashmapMaxLen \in 0 .. NumParts
    BY <1>1, <1>2, <2>1, PartIndexFacts, Zenon
  <2>3. out' \in Outbound
    <3>1. sent \in SUBSET Parts /\ 0 \in 0 .. MAX_ADV_RETRIES
      BY <1>2, <1>3, <2>1 DEF Outbound
    <3>2. /\ out.state \in {"None", "Advertised", "Transferring", "AwaitingProof", "Failed"}
          /\ out.retries \in 0 .. MAX_ADV_RETRIES
      BY <1>2, Zenon DEF Outbound
    <3> DEFINE retries == IF sent # out.sent_part_indices THEN 0 ELSE out.retries
               state   == StateAfter(sent, answered)
    <3>3. /\ state \in {"None", "Advertised", "Transferring", "AwaitingProof", "Failed"}
          /\ retries \in 0 .. MAX_ADV_RETRIES
      BY <3>1, <3>2, Zenon DEF StateAfter
    <3>4. \/ out' = [out EXCEPT !.state = "Failed", !.sent_part_indices = sent,
                                !.receiver_min_consecutive_height = MinHeight(r)]
          \/ out' = [out EXCEPT !.state = state, !.sent_part_indices = sent,
                                !.retries = retries,
                                !.receiver_min_consecutive_height = MinHeight(r)]
      BY <1>10, Zenon DEF HandleRequest
    <3> HIDE DEF answered, sent, state, retries
    <3>5. CASE out' = [out EXCEPT !.state = "Failed", !.sent_part_indices = sent,
                                  !.receiver_min_consecutive_height = MinHeight(r)]
      BY <1>2, <2>2, <3>1, <3>5, Zenon DEF Outbound
    <3>6. CASE out' = [out EXCEPT !.state = state, !.sent_part_indices = sent,
                                  !.retries = retries,
                                  !.receiver_min_consecutive_height = MinHeight(r)]
      BY <1>2, <2>2, <3>1, <3>3, <3>6, Zenon DEF Outbound
    <3> QED BY <3>4, <3>5, <3>6, Zenon
  <2>4. \A x \in DOMAIN requests' : x \in Request /\ requests'[x] \in 1 .. MaxCopies
    BY <1>2, <1>3, <1>10, RequestTaken DEF HandleRequest
  <2>5. hmus' \subseteq 0 .. NumParts /\ cancels' \subseteq {"icl", "rcl"}
    BY <1>2, <1>10, <2>2, Zenon DEF HandleRequest
  <2> QED BY <1>2, <1>10, <2>3, <2>4, <2>5, Zenon DEF HandleRequest, receiver
<1>11. ASSUME NEW p \in Parts, ReceiveAnyPart(p) PROVE T
  <2>1. PICK rate \in Rates, verdict \in Verdicts : ReceivePart(p, rate, verdict)
    BY <1>11, Zenon DEF ReceiveAnyPart
  <2>2. Waiting(inb)
    BY <1>1, <2>1 DEF ReceivePart
  <2>3. /\ inb' \in Inbound \union {NoTransfer}
        /\ \A r \in DOMAIN requests' : r \in Request /\ requests'[r] \in 1 .. MaxCopies
    BY <1>1, <1>4, <1>5, <2>1, <2>2, PartReceived, SMTT(30)
  <2>4. delivered' \in Nat /\ proved' \in BOOLEAN /\ cancels' \subseteq {"icl", "rcl"}
    <3>1. CASE UNCHANGED <<proved, delivered, cancels>>
      BY <1>2, <3>1
    <3>2. CASE Completes(verdict)
      <4>1. proved' \in BOOLEAN /\ cancels' \subseteq {"icl", "rcl"}
        BY <1>2, <3>2, Zenon DEF Completes
      <4>2. delivered' = delivered \/ delivered' = delivered + 1
        BY <3>2, Zenon DEF Completes
      <4> QED BY <1>2, <4>1, <4>2
    <3> QED BY <1>1, <2>1, <2>2, <3>1, <3>2, PartReceived
  <2> QED BY <1>2, <2>1, <2>3, <2>4 DEF ReceivePart, sender
<1>12. ASSUME NEW s \in hmus, ReceiveHmu(s) PROVE T
  <2>1. Waiting(inb) /\ s \in Nat
    BY <1>1, <1>2, <1>12 DEF ReceiveHmu
  <2>2. /\ inb' \in Inbound \union {NoTransfer}
        /\ \A r \in DOMAIN requests' : r \in Request /\ requests'[r] \in 1 .. MaxCopies
    BY <1>1, <1>4, <1>5, <1>12, <2>1, HmuReceived
  <2>3. cancels' \subseteq {"icl", "rcl"}
    BY <1>2, <1>12 DEF ReceiveHmu
  <2> QED BY <1>2, <1>12, <2>2, <2>3 DEF ReceiveHmu, sender
<1>13. ASSUME ReceiveProof PROVE T
  BY <1>2, <1>13 DEF ReceiveProof, receiver, Conclusions, TypedRequests
<1>14. ASSUME ReceiverTimeout PROVE T
  <2>1. Waiting(inb)
    BY <1>1, <1>14, Zenon DEF ReceiverTimeout
  <2>2. /\ inb' \in Inbound \union {NoTransfer}
        /\ \A r \in DOMAIN requests' : r \in Request /\ requests'[r] \in 1 .. MaxCopies
    BY <1>1, <1>4, <1>5, <1>14, <2>1, WaitPassed, SMTT(30)
  <2> QED BY <1>2, <1>14, <2>2 DEF ReceiverTimeout, sender
<1>15. ASSUME SenderTimeout PROVE T
  <2>1. CASE out.state = "Advertised" /\ out.retries < MAX_ADV_RETRIES
    <3>1. out' = [out EXCEPT !.retries = @ + 1] /\ advs' = advs + 1 /\ concluded' = concluded
      BY <1>15, <2>1 DEF SenderTimeout
    <3>2. out.retries + 1 \in 0 .. MAX_ADV_RETRIES
      BY <1>2, <1>3, <2>1 DEF Outbound
    <3>3. out' \in Outbound
      BY <1>2, <3>1, <3>2, Zenon DEF Outbound
    <3>4. advs' \in 0 .. MAX_ADV_RETRIES + 1
      BY <1>1, <1>2, <1>3, <2>1, <3>1, <3>2 DEF OwnerInv
    <3> QED BY <1>2, <1>15, <3>1, <3>3, <3>4 DEF SenderTimeout, receiver, TypedRequests
  <2>2. CASE ~(out.state = "Advertised" /\ out.retries < MAX_ADV_RETRIES)
    <3>1. out' = [out EXCEPT !.state = "Failed"] /\ advs' = advs /\ concluded' = "Failed"
      BY <1>15, <2>2 DEF SenderTimeout
    <3>2. out' \in Outbound
      BY <1>2, <3>1, Zenon DEF Outbound
    <3> QED BY <1>2, <1>15, <3>1, <3>2, Zenon DEF SenderTimeout, receiver, TypedRequests, Conclusions
  <2> QED BY <2>1, <2>2
<1>16. ASSUME CancelInbound PROVE T
  BY <1>2, <1>16 DEF CancelInbound, DropInbound, sender, TypedRequests
<1>17. ASSUME CancelOutbound PROVE T
  BY <1>2, <1>17 DEF CancelOutbound, receiver, Conclusions, TypedRequests
<1>18. ASSUME ReceiveIcl PROVE T
  BY <1>2, <1>18 DEF ReceiveIcl, DropInbound, sender, TypedRequests
<1>19. ASSUME ReceiveRcl PROVE T
  BY <1>2, <1>19, SMTT(20) DEF ReceiveRcl, receiver, Conclusions, TypedRequests
<1> HIDE DEF T
<1> QED BY <1>8, <1>9, <1>10, <1>11, <1>12, <1>13, <1>14, <1>15, <1>16, <1>17, <1>18, <1>19,
        SMTT(20) DEF Next

-----------------------------------------------------------------------------
(* The receiver waits for something.                                       *)

\* Every step leaves the receiver waiting for something.
LEMMA ReceiverStep ==
  ASSUME ResourceAssumption, TransferInv, Next
  PROVE  ReceiverInv'
<1> DEFINE W == inb' # NoTransfer => Waiting(inb')
<1>1. instance \in Instances /\ hmus \subseteq Nat /\ (receiving => Waiting(inb))
  <2>1. instance \in Instances /\ TypeOK
    BY Zenon DEF TransferInv
  <2> QED BY <2>1, InstanceFacts DEF TransferInv, ReceiverInv, TypeOK
<1>2. instance' = instance
  BY Zenon DEF Next, Same
<1>3. inb' = inb \/ inb' = NoTransfer \/ Waiting(inb') => W
  BY <1>1, Zenon DEF receiving
<1> SUFFICES W
  BY <1>2, SameWaiting, Zenon DEF ReceiverInv, receiving
<1> HIDE DEF W
<1>4. ASSUME StartTransfer PROVE W
  BY <1>3, <1>4, Zenon DEF StartTransfer, receiver
<1>5. ASSUME NEW answer \in Answers, ReceiveAdvertisement(answer) PROVE W
  BY <1>1, <1>3, <1>5, AdvertisementTaken, Zenon
<1>6. ASSUME NEW r \in DOMAIN requests, HandleRequest(r) PROVE W
  BY <1>3, <1>6, Zenon DEF HandleRequest, receiver
<1>7. ASSUME NEW p \in Parts, ReceiveAnyPart(p) PROVE W
  <2>1. PICK rate \in Rates, verdict \in Verdicts : ReceivePart(p, rate, verdict)
    BY <1>7, Zenon DEF ReceiveAnyPart
  <2>2. Waiting(inb)
    BY <1>1, <2>1, Zenon DEF ReceivePart
  <2> QED BY <1>1, <1>3, <2>1, <2>2, PartReceived, Zenon
<1>8. ASSUME NEW s \in hmus, ReceiveHmu(s) PROVE W
  <2>1. Waiting(inb) /\ s \in Nat
    BY <1>1, <1>8, Zenon DEF ReceiveHmu
  <2> QED BY <1>1, <1>3, <1>8, <2>1, HmuReceived, Zenon
<1>9. ASSUME ReceiveProof PROVE W
  BY <1>3, <1>9, Zenon DEF ReceiveProof, receiver
<1>10. ASSUME ReceiverTimeout PROVE W
  <2>1. Waiting(inb)
    BY <1>1, <1>10, Zenon DEF ReceiverTimeout
  <2> QED BY <1>1, <1>3, <1>10, <2>1, WaitPassed
<1>11. ASSUME SenderTimeout PROVE W
  BY <1>3, <1>11 DEF SenderTimeout, receiver
<1>12. ASSUME CancelInbound PROVE W
  BY <1>3, <1>12, Zenon DEF CancelInbound, DropInbound
<1>13. ASSUME CancelOutbound PROVE W
  BY <1>3, <1>13, Zenon DEF CancelOutbound, receiver
<1>14. ASSUME ReceiveIcl PROVE W
  BY <1>3, <1>14, Zenon DEF ReceiveIcl, DropInbound
<1>15. ASSUME ReceiveRcl PROVE W
  BY <1>3, <1>15 DEF ReceiveRcl, receiver
<1> QED BY <1>4, <1>5, <1>6, <1>7, <1>8, <1>9, <1>10, <1>11, <1>12, <1>13, <1>14, <1>15
        DEF Next

-----------------------------------------------------------------------------
(* Advertisements are bounded, and a success has a witness.                *)

\* Every step keeps the sender's counts and the witnesses of its outcome.
LEMMA OwnerStep ==
  ASSUME ResourceAssumption, TransferInv, Next
  PROVE  OwnerInv'
<1>1. /\ instance \in Instances /\ TypeOK /\ (receiving => Waiting(inb))
      /\ out.state = "None" => advs = 0 /\ out.retries = 0
      /\ out.state = "Advertised" => advs <= out.retries + 1
      /\ proved => delivered > 0
      /\ concluded = "Complete" => proved
  BY Zenon DEF TransferInv, OwnerInv, ReceiverInv
<1>2. out \in Outbound /\ advs \in Nat /\ delivered \in Nat /\ out.retries \in Nat
  BY <1>1, InstanceFacts DEF TypeOK, Outbound
<1>3. ASSUME StartTransfer PROVE OwnerInv'
  <2>1. out'.state = "Advertised" /\ out'.retries = out.retries
    BY <1>2, <1>3, Zenon DEF StartTransfer, Outbound
  <2> QED BY <1>1, <1>2, <1>3, <2>1 DEF StartTransfer, receiver, OwnerInv
<1>4. ASSUME NEW answer \in Answers, ReceiveAdvertisement(answer) PROVE OwnerInv'
  BY <1>1, <1>2, <1>4 DEF ReceiveAdvertisement, sender, OwnerInv
<1>5. ASSUME NEW r \in DOMAIN requests, HandleRequest(r) PROVE OwnerInv'
  <2> DEFINE answered == r.parts \intersect SearchRange
             sent     == out.sent_part_indices \union answered
  <2>1. UNCHANGED <<concluded, delivered, advs, proved>> /\ out.state # "None"
    BY <1>5, Zenon DEF HandleRequest, receiver, transferring
  <2>2. \/ out'.state = "Failed"
        \/ /\ out'.state = StateAfter(sent, answered)
           /\ out'.retries = IF sent # out.sent_part_indices THEN 0 ELSE out.retries
    BY <1>2, <1>5, Zenon DEF HandleRequest, Outbound
  <2>3. \/ out'.state \in {"Failed", "AwaitingProof", "Transferring"}
        \/ out'.state = out.state /\ out'.retries = out.retries
    BY <2>2, Zenon DEF StateAfter
  <2> QED BY <1>1, <2>1, <2>3, Zenon DEF OwnerInv
<1>6. ASSUME NEW p \in Parts, ReceiveAnyPart(p) PROVE OwnerInv'
  <2>1. PICK rate \in Rates, verdict \in Verdicts : ReceivePart(p, rate, verdict)
    BY <1>6, Zenon DEF ReceiveAnyPart
  <2>2. UNCHANGED <<out, concluded, advs>> /\ Waiting(inb)
    BY <1>1, <2>1, Zenon DEF ReceivePart, sender
  <2>3. CASE UNCHANGED <<proved, delivered>>
    BY <1>1, <2>2, <2>3, Zenon DEF OwnerInv
  <2>4. CASE Completes(verdict)
    <3>1. proved' <=> proved \/ verdict = "intact"
      BY <2>4, Zenon DEF Completes
    <3>2. delivered' = IF verdict = "intact" THEN delivered + 1 ELSE delivered
      BY <2>4, Zenon DEF Completes
    <3>3. proved' => delivered' > 0
      BY <1>1, <1>2, <3>1, <3>2
    <3> QED BY <1>1, <2>2, <3>1, <3>3, Zenon DEF OwnerInv
  <2> QED BY <1>1, <2>1, <2>2, <2>3, <2>4, PartReceived, Zenon
<1>7. ASSUME NEW s \in hmus, ReceiveHmu(s) PROVE OwnerInv'
  BY <1>1, <1>7, Zenon DEF ReceiveHmu, sender, OwnerInv
<1>8. ASSUME ReceiveProof PROVE OwnerInv'
  BY <1>1, <1>8, Zenon DEF ReceiveProof, receiver, OwnerInv
<1>9. ASSUME ReceiverTimeout PROVE OwnerInv'
  BY <1>1, <1>9 DEF ReceiverTimeout, sender, OwnerInv
<1>10. ASSUME SenderTimeout PROVE OwnerInv'
  <2>1. UNCHANGED <<delivered, proved>> /\ concluded' \in {concluded, "Failed"}
    BY <1>10, Zenon DEF SenderTimeout, receiver
  <2>2. CASE out.state = "Advertised" /\ out.retries < MAX_ADV_RETRIES
    <3>1. out'.state = "Advertised" /\ out'.retries = out.retries + 1 /\ advs' = advs + 1
      BY <1>2, <1>10, <2>2 DEF SenderTimeout, Outbound
    <3> QED BY <1>1, <1>2, <2>1, <2>2, <3>1 DEF OwnerInv
  <2>3. CASE ~(out.state = "Advertised" /\ out.retries < MAX_ADV_RETRIES)
    <3>1. out'.state = "Failed"
      BY <1>2, <1>10, <2>3 DEF SenderTimeout, Outbound
    <3> QED BY <1>1, <2>1, <3>1 DEF OwnerInv
  <2> QED BY <2>2, <2>3
<1>11. ASSUME CancelInbound PROVE OwnerInv'
  BY <1>1, <1>11, Zenon DEF CancelInbound, sender, OwnerInv
<1>12. ASSUME CancelOutbound PROVE OwnerInv'
  BY <1>1, <1>12, Zenon DEF CancelOutbound, receiver, OwnerInv
<1>13. ASSUME ReceiveIcl PROVE OwnerInv'
  BY <1>1, <1>13, Zenon DEF ReceiveIcl, sender, OwnerInv
<1>14. ASSUME ReceiveRcl PROVE OwnerInv'
  BY <1>1, <1>14 DEF ReceiveRcl, receiver, OwnerInv
<1> QED BY <1>3, <1>4, <1>5, <1>6, <1>7, <1>8, <1>9, <1>10, <1>11, <1>12, <1>13, <1>14, SMTT(20)
        DEF Next

-----------------------------------------------------------------------------
(* The sender finds what it is asked for.                                  *)

RangeNext ==
    /\ start' <= Consecutive(inb'.parts)
    /\ start' = 0 \/ start' + 1 + WINDOW_MAX_FAST <= inb'.hashmap_height
    /\ inb'.hashmap_height <= start' + Guard

AskedNext ==
    /\ \A r \in DOMAIN requests' : r.exhausted =>
         /\ r.last \in 1 .. inb'.hashmap_height
         /\ r.last < Consecutive(inb'.parts) + WINDOW_MAX_FAST
    /\ \A s \in hmus' :
         /\ s * HashmapMaxLen <= inb'.hashmap_height
         /\ Least(s * HashmapMaxLen + HashmapMaxLen, NumParts) <= start' + Guard

\* The numbers of the invariant.
LEMMA ReachFacts ==
  ASSUME ResourceAssumption, instance \in Instances, TypeOK
  PROVE  /\ NumParts \in Nat \ {0} /\ HashmapMaxLen \in Nat \ {0}
         /\ WINDOW_MAX_FAST \in Nat /\ Guard \in Nat /\ MaxCopies \in Nat \ {0}
         /\ start \in 0 .. NumParts /\ begun \in 0 .. 2
         /\ TypedRequests /\ hmus \subseteq 0 .. NumParts
<1>1. /\ NumParts \in Nat \ {0} /\ HashmapMaxLen \in Nat \ {0}
      /\ WINDOW_MAX_FAST \in Nat /\ MaxCopies \in Nat \ {0}
  BY InstanceFacts, Zenon DEF ResourceAssumption, ResourceWindowAssumption
<1>2. Guard \in Nat
  BY <1>1 DEF Guard
<1> QED BY <1>1, <1>2 DEF TypeOK, TypedRequests, Outbound, start

\* The receiver moves on: it gains parts and map hashes, within the range, and
\* asks.
LEMMA ReceiverMoves ==
  ASSUME ResourceAssumption, instance \in Instances, TypeOK, RangeInv, AskedInv,
         Waiting(inb), Waiting(inb'), Asks, UNCHANGED <<start, hmus>>,
         inb.parts \subseteq inb'.parts, inb.hashmap_height <= inb'.hashmap_height,
         inb'.hashmap_height <= start + Guard
  PROVE  RangeNext /\ AskedNext
<1>1. /\ NumParts \in Nat \ {0} /\ HashmapMaxLen \in Nat \ {0} /\ WINDOW_MAX_FAST \in Nat
      /\ MaxCopies \in Nat \ {0} /\ TypedRequests
      /\ start \in Nat /\ Guard \in Nat
  BY ReachFacts
<1>2. inb.hashmap_height \in 1 .. NumParts /\ inb'.hashmap_height \in 1 .. NumParts
  BY IncompleteFields, Zenon DEF Waiting
<1> DEFINE a == Consecutive(inb.parts)
           b == Consecutive(inb'.parts)
           h == inb.hashmap_height
           k == inb'.hashmap_height
<1>3. a \in Nat /\ b \in Nat /\ a <= b
  BY <1>1, ConsecutiveFacts, ConsecutiveGrows
<1>4. /\ start <= a /\ (start = 0 \/ start + 1 + WINDOW_MAX_FAST <= h)
      /\ \A r \in DOMAIN requests : r.exhausted => r.last \in 1 .. h /\ r.last < a + WINDOW_MAX_FAST
      /\ \A s \in hmus : /\ s * HashmapMaxLen <= h
                         /\ Least(s * HashmapMaxLen + HashmapMaxLen, NumParts) <= start + Guard
  BY Zenon DEF RangeInv, AskedInv
<1>5. RangeNext
  BY <1>1, <1>2, <1>3, <1>4 DEF RangeNext
<1>6. ASSUME NEW r \in DOMAIN requests', r.exhausted
      PROVE  r.last \in 1 .. k /\ r.last < b + WINDOW_MAX_FAST
  <2>1. CASE r \in DOMAIN requests
    BY <1>1, <1>2, <1>3, <1>4, <1>6, <2>1, SMTT(30)
  <2>2. CASE r \notin DOMAIN requests
    <3>1. PICK x \in Request :
            /\ requests' = With(requests, x)
            /\ x.exhausted => x.last = k /\ x.last < b + WINDOW_MAX_FAST
      BY <1>6, <2>2 DEF Asks
    <3>2. r = x
      <4>1. DOMAIN requests' = DOMAIN requests \union {x}
        BY <3>1, Zenon DEF With
      <4> QED BY <1>6, <2>2, <4>1
    <3> QED BY <1>2, <1>6, <3>1, <3>2
  <2> QED BY <2>1, <2>2, SMTT(30)
<1>7. ASSUME NEW s \in hmus'
      PROVE  /\ s * HashmapMaxLen <= k
             /\ Least(s * HashmapMaxLen + HashmapMaxLen, NumParts) <= start' + Guard
  <2>1. s \in Nat /\ s \in hmus
    BY ReachFacts
  <2>2. s * HashmapMaxLen \in Nat
    BY <1>1, <2>1
  <2> QED BY <1>2, <1>4, <2>1, <2>2
<1> QED BY <1>5, <1>6, <1>7 DEF AskedNext

\* The range after a request that reported a height: the heights and segments
\* that may have overtaken it are still within it.
LEMMA RangeMoves ==
  ASSUME ResourceAssumption, ReachAssumption, instance \in Instances, TypeOK, RangeInv, AskedInv,
         Waiting(inb), receiving, NEW r \in DOMAIN requests, HandleRequest(r)
  PROVE  RangeNext /\ AskedNext
<1>1. /\ NumParts \in Nat \ {0} /\ HashmapMaxLen \in Nat \ {0} /\ WINDOW_MAX_FAST \in Nat
      /\ MaxCopies \in Nat \ {0} /\ TypedRequests /\ start \in Nat /\ Guard \in Nat
      /\ hmus \subseteq Nat
  BY ReachFacts
<1>2. inb.hashmap_height \in 1 .. NumParts
  BY IncompleteFields, Zenon DEF Waiting
<1>3. inb' = inb /\ DOMAIN requests' \subseteq DOMAIN requests
  BY <1>1, RequestTaken, Zenon DEF HandleRequest, receiver
<1> DEFINE a == Consecutive(inb.parts)
           h == inb.hashmap_height
           last == r.last
           W == WINDOW_MAX_FAST
           H == HashmapMaxLen
<1>4. a \in Nat
  BY <1>1, ConsecutiveFacts
<1>5. /\ start <= a /\ (start = 0 \/ start + 1 + W <= h) /\ h <= start + Guard
      /\ \A x \in DOMAIN requests : x.exhausted => x.last \in 1 .. h /\ x.last < a + W
      /\ \A s \in hmus : s * H <= h /\ Least(s * H + H, NumParts) <= start + Guard
  BY Zenon DEF RangeInv, AskedInv
<1>6. start' = MinHeight(r)
  <2>1. out \in Outbound
    BY Zenon DEF TypeOK
  <2> QED BY <2>1, Zenon DEF HandleRequest, Outbound, start
<1>7. CASE ~r.exhausted
  <2>1. start' = start /\ hmus' = hmus
    BY <1>6, <1>7, Zenon DEF MinHeight, HandleRequest, Unanswerable, start
  <2> QED BY <1>3, <1>5, <2>1, Zenon DEF RangeNext, AskedNext
<1>8. CASE r.exhausted
  <2>1. last \in 1 .. h /\ last < a + W
    BY <1>5, <1>8, Zenon
  <2>2. h <= last + W - 1 /\ W >= 1
    <3> DEFINE K == Horizon * H
    <3>1. K \in Nat
      BY <1>1 DEF ResourceAssumption
    <3>2. K < W
      BY Zenon DEF ReachAssumption, HashmapMaxLen
    <3>3. last + K >= h
      BY <1>8, Zenon DEF HandleRequest, Timely
    <3> HIDE DEF K
    <3> QED BY <1>1, <1>2, <2>1, <3>1, <3>2, <3>3, SMTT(30)
  <2>3. Guard = 2 * W + H
    BY Zenon DEF Guard
  <2>4. last - 1 \in SearchRange
    BY <1>1, <1>2, <1>5, <2>1, <2>2 DEF SearchRange, Least, start
  <2>5. PartIndex(r) = last
    BY <2>4, Zenon DEF PartIndex
  <2>6. start' = IF last > W THEN last - 1 - W ELSE 0
    BY <1>6, <1>8, <2>5, Zenon DEF MinHeight, WINDOW_MAX
  <2>7. start' \in Nat /\ last <= start' + 1 + W
    BY <1>1, <1>2, <2>1, <2>6
  <2>8. RangeNext
    <3>1. start' <= a /\ (start' = 0 \/ start' + 1 + W <= h) /\ h <= start' + Guard
      BY <1>1, <1>2, <1>4, <2>1, <2>2, <2>3, <2>6, SMTT(30)
    <3> QED BY <1>3, <3>1, Zenon DEF RangeNext
  <2>9. ASSUME NEW s \in hmus' PROVE s * H <= h /\ Least(s * H + H, NumParts) <= start' + Guard
    <3>1. s \in Nat /\ s * H \in Nat /\ s * H <= h
      <4>1. CASE s \in hmus
        BY <1>1, <1>5, <4>1
      <4>2. CASE s \notin hmus
        <5>1. s = last \div H /\ last % H = 0
          BY <1>8, <2>5, <2>9, <4>2, SMTT(20) DEF HandleRequest, Unanswerable
        <5>2. last \in Nat /\ H \in Nat \ {0}
          BY <1>1, <1>2, <2>1
        <5>3. s \in Nat /\ last = H * s + (last % H)
          BY <5>1, <5>2, ModSplit, Zenon
        <5>4. s * H = H * s
          BY <5>2, <5>3
        <5>5. s * H = last
          BY <5>1, <5>2, <5>3, <5>4, SMTT(20)
        <5> QED BY <2>1, <5>2, <5>3, <5>5
      <4> QED BY <4>1, <4>2, Zenon
    <3> DEFINE m == s * H
    <3> HIDE DEF m
    <3>2. m \in Nat /\ m <= h
      BY <3>1, Zenon DEF m
    <3>3. m + H <= start' + Guard
      <4>1. \A st, l, w, n \in Nat : m <= l + w - 1 /\ l <= st + 1 + w => m + n <= st + (2 * w + n)
        BY <3>2, SMTT(30)
      <4>2. last \in Nat /\ H \in Nat /\ m <= last + W - 1
        BY <1>1, <1>2, <2>1, <2>2, <3>2, SMTT(30)
      <4> QED BY <1>1, <2>3, <2>7, <4>1, <4>2, Zenon
    <3>4. Least(m + H, NumParts) <= m + H /\ Least(m + H, NumParts) \in Nat
      BY <1>1, <3>2 DEF Least
    <3>5. Least(m + H, NumParts) <= start' + Guard
      <4>1. \A x, y, z \in Nat : x <= y /\ y <= z => x <= z
        OBVIOUS
      <4>2. m + H \in Nat
        BY <1>1, <3>2
      <4>3. start' + Guard \in Nat
        <5>1. \A x, y \in Nat : x + y \in Nat
          OBVIOUS
        <5> QED BY <1>1, <2>7, <5>1, Zenon
      <4> QED BY <3>3, <3>4, <4>1, <4>2, <4>3, SMTT(20)
    <3> QED BY <3>1, <3>5, Zenon DEF m
  <2> QED BY <1>3, <1>5, <2>8, <2>9, Zenon DEF AskedNext
<1> QED BY <1>7, <1>8, Zenon

\* Every step keeps what the receiver may ask for within the sender's guard.
LEMMA ReachStep ==
  ASSUME ResourceAssumption, ReachAssumption, TransferInv, ReachInv, Next
  PROVE  ReachInv'
<1> DEFINE R == /\ begun' = 0 => /\ inb' = NoTransfer /\ DOMAIN requests' = {} /\ hmus' = {}
                                 /\ start' = 0
                /\ inb' # NoTransfer /\ begun' = 1 => RangeNext /\ AskedNext
<1>1. /\ instance \in Instances /\ TypeOK
      /\ receiving => Waiting(inb)
      /\ begun = 0 => ~receiving /\ DOMAIN requests = {} /\ hmus = {} /\ start = 0
      /\ receiving /\ begun = 1 => RangeInv /\ AskedInv
  BY Zenon DEF TransferInv, ReceiverInv, ReachInv
<1>2. instance' = instance
  BY Zenon DEF Next, Same
<1>3. RangeNext => RangeInv'
  BY <1>2, SameInstance, SameWaiting, SMTT(30) DEF RangeNext, RangeInv
<1>4. AskedNext => AskedInv'
  BY <1>2, SameInstance, SameWaiting DEF AskedNext, AskedInv, Least
<1> SUFFICES R
  BY <1>3, <1>4 DEF ReachInv, receiving
<1>5. /\ NumParts \in Nat \ {0} /\ HashmapMaxLen \in Nat \ {0} /\ WINDOW_MAX_FAST \in Nat
      /\ MaxCopies \in Nat \ {0} /\ TypedRequests /\ begun \in 0 .. 2
      /\ start \in 0 .. NumParts /\ hmus \subseteq 0 .. NumParts /\ out \in Outbound
  BY <1>1, ReachFacts DEF TypeOK
<1>6. ASSUME UNCHANGED <<inb, begun, requests, hmus>>, start' = start PROVE R
  BY <1>1, <1>6 DEF RangeNext, RangeInv, AskedNext, AskedInv, receiving
<1>7. ASSUME receiving, inb' = NoTransfer, begun' = begun PROVE R
  BY <1>1, <1>7
<1>8. ASSUME StartTransfer PROVE R
  <2>1. start' = start
    BY <1>5, <1>8 DEF StartTransfer, start, Outbound
  <2> QED BY <1>6, <1>8, <2>1 DEF StartTransfer, receiver
<1>9. ASSUME NEW answer \in Answers, ReceiveAdvertisement(answer) PROVE R
  <2>1. start' = start /\ hmus' = hmus
    BY <1>9, Zenon DEF ReceiveAdvertisement, sender, start
  <2>2. CASE UNCHANGED <<inb, requests>> /\ begun' = begun
    BY <1>6, <2>1, <2>2
  <2>3. CASE /\ begun' = Least(begun + 1, 2) /\ Waiting(inb') /\ Asks
             /\ inb'.hashmap_height = Least(HashmapMaxLen, NumParts)
    <3>1. begun' # 0 /\ (begun' = 1 => begun = 0)
      BY <1>5, <2>3 DEF Least
    <3> SUFFICES ASSUME begun = 0 PROVE RangeNext /\ AskedNext
      BY <3>1, Zenon
    <3>2. DOMAIN requests = {} /\ hmus' = {} /\ start' = 0
      BY <1>1, <2>1
    <3>3. inb'.hashmap_height \in 1 .. NumParts
      BY <1>1, <2>3, IncompleteFields DEF Waiting
    <3>4. Consecutive(inb'.parts) \in Nat
      BY <1>5, ConsecutiveFacts
    <3>5. RangeNext
      BY <1>5, <2>3, <3>2, <3>4 DEF RangeNext, Guard, Least
    <3>6. ASSUME NEW r \in DOMAIN requests', r.exhausted
          PROVE  /\ r.last \in 1 .. inb'.hashmap_height
                 /\ r.last < Consecutive(inb'.parts) + WINDOW_MAX_FAST
      <4>1. PICK x \in Request :
              /\ requests' = With(requests, x)
              /\ x.exhausted => /\ x.last = inb'.hashmap_height
                                /\ x.last < Consecutive(inb'.parts) + WINDOW_MAX_FAST
        BY <2>3, <3>2, <3>6, Zenon DEF Asks
      <4>2. r = x
        <5>1. DOMAIN requests' = DOMAIN requests \union {x}
          BY <4>1, Zenon DEF With
        <5> QED BY <3>2, <3>6, <5>1, Zenon
      <4> QED BY <3>3, <3>6, <4>1, <4>2
    <3> QED BY <3>2, <3>5, <3>6 DEF AskedNext
  <2> QED BY <1>1, <1>9, <2>2, <2>3, AdvertisementTaken
<1>10. ASSUME NEW r \in DOMAIN requests, HandleRequest(r) PROVE R
  <2>1. inb' = inb /\ begun' = begun
    BY <1>10, Zenon DEF HandleRequest, receiver
  <2>2. begun # 0
    BY <1>1, Zenon
  <2> SUFFICES ASSUME receiving, begun = 1 PROVE RangeNext /\ AskedNext
    BY <2>1, <2>2, Zenon DEF receiving
  <2> QED BY <1>1, <1>10, RangeMoves, Zenon
<1>11. ASSUME NEW p \in Parts, ReceiveAnyPart(p) PROVE R
  <2>1. PICK rate \in Rates, verdict \in Verdicts : ReceivePart(p, rate, verdict)
    BY <1>11, Zenon DEF ReceiveAnyPart
  <2>2. receiving /\ begun' = begun /\ start' = start /\ hmus' = hmus
    BY <2>1, Zenon DEF ReceivePart, sender, start
  <2>3. CASE UNCHANGED <<inb, requests>>
    BY <1>6, <2>2, <2>3
  <2>4. CASE inb' = NoTransfer
    BY <1>7, <2>2, <2>4, SMTT(20)
  <2>5. CASE /\ Waiting(inb') /\ Asks /\ inb'.parts = inb.parts \union {p}
             /\ inb'.hashmap_height = inb.hashmap_height
    <3> SUFFICES ASSUME begun = 1 PROVE RangeNext /\ AskedNext
      BY <1>1, <2>2
    <3>1. Waiting(inb) /\ RangeInv /\ AskedInv
      BY <1>1, <2>2, SMTT(30)
    <3>2. inb.hashmap_height \in Nat /\ inb.hashmap_height <= start + Guard
      BY <1>1, <1>5, <3>1, IncompleteFields DEF Waiting, RangeInv
    <3> QED BY <1>1, <2>2, <2>5, <3>1, <3>2, ReceiverMoves, SMTT(20)
  <2> QED BY <1>1, <2>1, <2>2, <2>3, <2>4, <2>5, PartReceived, Zenon
<1>12. ASSUME NEW s \in hmus, ReceiveHmu(s) PROVE R
  <2>1. receiving /\ begun' = begun /\ start' = start /\ hmus' = hmus
    BY <1>12, Zenon DEF ReceiveHmu, sender, start
  <2>2. CASE inb' = NoTransfer
    BY <1>7, <2>1, <2>2, Zenon
  <2>3. CASE /\ Waiting(inb') /\ Asks /\ inb'.parts = inb.parts
             /\ inb'.hashmap_height = Least(s * HashmapMaxLen + HashmapMaxLen, NumParts)
             /\ inb'.hashmap_height > inb.hashmap_height
    <3> SUFFICES ASSUME begun = 1 PROVE RangeNext /\ AskedNext
      BY <1>1, <2>1, Zenon
    <3>1. Waiting(inb) /\ RangeInv /\ AskedInv
      BY <1>1, <2>1, SMTT(20)
    <3>2. inb'.hashmap_height <= start + Guard
      BY <2>3, <3>1, <1>12, SMTT(20) DEF AskedInv
    <3>3. inb.hashmap_height \in Nat /\ inb'.hashmap_height \in Nat
      BY <1>1, <1>5, <2>3, <3>1, IncompleteFields, SMTT(20) DEF Waiting
    <3>4. inb.hashmap_height <= inb'.hashmap_height
      BY <2>3, <3>3
    <3> QED BY <1>1, <2>1, <2>3, <3>1, <3>2, <3>4, ReceiverMoves, SMTT(20)
  <2>4. s \in Nat /\ Waiting(inb)
    BY <1>1, <1>5, <2>1
  <2> QED BY <1>1, <1>12, <2>2, <2>3, <2>4, HmuReceived, Zenon
<1>13. ASSUME ReceiveProof PROVE R
  BY <1>6, <1>13 DEF ReceiveProof, receiver, start
<1>14. ASSUME ReceiverTimeout PROVE R
  <2>1. receiving /\ begun' = begun /\ start' = start /\ hmus' = hmus
    BY <1>14, Zenon DEF ReceiverTimeout, sender, start
  <2>2. CASE inb' = NoTransfer
    BY <1>7, <2>1, <2>2
  <2>3. CASE /\ Waiting(inb') /\ Asks /\ inb'.parts = inb.parts
             /\ inb'.hashmap_height = inb.hashmap_height
    <3> SUFFICES ASSUME begun = 1 PROVE RangeNext /\ AskedNext
      BY <1>1, <2>1
    <3>1. Waiting(inb) /\ RangeInv /\ AskedInv
      BY <1>1, <2>1, SMTT(30)
    <3>2. inb.hashmap_height \in Nat /\ inb.hashmap_height <= start + Guard
      BY <1>1, <1>5, <3>1, IncompleteFields DEF Waiting, RangeInv
    <3> QED BY <1>1, <2>1, <2>3, <3>1, <3>2, ReceiverMoves, SMTT(30)
  <2> QED BY <1>1, <1>14, <2>1, <2>2, <2>3, WaitPassed
<1>15. ASSUME SenderTimeout PROVE R
  <2>1. start' = start
    BY <1>5, <1>15, Zenon DEF SenderTimeout, start, Outbound
  <2> QED BY <1>6, <1>15, <2>1, Zenon DEF SenderTimeout, receiver
<1>16. ASSUME CancelInbound PROVE R
  BY <1>7, <1>16, Zenon DEF CancelInbound, DropInbound
<1>17. ASSUME CancelOutbound PROVE R
  BY <1>6, <1>17, Zenon DEF CancelOutbound, receiver, start
<1>18. ASSUME ReceiveIcl PROVE R
  BY <1>7, <1>18, Zenon DEF ReceiveIcl, DropInbound
<1>19. ASSUME ReceiveRcl PROVE R
  BY <1>6, <1>19, Zenon DEF ReceiveRcl, receiver, start
<1> HIDE DEF R
<1> QED BY <1>8, <1>9, <1>10, <1>11, <1>12, <1>13, <1>14, <1>15, <1>16, <1>17, <1>18, <1>19,
        SMTT(20) DEF Next

-----------------------------------------------------------------------------
(* The theorems.                                                           *)

\* The invariant holds in every state of a transfer.
LEMMA TransferInvariant ==
  ASSUME ResourceAssumption
  PROVE  Spec => []TransferInv
<1>1. Init => TransferInv
  <2> SUFFICES ASSUME Init PROVE TransferInv
    OBVIOUS
  <2>1. /\ instance \in Instances /\ NumParts \in Nat \ {0} /\ MAX_ADV_RETRIES \in Nat
        /\ inb = NoTransfer
    BY InstanceFacts, Zenon DEF Init
  <2>2. out \in Outbound
    <3>1. 0 \in 0 .. MAX_ADV_RETRIES /\ 0 \in 0 .. NumParts
      BY <2>1
    <3> QED BY <3>1, Zenon DEF Init, Outbound
  <2>3. TypeOK
    <3>1. \A r \in DOMAIN requests : r \in Request /\ requests[r] \in 1 .. MaxCopies
      BY DEF Init
    <3>2. inb \in Inbound \union {NoTransfer}
      BY <2>1, Zenon
    <3>3. advs \in 0 .. MAX_ADV_RETRIES + 1 /\ delivered \in Nat /\ begun \in 0 .. 2
      BY <2>1 DEF Init
    <3> QED BY <2>2, <3>1, <3>2, <3>3, Zenon DEF Init, TypeOK, Conclusions
  <2>4. ReceiverInv
    BY <2>1, Zenon DEF ReceiverInv, receiving
  <2>5. OwnerInv
    BY Zenon DEF Init, OwnerInv
  <2> QED BY <2>1, <2>3, <2>4, <2>5, Zenon DEF TransferInv
<1>2. TransferInv /\ [Next]_vars => TransferInv'
  <2>1. ASSUME TransferInv, Next PROVE TransferInv'
    <3>1. instance' \in Instances
      BY <2>1, Zenon DEF TransferInv, Next, Same
    <3> QED BY <2>1, <3>1, TypeStep, ReceiverStep, OwnerStep DEF TransferInv
  <2>2. ASSUME TransferInv, UNCHANGED vars PROVE TransferInv'
    <3>1. /\ UNCHANGED <<instance, out, concluded, inb, delivered, begun, advs, requests>>
          /\ UNCHANGED <<hmus, proved, cancels>>
      BY <2>2, Zenon DEF vars
    <3>2. TypeOK'
      BY <2>2, <3>1, SameInstance DEF TransferInv, TypeOK
    <3>3. ReceiverInv'
      BY <2>2, <3>1, SameWaiting DEF TransferInv, ReceiverInv, receiving
    <3>4. OwnerInv'
      BY <2>2, <3>1 DEF TransferInv, OwnerInv
    <3> QED BY <2>2, <3>1, <3>2, <3>3, <3>4 DEF TransferInv
  <2> QED BY <2>1, <2>2
<1> QED BY <1>1, <1>2, PTL DEF Spec

\* The receiver of a transfer is never idle: whatever arrives, in whatever
\* order, it is left waiting for a part it has asked for and does not have, or
\* for more of the map, so that only a loss can stall it (request_next,
\* receive_part, hashmap_update and check_timeout of InboundTransfer).
THEOREM ReceiverNeverIdle ==
  ASSUME ResourceAssumption
  PROVE  Spec => []NeverIdle
<1>1. TransferInv => NeverIdle
  <2> SUFFICES ASSUME TransferInv, receiving, ~inb.waiting_for_hmu
               PROVE  inb.outstanding_parts > 0 /\ Wanted(inb) # {}
    BY Zenon DEF NeverIdle
  <2>1. instance \in Instances /\ Waiting(inb)
    BY Zenon DEF TransferInv, ReceiverInv
  <2>2. /\ Incomplete(inb) /\ inb.outstanding_parts > 0
        /\ inb.outstanding_parts <= Cardinality(Wanted(inb))
    BY <2>1, Zenon DEF Waiting
  <2>3. NumParts \in Nat /\ inb.outstanding_parts \in 0 .. NumParts
    BY <2>1, <2>2, InstanceFacts, IncompleteFields
  <2>4. Cardinality({}) = 0
    BY FS_EmptySet, Zenon
  <2> QED BY <2>2, <2>3, <2>4
<1> QED BY <1>1, TransferInvariant, PTL

\* Only progress refills a retry budget: the receiver's is raised by a part or
\* by map hashes it did not have, the sender's is reset by a part it had not
\* sent (retries_left of InboundTransfer, retries of OutboundTransfer).
THEOREM BudgetsNeedProgress ==
  ASSUME ResourceAssumption
  PROVE  Spec => BudgetNeedsProgress
<1>1. TransferInv /\ [Next]_vars => [BudgetStep]_vars
  <2> SUFFICES ASSUME TransferInv, Next PROVE BudgetStep
    OBVIOUS
  <2>1. instance \in Instances /\ TypeOK /\ (receiving => Waiting(inb))
    BY Zenon DEF TransferInv, ReceiverInv
  <2>2. out \in Outbound /\ out.retries \in Nat /\ hmus \subseteq Nat
    BY <2>1, InstanceFacts, SMTT(20) DEF TypeOK, Outbound
  <2>3. receiving => /\ inb.retries_left \in Nat /\ IsFiniteSet(inb.parts)
                     /\ Cardinality(inb.parts) \in Nat
    <3> SUFFICES ASSUME receiving
                 PROVE  /\ inb.retries_left \in Nat /\ IsFiniteSet(inb.parts)
                        /\ Cardinality(inb.parts) \in Nat
      OBVIOUS
    <3>1. /\ inb.parts \subseteq Parts /\ inb.retries_left \in 0 .. MAX_RETRIES
          /\ MAX_RETRIES \in Nat /\ NumParts \in Nat
      BY <2>1, InstanceFacts, IncompleteFields DEF Waiting, ResourceAssumption
    <3>2. IsFiniteSet(Parts)
      BY <3>1, FS_Interval DEF Parts
    <3>3. IsFiniteSet(inb.parts)
      BY <3>1, <3>2, FS_Subset
    <3> QED BY <3>1, <3>3, FS_CardinalityType
  <2> DEFINE Earned == receiving /\ inb' # NoTransfer /\ inb'.retries_left > inb.retries_left =>
                         \/ Cardinality(inb'.parts) > Cardinality(inb.parts)
                         \/ inb'.hashmap_height > inb.hashmap_height
             Resent == out'.retries < out.retries =>
                         \E p \in out'.sent_part_indices : p \notin out.sent_part_indices
  <2> SUFFICES Earned /\ Resent
    BY Zenon DEF BudgetStep, receiving
  <2>4. inb' = inb \/ inb' = NoTransfer \/ ~receiving => Earned
    BY <2>3
  <2>5. out' = out \/ out'.retries = out.retries => Resent
    BY <2>2
  <2> HIDE DEF Earned, Resent
  <2>6. ASSUME StartTransfer PROVE Earned /\ Resent
    <3>1. out'.retries = out.retries
      BY <2>2, <2>6 DEF StartTransfer, Outbound
    <3> QED BY <2>4, <2>5, <2>6, <3>1 DEF StartTransfer, receiver
  <2>7. ASSUME NEW answer \in Answers, ReceiveAdvertisement(answer) PROVE Earned /\ Resent
    <3>1. inb' = inb \/ ~receiving
      BY <2>1, <2>7, AdvertisementTaken
    <3> QED BY <2>4, <2>5, <2>7, <3>1 DEF ReceiveAdvertisement, sender
  <2>8. ASSUME NEW r \in DOMAIN requests, HandleRequest(r) PROVE Earned /\ Resent
    <3> DEFINE sent == out.sent_part_indices \union (r.parts \intersect SearchRange)
    <3>1. \/ out'.retries = out.retries
          \/ out'.sent_part_indices = sent /\ sent # out.sent_part_indices
      BY <2>2, <2>8, Zenon DEF HandleRequest, Outbound
    <3>2. ASSUME out'.sent_part_indices = sent, sent # out.sent_part_indices PROVE Resent
      BY <3>2, SMTT(30) DEF Resent
    <3> QED BY <2>4, <2>5, <2>8, <3>1, <3>2 DEF HandleRequest, receiver
  <2>9. ASSUME NEW p \in Parts, ReceiveAnyPart(p) PROVE Earned /\ Resent
    <3>1. PICK rate \in Rates, verdict \in Verdicts : ReceivePart(p, rate, verdict)
      BY <2>9, Zenon DEF ReceiveAnyPart
    <3>2. receiving /\ out' = out
      BY <3>1 DEF ReceivePart, sender
    <3>3. CASE inb'.parts = inb.parts \union {p} /\ p \notin inb.parts
      <4>1. Cardinality(inb'.parts) = Cardinality(inb.parts) + 1
        BY <2>3, <3>2, <3>3, FS_AddElement, Zenon
      <4>2. Cardinality(inb'.parts) > Cardinality(inb.parts)
        BY <2>3, <3>2, <4>1
      <4>3. Earned
        BY <4>2 DEF Earned
      <4> QED BY <2>5, <3>2, <4>3, SMTT(20)
    <3> QED BY <2>1, <2>4, <2>5, <3>1, <3>2, <3>3, PartReceived, SMTT(30)
  <2>10. ASSUME NEW s \in hmus, ReceiveHmu(s) PROVE Earned /\ Resent
    <3>1. receiving /\ out' = out /\ s \in Nat
      BY <2>2, <2>10 DEF ReceiveHmu, sender
    <3>2. inb' = NoTransfer \/ inb'.hashmap_height > inb.hashmap_height
      BY <2>1, <2>10, <3>1, HmuReceived
    <3> QED BY <2>5, <3>1, <3>2 DEF Earned
  <2>11. ASSUME ReceiveProof PROVE Earned /\ Resent
    BY <2>4, <2>5, <2>11 DEF ReceiveProof, receiver
  <2>12. ASSUME ReceiverTimeout PROVE Earned /\ Resent
    <3>1. receiving /\ out' = out
      BY <2>12 DEF ReceiverTimeout, sender
    <3>2. CASE Waiting(inb') /\ inb'.retries_left < inb.retries_left
      <4>1. inb'.retries_left \in 0 .. MAX_RETRIES /\ MAX_RETRIES \in Nat
        BY <2>1, <3>2, IncompleteFields DEF Waiting, ResourceAssumption
      <4>2. ~(inb'.retries_left > inb.retries_left)
        BY <2>3, <3>1, <3>2, <4>1
      <4> QED BY <2>5, <3>1, <4>2, SMTT(30) DEF Earned
    <3> QED BY <2>1, <2>4, <2>5, <2>12, <3>1, <3>2, WaitPassed
  <2>13. ASSUME SenderTimeout PROVE Earned /\ Resent
    <3>1. out'.retries = out.retries \/ out'.retries = out.retries + 1
      BY <2>2, <2>13 DEF SenderTimeout, Outbound
    <3>2. ~(out'.retries < out.retries)
      BY <2>2, <3>1
    <3> QED BY <2>4, <2>13, <3>2 DEF SenderTimeout, receiver, Resent
  <2>14. ASSUME CancelInbound PROVE Earned /\ Resent
    BY <2>4, <2>5, <2>14 DEF CancelInbound, DropInbound, sender
  <2>15. ASSUME CancelOutbound PROVE Earned /\ Resent
    BY <2>4, <2>5, <2>15 DEF CancelOutbound, receiver
  <2>16. ASSUME ReceiveIcl PROVE Earned /\ Resent
    BY <2>4, <2>5, <2>16 DEF ReceiveIcl, DropInbound, sender
  <2>17. ASSUME ReceiveRcl PROVE Earned /\ Resent
    BY <2>4, <2>5, <2>17 DEF ReceiveRcl, receiver
  <2> QED BY <2>6, <2>7, <2>8, <2>9, <2>10, <2>11, <2>12, <2>13, <2>14, <2>15, <2>16, <2>17,
          SMTT(20) DEF Next
<1> QED BY <1>1, TransferInvariant, PTL DEF Spec, BudgetNeedsProgress

\* Success at the sender is success at the receiver: Complete is concluded
\* only after the whole, checked content was handed over.  And as long as the
\* map segments that may overtake a request are shorter than a window, every
\* part the receiver of a first transfer can ask for is one the sender looks
\* for (handle_request_packet, collision_guard_size).
THEOREM TransferIsSound ==
  ASSUME ResourceAssumption, ReachAssumption
  PROVE  Spec => []TransferSound
<1>1. Init => ReachInv
  BY DEF Init, ReachInv, receiving, start
<1>2. TransferInv /\ ReachInv /\ [Next]_vars => ReachInv'
  <2>1. ASSUME ReachInv, UNCHANGED vars PROVE ReachInv'
    <3>1. UNCHANGED <<instance, out, inb, begun, requests, hmus>>
      BY <2>1 DEF vars
    <3>2. RangeInv => RangeInv'
      BY <3>1, SameInstance, SameWaiting, SMTT(20) DEF RangeInv, start
    <3>3. AskedInv => AskedInv'
      BY <3>1, SameInstance, SameWaiting DEF AskedInv, start, Least
    <3> QED BY <2>1, <3>1, <3>2, <3>3 DEF ReachInv, receiving, start
  <2> QED BY <2>1, ReachStep
<1>3. TransferInv /\ ReachInv => TransferSound
  <2> SUFFICES ASSUME TransferInv, ReachInv PROVE TransferSound
    OBVIOUS
  <2>1. instance \in Instances /\ TypeOK /\ OwnerInv /\ ReceiverInv
    BY DEF TransferInv
  <2>2. CompleteMeansDelivered
    BY <2>1, Zenon DEF OwnerInv, CompleteMeansDelivered
  <2>3. ASSUME receiving, begun = 1,
               NEW p \in Consecutive(inb.parts) .. inb.hashmap_height - 1
        PROVE  p \in SearchRange
    <3>1. start <= Consecutive(inb.parts) /\ inb.hashmap_height <= start + Guard
      BY <2>3, SMTT(20) DEF ReachInv, RangeInv
    <3>2. /\ NumParts \in Nat /\ Guard \in Nat /\ start \in 0 .. NumParts
          /\ inb.hashmap_height \in 1 .. NumParts
      BY <2>1, <2>3, ReachFacts, IncompleteFields, SMTT(30) DEF ReceiverInv, Waiting
    <3>3. Consecutive(inb.parts) \in Nat
      BY <2>1, InstanceFacts, ConsecutiveFacts
    <3> QED BY <2>3, <3>1, <3>2, <3>3 DEF SearchRange, Least, start
  <2> QED BY <2>1, <2>2, <2>3 DEF TransferSound, AskedWithinReach
<1> QED BY <1>1, <1>2, <1>3, TransferInvariant, PTL DEF Spec
=============================================================================
