--------------------------- MODULE ChannelWindow ---------------------------
(***************************************************************************)
(* The flow-control window of a Channel: `ChannelWindow` of                *)
(* crates/rns-protocol/src/channel.rs, as operators on a record with the   *)
(* fields of the struct, and the small state machine of a window driven by *)
(* proofs (grow) and timeouts (shrink).                                    *)
(*                                                                         *)
(* A round-trip time matters only by the class the thresholds RTT_FAST,    *)
(* RTT_MEDIUM and RTT_SLOW put it in, and by being zero or not a number.   *)
(***************************************************************************)
EXTENDS Integers

CONSTANTS
    WINDOW_INITIAL,
    WINDOW_MIN,
    WINDOW_MIN_LIMIT_MEDIUM,
    WINDOW_MIN_LIMIT_FAST,
    WINDOW_MAX_SLOW,
    WINDOW_MAX_MEDIUM,
    WINDOW_MAX_FAST,
    FAST_RATE_THRESHOLD,
    WINDOW_FLEXIBILITY

WINDOW_MAX == WINDOW_MAX_FAST

ASSUME WindowAssumption ==
    /\ WINDOW_INITIAL \in Nat \ {0}
    /\ WINDOW_MIN \in 1 .. WINDOW_INITIAL
    /\ WINDOW_MAX_SLOW \in Nat
    /\ WINDOW_INITIAL <= WINDOW_MAX_SLOW
    /\ WINDOW_MAX_MEDIUM \in Nat
    /\ WINDOW_MAX_SLOW <= WINDOW_MAX_MEDIUM
    /\ WINDOW_MAX_FAST \in Nat
    /\ WINDOW_MAX_MEDIUM <= WINDOW_MAX_FAST
    /\ WINDOW_MIN_LIMIT_MEDIUM \in 1 .. WINDOW_MAX_MEDIUM
    /\ WINDOW_MIN_LIMIT_FAST \in 1 .. WINDOW_MAX_FAST
    /\ FAST_RATE_THRESHOLD \in Nat \ {0}
    /\ WINDOW_FLEXIBILITY \in 1 .. WINDOW_MAX_FAST

\* "invalid" stands for a NaN, infinite or negative sample.
RttClass == {"invalid", "zero", "fast", "medium", "slow", "very_slow"}

\* The round counters are compared with the threshold for equality only, so
\* the counts above it are one count.
RoundsCap == FAST_RATE_THRESHOLD + 1
CountRound(rounds) == IF rounds < RoundsCap THEN rounds + 1 ELSE RoundsCap

WindowType ==
    [window : Nat, window_min : Nat, window_max : Nat,
     window_flexibility : Nat,
     fast_rate_rounds : 0 .. RoundsCap, medium_rate_rounds : 0 .. RoundsCap]

NewWindow(rtt) ==
    IF rtt = "very_slow"
    THEN [window |-> 1, window_min |-> 1, window_max |-> 1,
          window_flexibility |-> 1,
          fast_rate_rounds |-> 0, medium_rate_rounds |-> 0]
    ELSE [window |-> WINDOW_INITIAL, window_min |-> WINDOW_MIN,
          window_max |-> WINDOW_MAX_SLOW,
          window_flexibility |-> WINDOW_FLEXIBILITY,
          fast_rate_rounds |-> 0, medium_rate_rounds |-> 0]

\* Promotion of the window to a faster tier, on the sample that completes the
\* required number of rounds.
PromoteFromAnyTier(w, rounds, max, min) ==
    IF rounds = FAST_RATE_THRESHOLD
    THEN [w EXCEPT !.window_max = max, !.window_min = min]
    ELSE w
Promote(w, rounds, max, min) ==
    IF w.window_max < max /\ rounds = FAST_RATE_THRESHOLD
    THEN [w EXCEPT !.window_max = max, !.window_min = min]
    ELSE w

OpenedPastMax(w) ==
    IF w.window <= w.window_max THEN [w EXCEPT !.window = @ + 1] ELSE w
Opened(w) ==
    IF w.window < w.window_max THEN [w EXCEPT !.window = @ + 1] ELSE w

\* The counters of the tier a sample falls in, and the promotion it earns.
Rated(w, rtt) ==
    CASE rtt = "fast" ->
           LET rounds == CountRound(w.fast_rate_rounds)
           IN  Promote([w EXCEPT !.fast_rate_rounds = rounds], rounds,
                       WINDOW_MAX_FAST, WINDOW_MIN_LIMIT_FAST)
      [] rtt = "medium" ->
           LET rounds == CountRound(w.medium_rate_rounds)
           IN  Promote([w EXCEPT !.fast_rate_rounds = 0,
                                 !.medium_rate_rounds = rounds], rounds,
                       WINDOW_MAX_MEDIUM, WINDOW_MIN_LIMIT_MEDIUM)
      [] OTHER -> [w EXCEPT !.fast_rate_rounds = 0, !.medium_rate_rounds = 0]

\* clamp_window: the fields are public, so both operations cap them first.
Clamp(w) ==
    LET cap(n) == IF n < WINDOW_MAX THEN n ELSE WINDOW_MAX
    IN  [w EXCEPT !.window = cap(@), !.window_min = cap(@),
                  !.window_max = cap(@), !.window_flexibility = cap(@)]

Grow(w, rtt) ==
    CASE rtt = "invalid" -> Clamp(w)
      [] rtt = "zero"    -> Opened(Clamp(w))
      [] OTHER           -> Rated(Opened(Clamp(w)), rtt)

\* One slot narrower; the ceiling follows while it is far above the floor.
Narrowed(w) ==
    LET shrunk == [w EXCEPT !.window = @ - 1]
    IN  IF w.window_max > w.window_min + w.window_flexibility
        THEN [shrunk EXCEPT !.window_max = @ - 1]
        ELSE shrunk

Shrink(w) ==
    LET c == Clamp(w) IN IF c.window > c.window_min THEN Narrowed(c) ELSE c

\* The window after k timeouts of one tick: Shrink applied k times.
ShrinkBy(w, k) ==
    LET c     == Clamp(w)
        least(a, b) == IF a < b THEN a ELSE b
        above(a, b) == IF a > b THEN a - b ELSE 0
        steps == least(k, above(c.window, c.window_min))
    IN  [c EXCEPT
           !.window     = @ - steps,
           !.window_max = @ - least(steps,
                              above(@, c.window_min + c.window_flexibility))]

=============================================================================
