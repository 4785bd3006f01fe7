-------------------------- MODULE ResourceWindow ---------------------------
(***************************************************************************)
(* The flow-control window of a Resource transfer: `WindowState` of        *)
(* crates/rns-protocol/src/resource.rs, as operators on a record with the  *)
(* fields of the struct.  A measured rate matters only by the side of      *)
(* RATE_FAST and RATE_VERY_SLOW it falls on.                               *)
(***************************************************************************)
EXTENDS Integers

CONSTANTS
    WINDOW_INITIAL,
    WINDOW_MIN,
    WINDOW_MAX_SLOW,
    WINDOW_MAX_VERY_SLOW,
    WINDOW_MAX_FAST,
    FAST_RATE_THRESHOLD,
    VERY_SLOW_RATE_THRESHOLD,
    WINDOW_FLEXIBILITY

WINDOW_MAX == WINDOW_MAX_FAST

ResourceWindowAssumption ==
    /\ WINDOW_MAX_FAST \in Nat
    /\ WINDOW_MIN \in Nat \ {0}
    /\ WINDOW_INITIAL \in WINDOW_MIN .. WINDOW_MAX_SLOW
    /\ WINDOW_MAX_SLOW \in WINDOW_MIN .. WINDOW_MAX_FAST
    /\ WINDOW_MAX_VERY_SLOW \in WINDOW_MIN .. WINDOW_MAX_FAST
    /\ FAST_RATE_THRESHOLD \in Nat \ {0}
    /\ VERY_SLOW_RATE_THRESHOLD \in Nat \ {0}
    /\ WINDOW_FLEXIBILITY \in Nat \ {0}

RateClass == {"fast", "medium", "very_slow"}

WindowType ==
    [window : Nat, window_min : Nat, window_max : Nat,
     fast_rate_rounds : 0 .. FAST_RATE_THRESHOLD,
     very_slow_rate_rounds : 0 .. VERY_SLOW_RATE_THRESHOLD]

NewWindow ==
    [window |-> WINDOW_INITIAL, window_min |-> WINDOW_MIN,
     window_max |-> WINDOW_MAX_SLOW,
     fast_rate_rounds |-> 0, very_slow_rate_rounds |-> 0]

\* Rounds are only compared with a threshold they have reached or not, so the
\* counts above it are one count.
CountRound(rounds, threshold) ==
    IF rounds < threshold THEN rounds + 1 ELSE threshold

\* One slot wider below the ceiling, the floor following at a distance.
Opened(w) ==
    IF w.window < w.window_max
    THEN [w EXCEPT
            !.window = @ + 1,
            !.window_min =
                IF w.window + 1 - @ > WINDOW_FLEXIBILITY - 1 THEN @ + 1 ELSE @]
    ELSE w

\* A completed fast round, and the ceiling a run of them earns.
RatedFast(w) ==
    LET rounds == CountRound(w.fast_rate_rounds, FAST_RATE_THRESHOLD)
    IN  [w EXCEPT !.fast_rate_rounds = rounds,
                  !.very_slow_rate_rounds = 0,
                  !.window_max = IF rounds >= FAST_RATE_THRESHOLD
                                 THEN WINDOW_MAX_FAST ELSE @]

\* A completed very slow round, and the ceiling a run of them costs.
RatedVerySlow(w) ==
    LET rounds  == CountRound(w.very_slow_rate_rounds,
                              VERY_SLOW_RATE_THRESHOLD)
        demoted == rounds >= VERY_SLOW_RATE_THRESHOLD
    IN  [w EXCEPT !.very_slow_rate_rounds = rounds,
                  !.fast_rate_rounds = 0,
                  !.window_max = IF demoted THEN WINDOW_MAX_VERY_SLOW ELSE @,
                  !.window = IF demoted /\ @ > WINDOW_MAX_VERY_SLOW
                             THEN WINDOW_MAX_VERY_SLOW ELSE @]

Grow(w, rate) ==
    CASE rate = "fast"      -> RatedFast(Opened(w))
      [] rate = "very_slow" -> RatedVerySlow(Opened(w))
      [] OTHER              -> [Opened(w) EXCEPT !.fast_rate_rounds = 0,
                                                 !.very_slow_rate_rounds = 0]

\* A timeout: window and ceiling one step towards the floor, the ceiling a
\* second one while it is far above the window.
Shrink(w) ==
    LET window  == IF w.window > w.window_min THEN w.window - 1 ELSE w.window
        ceiling == IF w.window_max > w.window_min
                   THEN w.window_max - 1 ELSE w.window_max
    IN  [w EXCEPT
           !.window     = window,
           !.window_max = IF ceiling - window > WINDOW_FLEXIBILITY - 1
                          THEN ceiling - 1 ELSE ceiling]

=============================================================================
