------------------------------ MODULE Windows -------------------------------
(***************************************************************************)
(* The two flow-control windows, each with the constants of its source     *)
(* file: a Channel's, driven by every sequence of proofs (with any         *)
(* round-trip class) and timeouts, and a Resource's, driven by every       *)
(* sequence of drained windows (at any rate) and timeouts.  A behaviour is *)
(* about one of them.  Only the highest ceiling of a Resource is lowered.  *)
(***************************************************************************)
EXTENDS Integers

C == INSTANCE ChannelWindow WITH
    WINDOW_INITIAL <- 2, WINDOW_MIN <- 2,
    WINDOW_MIN_LIMIT_MEDIUM <- 5, WINDOW_MIN_LIMIT_FAST <- 16,
    WINDOW_MAX_SLOW <- 5, WINDOW_MAX_MEDIUM <- 12, WINDOW_MAX_FAST <- 48,
    FAST_RATE_THRESHOLD <- 10, WINDOW_FLEXIBILITY <- 4

FastRounds == 4
VerySlowMax == 4
VerySlowRounds == 2

R == INSTANCE ResourceWindow WITH
    WINDOW_INITIAL <- 4, WINDOW_MIN <- 2,
    WINDOW_MAX_SLOW <- 10, WINDOW_MAX_VERY_SLOW <- VerySlowMax,
    WINDOW_MAX_FAST <- 30,      \* 75 in the source
    FAST_RATE_THRESHOLD <- FastRounds,
    VERY_SLOW_RATE_THRESHOLD <- VerySlowRounds, WINDOW_FLEXIBILITY <- 4

VARIABLES kind, w

vars == <<kind, w>>

Init ==
    \/ kind = "channel" /\ \E rtt \in C!RttClass : w = C!NewWindow(rtt)
    \/ kind = "resource" /\ w = R!NewWindow

Delivered(rtt) ==
    /\ kind = "channel"
    /\ w' = C!Grow(w, rtt)
    /\ UNCHANGED kind

EnvelopeTimeout ==
    /\ kind = "channel"
    /\ w' = C!Shrink(w)
    /\ UNCHANGED kind

Drained(rate) ==
    /\ kind = "resource"
    /\ w' = R!Grow(w, rate)
    /\ UNCHANGED kind

PartTimeout ==
    /\ kind = "resource"
    /\ w' = R!Shrink(w)
    /\ UNCHANGED kind

Next ==
    \/ \E rtt \in C!RttClass : Delivered(rtt)
    \/ EnvelopeTimeout
    \/ \E rate \in R!RateClass : Drained(rate)
    \/ PartTimeout

Spec == Init /\ [][Next]_vars

-----------------------------------------------------------------------------
(* The Channel's window.                                                   *)

\* The window stays between one slot and its ceiling, the ceiling never
\* exceeds WINDOW_MAX (the receiver's admission window) and never sinks below
\* the floor, whatever mix of proofs and timeouts `grow` and `shrink` see.
ChannelWindowBounded ==
    kind = "channel" =>
        /\ w \in C!WindowType
        /\ w.window \in 1 .. w.window_max
        /\ w.window_min \in 1 .. w.window_max
        /\ w.window_max <= C!WINDOW_MAX

\* A timeout never takes the window below the floor of its tier; a window
\* that a promotion left below the new floor is not shrunk at all.
ChannelFloorHolds ==
    (kind = "channel" /\ w'.window < w.window) => w'.window >= w.window_min

\* The tier of a window (its floor) never drops: after a promotion to the fast
\* tier, neither timeouts nor a run of medium samples bring back the medium
\* tier, because the ceiling cannot decay below WINDOW_MAX_MEDIUM again.
TierIsSticky == kind = "channel" => w'.window_min >= w.window_min

\* A tick that times out several envelopes leaves the window that one call of
\* `shrink` per envelope leaves, in any number and from any window.
TickShrinksOncePerEnvelope ==
    kind = "channel" =>
        \A k \in 0 .. w.window :
            C!ShrinkBy(w, k + 1) = C!Shrink(C!ShrinkBy(w, k))

-----------------------------------------------------------------------------
(* The Resource's window.                                                  *)

\* Whatever mix of drained windows and timeouts `grow` and `shrink` see, the
\* window stays between WINDOW_MIN and its ceiling and the ceiling within
\* WINDOW_MAX, the width the sender's search range is sized for; also after a
\* demotion that leaves the floor above the ceiling, where the subtractions of
\* both operations would underflow if they were taken the wrong way round.
ResourceWindowBounded ==
    kind = "resource" =>
        /\ w \in R!WindowType
        /\ w.window \in 2 .. w.window_max
        /\ w.window_max <= R!WINDOW_MAX

\* The ceiling rises past the one of a very slow link only on the round that
\* completes a run of fast ones: one lucky round never stretches it.
CeilingIsEarned ==
    (kind = "resource" /\ w'.window_max > w.window_max) =>
        \/ w'.fast_rate_rounds = FastRounds
        \/ w'.window_max = VerySlowMax

\* A timeout never takes the window below the floor that followed it up; only
\* a demotion to a very slow link does, and such a window is not shrunk.
ResourceFloorHolds ==
    (kind = "resource" /\ w'.window < w.window) =>
        \/ w'.window >= w.window_min
        \/ w'.very_slow_rate_rounds = VerySlowRounds

\* Neither window leaves its bounds, and a tick shrinks a Channel's once per
\* envelope.
WindowsBounded ==
    ChannelWindowBounded /\ ResourceWindowBounded /\ TickShrinksOncePerEnvelope

\* Timeouts respect the floor of either window; a faster tier is earned by a
\* run of fast rounds, and kept by a Channel.
TierStep == ChannelFloorHolds /\ ResourceFloorHolds /\ TierIsSticky /\ CeilingIsEarned
TiersAreEarned == [][TierStep]_vars
=============================================================================
