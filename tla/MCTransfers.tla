---------------------------- MODULE MCTransfers -----------------------------
(***************************************************************************)
(* Transfers, side by side: the two flow-control windows, and a Resource   *)
(* from its advertisement to its proof.  A behaviour is about one of them. *)
(***************************************************************************)
EXTENDS ResourceTransfer

VARIABLES
    part,  \* which of them the behaviour is about
    \* Windows
    kind, w

windowsVars == <<kind, w>>
all == <<vars, part, windowsVars>>

W == INSTANCE Windows

\* A long map; a short one, with the advertisement repeated.
Resources == {[parts |-> 5, hashes |-> 1, adv_retries |-> 0],
              [parts |-> 4, hashes |-> 2, adv_retries |-> 1]}

ASSUME ResourceAssumption

Resting == Init /\ instance.adv_retries = 0    \* a Resource nobody advertises

windowsIdle == kind = "idle" /\ w = "idle"

MCInit ==
    \/ part = "resource" /\ Init /\ windowsIdle
    \/ part = "windows" /\ W!Init /\ Resting

MCNext ==
    \/ part = "resource" /\ Next /\ UNCHANGED <<part, windowsVars>>
    \/ part = "windows" /\ W!Next /\ UNCHANGED <<part, vars>>

MCSpec == MCInit /\ [][MCNext]_all

\* The windows stay between their floors and ceilings whatever mix of proofs,
\* drained windows and timeouts they see, and a tick shrinks the window of a
\* Channel once for every envelope it retransmits.
WindowsBounded == part = "windows" => W!WindowsBounded

\* No tier of window sizes is entered but by the measured rounds the code asks
\* for, no floor is undercut, and a tier once reached is kept.
TiersAreEarned == [][part = "windows" => W!TierStep]_all
=============================================================================
