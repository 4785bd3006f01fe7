--------------------------- MODULE OrderedChannel ---------------------------
(***************************************************************************)
(* What one direction of a Channel promises its two applications: messages *)
(* are handed over once each, in the order they were sent, none before it  *)
(* arrived; and the sender stops waiting for a message only because it     *)
(* arrived or because the channel came to an end.                          *)
(***************************************************************************)
EXTENDS Integers, Sequences

VARIABLES
    open,       \* the sender still tracks its messages
    sent,       \* number of messages sent
    waiting,    \* messages the sender waits for
    arrived,    \* messages that reached the receiving Link
    delivered   \* messages handed to the receiving application

vars == <<open, sent, waiting, arrived, delivered>>

Init == /\ open = TRUE
        /\ sent = 0
        /\ waiting = {}
        /\ arrived = {}
        /\ delivered = <<>>

Send == /\ open
        /\ sent' = sent + 1
        /\ waiting' = waiting \cup {sent + 1}
        /\ UNCHANGED <<open, arrived, delivered>>

\* A message arrives, again perhaps, and completes a run of k >= 0 messages.
Arrive(n) ==
    /\ arrived' = arrived \cup {n}
    /\ \E k \in 0 .. sent :
        /\ delivered' = delivered \o [j \in 1 .. k |-> Len(delivered) + j]
        /\ \A j \in 1 .. k : Len(delivered) + j \in arrived'
    /\ UNCHANGED <<open, sent, waiting>>

Acknowledge(n) ==
    /\ waiting' = waiting \ {n}
    /\ UNCHANGED <<open, sent, arrived, delivered>>

Close == /\ open' = FALSE
         /\ waiting' = {}
         /\ UNCHANGED <<sent, arrived, delivered>>

Next == \/ Send
        \/ \E n \in 1 .. sent : Arrive(n)
        \/ \E n \in waiting \cap arrived : Acknowledge(n)
        \/ Close

Spec == Init /\ [][Next]_vars
=============================================================================
