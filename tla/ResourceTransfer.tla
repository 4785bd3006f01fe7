------------------------- MODULE ResourceTransfer --------------------------
(***************************************************************************)
(* One Resource (or one segment of a split one) sent over a Link:          *)
(* `OutboundTransfer` at the sender and `InboundTransfer` at the receiver, *)
(* both of crates/rns-protocol/src/resource.rs, with the packet handlers   *)
(* and watchdogs of LinkManager (crates/rns-runtime/src/link_manager.rs)   *)
(* that drive them.                                                        *)
(*                                                                         *)
(* Part i is the number i and so is its map hash.  The receiver knows the  *)
(* first hashmap_height of them: the advertisement carries one map segment *)
(* and each hashmap update (HMU) another.                                  *)
(*                                                                         *)
(* The network loses, delays and reorders packets; it loses one by never   *)
(* delivering it.  Resource parts, requests and proofs are exempt from the *)
(* transport's duplicate filter and may also arrive again, so a part that  *)
(* was ever sent can arrive at any time, and so can the proof.  A request  *)
(* is handled once: the sender remembers its packet hash.                  *)
(***************************************************************************)
EXTENDS ResourceWindow, FiniteSets

CONSTANTS
    Instances,          \* the Resources considered
    MAX_RETRIES,
    Rates,              \* the rates a drained window is measured at
    Faults,             \* what may go wrong besides the network
    Horizon,            \* map segments a request may be overtaken by
    MaxCopies           \* requests with one content under way at a time

AllFaults == {"timeout", "cancel", "refuse", "unsent", "corrupt"}

\* An instance: the parts of the Resource, the map hashes in one advertisement
\* or HMU, and MAX_ADV_RETRIES.
ResourceAssumption ==
    /\ ResourceWindowAssumption
    /\ Instances \subseteq [parts : Nat \ {0}, hashes : Nat \ {0}, adv_retries : Nat]
    /\ MAX_RETRIES \in Nat
    /\ Rates \subseteq RateClass /\ Rates # {}
    /\ Faults \subseteq AllFaults
    /\ Horizon \in Nat
    /\ MaxCopies \in Nat \ {0}

VARIABLE instance       \* chosen at the start, the same ever after

NumParts == instance.parts
HashmapMaxLen == instance.hashes
MAX_ADV_RETRIES == instance.adv_retries

VARIABLES
    out,        \* the OutboundTransfer
    concluded,  \* how the sender's owner concluded it, or "no"
    inb,        \* the InboundTransfer, or NoTransfer
    delivered,  \* how often the receiver handed the content over
    begun,      \* how often it began to receive it, at most twice
    advs,       \* advertisements under way
    requests,   \* requests under way: how many of each content
    hmus,       \* map segments sent
    proved,     \* a proof was sent
    cancels     \* cancel packets sent: "icl" by the sender, "rcl" to it

vars == <<instance, out, concluded, inb, delivered, begun, advs, requests, hmus, proved, cancels>>
sender == <<out, concluded>>
receiver == <<inb, delivered, begun>>

Parts == 0 .. NumParts - 1
Least(a, b) == IF a < b THEN a ELSE b

\* collision_guard_size
Guard == 2 * WINDOW_MAX_FAST + HashmapMaxLen

NoTransfer == [parts |-> {}]

\* `last` is the position of the last map hash the receiver knows, counted
\* from one; the requests that do not ask for more of the map carry none.
Request == [exhausted : BOOLEAN, last : 0 .. NumParts, parts : SUBSET Parts]

Outbound ==
    [state : {"None", "Advertised", "Transferring", "AwaitingProof", "Failed"},
     retries : 0 .. MAX_ADV_RETRIES,
     sent_part_indices : SUBSET Parts,
     receiver_min_consecutive_height : 0 .. NumParts]

Inbound ==
    [parts : SUBSET Parts, hashmap_height : 0 .. NumParts, window : WindowType,
     outstanding_parts : 0 .. NumParts, retries_left : 0 .. MAX_RETRIES,
     waiting_for_hmu : BOOLEAN]

Conclusions == {"no", "Complete", "Failed", "Rejected", "Cancelled"}

Init ==
    /\ instance \in Instances
    /\ out = [state |-> "None", retries |-> 0, sent_part_indices |-> {},
              receiver_min_consecutive_height |-> 0]
    /\ concluded = "no"
    /\ inb = NoTransfer
    /\ delivered = 0
    /\ begun = 0
    /\ advs = 0
    /\ requests = <<>>
    /\ hmus = {}
    /\ proved = FALSE
    /\ cancels = {}

\* A bag of requests, as the counts of those under way.
InFlight(r) == IF r \in DOMAIN requests THEN requests[r] ELSE 0
With(b, r) ==
    [x \in DOMAIN b \union {r} |->
        IF x # r THEN b[x]
        ELSE IF r \in DOMAIN b THEN Least(b[r] + 1, MaxCopies) ELSE 1]
Without(b, r) ==
    [x \in {y \in DOMAIN b : y # r \/ b[y] > 1} |->
        IF x = r THEN b[x] - 1 ELSE b[x]]

-----------------------------------------------------------------------------
(* The receiver: InboundTransfer.                                          *)

receiving == inb # NoTransfer

\* consecutive_completed, as update_consecutive leaves it.
Consecutive(parts) ==
    CHOOSE n \in 0 .. NumParts :
        0 .. n - 1 \subseteq parts /\ (n = NumParts \/ n \notin parts)

IsComplete(t) == t.parts = Parts

\* The end of the window the receiver asks for and accepts parts in.
SearchEnd(t) == Least(Consecutive(t.parts) + t.window.window, NumParts)

\* The missing parts of the window whose map hash is known, and whether the
\* window reaches past the known map.
Wanted(t) ==
    {p \in Consecutive(t.parts) .. SearchEnd(t) - 1 :
        p < t.hashmap_height /\ p \notin t.parts}
ExhaustedNever(t) == FALSE
Exhausted(t) == SearchEnd(t) > t.hashmap_height

NextRequest(t) ==
    [exhausted |-> Exhausted(t),
     last |-> IF Exhausted(t) THEN t.hashmap_height ELSE 0,
     parts |-> Wanted(t)]

\* request_next: the transfer and the requests under way after it.
RequestNext(t) ==
    IF t.waiting_for_hmu \/ IsComplete(t)
    THEN inb' = t /\ UNCHANGED requests
    ELSE /\ inb' = [t EXCEPT !.outstanding_parts = Cardinality(Wanted(t)),
                             !.waiting_for_hmu = Exhausted(t)]
         /\ requests' = With(requests, NextRequest(t))

\* The receiver forgets the transfer: conclude_inbound_failure, or a
\* completion.
DropInbound == inb' = NoTransfer /\ UNCHANGED requests

FromAdvertisement ==
    [parts |-> {}, hashmap_height |-> Least(HashmapMaxLen, NumParts),
     window |-> NewWindow, outstanding_parts |-> 0,
     retries_left |-> MAX_RETRIES, waiting_for_hmu |-> FALSE]

\* An advertisement arrives.  A transfer under way ignores it; otherwise the
\* application's policy takes it, ignores it or refuses it, and the transfer
\* is dropped again when its first request cannot be queued.
ReceiveAdvertisement(answer) ==
    /\ advs > 0
    /\ advs' = advs - 1
    /\ CASE receiving \/ answer = "ignore" ->
              UNCHANGED <<inb, requests, cancels>>
         [] ~receiving /\ answer = "refuse" ->
              cancels' = cancels \union {"rcl"} /\ UNCHANGED <<inb, requests>>
         [] ~receiving /\ answer = "unsent" ->
              UNCHANGED <<inb, requests, cancels>>
         [] ~receiving /\ answer = "take" ->
              RequestNext(FromAdvertisement) /\ UNCHANGED cancels
    /\ begun' = IF ~receiving /\ answer = "take" THEN Least(begun + 1, 2) ELSE begun
    /\ UNCHANGED <<sender, delivered, hmus, proved>>

\* InboundResource::receive_part: the part fills an empty slot of the window.
Accepts(t, p) ==
    /\ p \in Consecutive(t.parts) .. SearchEnd(t) - 1
    /\ p < t.hashmap_height
    /\ p \notin t.parts

\* A part that fills no slot is not progress.
IgnoredRefills(t) == [t EXCEPT !.retries_left = MAX_RETRIES]
Ignored(t) == t

Filled(t, p) ==
    [t EXCEPT !.parts = @ \union {p},
              !.retries_left = MAX_RETRIES,
              !.outstanding_parts = IF @ > 0 THEN @ - 1 ELSE 0]

\* Every part is there: the content is assembled, checked against the
\* Resource hash, proved to the sender and handed over; or it is refused, or
\* its proof cannot be queued.
CompletesAnyway(verdict) ==
    /\ DropInbound
    /\ proved' = TRUE
    /\ cancels' = IF verdict = "corrupt" THEN cancels \union {"rcl"}
                  ELSE cancels
    /\ delivered' = IF verdict = "intact" THEN delivered + 1 ELSE delivered
Completes(verdict) ==
    /\ DropInbound
    /\ proved' = (proved \/ verdict = "intact")
    /\ cancels' = IF verdict = "corrupt" THEN cancels \union {"rcl"}
                  ELSE cancels
    /\ delivered' = IF verdict = "intact" THEN delivered + 1 ELSE delivered

ReceivePart(p, rate, verdict) ==
    /\ receiving
    /\ p \in out.sent_part_indices
    /\ IF ~Accepts(inb, p)
       THEN inb' = Ignored(inb) /\ UNCHANGED <<requests, proved, cancels, delivered>>
       ELSE LET t == Filled(inb, p)
            IN  IF IsComplete(t) THEN Completes(verdict)
                ELSE /\ IF t.outstanding_parts = 0
                        THEN RequestNext([t EXCEPT !.window = Grow(@, rate)])
                        ELSE inb' = t /\ UNCHANGED requests
                     /\ UNCHANGED <<proved, cancels, delivered>>
    /\ UNCHANGED <<sender, begun, advs, hmus>>

\* hashmap_update with map segment s: ignored unless it was asked for and
\* brings hashes that are not known yet, and answered with a cancel when it
\* does not continue the known map.
ReceiveHmu(s) ==
    LET start == s * HashmapMaxLen
        end   == Least(start + HashmapMaxLen, NumParts)
    IN  /\ receiving
        /\ s \in hmus
        /\ inb.waiting_for_hmu
        /\ \/ /\ start >= NumParts \/ start > inb.hashmap_height
              /\ DropInbound
              /\ cancels' = cancels \union {"rcl"}
           \/ /\ start < NumParts /\ start <= inb.hashmap_height
              /\ end > inb.hashmap_height
              /\ RequestNext([inb EXCEPT !.hashmap_height = end,
                                         !.retries_left = MAX_RETRIES,
                                         !.waiting_for_hmu = FALSE])
              /\ UNCHANGED cancels
        /\ UNCHANGED <<sender, delivered, begun, advs, hmus, proved>>

\* check_timeout of the receiver, when its wait has passed.
ReceiverTimeout ==
    /\ "timeout" \in Faults
    /\ receiving
    /\ IF inb.retries_left > 0
       THEN RequestNext([inb EXCEPT !.window = Shrink(@),
                                    !.retries_left = @ - 1,
                                    !.waiting_for_hmu = FALSE])
       ELSE DropInbound
    /\ UNCHANGED <<sender, delivered, begun, advs, hmus, proved, cancels>>

\* cancel_link_resource at the receiver.
CancelInbound ==
    /\ "cancel" \in Faults
    /\ receiving
    /\ DropInbound
    /\ cancels' = cancels \union {"rcl"}
    /\ UNCHANGED <<sender, delivered, begun, advs, hmus, proved>>

ReceiveIcl ==
    /\ "icl" \in cancels
    /\ receiving
    /\ DropInbound
    /\ cancels' = cancels \ {"icl"}
    /\ UNCHANGED <<sender, delivered, begun, advs, hmus, proved>>

-----------------------------------------------------------------------------
(* The sender: OutboundTransfer and the owner's table of transfers.        *)

owned == concluded = "no"
transferring == owned /\ out.state \notin {"None", "Failed"}

\* start_outbound_transfer: the first tick advertises.
StartTransfer ==
    /\ out.state = "None"
    /\ out' = [out EXCEPT !.state = "Advertised"]
    /\ advs' = advs + 1
    /\ UNCHANGED <<concluded, receiver, requests, hmus, proved, cancels>>

SearchRange ==
    LET start == out.receiver_min_consecutive_height
    IN  start .. Least(start + Guard, NumParts) - 1

\* The part after the last one whose hash the receiver knows, when that one
\* is in the range, and the end of the range otherwise.
PartIndex(r) ==
    IF r.last - 1 \in SearchRange THEN r.last
    ELSE Least(out.receiver_min_consecutive_height + Guard, NumParts)

\* Where the search starts from now on: a window below the reported part.
MinHeight(r) ==
    IF ~r.exhausted THEN out.receiver_min_consecutive_height
    ELSE IF PartIndex(r) > WINDOW_MAX THEN PartIndex(r) - 1 - WINDOW_MAX
    ELSE 0

\* The map cannot be continued from there.
Unanswerable(r) ==
    /\ r.exhausted
    /\ PartIndex(r) % HashmapMaxLen # 0 \/ PartIndex(r) >= NumParts

\* The network overtakes a request by at most Horizon map segments.
Timely(r) ==
    r.exhausted /\ receiving =>
        r.last + Horizon * HashmapMaxLen >= inb.hashmap_height

StateAfter(sent, answered) ==
    IF answered = {} THEN out.state
    ELSE IF sent = Parts THEN "AwaitingProof" ELSE "Transferring"

\* handle_request_packet.
HandleRequest(r) ==
    LET answered == r.parts \intersect SearchRange
        sent     == out.sent_part_indices \union answered
    IN  /\ InFlight(r) > 0
        /\ Timely(r)
        /\ transferring
        /\ requests' = Without(requests, r)
        /\ IF Unanswerable(r)
           THEN /\ out' = [out EXCEPT
                             !.state = "Failed",
                             !.sent_part_indices = sent,
                             !.receiver_min_consecutive_height = MinHeight(r)]
                /\ cancels' = cancels \union {"icl"}
                /\ UNCHANGED hmus
           ELSE /\ out' = [out EXCEPT
                             !.state = StateAfter(sent, answered),
                             !.sent_part_indices = sent,
                             !.retries = IF sent # out.sent_part_indices
                                         THEN 0 ELSE @,
                             !.receiver_min_consecutive_height = MinHeight(r)]
                /\ hmus' = IF r.exhausted
                           THEN hmus \union {PartIndex(r) \div HashmapMaxLen}
                           ELSE hmus
                /\ UNCHANGED cancels
        /\ UNCHANGED <<concluded, receiver, advs, proved>>

\* check_timeout of the sender, when its wait has passed, with what the
\* owner's tick does about its result.  A transfer that a request failed is
\* concluded here.
SenderTimeout ==
    /\ owned
    /\ out.state # "None"
    /\ out.state = "Failed" \/ "timeout" \in Faults
    /\ IF out.state = "Advertised" /\ out.retries < MAX_ADV_RETRIES
       THEN /\ out' = [out EXCEPT !.retries = @ + 1]
            /\ advs' = advs + 1
            /\ UNCHANGED concluded
       ELSE /\ out' = [out EXCEPT !.state = "Failed"]
            /\ concluded' = "Failed"
            /\ UNCHANGED advs
    /\ UNCHANGED <<receiver, requests, hmus, proved, cancels>>

\* handle_proof; the last segment's owner concludes the transfer.
ReceiveProof ==
    /\ proved
    /\ transferring
    /\ concluded' = "Complete"
    /\ UNCHANGED <<out, receiver, advs, requests, hmus, proved, cancels>>

ReceiveRcl ==
    /\ "rcl" \in cancels
    /\ owned
    /\ cancels' = cancels \ {"rcl"}
    /\ concluded' = "Rejected"
    /\ UNCHANGED <<out, receiver, advs, requests, hmus, proved>>

\* cancel_link_resource at the sender.
CancelOutbound ==
    /\ "cancel" \in Faults
    /\ owned
    /\ out.state # "None"
    /\ cancels' = cancels \union {"icl"}
    /\ concluded' = "Cancelled"
    /\ UNCHANGED <<out, receiver, advs, requests, hmus, proved>>

-----------------------------------------------------------------------------
Answers ==
    {"take"} \union (IF "refuse" \in Faults THEN {"refuse", "ignore"} ELSE {})
             \union (IF "unsent" \in Faults THEN {"unsent"} ELSE {})
Verdicts ==
    {"intact"} \union (IF "corrupt" \in Faults THEN {"corrupt"} ELSE {})
               \union (IF "unsent" \in Faults THEN {"unproved"} ELSE {})

ReceiveAnyPart(p) ==
    \E rate \in Rates, verdict \in Verdicts : ReceivePart(p, rate, verdict)

Same == UNCHANGED instance

Next ==
    \/ StartTransfer /\ Same
    \/ \E answer \in Answers : ReceiveAdvertisement(answer) /\ Same
    \/ \E r \in DOMAIN requests : HandleRequest(r) /\ Same
    \/ \E p \in Parts : ReceiveAnyPart(p) /\ Same
    \/ \E s \in hmus : ReceiveHmu(s) /\ Same
    \/ ReceiveProof /\ Same
    \/ ReceiverTimeout /\ Same
    \/ SenderTimeout /\ Same
    \/ CancelInbound /\ Same
    \/ CancelOutbound /\ Same
    \/ ReceiveIcl /\ Same
    \/ ReceiveRcl /\ Same

Spec == Init /\ [][Next]_vars

-----------------------------------------------------------------------------
TypeOK ==
    /\ out \in Outbound
    /\ concluded \in Conclusions
    /\ inb \in Inbound \union {NoTransfer}
    /\ delivered \in Nat /\ begun \in 0 .. 2
    /\ advs \in 0 .. MAX_ADV_RETRIES + 1
    /\ \A r \in DOMAIN requests : r \in Request /\ requests[r] \in 1 .. MaxCopies
    /\ hmus \subseteq 0 .. NumParts
    /\ proved \in BOOLEAN
    /\ cancels \subseteq {"icl", "rcl"}

\* The sender's owner concludes Complete only when the receiver has handed the
\* whole, checked content over: a proof is never sent for a transfer that is
\* then failed, refused or dropped.
CompleteMeansDelivered == concluded = "Complete" => delivered > 0

\* The receiver is never idle: as long as the transfer is incomplete it waits
\* for a part it asked for or for more of the map, so that in a network that
\* loses nothing it needs no watchdog.
NeverIdle ==
    receiving =>
        \/ inb.waiting_for_hmu
        \/ inb.outstanding_parts > 0 /\ Wanted(inb) # {}

\* The parts the receiver can still ask for lie in the range the sender looks
\* for requested hashes in: the collision guard is wide enough for a range
\* that starts a window below the last reported height, with requests
\* overtaken by at most one map segment.  (A receiver that dropped or finished
\* the transfer and begins it anew on a late copy of the advertisement asks
\* from the first part again, which the sender no longer looks for.)
AskedWithinReach ==
    receiving /\ transferring /\ begun = 1 =>
        \A p \in Consecutive(inb.parts) .. inb.hashmap_height - 1 :
            p \in SearchRange

\* Nothing a network can repeat refills a retry budget: the receiver's only a
\* part or a map segment it did not have, or a new transfer; the sender's only
\* a part it had not sent.  Every wait that passes without progress therefore
\* brings the conclusion nearer.
BudgetStep ==
    /\ receiving /\ receiving' /\ inb'.retries_left > inb.retries_left =>
         \/ Cardinality(inb'.parts) > Cardinality(inb.parts)
         \/ inb'.hashmap_height > inb.hashmap_height
    /\ out'.retries < out.retries =>
         \E p \in out'.sent_part_indices : p \notin out.sent_part_indices
BudgetNeedsProgress == [][BudgetStep]_vars

\* The transfer is well typed, its sender's success is the receiver's, and the
\* sender finds what it is asked for.
TransferSound == TypeOK /\ CompleteMeansDelivered /\ AskedWithinReach
=============================================================================
