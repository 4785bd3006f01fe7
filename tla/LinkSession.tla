---------------------------- MODULE LinkSession ----------------------------
(***************************************************************************)
(* The actor of an outgoing Link (run_session_actor in                     *)
(* crates/rns-runtime/src/link_session.rs): the requests its application   *)
(* waits for, the Resources it sends one after the other, and the          *)
(* Resources it is offered or is sent in answer to a request.              *)
(*                                                                         *)
(* A request has a receipt in the Link (rns-link/src/request.rs), which    *)
(* times out, and an entry in the actor's table, which holds the caller's  *)
(* result channel; a request that does not fit a packet also has a         *)
(* Resource in the outbound queue.  A task outside the actor waits for the *)
(* end of each Resource that belongs to a request and reports it with a    *)
(* command, which the actor takes after whatever reached it before.        *)
(*                                                                         *)
(* A Resource transfer is its outcome here (ResourceTransfer has the       *)
(* rest).  The peer answers what reached it, and its advertisements and    *)
(* answers may be late or repeated.                                        *)
(***************************************************************************)
EXTENDS Integers, Sequences, FiniteSets

CONSTANT Instances      \* the sessions considered

\* An instance: the requests the application may make, those that do not fit
\* a packet, the Resources it may send and those the peer may offer, how many
\* segments each Resource has (of a request, its body and its answer), and a
\* bound on the acceptances of one inbound Resource; the rest is the code's.
SessionAssumption ==
    \A x \in Instances :
        /\ x.big \subseteq x.requests
        /\ x.requests \cap (x.sends \cup x.offers) = {}
        /\ x.sends \cap x.offers = {} /\ "none" \notin x.requests \cup x.sends
        /\ x.segments \in [x.requests \cup x.sends \cup x.offers -> Nat \ {0}]
        /\ {x.pending_requests, x.queued_resources, x.resource_offers,
            x.accepts} \subseteq Nat

VARIABLE instance       \* chosen at the start, the same ever after

Requests == instance.requests
Big == instance.big
Sends == instance.sends
Offers == instance.offers
Segments == instance.segments
MAX_PENDING_REQUESTS == instance.pending_requests
MAX_QUEUED_RESOURCES == instance.queued_resources
MAX_PENDING_RESOURCE_OFFERS == instance.resource_offers
MaxAccepts == instance.accepts

Items == Big \cup Sends
Inbounds == Offers \cup Requests

VARIABLES
    up, stale,          \* the actor runs; its Link is Stale, not Active
    receipts,           \* link.pending_requests
    requests,           \* the requests whose callers wait
    results,            \* what each caller was told
    outbound,           \* the Resource being sent, and its segment
    queued,             \* those that wait for it
    stalled,            \* nothing is sent since an advertisement could not be repeated
    ended,              \* how each outbound Resource concluded
    pending_inbound,    \* offers the application has not answered
    rejected_inbound,   \* Resources refused lately
    inbound_logicals,   \* Resources being received
    inbound,            \* the segment of each that is in transfer, or 0
    assembled,          \* the segments each coordinator has
    handed,             \* the last Resource handed over under each id
    started, concluded, \* ResourceStarted and ResourceConcluded events, inbound
    commands,           \* reports on their way to the actor
    answered,           \* how the peer answered each request
    proved              \* the segments of each inbound Resource proved to the peer

asking == <<receipts, requests, results>>
sending == <<outbound, queued, stalled, ended>>
offered == <<pending_inbound, rejected_inbound>>
receiving == <<inbound_logicals, inbound, assembled, handed, started,
               concluded, proved>>
system == <<up, stale, asking, sending, offered, receiving, commands, answered>>
sessionVars == <<instance, system>>

Idle == [item |-> "none", segment |-> 0]
Transfer(i) == [item |-> i, segment |-> 1]

SessionTypeOK ==
    /\ {up, stale, stalled} \subseteq BOOLEAN
    /\ receipts \in [Requests -> {"none", "Sent", "SendingResource"}]
    /\ requests \subseteq Requests
    /\ results \in [Requests -> {"none", "Ok", "Timeout", "ResourceFailed",
                                 "SessionClosed", "Refused"}]
    /\ \/ outbound = Idle
       \/ /\ outbound \in [item : Items, segment : Nat]
          /\ outbound.segment \in 1 .. Segments[outbound.item]
    /\ queued \in Seq(Items)
    /\ ended \in [Items -> {"none", "Ok", "Err"}]
    /\ pending_inbound \subseteq Offers
    /\ rejected_inbound \subseteq Inbounds
    /\ inbound_logicals \subseteq Inbounds
    /\ inbound \in [Inbounds -> Nat] /\ proved \in [Inbounds -> Nat]
    /\ \A x \in Inbounds : inbound[x] <= Segments[x] /\ proved[x] <= Segments[x]
    /\ assembled \in [Inbounds -> Seq(Nat)] /\ handed \in [Inbounds -> Seq(Nat)]
    /\ started \in [Inbounds -> Nat] /\ concluded \in [Inbounds -> Nat]
    /\ commands \subseteq [of : {"body", "answer"}, request : Requests,
                           ok : BOOLEAN]
    /\ answered \in [Requests -> {"no", "packet", "Resource"}]

SessionInit ==
    /\ instance \in Instances
    /\ up = TRUE /\ stale = FALSE
    /\ receipts = [r \in Requests |-> "none"]
    /\ requests = {}
    /\ results = [r \in Requests |-> "none"]
    /\ outbound = Idle /\ queued = <<>> /\ stalled = FALSE
    /\ ended = [i \in Items |-> "none"]
    /\ pending_inbound = {} /\ rejected_inbound = {} /\ inbound_logicals = {}
    /\ inbound = [x \in Inbounds |-> 0]
    /\ assembled = [x \in Inbounds |-> <<>>]
    /\ handed = [x \in Inbounds |-> <<>>]
    /\ started = [x \in Inbounds |-> 0]
    /\ concluded = [x \in Inbounds |-> 0]
    /\ commands = {}
    /\ answered = [r \in Requests |-> "no"]
    /\ proved = [x \in Inbounds |-> 0]

----------------------------------------------------------------------------
(* The outbound Resources.                                                 *)

Busy == outbound # Idle

\* The task that waits for the body of a request reports its end.
BodyReport(i, ok) ==
    IF i \in Requests THEN {[of |-> "body", request |-> i, ok |-> ok]} ELSE {}

AnswerReports(xs, ok) ==
    {[of |-> "answer", request |-> r, ok |-> ok] : r \in xs \cap Requests}

\* The Resource ended, and the queue is left to the next start.
ActivateNone == outbound' = Idle /\ UNCHANGED queued

\* activate_next_queued: the first of the queue is advertised.
ActivateNext ==
    IF queued = <<>> THEN outbound' = Idle /\ queued' = <<>>
    ELSE outbound' = Transfer(Head(queued)) /\ queued' = Tail(queued)

\* conclude_outbound_resource of the Resource being sent, and the next one.
ConcludeOutbound(ok) ==
    /\ ended' = [ended EXCEPT ![outbound.item] = IF ok THEN "Ok" ELSE "Err"]
    /\ ActivateNext
    /\ UNCHANGED stalled

\* poll_outbound_resource: nothing is due, or what is due is sent; the transfer
\* failed; or the repeated advertisement cannot be sent, for another reason than
\* the transport, and the queue waits for the next start.
PollOutbound(how) ==
    \/ how = "quiet" /\ UNCHANGED sending
    \/ how = "failed" /\ Busy /\ ConcludeOutbound(FALSE)
    \/ /\ how = "unsent" /\ Busy
       /\ ended' = [ended EXCEPT ![outbound.item] = "Err"]
       /\ ActivateNone /\ stalled' = TRUE

\* A Resource to send: at once if nothing is being sent, even if others wait.
Enqueue(i) ==
    IF Busy THEN queued' = Append(queued, i) /\ UNCHANGED <<outbound, stalled, ended>>
    ELSE outbound' = Transfer(i) /\ stalled' = FALSE /\ UNCHANGED <<queued, ended>>

QueueFull == Busy /\ Len(queued) >= MAX_QUEUED_RESOURCES

InFlight(i) == outbound.item = i \/ \E n \in DOMAIN queued : queued[n] = i

NotStarted(i) == ended[i] = "none" /\ ~InFlight(i)

\* LinkSessionResourceCommand::Start.  A start that finds the queue full, or
\* whose first packet cannot be sent, leaves no trace.
StartResource(i) ==
    /\ up /\ i \in Sends /\ NotStarted(i) /\ ~QueueFull
    /\ Enqueue(i)
    /\ UNCHANGED <<up, stale, asking, offered, receiving, commands, answered>>

\* VecDeque::remove.
Removed(q, n) == SubSeq(q, 1, n - 1) \o SubSeq(q, n + 1, Len(q))

\* LinkSessionResourceCommand::Cancel.
CancelResource(i) ==
    /\ up
    /\ \/ /\ outbound.item = i
          /\ ConcludeOutbound(FALSE)
       \/ /\ \E n \in DOMAIN queued : queued[n] = i /\ queued' = Removed(queued, n)
          /\ ended' = [ended EXCEPT ![i] = "Err"]
          /\ UNCHANGED <<outbound, stalled>>
    /\ commands' = commands \cup BodyReport(i, FALSE)
    /\ UNCHANGED <<up, stale, asking, offered, receiving, answered>>

\* handle_outbound_resource_proof: the next segment, or the end.
ResourceProof ==
    /\ up /\ Busy
    /\ stale' = FALSE
    /\ IF outbound.segment < Segments[outbound.item]
       THEN /\ outbound' = [outbound EXCEPT !.segment = @ + 1]
            /\ UNCHANGED <<queued, stalled, ended, commands>>
       ELSE /\ ConcludeOutbound(TRUE)
            /\ commands' = commands \cup BodyReport(outbound.item, TRUE)
    /\ UNCHANGED <<up, asking, offered, receiving, answered>>

\* handle_outbound_resource_request: the parts asked for are sent.
ResourceRequest ==
    /\ up /\ Busy /\ stale
    /\ stale' = FALSE
    /\ UNCHANGED <<up, asking, sending, offered, receiving, commands, answered>>

\* handle_outbound_resource_rejection: the peer sent an RCL.
ResourceRejection ==
    /\ up /\ Busy
    /\ stale' = FALSE
    /\ ConcludeOutbound(FALSE)
    /\ commands' = commands \cup BodyReport(outbound.item, FALSE)
    /\ UNCHANGED <<up, asking, offered, receiving, answered>>

----------------------------------------------------------------------------
(* The requests.                                                           *)

\* LinkSessionCommand::Request that is refused: too many wait, the Link is
\* not Active, the queue is full, or the first packet of the body cannot be
\* sent.  No receipt stays behind.
RefuseRequest(r) ==
    /\ up /\ results[r] = "none" /\ r \notin requests
    /\ \/ Cardinality(requests) >= MAX_PENDING_REQUESTS
       \/ stale
       \/ r \in Big /\ (QueueFull \/ ~Busy)
    /\ results' = [results EXCEPT ![r] = "Refused"]
    /\ UNCHANGED <<up, stale, receipts, requests, sending, offered, receiving,
                   commands, answered>>

\* LinkSessionCommand::Request, send_link_request.
Request(r) ==
    /\ up /\ results[r] = "none" /\ r \notin requests
    /\ Cardinality(requests) < MAX_PENDING_REQUESTS
    /\ ~stale
    /\ IF r \in Big
       THEN /\ ~QueueFull
            /\ Enqueue(r)
            /\ receipts' = [receipts EXCEPT ![r] = "SendingResource"]
       ELSE /\ receipts' = [receipts EXCEPT ![r] = "Sent"]
            /\ UNCHANGED sending
    /\ requests' = requests \cup {r}
    /\ UNCHANGED <<up, stale, results, offered, receiving, commands, answered>>

\* The caller is told whether or not it was told before.
ConcludeRequestAgain(r, how) ==
    /\ receipts' = [receipts EXCEPT ![r] = "none"]
    /\ requests' = requests \ {r}
    /\ results' = [results EXCEPT ![r] = how]

\* fail_session_request, and a response delivered: the receipt, the entry and
\* the caller's result go together.
ConcludeRequest(r, how) ==
    /\ receipts' = [receipts EXCEPT ![r] = "none"]
    /\ requests' = requests \ {r}
    /\ results' = IF r \in requests THEN [results EXCEPT ![r] = how] ELSE results

\* RequestResourceConcluded: the body is sent, and the response deadline
\* starts; or it failed, and so did the request.
BodyConcluded(c) ==
    /\ up /\ c \in commands /\ c.of = "body"
    /\ commands' = commands \ {c}
    /\ IF c.ok
       THEN /\ receipts' = IF receipts[c.request] = "SendingResource"
                           THEN [receipts EXCEPT ![c.request] = "Sent"]
                           ELSE receipts
            /\ UNCHANGED <<requests, results>>
       ELSE ConcludeRequest(c.request, "ResourceFailed")
    /\ UNCHANGED <<up, stale, sending, offered, receiving, answered>>

\* RequestResourceReceived: conclude_request_resource_response.
AnswerReceived(c) ==
    /\ up /\ c \in commands /\ c.of = "answer"
    /\ commands' = commands \ {c}
    /\ IF c.request \in requests
       THEN ConcludeRequest(c.request,
                            IF ~c.ok THEN "ResourceFailed"
                            ELSE IF receipts[c.request] = "none" THEN "Timeout"
                            ELSE "Ok")
       ELSE UNCHANGED asking
    /\ UNCHANGED <<up, stale, sending, offered, receiving, answered>>

\* A RESPONSE packet.
ResponsePacket(r) ==
    /\ up /\ answered[r] = "packet"
    /\ stale' = FALSE
    /\ IF receipts[r] # "none" THEN ConcludeRequest(r, "Ok")
       ELSE UNCHANGED asking
    /\ UNCHANGED <<up, sending, offered, receiving, commands, answered>>

\* The peer answers a request that reached it; a packet was sent when the
\* request was made, a Resource is whole when its last segment is there.
PeerAnswers(r) ==
    /\ answered[r] = "no"
    /\ IF r \in Big
       THEN outbound = [item |-> r, segment |-> Segments[r]] \/ ended[r] = "Ok"
       ELSE r \in requests \/ results[r] \notin {"none", "Refused"}
    /\ \E how \in {"packet", "Resource"} :
           answered' = [answered EXCEPT ![r] = how]
    /\ UNCHANGED <<up, stale, asking, sending, offered, receiving, commands>>

----------------------------------------------------------------------------
(* The inbound Resources.                                                  *)

\* The peer advertises the first segment it has no proof of; earlier
\* advertisements may still arrive.
Advertised(x, k) ==
    /\ k \in 1 .. Segments[x]
    /\ k <= proved[x] + 1
    /\ x \in Requests => answered[x] = "Resource"

Begin(x) ==
    /\ inbound_logicals' = inbound_logicals \cup {x}
    /\ inbound' = [inbound EXCEPT ![x] = 1]
    /\ assembled' = [assembled EXCEPT ![x] = <<>>]
    /\ started' = [started EXCEPT ![x] = @ + 1]
    /\ UNCHANGED <<handed, concluded, proved>>

\* remove_inbound_segments and conclude_inbound_resource of several.
ConcludeInbounds(xs) ==
    /\ inbound_logicals' = inbound_logicals \ xs
    /\ inbound' = [x \in Inbounds |-> IF x \in xs THEN 0 ELSE inbound[x]]
    /\ concluded' = [x \in Inbounds |->
                        IF x \in xs \cap inbound_logicals THEN concluded[x] + 1
                        ELSE concluded[x]]

FailInbounds(xs) ==
    /\ ConcludeInbounds(xs)
    /\ UNCHANGED <<assembled, handed, started, proved>>

\* fail_inbound_logical, or conclude_inbound_resource with Cancelled.
FailSegment(x) ==
    /\ FailInbounds({x})
    /\ commands' = commands \cup AnswerReports({x}, FALSE)

\* accept_followup_inbound_segment: the one after those assembled, and none
\* in transfer.
Follows(x, k) == inbound[x] = 0 /\ k = Len(assembled[x]) + 1

\* process_inbound_resource_advertisement.
Advertisement(x, k) ==
    /\ up /\ Advertised(x, k)
    /\ stale' = FALSE
    /\ \/ /\ \/ x \in rejected_inbound              \* answered with an RCL
             \/ inbound[x] = k
             \/ x \in pending_inbound /\ k = 1
          /\ UNCHANGED <<offered, receiving, commands>>
       \/ /\ x \notin rejected_inbound
          /\ x \in inbound_logicals /\ inbound[x] # k
          /\ UNCHANGED offered
          /\ IF Follows(x, k)
             THEN /\ inbound' = [inbound EXCEPT ![x] = k]
                  /\ UNCHANGED <<inbound_logicals, assembled, handed, started,
                                 concluded, proved, commands>>
             ELSE FailSegment(x)
       \/ /\ x \notin rejected_inbound \cup inbound_logicals
          /\ x \in Requests
          /\ UNCHANGED <<offered, commands>>
          /\ IF k = 1 /\ x \in requests
             THEN started[x] < MaxAccepts /\ Begin(x)
             ELSE UNCHANGED receiving
       \/ /\ x \notin rejected_inbound \cup inbound_logicals \cup pending_inbound
          /\ x \in Offers
          /\ started[x] < MaxAccepts
          /\ UNCHANGED <<receiving, commands>>
          /\ IF k # 1 \/ Cardinality(pending_inbound) >= MAX_PENDING_RESOURCE_OFFERS
             THEN UNCHANGED offered
             ELSE \/ /\ pending_inbound' = pending_inbound \cup {x}
                     /\ UNCHANGED rejected_inbound
                  \/ /\ rejected_inbound' = rejected_inbound \cup {x}
                     /\ UNCHANGED pending_inbound   \* the application lags behind
    /\ UNCHANGED <<up, asking, sending, answered>>

\* LinkSessionResourceCommand::AcceptInbound.
AcceptInbound(x) ==
    /\ up /\ x \in pending_inbound
    /\ pending_inbound' = pending_inbound \ {x}
    /\ IF x \in inbound_logicals THEN UNCHANGED receiving ELSE Begin(x)
    /\ UNCHANGED <<up, stale, asking, sending, rejected_inbound, commands,
                   answered>>

\* LinkSessionResourceCommand::RejectInbound.
RejectInbound(x) ==
    /\ up /\ x \in pending_inbound
    /\ pending_inbound' = pending_inbound \ {x}
    /\ rejected_inbound' = rejected_inbound \cup {x}
    /\ UNCHANGED <<up, stale, asking, sending, receiving, commands, answered>>

\* LinkSessionResourceCommand::CancelInbound.
CancelInbound(x) ==
    /\ up /\ x \in inbound_logicals
    /\ rejected_inbound' = rejected_inbound \cup {x}
    /\ FailSegment(x)
    /\ UNCHANGED <<up, stale, asking, sending, pending_inbound, answered>>

\* complete_inbound_segment: the segment is proved, and the Resource handed
\* over when all of them are there.
CompleteSegment(x) ==
    /\ proved' = [proved EXCEPT ![x] = IF inbound[x] > @ THEN inbound[x] ELSE @]
    /\ assembled' = [assembled EXCEPT ![x] = Append(@, inbound[x])]
    /\ IF Len(assembled'[x]) = Segments[x]
       THEN /\ handed' = [handed EXCEPT ![x] = assembled'[x]]
            /\ ConcludeInbounds({x})
            /\ commands' = commands \cup AnswerReports({x}, TRUE)
       ELSE /\ inbound' = [inbound EXCEPT ![x] = 0]
            /\ UNCHANGED <<inbound_logicals, handed, concluded, commands>>
    /\ UNCHANGED started

\* handle_inbound_resource_part: the last part of the segment, or one that
\* ends the transfer.  The other parts change nothing here.
ResourcePart(x) ==
    /\ up /\ inbound[x] # 0
    /\ stale' = FALSE
    /\ CompleteSegment(x) \/ FailSegment(x)
    /\ UNCHANGED <<up, asking, sending, offered, answered>>

\* handle_inbound_resource_hmu (an invalid one) and
\* handle_inbound_resource_cancel (an ICL).
ResourceHmuOrIcl(x) ==
    /\ up /\ inbound[x] # 0
    /\ stale' = FALSE
    /\ FailSegment(x)
    /\ UNCHANGED <<up, asking, sending, offered, answered>>

----------------------------------------------------------------------------
(* The tick, and the end.                                                  *)

\* link.tick and reap_concluded_requests: a receipt that is Sent may be due;
\* whoever waits without a receipt is told of a timeout.
Reap(due) ==
    /\ receipts' = [r \in Requests |-> IF r \in due THEN "none" ELSE receipts[r]]
    /\ requests' = {r \in requests : receipts'[r] # "none"}
    /\ results' = [r \in Requests |->
                      IF r \in requests \ requests' THEN "Timeout" ELSE results[r]]

\* is_timed_out: a request whose body is still being sent has no deadline.
Awaiting == {r \in Requests : receipts[r] = "Sent"}

\* poll_outbound_resource, poll_inbound_resources, record_inbound, link.tick
\* and reap_concluded_requests, with whatever is due.
Tick ==
    /\ up
    /\ \E how \in {"quiet", "failed", "unsent"},
          forgotten \in SUBSET rejected_inbound,
          expired \in SUBSET pending_inbound,
          failed \in SUBSET {x \in inbound_logicals : inbound[x] # 0},
          due \in SUBSET Awaiting :
        /\ PollOutbound(how)
        /\ rejected_inbound' = (rejected_inbound \ forgotten) \cup expired
        /\ pending_inbound' = pending_inbound \ expired
        /\ FailInbounds(failed)
        /\ commands' = commands \cup AnswerReports(failed, FALSE)
                       \cup (IF how = "quiet" THEN {} ELSE BodyReport(outbound.item, FALSE))
        /\ Reap(due)
    /\ IF outbound' # Idle \/ \E x \in Inbounds : inbound'[x] # 0
       THEN stale' = FALSE ELSE stale' \in {stale, TRUE}
    /\ UNCHANGED <<up, answered>>

\* The loop ends: the application closes the session, the peer or a tick ends
\* the Link, or a packet cannot be sent.  Every caller is told, and every
\* Resource concludes; reports that were not taken are lost.
Close ==
    /\ up
    /\ up' = FALSE
    /\ results' = [r \in Requests |->
                      IF r \in requests THEN "SessionClosed" ELSE results[r]]
    /\ requests' = {}
    /\ receipts' = [r \in Requests |-> "none"]
    /\ ended' = [i \in Items |-> IF InFlight(i) THEN "Err" ELSE ended[i]]
    /\ outbound' = Idle /\ queued' = <<>> /\ stalled' = FALSE
    /\ pending_inbound' = {} /\ rejected_inbound' = {}
    /\ FailInbounds(inbound_logicals)
    /\ commands' = {}
    /\ UNCHANGED <<stale, answered>>

Same == UNCHANGED instance

SessionNext ==
    \/ \E i \in Items : StartResource(i) /\ Same
    \/ \E i \in Items : CancelResource(i) /\ Same
    \/ ResourceRequest /\ Same
    \/ ResourceProof /\ Same
    \/ ResourceRejection /\ Same
    \/ \E r \in Requests : RefuseRequest(r) /\ Same
    \/ \E r \in Requests : Request(r) /\ Same
    \/ \E r \in Requests : ResponsePacket(r) /\ Same
    \/ \E r \in Requests : PeerAnswers(r) /\ Same
    \/ \E c \in commands : BodyConcluded(c) /\ Same
    \/ \E c \in commands : AnswerReceived(c) /\ Same
    \/ \E x \in Inbounds : \E k \in 1 .. Segments[x] : Advertisement(x, k) /\ Same
    \/ \E x \in Inbounds : AcceptInbound(x) /\ Same
    \/ \E x \in Inbounds : RejectInbound(x) /\ Same
    \/ \E x \in Inbounds : CancelInbound(x) /\ Same
    \/ \E x \in Inbounds : ResourcePart(x) /\ Same
    \/ \E x \in Inbounds : ResourceHmuOrIcl(x) /\ Same
    \/ Tick /\ Same
    \/ Close /\ Same

SessionSpec == SessionInit /\ [][SessionNext]_sessionVars

----------------------------------------------------------------------------
(* Properties.                                                             *)

\* The Link's receipts and the callers that wait agree whenever the actor is
\* between two events, so that no caller waits for a receipt that is gone
\* and no receipt answers to nobody; whoever waits was told nothing yet; and
\* a request succeeds only if the peer answered it.
RequestsExact ==
    /\ requests = {r \in Requests : receipts[r] # "none"}
    /\ \A r \in requests : results[r] = "none"
    /\ \A r \in Requests : results[r] = "Ok" => answered[r] # "no"
    /\ ~up => requests = {}

\* Types, and RequestsExact (prepare_request, fail_session_request,
\* reap_concluded_requests, fail_pending_requests).
RequestsSound == SessionTypeOK /\ RequestsExact

\* A request whose deadline is suspended has its body in the queue, or the
\* report of its end on the way to the actor: nothing else would ever
\* conclude it.  While the body is in the queue the deadline is suspended.
BodiesFollowed ==
    \A r \in Big :
        /\ receipts[r] = "SendingResource" =>
               InFlight(r) \/ \E c \in commands : c.of = "body" /\ c.request = r
        /\ r \in requests /\ InFlight(r) => receipts[r] = "SendingResource"

\* Resources never wait behind nothing: every way but one in which an outbound
\* Resource can end starts the next one of the queue (activate_next_queued).  The
\* exception is an advertisement that the tick fails to repeat for another reason
\* than the transport: the queue then waits for the next start or the end of the
\* session, and not longer (poll_outbound_resource).
QueueMoves == (queued # <<>> => Busy \/ stalled) /\ (Busy => ~stalled)

\* A request that the session accepted is never left behind, and a Resource only
\* as QueueMoves says.
NothingStranded == BodiesFollowed /\ QueueMoves

\* Every ResourceStarted is followed by one ResourceConcluded and only then
\* by another start; a segment in transfer belongs to a Resource that is
\* being received; and no Resource is offered while it is received.
LifecyclesPaired ==
    \A x \in Inbounds :
        /\ started[x] = concluded[x] + (IF x \in inbound_logicals THEN 1 ELSE 0)
        /\ inbound[x] # 0 => x \in inbound_logicals
        /\ x \notin pending_inbound \cap inbound_logicals

\* What is handed over is every segment once, in order, whatever
\* advertisements were repeated or late.
HandedInOrder ==
    \A x \in Inbounds :
        handed[x] # <<>> => handed[x] = [k \in 1 .. Segments[x] |-> k]

\* The inbound Resources of the session are kept apart and put together
\* rightly (accept_inbound_offer, accept_followup_inbound_segment,
\* complete_inbound_segment, conclude_inbound_resource).
InboundSound == LifecyclesPaired /\ HandedInOrder

\* Callers are told once: a result that was given, to a request or about an
\* outbound Resource, is never followed by another, even when a timeout, an
\* answer, a report and a close race each other.
ToldStep ==
    /\ \A r \in Requests : results[r] # "none" => results'[r] = results[r]
    /\ \A i \in Items : ended[i] # "none" => ended'[i] = ended[i]
ToldOnce == [][ToldStep]_sessionVars

\* The session's account of its requests and Resources is exact.
SessionSound == RequestsSound /\ NothingStranded /\ InboundSound
============================================================================
