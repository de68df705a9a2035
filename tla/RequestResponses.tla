--------------------------- MODULE RequestResponses ---------------------------
(***************************************************************************)
(* The request-response behaviour of one node (client/network/src/         *)
(* request_responses.rs): the table of requests it has sent, whose callers *)
(* wait for an answer, and the tables of requests it has received, which   *)
(* the rooms answer.                                                       *)
(*                                                                         *)
(* An action is one step of RequestResponsesBehaviour::poll (the periodic  *)
(* check, one ready response, one libp2p event, the fallback requests at   *)
(* its end), a send_request between two polls, or a step of a room.        *)
(* libp2p is external: every request it knows ends in at most one event.   *)
(***************************************************************************)
EXTENDS Integers, FiniteSets

CONSTANTS
    Call,      \* calls of send_request
    Fallback,  \* those with a fallback_request
    Inbound,   \* requests of remote peers
    QueueSize  \* capacity of inbound_queue

ASSUME RequestAssumption ==
    /\ Fallback \subseteq Call
    /\ QueueSize \in Nat

VARIABLES
    answer,    \* per call: what its response_tx has seen
    pending,   \* pending_requests: <<c, 1>> is the request of c, <<c, 2>> its fallback
    aged,      \* the pending requests older than request_timeout
    wire,      \* requests that libp2p has no outcome for yet
    fallbacks, \* fallback_requests, a local of one pass through poll
    queue,     \* inbound_queue
    handler,   \* per received request: its pending_response
    stream,    \* per received request: its libp2p substream
    arrival,   \* pending_responses_arrival_time
    feedback   \* send_feedback

outbound == <<answer, pending, aged, wire>>
inbound == <<queue, handler, stream, arrival, feedback>>
vars == <<outbound, fallbacks, inbound>>

RequestId == Call \X {1, 2}

\* "refused": answered with Err(()) or dropped.  "gone": taken by poll.
Handlers == {"none", "held", "ok", "ok_feedback", "refused", "gone"}

\* "written": a response was handed to libp2p.  "ended": it timed out, failed
\* or lost its response channel, and the event is not yet read.
Streams == {"none", "open", "written", "ended", "closed"}

TypeOK ==
    /\ answer \in [Call -> {"unsent", "none", "ok", "failed", "dropped"}]
    /\ pending \in SUBSET RequestId
    /\ aged \in SUBSET RequestId
    /\ wire \in SUBSET RequestId
    /\ fallbacks \in SUBSET Fallback
    /\ queue \in SUBSET Inbound
    /\ handler \in [Inbound -> Handlers]
    /\ stream \in [Inbound -> Streams]
    /\ arrival \in SUBSET Inbound
    /\ feedback \in SUBSET Inbound

Init ==
    /\ answer = [c \in Call |-> "unsent"]
    /\ pending = {}
    /\ aged = {}
    /\ wire = {}
    /\ fallbacks = {}
    /\ queue = {}
    /\ handler = [r \in Inbound |-> "none"]
    /\ stream = [r \in Inbound |-> "none"]
    /\ arrival = {}
    /\ feedback = {}
-------------------------------------------------------------------------------
(***************************************************************************)
(* Requests of this node.                                                  *)
(***************************************************************************)
\* Only poll holds fallback requests: the task is not inside it.
Outside == fallbacks = {}

SendRequest(c) ==
    /\ Outside
    /\ answer[c] = "unsent"
    /\ answer' = [answer EXCEPT ![c] = "none"]
    /\ pending' = pending \cup {<<c, 1>>}
    /\ wire' = wire \cup {<<c, 1>>}
    /\ UNCHANGED <<aged, fallbacks, inbound>>

\* UnknownProtocol, or NotConnected with ImmediateError.
SendRefused(c) ==
    /\ Outside
    /\ answer[c] = "unsent"
    /\ answer' = [answer EXCEPT ![c] = "failed"]
    /\ UNCHANGED <<pending, aged, wire, fallbacks, inbound>>

GrowOld(i) ==
    /\ i \in pending \ aged
    /\ aged' = aged \cup {i}
    /\ UNCHANGED <<answer, pending, wire, fallbacks, inbound>>

Failed(ids) ==
    [c \in Call |-> IF \E k \in {1, 2} : <<c, k>> \in ids THEN "failed" ELSE answer[c]]

\* Variant for mutation: retain keeps the request that it has answered.
PeriodicCheckRetains ==
    /\ Outside
    /\ aged # {}
    /\ answer' = Failed(aged)
    /\ aged' = {}
    /\ UNCHANGED <<pending, wire, fallbacks, inbound>>

\* Variant for mutation: a request is forgotten without an answer.
PeriodicCheckSilent ==
    /\ Outside
    /\ aged # {}
    /\ pending' = pending \ aged
    /\ aged' = {}
    /\ UNCHANGED <<answer, wire, fallbacks, inbound>>

\* periodic_request_check, at the start of poll.
PeriodicCheck ==
    /\ Outside
    /\ aged # {}
    /\ answer' = Failed(aged)
    /\ pending' = pending \ aged
    /\ aged' = {}
    /\ UNCHANGED <<wire, fallbacks, inbound>>

\* poll returns an event, or starts again, before it has sent the fallback
\* requests: they are dropped together with their callers' senders.
Dropping(as) == [c \in Call |-> IF c \in fallbacks THEN "dropped" ELSE as[c]]

Remove(i) ==
    /\ i \in wire
    /\ wire' = wire \ {i}
    /\ pending' = pending \ {i}
    /\ aged' = aged \ {i}

\* A response or a failure, of which the caller is told.
Finish(i, o) ==
    /\ i \in pending
    /\ Remove(i)
    /\ answer' = Dropping([answer EXCEPT ![i[1]] = o])
    /\ fallbacks' = {}
    /\ UNCHANGED inbound

ResponseReceived(i) == Finish(i, "ok")
OutboundFailure(i) == Finish(i, "failed")

\* A response or a failure for a request that the periodic check has removed.
Unexpected(i) ==
    /\ i \notin pending
    /\ Remove(i)
    /\ UNCHANGED <<answer, fallbacks, inbound>>

UnsupportedProtocols(i) ==
    /\ i \in pending
    /\ i[1] \in Fallback /\ i[2] = 1
    /\ Remove(i)
    /\ fallbacks' = fallbacks \cup {i[1]}
    /\ UNCHANGED <<answer, inbound>>

\* Variant for mutation: the fallback request is numbered after the one sent.
SendFallbacksRenumbered ==
    /\ fallbacks # {}
    /\ fallbacks' = {}
    /\ pending' = pending \cup {<<c, 3>> : c \in fallbacks}
    /\ wire' = wire \cup {<<c, 3>> : c \in fallbacks}
    /\ UNCHANGED <<answer, aged, inbound>>

\* The end of poll.  A fallback request is sent, fails because the peer is not
\* connected, or is dropped because its protocol is not registered.
SendFallbacks ==
    /\ fallbacks # {}
    /\ \E o \in [fallbacks -> {"none", "failed", "dropped"}] :
          LET again == {<<c, 2>> : c \in {c \in fallbacks : o[c] = "none"}}
          IN  /\ answer' = [c \in Call |-> IF c \in fallbacks THEN o[c] ELSE answer[c]]
              /\ pending' = pending \cup again
              /\ wire' = wire \cup again
    /\ fallbacks' = {}
    /\ UNCHANGED <<aged, inbound>>
-------------------------------------------------------------------------------
(***************************************************************************)
(* Requests of remote peers.                                               *)
(***************************************************************************)
Returning ==
    /\ answer' = Dropping(answer)
    /\ fallbacks' = {}
    /\ UNCHANGED <<pending, aged, wire>>

\* An event that poll passes through, a Dial for instance: it matters only
\* when there are fallback requests.
PassThrough ==
    /\ ~Outside
    /\ Returning
    /\ UNCHANGED inbound

\* try_send into a full inbound_queue drops the request with its sender; poll
\* starts again in either case.
RequestReceived(r) ==
    /\ stream[r] = "none"
    /\ stream' = [stream EXCEPT ![r] = "open"]
    /\ arrival' = arrival \cup {r}
    /\ LET full == Cardinality(queue) >= QueueSize
       IN  /\ queue' = IF full THEN queue ELSE queue \cup {r}
           /\ handler' = [handler EXCEPT ![r] = IF full THEN "refused" ELSE "held"]
    /\ Returning
    /\ UNCHANGED feedback

\* A room takes the request.
TakeRequest(r) ==
    /\ r \in queue
    /\ queue' = queue \ {r}
    /\ UNCHANGED <<outbound, fallbacks, handler, stream, arrival, feedback>>

\* Its pending_response is used or dropped.
Respond(r, o) ==
    /\ handler[r] = "held"
    /\ r \notin queue
    /\ handler' = [handler EXCEPT ![r] = o]
    /\ UNCHANGED <<outbound, fallbacks, queue, stream, arrival, feedback>>

\* Variant for mutation: the sender is kept before the response is handed over.
ResponseReadyAlways(r) ==
    /\ Outside
    /\ handler[r] \in {"ok", "ok_feedback", "refused"}
    /\ handler' = [handler EXCEPT ![r] = "gone"]
    /\ feedback' = IF handler[r] = "ok_feedback" THEN feedback \cup {r} ELSE feedback
    /\ stream' = [stream EXCEPT ![r] =
                      IF @ # "open" THEN @ ELSE IF handler[r] = "refused" THEN "ended" ELSE "written"]
    /\ UNCHANGED <<outbound, fallbacks, queue, arrival>>

\* poll finds the response: it goes to libp2p unless the substream has ended.
\* With no response the substream's channel is dropped.
ResponseReady(r) ==
    /\ Outside
    /\ handler[r] \in {"ok", "ok_feedback", "refused"}
    /\ handler' = [handler EXCEPT ![r] = "gone"]
    /\ feedback' = IF handler[r] = "ok_feedback" /\ stream[r] = "open"
                   THEN feedback \cup {r} ELSE feedback
    /\ stream' = [stream EXCEPT ![r] =
                      IF @ # "open" THEN @ ELSE IF handler[r] = "refused" THEN "ended" ELSE "written"]
    /\ UNCHANGED <<outbound, fallbacks, queue, arrival>>

\* libp2p: the substream times out, its connection closes, it fails.
StreamEnds(r) ==
    /\ stream[r] \in {"open", "written"}
    /\ stream' = [stream EXCEPT ![r] = "ended"]
    /\ UNCHANGED <<outbound, fallbacks, queue, handler, arrival, feedback>>

Close(r, st) ==
    /\ stream[r] = st
    /\ stream' = [stream EXCEPT ![r] = "closed"]
    /\ Returning
    /\ UNCHANGED <<queue, handler>>

\* Variant for mutation: the arrival time is kept when a request fails.
InboundFailureKeeps(r) ==
    /\ Close(r, "ended")
    /\ feedback' = feedback \ {r}
    /\ UNCHANGED arrival

InboundFailure(r) ==
    /\ Close(r, "ended")
    /\ arrival' = arrival \ {r}
    /\ feedback' = feedback \ {r}

\* The expect on the arrival time: see ArrivalRecorded.
ResponseSent(r) ==
    /\ Close(r, "written")
    /\ arrival' = arrival \ {r}
    /\ feedback' = feedback \ {r}
-------------------------------------------------------------------------------
CallStep(c) == SendRequest(c) \/ SendRefused(c)

OutboundEvent(i) == ResponseReceived(i) \/ OutboundFailure(i)
                    \/ Unexpected(i) \/ UnsupportedProtocols(i)

InboundStep(r) ==
    \/ RequestReceived(r) \/ TakeRequest(r)
    \/ \E o \in {"ok", "ok_feedback", "refused"} : Respond(r, o)
    \/ ResponseReady(r) \/ StreamEnds(r) \/ InboundFailure(r) \/ ResponseSent(r)

\* What happens without libp2p and the peers: time passes and poll is called.
Progress == (\E i \in pending : GrowOld(i)) \/ PeriodicCheck \/ SendFallbacks

Next ==
    \/ \E c \in Call : CallStep(c)
    \/ \E i \in wire : OutboundEvent(i)
    \/ \E r \in Inbound : InboundStep(r)
    \/ PassThrough
    \/ Progress

Spec == Init /\ [][Next]_vars

FairSpec == Spec /\ WF_vars(Progress)
-------------------------------------------------------------------------------
(***************************************************************************)
(* Properties.                                                             *)
(***************************************************************************)
\* Where the response_tx of a call is.
Holders(c) == (pending \cap {<<c, 1>>, <<c, 2>>})
              \cup (IF c \in fallbacks THEN {<<c, 0>>} ELSE {})

\* The sender of a caller's answer is in one place from send_request until the
\* caller has an outcome, and nowhere afterwards: whichever of response,
\* failure, forced timeout and fallback comes first or late, no caller is
\* answered twice and no answered request stays in pending_requests.
SenderHeld ==
    \A c \in Call : IF answer[c] = "none" THEN \E h \in Holders(c) : Holders(c) = {h}
                                           ELSE Holders(c) = {}

\* request_responses.rs:1157, the expect of ResponseSent: the arrival time of
\* every request whose substream is not closed is known, and of no other, so
\* the expect never fails and the table does not grow.
ArrivalRecorded ==
    arrival = {r \in Inbound : stream[r] \in {"open", "written", "ended"}}

\* A feedback sender is kept only while the event that uses or drops it is
\* still to come: an answer that comes after its substream ended leaves none.
FeedbackAwaited ==
    \A r \in feedback : handler[r] = "gone" /\ stream[r] \in {"written", "ended"}

\* request_responses.rs:421, "We had issues in the past where libp2p did not
\* produce a timeout event in due time": every call without a fallback is told
\* an outcome, even if libp2p never reports one.
CallsAnswered ==
    \A c \in Call \ Fallback : answer[c] = "none" ~> answer[c] \in {"ok", "failed"}
===============================================================================
