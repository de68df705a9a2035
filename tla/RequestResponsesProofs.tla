------------------------ MODULE RequestResponsesProofs ------------------------
(***************************************************************************)
(* Proofs about RequestResponses, for any number of calls and of received  *)
(* requests, any queue size and any choice of calls with a fallback.       *)
(***************************************************************************)
EXTENDS RequestResponses, TLAPS

\* A call's sender is in pending_requests once or among the fallback requests,
\* exactly while its caller waits; only pending requests grow old.
OnePlace ==
    /\ aged \subseteq pending
    /\ \A c \in Call :
          /\ answer[c] = "none" <=> \/ <<c, 1>> \in pending
                                    \/ <<c, 2>> \in pending
                                    \/ c \in fallbacks
          /\ ~(<<c, 1>> \in pending /\ <<c, 2>> \in pending)
          /\ c \in fallbacks => <<c, 1>> \notin pending /\ <<c, 2>> \notin pending

IInv == TypeOK /\ OnePlace /\ ArrivalRecorded /\ FeedbackAwaited

\* The tables of a new behaviour are empty (request_responses.rs, new).
LEMMA InitIInv == Init => IInv
BY RequestAssumption DEF Init, IInv, TypeOK, OnePlace, ArrivalRecorded, FeedbackAwaited,
   RequestId, Handlers, Streams

\* No step of poll, of send_request or of a room leaves the types.
LEMMA StepTypeOK == ASSUME IInv, [Next]_vars PROVE TypeOK'
<1> USE RequestAssumption DEF IInv, TypeOK, RequestId, Handlers, Streams
<1>1. ASSUME NEW c \in Call, CallStep(c) PROVE TypeOK'
  BY <1>1 DEF CallStep, SendRequest, SendRefused, inbound
<1>2. ASSUME NEW i \in wire, OutboundEvent(i) PROVE TypeOK'
  BY <1>2 DEF OutboundEvent, ResponseReceived, OutboundFailure, Unexpected,
     UnsupportedProtocols, Finish, Remove, Dropping, inbound
<1>3. ASSUME NEW r \in Inbound, InboundStep(r) PROVE TypeOK'
  BY <1>3 DEF InboundStep, RequestReceived, TakeRequest, Respond, ResponseReady,
     StreamEnds, InboundFailure, ResponseSent, Close, Returning, Dropping, outbound
<1>4. ASSUME NEW i \in pending, GrowOld(i) PROVE TypeOK'
  BY <1>4 DEF GrowOld, inbound
<1>5. CASE PeriodicCheck
  BY <1>5 DEF PeriodicCheck, Failed, inbound
<1>6. CASE SendFallbacks
  BY <1>6 DEF SendFallbacks, inbound
<1>7. CASE UNCHANGED vars
  BY <1>7 DEF vars, outbound, inbound
<1>8. CASE PassThrough
  BY <1>8 DEF PassThrough, Returning, Dropping, inbound
<1> QED BY <1>1, <1>2, <1>3, <1>4, <1>5, <1>6, <1>7, <1>8 DEF Next, Progress

\* Whatever comes first or late, a sender stays in one place until it is used.
LEMMA StepOnePlace == ASSUME IInv, [Next]_vars PROVE OnePlace'
<1> USE RequestAssumption DEF IInv, TypeOK, OnePlace, RequestId
<1>1. ASSUME NEW c \in Call, CallStep(c) PROVE OnePlace'
  BY <1>1 DEF CallStep, SendRequest, SendRefused, inbound
<1>2. ASSUME NEW i \in wire, OutboundEvent(i) PROVE OnePlace'
  <2>0. PICK c \in Call, k \in {1, 2} : i = <<c, k>>
    BY <1>2
  <2>1. CASE ResponseReceived(i) \/ OutboundFailure(i)
    BY <2>0, <2>1 DEF ResponseReceived, OutboundFailure, Finish, Remove, Dropping
  <2>2. CASE Unexpected(i)
    BY <2>2 DEF Unexpected, Remove
  <2>3. CASE UnsupportedProtocols(i)
    BY <2>0, <2>3 DEF UnsupportedProtocols, Remove
  <2> QED BY <1>2, <2>1, <2>2, <2>3 DEF OutboundEvent
<1>3. ASSUME NEW r \in Inbound, InboundStep(r) PROVE OnePlace'
  BY <1>3 DEF InboundStep, RequestReceived, TakeRequest, Respond, ResponseReady,
     StreamEnds, InboundFailure, ResponseSent, Close, Returning, Dropping, outbound
<1>4. ASSUME NEW i \in pending, GrowOld(i) PROVE OnePlace'
  BY <1>4 DEF GrowOld
<1>5. CASE PeriodicCheck
  BY <1>5 DEF PeriodicCheck, Failed
<1>6. CASE SendFallbacks
  BY <1>6 DEF SendFallbacks
<1>7. CASE UNCHANGED vars
  BY <1>7 DEF vars, outbound
<1>8. CASE PassThrough
  BY <1>8 DEF PassThrough, Returning, Dropping
<1> QED BY <1>1, <1>2, <1>3, <1>4, <1>5, <1>6, <1>7, <1>8 DEF Next, Progress

\* The tables of received requests change only together with their substream.
LEMMA StepInbound == ASSUME IInv, [Next]_vars PROVE ArrivalRecorded' /\ FeedbackAwaited'
<1> USE DEF IInv, TypeOK, ArrivalRecorded, FeedbackAwaited, Handlers, Streams
<1>1. CASE UNCHANGED inbound
  BY <1>1 DEF inbound
<1>2. ASSUME NEW r \in Inbound, InboundStep(r) PROVE ArrivalRecorded' /\ FeedbackAwaited'
  <2>1. CASE RequestReceived(r)
    BY <2>1 DEF RequestReceived
  <2>2. CASE TakeRequest(r)
    BY <2>2 DEF TakeRequest
  <2>3. ASSUME NEW o, Respond(r, o) PROVE ArrivalRecorded' /\ FeedbackAwaited'
    BY <2>3 DEF Respond
  <2>4. CASE ResponseReady(r)
    BY <2>4 DEF ResponseReady
  <2>5. CASE StreamEnds(r)
    BY <2>5 DEF StreamEnds
  <2>6. CASE InboundFailure(r) \/ ResponseSent(r)
    BY <2>6 DEF InboundFailure, ResponseSent, Close
  <2> QED BY <1>2, <2>1, <2>2, <2>3, <2>4, <2>5, <2>6 DEF InboundStep
<1>3. [Next]_vars /\ ~(\E r \in Inbound : InboundStep(r)) => UNCHANGED inbound
  BY DEF Next, vars, CallStep, SendRequest, SendRefused, OutboundEvent, ResponseReceived,
     OutboundFailure, Finish, Unexpected, UnsupportedProtocols, Progress, GrowOld,
     PeriodicCheck, SendFallbacks, PassThrough
<1> QED BY <1>1, <1>2, <1>3

\* The inductive invariant holds in every reachable state.
LEMMA IInvHolds == Spec => []IInv
<1>1. IInv /\ [Next]_vars => IInv'
  BY StepTypeOK, StepOnePlace, StepInbound DEF IInv
<1> QED BY InitIInv, <1>1, PTL DEF Spec

\* Every table and every outcome keeps its type (request_responses.rs:393-426).
THEOREM RequestsTyped == Spec => []TypeOK
<1>1. IInv => TypeOK
  BY DEF IInv
<1> QED BY IInvHolds, <1>1, PTL

\* Response, failure, forced timeout and fallback together answer a caller at
\* most once, and an answered request leaves pending_requests.
THEOREM SenderNeverLost == Spec => []SenderHeld
<1>1. ASSUME IInv PROVE SenderHeld
  <2> SUFFICES ASSUME NEW c \in Call
               PROVE IF answer[c] = "none" THEN \E h \in Holders(c) : Holders(c) = {h}
                                           ELSE Holders(c) = {}
    BY DEF SenderHeld
  <2>1. CASE answer[c] # "none"
    BY <1>1, <2>1 DEF IInv, OnePlace, Holders
  <2>2. CASE answer[c] = "none" /\ c \in fallbacks
    <3>1. Holders(c) = {<<c, 0>>}
      BY <1>1, <2>2 DEF IInv, OnePlace, Holders
    <3> QED BY <2>2, <3>1
  <2>3. CASE answer[c] = "none" /\ c \notin fallbacks
    <3>1. PICK k \in {1, 2} : <<c, k>> \in pending /\ \A j \in {1, 2} : <<c, j>> \in pending => j = k
      BY <1>1, <2>3 DEF IInv, OnePlace
    <3>2. Holders(c) = {<<c, k>>}
      BY <2>3, <3>1 DEF Holders
    <3> QED BY <2>3, <3>2
  <2> QED BY <2>1, <2>2, <2>3
<1> QED BY IInvHolds, <1>1, PTL

\* The expect of ResponseSent (request_responses.rs:1157) never fails, and
\* pending_responses_arrival_time holds nothing else.
THEOREM ArrivalKnown == Spec => []ArrivalRecorded
<1>1. IInv => ArrivalRecorded
  BY DEF IInv
<1> QED BY IInvHolds, <1>1, PTL

\* send_feedback holds no sender whose event has passed.
THEOREM FeedbackBounded == Spec => []FeedbackAwaited
<1>1. IInv => FeedbackAwaited
  BY DEF IInv
<1> QED BY IInvHolds, <1>1, PTL
===============================================================================
