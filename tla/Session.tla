------------------------------- MODULE Session --------------------------------
(***************************************************************************)
(* One MPC session among the parties of a peerset: at every party a        *)
(* ProtocolExecution (client/service/src/execution.rs), the EchoGadget     *)
(* wrapped around it (echo.rs) and the agent it drives (tss/src/keygen.rs, *)
(* keysign.rs), all polled by one task, and the network between them.      *)
(*                                                                         *)
(* A Poll is one call of ProtocolExecution::poll: one outgoing message,    *)
(* one incoming message, forward_buffered_messages and the agent, in that  *)
(* order.  Payloads are abstracted to members of Values and the hash of a  *)
(* round to the vector it is taken of.  The gadget hashes the payloads one *)
(* after the other, with no length between them; each payload is one CBOR  *)
(* array of varying length.  CBOR is self-delimiting, so that two vectors  *)
(* of packages never have the same concatenation.                          *)
(***************************************************************************)
EXTENDS Integers, Sequences, SequencesExt, FiniteSets, FiniteSetsExt

CONSTANTS
    Party,     \* the indexes of the peerset
    Protocol,  \* "keygen" or "keysign"
    Values,    \* payloads a broadcast may carry
    Splitters, \* parties whose broadcast may differ from receiver to receiver
    Unfit,     \* parties whose agent fails at once (no key share, bad threshold)
    Fifo,      \* TRUE: requests between two parties arrive in the order sent
    MaxFaults, \* bound: lost requests and request timeouts
    None

ASSUME SessionAssumption ==
    /\ IsFiniteSet(Party) /\ Cardinality(Party) >= 2
    /\ Protocol \in {"keygen", "keysign"}
    /\ Splitters \subseteq Party /\ Unfit \subseteq Party
    /\ Fifo \in BOOLEAN /\ MaxFaults \in Nat

VARIABLES
    agent,  \* per party: the compute future
    exec,   \* per party: the ProtocolExecution and what the RPC caller saw
    echo,   \* per party: the EchoGadget
    net,    \* requests in flight
    acks,   \* responses to broadcasts, as their senders see them
    faults, \* number of faults so far
    sent    \* history: every copy of every broadcast, own copies included

vars == <<agent, exec, echo, net, acks, faults, sent>>

N == Cardinality(Party)
Others(p) == Party \ {p}
Ids == IF Protocol = "keygen" THEN {0} ELSE {0, 1}
Steps == {"start", "round1", "round2", "done", "failed"}

\* A request: a broadcast carries its message id, a direct message always 0.
Request == [from : Party, to : Party, kind : {"bcast", "direct"}, id : Ids, val : Values]
EchoMessage == [id : Ids, sender : Party, val : Values]
Vector == [Party -> Values]

TypeOK ==
    /\ agent \in [Party -> [pc : Steps, got1 : SUBSET Party, got2 : SUBSET Party]]
    /\ \A p \in Party :
          /\ exec[p].st \in {"running", "computed", "ended", "failed", "echo_failed", "echo", "app"}
          /\ exec[p].answer \in {"none", "ok", "err", "dropped"}
          /\ exec[p].out \in Seq({"bcast"} \cup Party)
          /\ exec[p].pending_incoming \subseteq Request
          /\ exec[p].to_protocol \subseteq Request
          /\ exec[p].next_out \in Nat /\ exec[p].next_in \in Nat
          /\ echo[p].rx \in Seq(SUBSET EchoMessage)
          /\ echo[p].msgs \subseteq EchoMessage
          /\ echo[p].at \in Ids \cup {None}
          /\ echo[p].view \in [Ids -> Vector \cup {None}]
          /\ echo[p].verified \subseteq Ids
          /\ echo[p].polls \in 0..2
    /\ net \subseteq Request
    /\ sent \subseteq [from : Party, to : Party, id : Ids, val : Values]
    /\ acks \subseteq [from : Party, to : Party, id : Ids, res : Vector \cup {None}]
    /\ faults \in 0..MaxFaults
-------------------------------------------------------------------------------
NewExecution == [st |-> "running", answer |-> "none", out |-> <<>>,
                 pending_incoming |-> {}, to_protocol |-> {},
                 next_out |-> 0, next_in |-> 0]

NewGadget == [rx |-> <<>>, msgs |-> {}, at |-> None, view |-> [k \in Ids |-> None],
              verified |-> {}, polls |-> 0]

Init ==
    /\ agent = [p \in Party |-> [pc |-> "start", got1 |-> {}, got2 |-> {}]]
    /\ exec = [p \in Party |-> NewExecution]
    /\ echo = [p \in Party |-> NewGadget]
    /\ net = {}
    /\ acks = {}
    /\ faults = 0
    /\ sent = {}

\* A request gets one response: what comes after it is ignored.
Respond(as, new) ==
    as \cup {a \in new : \A b \in as : <<b.from, b.to, b.id>> # <<a.from, a.to, a.id>>}

\* The requests for which a party still holds a pending_response are refused
\* when it is dropped.
Refusals(p, ms) == {[from |-> p, to |-> m.from, id |-> m.id, res |-> None] :
                        m \in {m \in ms : m.kind = "bcast"}}

HeldByGadget(p, g) ==
    {[from |-> m.sender, kind |-> "bcast", id |-> m.id] :
        m \in {m \in UNION ToSet(g.rx) \cup g.msgs : m.sender # p}}
-------------------------------------------------------------------------------
(***************************************************************************)
(* The agents.  One poll of the compute future runs until it has to wait;  *)
(* keysign waits after a broadcast until the runtime has taken it, keygen  *)
(* only while the outgoing channel (n - 1) is full.                        *)
(***************************************************************************)
Sender(ms) == {m.from : m \in ms}

AgentStarts(p, a, x) ==
    IF a.pc # "start" THEN <<a, x>>
    ELSE IF p \in Unfit THEN <<[a EXCEPT !.pc = "failed"], x>>
    ELSE <<[a EXCEPT !.pc = "round1"], [x EXCEPT !.out = Append(@, "bcast")]>>

RecipientOrder == [p \in Party |-> SetToSeq(Others(p))]

\* What follows round 1: the share packages of keygen, one for every other
\* party, or the broadcast signature share of keysign.
Round2Sends(p) == IF Protocol = "keysign" THEN <<"bcast">> ELSE RecipientOrder[p]

MayReceive(x) == IF Protocol = "keysign" THEN x.out = <<>> ELSE Len(x.out) <= N - 1

\* Round 1 collects broadcasts; direct messages that come early are deferred.
Collected(a, taken) ==
    [a EXCEPT !.got1 = @ \cup Sender({m \in taken : m.kind = "bcast"}),
              !.got2 = @ \cup Sender({m \in taken : m.kind = "direct"})]

AgentRound1(p, a, x) ==
    LET taken == {m \in x.to_protocol : m.id = 0}
        got   == Collected(a, taken)
        rest  == [x EXCEPT !.to_protocol = @ \ taken]
    IN  IF a.pc # "round1" \/ ~MayReceive(x) THEN <<a, x>>
        ELSE IF got.got1 # Others(p) THEN <<got, rest>>
        ELSE <<[got EXCEPT !.pc = "round2"], [rest EXCEPT !.out = @ \o Round2Sends(p)]>>

\* Variant for mutation: one share is taken for all of them.
AgentRound2Hasty(p, a, x) ==
    LET got == [a EXCEPT !.got2 = @ \cup Sender(x.to_protocol)]
    IN  IF a.pc # "round2" \/ ~MayReceive(x) THEN <<a, x>>
        ELSE <<[got EXCEPT !.pc = "done"], [x EXCEPT !.to_protocol = {}]>>

AgentRound2(p, a, x) ==
    LET got == [a EXCEPT !.got2 = @ \cup Sender(x.to_protocol)]
    IN  IF a.pc # "round2" \/ ~MayReceive(x) THEN <<a, x>>
        ELSE <<[got EXCEPT !.pc = IF got.got2 = Others(p) THEN "done" ELSE @],
               [x EXCEPT !.to_protocol = {}]>>

\* The last check of the protocol (part3, aggregate) may fail when a party has
\* not sent the same package to all; a package is well-formed in any case.
AgentResults(a, s) ==
    {s} \cup IF a.pc # "done" /\ s[1].pc = "done" /\ Splitters # {}
             THEN {<<[s[1] EXCEPT !.pc = "failed"], s[2]>>} ELSE {}

AgentPoll(p, a, x) ==
    UNION {AgentResults(a, AgentRound2(p, s2[1], s2[2])) :
               s2 \in UNION {{AgentRound1(p, s1[1], s1[2])} : s1 \in {AgentStarts(p, a, x)}}}
-------------------------------------------------------------------------------
(***************************************************************************)
(* ProtocolExecution::poll.                                                *)
(***************************************************************************)
Broadcasting(x) == x.out # <<>> /\ Head(x.out) = "bcast"

\* What the head of the outgoing channel puts on the network; f gives the
\* payload for every receiver, f[p] the one that goes to the own gadget.
Outgoing(p, x, f) ==
    IF x.out = <<>> THEN {}
    ELSE IF Broadcasting(x)
    THEN {[from |-> p, to |-> q, kind |-> "bcast", id |-> x.next_out, val |-> f[q]] :
              q \in Others(p)}
    ELSE {[from |-> p, to |-> Head(x.out), kind |-> "direct", id |-> 0, val |-> f[p]]}

AfterOutgoing(x) ==
    IF x.out = <<>> THEN x
    ELSE [x EXCEPT !.out = Tail(@),
                   !.next_out = IF Broadcasting(x) THEN @ + 1 ELSE @]

OutgoingEcho(p, x, f) ==
    IF ~Broadcasting(x) THEN <<>>
    ELSE <<{[id |-> x.next_out, sender |-> p, val |-> f[p]]}>>

AfterIncoming(x, ms) ==
    [x EXCEPT !.pending_incoming = @ \cup {m \in ms : m.kind = "bcast"},
              !.to_protocol = @ \cup {m \in ms : m.kind = "direct"}]

\* forward_buffered_messages: batch after batch, each only when it is complete.
Batch(x, k) == {m \in x.pending_incoming : m.id = k}

Complete(x) ==
    {k \in Ids : k >= x.next_in /\ \A i \in x.next_in..k : Cardinality(Batch(x, i)) = N - 1}

Forwarded(x) == UNION {Batch(x, k) : k \in Complete(x)}

ForwardedEcho(x) ==
    [i \in 1..Cardinality(Complete(x)) |->
        {[id |-> m.id, sender |-> m.from, val |-> m.val] : m \in Batch(x, x.next_in + i - 1)}]

AfterForward(x) ==
    [x EXCEPT !.pending_incoming = @ \ Forwarded(x),
              !.to_protocol = @ \cup Forwarded(x),
              !.next_in = @ + Cardinality(Complete(x))]

QueuedEcho(rx) == MapThenSumSet(LAMBDA i : Cardinality(rx[i]), DOMAIN rx)

\* Variants for mutation: channels one or two slots short.
EchoCapacityShort == N - 1
AppCapacityShort == N - 2

EchoCapacity == N + 1 \* mpsc::channel(n) and its one sender
AppCapacity == N - 1  \* async_channel::bounded(n - 1)

\* The first try_send that fails, and with it the expect that panics: queued
\* is what the echo channel holds once the own broadcast is in it, x the
\* execution with the incoming message taken.  A message is forwarded to the
\* gadget first, then to the agent, whose channel closes when it ends.
Panics(a, x, direct, queued) ==
    LET closed   == a.pc \in {"done", "failed"}
        freeEcho == EchoCapacity - queued
        freeApp  == IF closed THEN 0 ELSE AppCapacity - Cardinality(x.to_protocol)
        forward  == Cardinality(Forwarded(x))
    IN  CASE freeEcho < 0 -> "echo"
          [] freeEcho >= 0 /\ direct # {} /\ (closed \/ freeApp < 0) -> "app"
          [] OTHER -> IF forward > freeEcho /\ freeEcho <= freeApp THEN "echo"
                      ELSE IF forward > freeApp THEN "app" ELSE "no"

\* The payloads that go out in this poll: one for all receivers, unless the
\* party is one whose broadcasts differ.
Payloads(p) ==
    LET plain == [q \in Party |-> CHOOSE v \in Values : TRUE]
    IN  IF p \in Splitters /\ Broadcasting(exec[p])
        THEN {f \in [Party -> Values] : f[p] = plain[p]} ELSE {plain}

\* ms is the request taken from from_network, if any.  Between two polls of
\* the gadget the task polls the execution at most twice (select! picks the
\* order); only the polls that give an idle gadget something to do are counted.
Poll(p, ms, f) ==
    /\ exec[p].st = "running"
    /\ ms # {} \/ exec[p].out # <<>> \/ agent[p].pc = "start"
    /\ net' = (net \ ms) \cup Outgoing(p, exec[p], f)
    /\ sent' = sent \cup IF ~Broadcasting(exec[p]) THEN {}
                         ELSE {[from |-> p, to |-> q, id |-> exec[p].next_out, val |-> f[q]] :
                                   q \in Party}
    /\ UNCHANGED faults
    /\ \E x \in {AfterIncoming(AfterOutgoing(exec[p]), ms)} :
       \E own \in {OutgoingEcho(p, exec[p], f)}, forward \in {ForwardedEcho(x)} :
          LET direct == {m \in ms : m.kind = "direct"}
              panics == Panics(agent[p], x, direct, QueuedEcho(echo[p].rx \o own))
              counted == own \o forward # <<>> /\ echo[p].at = None
          IN  /\ counted => echo[p].polls < 2
              /\ \/ /\ panics # "no"
                    /\ exec' = [exec EXCEPT ![p].st = panics,
                                            ![p].answer = IF @ = "none" THEN "dropped" ELSE @]
                    /\ acks' = Respond(acks, Refusals(p, x.pending_incoming
                                                         \cup HeldByGadget(p, echo[p])))
                    /\ UNCHANGED <<agent, echo>>
                 \/ /\ panics = "no"
                    /\ \E s \in AgentPoll(p, agent[p], AfterForward(x)) :
                          /\ agent' = [agent EXCEPT ![p] = s[1]]
                          /\ exec' = [exec EXCEPT ![p] = s[2]]
                    /\ echo' = [echo EXCEPT ![p].rx = @ \o own \o forward,
                                            ![p].polls = IF counted THEN @ + 1 ELSE @]
                    /\ UNCHANGED acks

\* A request that may be the next one read from from_network.
Sequence(m) == IF m.kind = "direct" THEN 1 ELSE m.id
Arrives(m) == Fifo => \A n \in net : <<n.from, n.to>> = <<m.from, m.to>> =>
                                         Sequence(n) >= Sequence(m)

PollIncoming(p) ==
    \E m \in {m \in net : m.to = p /\ Arrives(m)}, f \in Payloads(p) :
        Poll(p, {m}, f)

PollOutgoing(p) ==
    \E f \in Payloads(p) : Poll(p, {}, f)

\* COMPLETION_QUIET_PERIOD has passed without a message since the agent ended.
\* The task is polled all the while, so the outgoing channel is empty by then.
ExecutionComplete(p) ==
    /\ exec[p].st = "running"
    /\ agent[p].pc \in {"done", "failed"}
    /\ exec[p].out = <<>>
    /\ LET ok == agent[p].pc = "done"
           held == exec[p].pending_incoming \cup IF ok THEN {} ELSE HeldByGadget(p, echo[p])
       IN  /\ exec' = [exec EXCEPT ![p].st = IF ok THEN "computed" ELSE "failed",
                                   ![p].answer = IF ok THEN "ok" ELSE "err",
                                   ![p].pending_incoming = {}]
           /\ acks' = Respond(acks, Refusals(p, held))
    /\ UNCHANGED <<agent, echo, net, faults, sent>>
-------------------------------------------------------------------------------
(***************************************************************************)
(* EchoGadget::proceed_round and wrap_execution.                           *)
(***************************************************************************)
Live(p) == exec[p].st \in {"running", "computed"}

Group(ms, k) == {m \in ms : m.id = k}

\* ready_message_id: n messages, the own one among them; smallest id first.
ReadyIds(p, ms) ==
    {k \in Ids : Cardinality(Group(ms, k)) = N /\ \E m \in Group(ms, k) : m.sender = p}

\* rx is drained until a round is ready.  An element of rx holds the messages
\* that one poll sent for one round; only the last of them can complete it.
Drained(p, g) ==
    LET Prefix(i) == g.msgs \cup UNION ToSet(SubSeq(g.rx, 1, i))
        Stop(i) == i = Len(g.rx) \/ ReadyIds(p, Prefix(i)) # {}
    IN  {[g EXCEPT !.msgs = Prefix(i), !.rx = SubSeq(@, i + 1, Len(@)), !.polls = 0] :
            i \in {i \in 0..Len(g.rx) : Stop(i) /\ \A j \in 0..(i - 1) : ~Stop(j)}}

EchoDrain(p) ==
    /\ Live(p)
    /\ echo[p].at = None
    /\ echo[p].rx # <<>>
    /\ \E g \in Drained(p, echo[p]) :
          /\ ReadyIds(p, g.msgs) = {}
          /\ echo' = [echo EXCEPT ![p] = g]
    /\ UNCHANGED <<agent, exec, net, acks, faults, sent>>

\* A round is complete: its hash acknowledges every message of the others.
EchoAcknowledge(p) ==
    /\ Live(p)
    /\ echo[p].at = None
    /\ \E g \in Drained(p, echo[p]) : \E k \in ReadyIds(p, g.msgs) :
          /\ \A i \in ReadyIds(p, g.msgs) : k <= i
          /\ \E view \in {[q \in Party |-> (CHOOSE m \in Group(g.msgs, k) : m.sender = q).val]} :
                /\ echo' = [echo EXCEPT ![p] = [g EXCEPT !.msgs = @ \ Group(g.msgs, k),
                                                         !.at = k, !.view[k] = view]]
                /\ acks' = Respond(acks, {[from |-> p, to |-> q, id |-> k, res |-> view] :
                                              q \in Others(p)})
    /\ UNCHANGED <<agent, exec, net, faults, sent>>

Responses(p) == {a \in acks : a.to = p /\ a.id = echo[p].at}

\* Variants for mutation: the round counter runs on, the round is not left,
\* the first acknowledgement is taken for all, the hashes are not compared.
VerifyWhen(p, enough, equal, at) ==
    /\ Live(p)
    /\ echo[p].at # None
    /\ Cardinality(Responses(p)) >= enough
    /\ equal => \A a \in Responses(p) : a.res = echo[p].view[echo[p].at]
    /\ echo' = [echo EXCEPT ![p].verified = @ \cup {echo[p].at}, ![p].at = at,
                            ![p].polls = 0]
    /\ UNCHANGED <<agent, exec, net, acks, faults, sent>>
EchoVerifyNextRound(p) == VerifyWhen(p, N - 1, TRUE, echo[p].at + 1)
EchoVerifyNoReset(p) == VerifyWhen(p, N - 1, TRUE, echo[p].at)
EchoVerifyFirst(p) == VerifyWhen(p, 1, TRUE, None)
EchoVerifyBlind(p) == VerifyWhen(p, N - 1, FALSE, None)

EchoVerify(p) ==
    /\ Live(p)
    /\ echo[p].at # None
    /\ Cardinality(Responses(p)) = N - 1
    /\ \A a \in Responses(p) : a.res = echo[p].view[echo[p].at]
    /\ echo' = [echo EXCEPT ![p].verified = @ \cup {echo[p].at}, ![p].at = None,
                            ![p].polls = 0]
    /\ UNCHANGED <<agent, exec, net, acks, faults, sent>>

\* InconsistentEcho or EchoFailed: the execution is dropped with everything it
\* holds, pending_response included.
EchoMismatch(p) ==
    /\ Live(p)
    /\ echo[p].at # None
    /\ Cardinality(Responses(p)) = N - 1
    /\ \E a \in Responses(p) : a.res # echo[p].view[echo[p].at]
    /\ exec' = [exec EXCEPT ![p].st = "echo_failed",
                            ![p].answer = IF @ = "none" THEN "dropped" ELSE @]
    /\ acks' = Respond(acks, Refusals(p, exec[p].pending_incoming
                                         \cup HeldByGadget(p, echo[p])))
    /\ UNCHANGED <<agent, echo, net, faults, sent>>

\* The execution is gone and rx has been read to its end.
Drying(p) ==
    /\ exec[p].st = "computed"
    /\ echo[p].at = None
    /\ echo[p].rx = <<>>
    /\ ReadyIds(p, echo[p].msgs) = {}

EchoClosed(p) ==
    /\ Drying(p)
    /\ exec' = [exec EXCEPT ![p].st = IF echo[p].msgs = {} THEN "ended" ELSE "echo_failed"]
    /\ acks' = Respond(acks, Refusals(p, HeldByGadget(p, echo[p])))
    /\ UNCHANGED <<agent, echo, net, faults, sent>>
-------------------------------------------------------------------------------
(***************************************************************************)
(* The network.                                                            *)
(***************************************************************************)
\* No execution reads the request any more.  Either the proxy has not yet given
\* the receiver back and refuses or drops it, or the room's next Phase1Channel
\* reads it, keeps it with the early messages and refuses it later, if the
\* sender's timeout is not first.  The sender sees the same failed request in
\* all cases, at the time of this step.
Refuse(m) ==
    /\ exec[m.to].st # "running"
    /\ net' = net \ {m}
    /\ acks' = Respond(acks, Refusals(m.to, {m}))
    /\ UNCHANGED <<agent, exec, echo, faults, sent>>

\* A request is lost; the sender learns it from the request's timeout.
Lose(m) ==
    /\ faults < MaxFaults
    /\ faults' = faults + 1
    /\ net' = net \ {m}
    /\ acks' = Respond(acks, Refusals(m.to, {m}))
    /\ UNCHANGED <<agent, exec, echo, sent>>

\* A broadcast that was sent is not answered in time, wherever it is by now.
Timeout(p, q, k) ==
    /\ faults < MaxFaults
    /\ Live(p)
    /\ k < exec[p].next_out
    /\ \A a \in acks : <<a.from, a.to, a.id>> # <<q, p, k>>
    /\ faults' = faults + 1
    /\ acks' = acks \cup {[from |-> q, to |-> p, id |-> k, res |-> None]}
    /\ UNCHANGED <<agent, exec, echo, net, sent>>
-------------------------------------------------------------------------------
EchoStep(p) == EchoClosed(p) \/ EchoVerify(p) \/ EchoMismatch(p)
               \/ EchoDrain(p) \/ EchoAcknowledge(p)

PartyStep(p) == ExecutionComplete(p) \/ EchoStep(p) \/ PollOutgoing(p) \/ PollIncoming(p)

Faults == \/ \E m \in net : Lose(m)
          \/ \E p \in Party : \E q \in Others(p), k \in Ids : Timeout(p, q, k)

Next ==
    \/ \E p \in Party : PartyStep(p)
    \/ \E m \in net : Refuse(m)
    \/ Faults

Spec == Init /\ [][Next]_vars

\* The task of a party is polled again and again, and a request that is not
\* lost arrives.
Progress == \E p \in Party : PartyStep(p)
FairSpec == Spec /\ WF_vars(Progress)
-------------------------------------------------------------------------------
(***************************************************************************)
(* Properties.                                                             *)
(***************************************************************************)
\* README.md:44, "broadcast reliability will be proven": when the echo of a
\* round succeeds at one party, every party has collected the same vector of
\* messages in that round, whatever was lost, delayed, reordered or sent
\* differently to different receivers.
EchoAgreement ==
    \A p, q \in Party : \A k \in echo[p].verified : echo[q].view[k] = echo[p].view[k]

RB == INSTANCE ReliableBroadcast WITH
          view <- [p \in Party |-> echo[p].view],
          verified <- [p \in Party |-> echo[p].verified]

\* The session implements ReliableBroadcast: a round is collected once, from
\* what was really sent, and verified only when all views of it are the same.
BroadcastReliable == RB!Spec

\* execution.rs:218 and 391, "echo channel is expected to be open": what is
\* sent to the gadget between two of its polls, on top of what it has left
\* unread, never exceeds the n + 1 messages that the channel holds.
EchoChannelOpen == \A p \in Party : exec[p].st # "echo"

\* execution.rs:399 and 429, "application channel is expected to be open": the
\* agent's channel never holds more than n - 1 messages, and nothing is
\* forwarded to an agent that has ended.
AppChannelOpen == \A p \in Party : exec[p].st # "app"

\* An agent that succeeds leaves no round half collected, so the closing of
\* the echo channel is never mistaken for "pending messages".
EchoDrainsDry == \A p \in Party : Drying(p) => echo[p].msgs = {}

\* echo.rs:62-63, "Echo failed - return the error / ProtocolExecution will
\* handle sending the error response": the RPC caller hears of the failure.
EchoFailureReported == \A p \in Party : exec[p].st = "echo_failed" => exec[p].answer = "err"

\* With no fault the session ends at every party with all rounds verified:
\* nobody waits for somebody who waits for them.
AllEnd == <>[](\A p \in Party : exec[p].st = "ended" /\ echo[p].verified = Ids)
===============================================================================
