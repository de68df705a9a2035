------------------------------ MODULE Coordination ------------------------------
(***************************************************************************)
(* How the nodes of one room agree on a session (client/service/src/       *)
(* coordination.rs, negotiation.rs, network_proxy.rs): a proposer with a   *)
(* local request broadcasts a proposal, joiners answer it and wait, and    *)
(* when the proposer has enough of them it sends the start message with    *)
(* the peerset.  Computation messages of members that started earlier are  *)
(* buffered by those that have not.                                        *)
(*                                                                         *)
(* Whoever holds the room's receiver reads its requests: Phase1Channel,    *)
(* Phase2Channel or ReceiverProxy; a NegotiationChannel holds it unread.   *)
(* A session id is a fresh UUID of its proposer, here the proposer itself. *)
(* The computation is abstracted to one message from each member to each   *)
(* other one (Session opens it up).                                        *)
(***************************************************************************)
EXTENDS Integers, FiniteSets

CONSTANTS
    Node,      \* the nodes of the room, all known to each other
    Proposers, \* the nodes with a local request, one each
    Size,      \* n, the number of parties a request asks for
    MaxEarly,  \* MAX_EARLY_COMPUTATION_MESSAGES
    Timeouts,  \* whether the timers of joiners and proposers may fire
    MaxTries,  \* bound: broadcasts of one proposal
    MaxLosses, \* bound: requests that fail
    None

ASSUME CoordinationAssumption ==
    /\ IsFiniteSet(Node) /\ Proposers \subseteq Node
    /\ Size \in Nat /\ MaxEarly \in Nat /\ MaxTries \in Nat /\ MaxLosses \in Nat
    /\ Timeouts \in BOOLEAN
    /\ None \notin Node

VARIABLES
    node,    \* per node: the future that holds the room's receiver
    wants,   \* the proposers whose request has not reached the room
    net,     \* requests sent and not yet read
    replies, \* outcomes of proposals that their proposer has not yet read
    started, \* history: the peerset of every session that was started
    left,    \* history: <<p, s>> where p returned to phase 1 from joining s
    ran,     \* history: <<p, s>> where p executed s
    refused, \* history: computation messages refused by the node they were for
    losses   \* number of failed requests so far

vars == <<node, wants, net, replies, started, left, ran, refused, losses>>

Others(p) == Node \ {p}

\* try tells the broadcasts of one proposal apart; peers is the peerset of a
\* start message.
Message == [kind : {"propose", "start", "compute"}, from : Node, to : Node,
            session : Proposers, try : 0..MaxTries, peers : SUBSET Node]

\* peers: those who answered the proposal, then the peerset.  waiting: those
\* whose answer to the latest broadcast is due.  got: senders of the
\* computation messages forwarded to the execution.
TypeOK ==
    /\ node \in [Node -> [at : {"phase1", "phase2", "negotiation", "executing"},
                          session : Proposers \cup {None}, peers : SUBSET Node,
                          waiting : SUBSET Node, tries : 0..MaxTries,
                          buffered : SUBSET Message, got : SUBSET Node]]
    /\ wants \subseteq Proposers
    /\ net \subseteq Message
    /\ replies \subseteq [from : Node, to : Proposers, ok : BOOLEAN]
    /\ started \in [Proposers -> SUBSET Node]
    /\ left \subseteq Node \X Proposers
    /\ ran \subseteq Node \X Proposers
    /\ refused \subseteq Message
    /\ losses \in 0..MaxLosses
-------------------------------------------------------------------------------
Phase1 == [at |-> "phase1", session |-> None, peers |-> {}, waiting |-> {},
           tries |-> 0, buffered |-> {}, got |-> {}]

Init ==
    /\ node = [p \in Node |-> Phase1]
    /\ wants = Proposers
    /\ net = {}
    /\ replies = {}
    /\ started = [p \in Proposers |-> {}]
    /\ left = {}
    /\ ran = {}
    /\ refused = {}
    /\ losses = 0

Computations(ms) == {m \in ms : m.kind = "compute"}

\* A request has one outcome, and only a negotiation asks for the outcomes of
\* its latest broadcast.
Outcome(m, ok) ==
    IF /\ m.kind = "propose"
       /\ node[m.from].at = "negotiation"
       /\ m.try = node[m.from].tries
       /\ m.to \in node[m.from].waiting
       /\ \A r \in replies : <<r.from, r.to>> # <<m.to, m.from>>
    THEN {[from |-> m.to, to |-> m.from, ok |-> ok]} ELSE {}

\* The execution's first messages to the other members.
Computing(p, s, peers) ==
    {[kind |-> "compute", from |-> p, to |-> q, session |-> s, try |-> 0, peers |-> {}] :
        q \in peers \ {p}}
-------------------------------------------------------------------------------
(***************************************************************************)
(* The proposer: NegotiationChannel.                                       *)
(***************************************************************************)
\* Phase1Channel::poll with a local request: buffered messages are rejected.
FromLocal(p) ==
    /\ p \in wants
    /\ node[p].at = "phase1"
    /\ wants' = wants \ {p}
    /\ node' = [node EXCEPT ![p] = [Phase1 EXCEPT !.at = "negotiation", !.session = p,
                                                  !.peers = {p}]]
    /\ refused' = refused \cup node[p].buffered
    /\ UNCHANGED <<net, replies, started, left, ran, losses>>

\* The proposal goes to every known peer; again, once every answer to the
\* broadcast before is in and there are not enough peers.  The wait for
\* connections only delays the first broadcast.
Broadcast(p) ==
    /\ node[p].at = "negotiation"
    /\ node[p].waiting = {}
    /\ node[p].tries = 0 \/ Cardinality(node[p].peers) < Size
    /\ node[p].tries < MaxTries
    /\ node' = [node EXCEPT ![p].waiting = Others(p), ![p].tries = @ + 1]
    /\ net' = net \cup {[kind |-> "propose", from |-> p, to |-> q, session |-> p,
                         try |-> node[p].tries + 1, peers |-> {}] : q \in Others(p)}
    /\ UNCHANGED <<wants, replies, started, left, ran, refused, losses>>

\* An answer that does not complete the peerset.
Response(p, r) ==
    LET peers == node[p].peers \cup IF r.ok THEN {r.from} ELSE {}
    IN  /\ r \in replies /\ r.to = p
        /\ ~(r.ok /\ Cardinality(peers) = Size)
        /\ node' = [node EXCEPT ![p].peers = peers, ![p].waiting = @ \ {r.from}]
        /\ replies' = replies \ {r}
        /\ UNCHANGED <<wants, net, started, left, ran, refused, losses>>

\* Variant for mutation: the proposer starts one joiner short.
StartSessionShort(p, r) ==
    LET peers == node[p].peers \cup {r.from}
    IN  /\ r \in replies /\ r.to = p
        /\ r.ok /\ Cardinality(peers) + 1 >= Size
        /\ node' = [node EXCEPT ![p] = [Phase1 EXCEPT !.at = "executing", !.session = p,
                                                      !.peers = peers]]
        /\ net' = net \cup Computing(p, p, peers)
        /\ replies' = {x \in replies : x.to # p}
        /\ started' = [started EXCEPT ![p] = peers]
        /\ ran' = ran \cup {<<p, p>>}
        /\ UNCHANGED <<wants, left, refused, losses>>

\* The answer that completes it: the start message is sent and the execution
\* begins, with the answers still due dropped.
StartSession(p, r) ==
    LET peers == node[p].peers \cup {r.from}
    IN  /\ r \in replies /\ r.to = p
        /\ r.ok /\ Cardinality(peers) = Size
        /\ node' = [node EXCEPT ![p] = [Phase1 EXCEPT !.at = "executing", !.session = p,
                                                      !.peers = peers]]
        /\ net' = net \cup Computing(p, p, peers)
                      \cup {[kind |-> "start", from |-> p, to |-> q, session |-> p,
                             try |-> 0, peers |-> peers] : q \in peers \ {p}}
        /\ replies' = {x \in replies : x.to # p}
        /\ started' = [started EXCEPT ![p] = peers]
        /\ ran' = ran \cup {<<p, p>>}
        /\ UNCHANGED <<wants, left, refused, losses>>

\* "It took too long for peerset to be assembled": back to phase 1.
NegotiationTimeout(p) ==
    /\ Timeouts
    /\ node[p].at = "negotiation"
    /\ node' = [node EXCEPT ![p] = Phase1]
    /\ replies' = {x \in replies : x.to # p}
    /\ UNCHANGED <<wants, net, started, left, ran, refused, losses>>
-------------------------------------------------------------------------------
(***************************************************************************)
(* A node that reads its room.                                             *)
(***************************************************************************)
\* Phase1Channel takes any coordination message for a proposal, answers it
\* and waits for the start; what it has buffered goes along.
Join(p, m) ==
    /\ node[p].at = "phase1"
    /\ m.kind # "compute"
    /\ node' = [node EXCEPT ![p].at = "phase2", ![p].session = m.session]
    /\ net' = net \ {m}
    /\ replies' = replies \cup Outcome(m, TRUE)
    /\ UNCHANGED <<wants, started, left, ran, refused, losses>>

\* What is buffered early: in phase 1 messages of any session, in phase 2 only
\* those of the session that is joined.
Early(p, m) ==
    /\ m.kind = "compute"
    /\ \/ node[p].at = "phase1"
       \/ node[p].at = "phase2" /\ m.session = node[p].session

Buffer(p, m) ==
    /\ Early(p, m)
    /\ Cardinality(node[p].buffered) < MaxEarly
    /\ node' = [node EXCEPT ![p].buffered = @ \cup {m}]
    /\ net' = net \ {m}
    /\ UNCHANGED <<wants, replies, started, left, ran, refused, losses>>

\* Refused are a message of a session other than the one joined or executed,
\* a coordination message during an execution, and what the buffer cannot hold.
Refuse(p, m) ==
    /\ \/ Early(p, m) /\ Cardinality(node[p].buffered) >= MaxEarly
       \/ node[p].at = "phase2" /\ m.session # node[p].session
       \/ /\ node[p].at = "executing"
          /\ \/ m.kind # "compute" \/ m.session # node[p].session
             \/ m.from \notin node[p].peers
    /\ net' = net \ {m}
    /\ replies' = replies \cup Outcome(m, FALSE)
    /\ refused' = refused \cup Computations({m})
    /\ UNCHANGED <<node, wants, started, left, ran, losses>>

\* Variants for mutation: the start message is looked at and left in the
\* queue; the proxy is given an empty buffer.
StartWith(p, m, read, mine) ==
    /\ node[p].at = "phase2"
    /\ m.kind = "start" /\ m.session = node[p].session
    /\ node' = [node EXCEPT ![p] = [Phase1 EXCEPT
                    !.at = "executing", !.session = m.session, !.peers = m.peers,
                    !.got = {c.from : c \in mine}]]
    /\ net' = (net \ read) \cup Computing(p, m.session, m.peers)
    /\ ran' = ran \cup {<<p, m.session>>}
    /\ refused' = refused \cup (node[p].buffered \ mine)
    /\ UNCHANGED <<wants, replies, started, left, losses>>
StartPeeked(p, m) == StartWith(p, m, {}, node[p].buffered)
StartForgets(p, m) == StartWith(p, m, {m}, {})

\* The start message: what was buffered goes through forward_or_reject.
Start(p, m) ==
    LET mine == {c \in node[p].buffered : c.session = m.session /\ c.from \in m.peers}
    IN  /\ node[p].at = "phase2"
        /\ m.kind = "start" /\ m.session = node[p].session
        /\ node' = [node EXCEPT ![p] = [Phase1 EXCEPT
                        !.at = "executing", !.session = m.session, !.peers = m.peers,
                        !.got = {c.from : c \in mine}]]
        /\ net' = (net \ {m}) \cup Computing(p, m.session, m.peers)
        /\ ran' = ran \cup {<<p, m.session>>}
        /\ refused' = refused \cup (node[p].buffered \ mine)
        /\ UNCHANGED <<wants, replies, started, left, losses>>

\* Variant for mutation: the session is looked up after the reset.
LeaveReset(p) ==
    /\ node' = [node EXCEPT ![p] = Phase1]
    /\ left' = left \cup {<<p, node'[p].session>>}
    /\ refused' = refused \cup node[p].buffered

\* The joiner is back in phase 1, what it has buffered is rejected.
Leave(p) ==
    /\ node' = [node EXCEPT ![p] = Phase1]
    /\ left' = left \cup {<<p, node[p].session>>}
    /\ refused' = refused \cup node[p].buffered

\* A coordination message of the session that is no start message (the
\* proposal, broadcast again): StartMsg::from_bytes fails.
StartUnreadable(p, m) ==
    /\ node[p].at = "phase2"
    /\ m.kind = "propose" /\ m.session = node[p].session
    /\ Leave(p)
    /\ net' = net \ {m}
    /\ replies' = replies \cup Outcome(m, FALSE)
    /\ UNCHANGED <<wants, started, ran, losses>>

\* Variant for mutation: the timer is not armed until something is buffered.
JoinTimeoutIdle(p) ==
    /\ Timeouts
    /\ node[p].at = "phase2"
    /\ node[p].buffered # {}
    /\ Leave(p)
    /\ UNCHANGED <<wants, net, replies, started, ran, losses>>

JoinTimeout(p) ==
    /\ Timeouts
    /\ node[p].at = "phase2"
    /\ Leave(p)
    /\ UNCHANGED <<wants, net, replies, started, ran, losses>>

\* ReceiverProxy forwards a computation message of the session.
Forward(p, m) ==
    /\ node[p].at = "executing"
    /\ m.kind = "compute" /\ m.session = node[p].session /\ m.from \in node[p].peers
    /\ node' = [node EXCEPT ![p].got = @ \cup {m.from}]
    /\ net' = net \ {m}
    /\ UNCHANGED <<wants, replies, started, left, ran, refused, losses>>

\* The execution has heard every member, and the proxy gives the room back.
Finish(p) ==
    /\ node[p].at = "executing"
    /\ node[p].got = node[p].peers \ {p}
    /\ node' = [node EXCEPT ![p] = Phase1]
    /\ UNCHANGED <<wants, net, replies, started, left, ran, refused, losses>>
-------------------------------------------------------------------------------
\* A request fails (no route, connection closed), before the receiver gets it
\* or after.
Lose(m) ==
    /\ losses < MaxLosses
    /\ losses' = losses + 1
    /\ net' \in {net, net \ {m}}
    /\ replies' = replies \cup Outcome(m, FALSE)
    /\ UNCHANGED <<node, wants, started, left, ran, refused>>

Propose(p) == \/ FromLocal(p) \/ Broadcast(p) \/ NegotiationTimeout(p)
              \/ \E r \in replies : Response(p, r) \/ StartSession(p, r)

Read(p, m) == Join(p, m) \/ Buffer(p, m) \/ Refuse(p, m) \/ Start(p, m)
              \/ StartUnreadable(p, m) \/ Forward(p, m)

NodeStep(p) == \/ Propose(p) \/ JoinTimeout(p) \/ Finish(p)
               \/ \E m \in net : m.to = p /\ Read(p, m)

Next == (\E p \in Node : NodeStep(p)) \/ (\E m \in net : Lose(m))

Spec == Init /\ [][Next]_vars

\* Every node's worker is polled, requests that are not lost arrive and timers
\* fire.
FairSpec == Spec /\ WF_vars(\E p \in Node : NodeStep(p))
-------------------------------------------------------------------------------
(***************************************************************************)
(* Properties.                                                             *)
(***************************************************************************)
\* README.md:41, "she broadcasts a start message specifying chosen parties":
\* every node that executes a session has the peerset its proposer chose, is
\* in it, and the peerset has the n members that the request asked for.
PeersetAgreed ==
    \A p \in Node : node[p].at = "executing" =>
        /\ node[p].peers = started[node[p].session]
        /\ p \in node[p].peers
        /\ Cardinality(node[p].peers) = Size

\* Proposals broadcast again, late start messages and start messages taken for
\* proposals never make a node execute a session a second time.
RunsOnce ==
    [][\A p \in Node : node[p].at # "executing" /\ node'[p].at = "executing"
           => <<p, node'[p].session>> \notin ran]_vars

\* coordination.rs, early_computation_is_buffered_until_execution_receiver_exists:
\* no computation message of a session is refused by a node that executes the
\* session later, however early it comes.
EarlyKept ==
    \A m \in refused : <<m.to, m.session>> \notin ran

\* With no fault and no timer every node of the room runs the session and is
\* back in phase 1.
AllFinish ==
    <>[](\A p \in Node : node[p].at = "phase1" /\ \A s \in Proposers : <<p, s>> \in ran)

\* Proposers that wait for each other, and joiners of a session that never
\* starts, all come to an end: in the end every node is free or executes.
Settles == <>[](\A p \in Node : node[p].at \in {"phase1", "executing"})

\* coordination.rs:216, "Remote peer gone offline or refused taking in us in
\* set - returning to Phase 1": a joiner that the proposer takes into the set
\* has not returned to phase 1.
TakenStay ==
    \A s \in Proposers : \A p \in started[s] : <<p, s>> \notin left
===============================================================================
