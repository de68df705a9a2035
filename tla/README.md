# TLA+ models of the FROST MPC node

These modules model the part of the repository where concurrency and partial
failure decide correctness: the runtime that starts and ends MPC sessions, the
coordination of a session between nodes, the session itself with its echo
broadcast, and the request-response behaviour that carries all of it.  TLC
checks small instances; TLAPS proves the central invariants for all of them.
Cryptography, files, formatting and logging are abstracted away.

## 1. Inventory of the system

A node runs three kinds of tasks: the JSON-RPC server, the network worker
(libp2p swarm) and the runtime worker.  A *room* is a request-response protocol
name over which one session at a time is meant to run.

| Part | State | Operations | Hard behaviour |
|---|---|---|---|
| Runtime worker (`service/src/worker.rs`) | channels of idle rooms, `rooms_rpc`, `busy_rooms`, `pending_local`, `pending_room_restores`, executions, proxies | the `select!` branches; `dispatch_*` | the end of an execution and the proxy's hand-back come in either order; two futures are awaited inside a branch |
| Coordination (`coordination.rs`) | the future holding a room's receiver, buffered early messages, timer | join, buffer, start, abort, time out | local request against remote proposal; messages that overtake the start message |
| Negotiation (`negotiation.rs`) | joiners, answers due, timers | broadcast, retry, collect, start, time out | a proposal is repeated to peers that have joined; two proposers |
| Receiver proxy (`network_proxy.rs`) | receiver, peerset, early messages | forward, refuse, hand back | bounded channel to the execution |
| Execution (`execution.rs`) | buffered messages by round, outgoing queue, two bounded channels, the caller's sender | one `poll` | reordered rounds, the quiet period, `expect`s on both channels |
| Echo (`echo.rs`) | messages by round, acknowledgements, channel | collect, acknowledge, verify, fail | everyone waits for everyone's acknowledgement |
| Agents (`tss/src/keygen.rs`, `keysign.rs`) | round, packages | two rounds | early round 2 packages; an agent that fails |
| Request-response (`network/src/request_responses.rs`) | pending requests, pending responses, arrival times, feedback senders | send, `poll` | late responses against forced timeouts; fallbacks local to one pass of `poll` |
| Network worker, discovery (`network/src/service.rs`, `behaviour.rs`, `discovery.rs`) | connections, addresses | swarm events | several connections to a peer |
| Peerset, storage, wallet, RPC, command line | no concurrency of their own | conversions and I/O | numeric edges, codecs |

What the system should guarantee: one session per room; every caller answered;
a room always returns to use; members of a session agree on the peerset; a
verified broadcast round is the same everywhere; no table of requests leaks or
answers twice; sessions without faults end.

## 2. Modules

| Module | Models | An action is |
|---|---|---|
| `Worker` | the runtime worker of one node | one pass through `select!`, or one result of a future awaited inside it |
| `Coordination` | all nodes of a room: phases 1 and 2, negotiation, proxy | one read, answer, broadcast or timer of one node |
| `Session` | all parties of one session: agent, execution, echo gadget | one `ProtocolExecution::poll`, or one step of the gadget |
| `ReliableBroadcast` | what the echo promises | broadcast, collect, verify |
| `RequestResponses` | the tables of one node's request-response behaviour | one step of `poll`, a `send_request`, a step of a room |
| `WorkerProofs`, `ReliableBroadcastProofs`, `RequestResponsesProofs` | theorems | |
| `MC*` | constants for TLC | |

`PROJECT.json` maps each definition to its source lines.  Names follow the
code.

**Worker.**  `chans` is `rooms_coordination`; a channel record says which
receiver it reads and what became of its oneshot sender.  `awaiting` is the
`Phase2Channel` or `NegotiationChannel` that a branch awaits: while it is not
empty no other branch runs.  `deaf` records rooms that `dispatch_to_room` gave
a virtual channel (worker.rs:376-385), whose sender is dropped at once so that
its session hears nobody.  `alive` is FALSE after a panic: channels and
executions are polled by the worker task itself, so the `unwrap` of
coordination.rs:88 (`Phase1Panic`) and the `expect`s of execution.rs:218, 391,
399 and 429 (`ExecutionPanic`) end the worker, the sessions of all its rooms
and every answer still due, not one session only.  `ExecutionPanic` is possible
whenever a session with peers runs; `Session` shows what leads to it.
`outcome` is what an RPC caller has seen, the ways to drop its sender included.

**Coordination.**  `node[p].at` names the future that holds the room's
receiver.  A session id is a UUID made by the proposer, here the proposer.  A
request and its response are one message and one reply; `Lose` makes a request
fail.  The wait for connections before the first broadcast is left out: it only
delays.

**Session.**  A poll reads one outgoing message, one incoming one, forwards
complete rounds, then polls the agent, in this order and in one action,
including the panics of the two `expect`s (`exec.st` becomes `"echo"` or
`"app"`).  Payloads are members of `Values`; the hash of a round is the vector
it is taken of.  echo.rs:143 hashes the payloads one after the other without
their lengths, and these vary: a package is a CBOR array of integers
(keygen.rs:212, keysign.rs:234).  What tells two vectors apart is that CBOR is
self-delimiting.  `Refuse` ends a request that comes after the execution has
dropped its receiver.  In the code the proxy refuses or drops it, or the room's
next `Phase1Channel` buffers it (coordination.rs:77-79) and it is refused, or
times out, later; the sender sees the same failure.  `Splitters` are parties whose copies of a broadcast differ,
`Unfit` parties whose agent fails at once, `Fifo` says whether requests between
two parties keep their order.  The refinement mapping to `ReliableBroadcast`
takes `view` and `verified` from the gadgets.

**RequestResponses.**  Request ids are `<<c, 1>>` for a call and `<<c, 2>>` for
its fallback.  `fallbacks` is the local variable of `poll`: every event that
makes `poll` return or start again before line 1184 drops what it holds.
Refusal by reputation is left out, since the peer store always answers 0.
libp2p itself is external: a request ends in at most one event, perhaps in none.

## 3. Runs

| Run | Shows | Instance |
|---|---|---|
| `worker_rooms` | `BusyIffOwned`, `ReceiverKept`, `NoStrandedRequest`, `RequestConserved`, `RoomPhases`, `RequestResolved` | two rooms, two requests for one and one for the other, two remote proposals |
| `coordination_race` | `PeersetAgreed`, `RunsOnce`, `Settles` | three nodes, two proposers, two broadcasts each, timers, one failed request |
| `coordination_one` | `EarlyKept`, `AllFinish` | four nodes, one proposer, no timer |
| `session_keygen` | `EchoChannelOpen`, `AppChannelOpen`, `AllEnd` | three parties, reordering |
| `session_keysign` | `BroadcastReliable`, `EchoDrainsDry` | three parties, two broadcast rounds, reordering, one lost or late request |
| `session_split` | `EchoAgreement`, `BroadcastReliable` | three parties, one of which splits its broadcast |
| `request_responses` | `SenderHeld`, `ArrivalRecorded`, `FeedbackAwaited`, `CallsAnswered` | two calls, one with a fallback; two received requests, a queue of one |

Five runs end in a counterexample: the code does not do what a line of the
repository says.

| Run | Counterexample |
|---|---|
| `worker_single_session` | README.md:117 says "one active MPC session at a time".  A session has ended and its proxy has not handed the receiver back: a request gets a virtual channel.  Nothing overlaps yet.  The virtual session fails, the room's own channel is put back, and then the virtual session's proxy hands back its channel as well: `rooms_rpc.insert` (worker.rs:266) replaces the sender of the room's channel, and both channels are polled.  A third request goes into the virtual channel; the room's channel, whose sender is gone, reads a proposal before it looks at its oneshot.  The proposal's session runs while the request is negotiated |
| `coordination_retry` | a proposal broadcast again reaches a peer that has joined, which takes it for an unreadable start message and leaves; the proposer still starts the session with it (coordination.rs:173).  The one reason the code gives for leaving, that the proposer is offline or has refused the joiner, is the comment at coordination.rs:216 above the timer |
| `session_echo_full` | signing among three: the gadget is idle and `select!` polls the execution twice before it.  The first poll forwards the n - 1 messages of round 0; the second sends the own message of round 1 and forwards the n - 1 others.  These are 2n - 1 = 5 messages for n + 1 = 4 places, and the `expect` of execution.rs:391 panics.  (A gadget that awaits acknowledgements is not the cause: at most the n messages of round 1 queue up meanwhile, and they fit) |
| `session_unfit` | an agent that fails at once closes its channel, and a broadcast that arrives in the quiet period panics at execution.rs:399 |
| `session_report` | after an echo failure the caller's sender is dropped, while echo.rs:62-63 says the error response will be sent |

The models show more that has no run of its own:

- in the window of `worker_single_session` a request may also be refused with
  "sender is canceled" (worker.rs:389); and when the room's channel has no
  proposal to read after its sender was replaced, the `unwrap` of
  coordination.rs:88 panics (`Phase1Panic`);
- a remote proposal read before the oneshot drops the request already sent into
  it (coordination.rs:55; outcome `"dropped_by_proposal"`);
- signing with reordered requests (`Fifo = FALSE` in the instance of
  `session_echo_full`): when the last message of round 0 comes after those of
  round 1, one poll forwards two batches of n - 1 into the agent's channel of
  n - 1, and the `expect` of execution.rs:399 panics;
- the caller is given its result before the echo has verified the rounds
  (execution.rs:297; `ExecutionComplete`);
- a call with a fallback request may be dropped unanswered (`Dropping`); no
  caller in the crate passes a fallback today.

### Bounds

Two rooms and two proposals reach every meeting of a local request, a remote
proposal, a session's end and a hand-back; a third request waits in the queue
meanwhile.  Three nodes are the fewest where two proposers compete for a third,
and three parties the fewest where two receivers can be told different things
and one acknowledgement is not all of them.  `MaxTries = 2` is the first retry;
one fault is a lost request or a timeout at any moment.  A queue of one is full
with the second request.  `MaxEarly` is what a session can send early (in
`coordination_one`) or one less (in `coordination_race`).  Deadlock is not
checked: with their finite inputs used up all these systems rightly stop; where
they must not stop too soon a liveness property says so.

### Fairness

Weak fairness is on one progress action per module: what a node does by
itself.  In `Worker` these are ready branches and the two awaited futures, both
of which have timers; a new request, a proposal and the end of an execution are
not owed, and `RequestResolved` excuses an execution that never ends, because
the code has no timeout there.  In `Coordination` and `Session` tasks are
polled, timers fire and requests that are not lost arrive; `AllFinish` and
`AllEnd` are checked without losses, since execution.rs waits for a batch
without a timer.  In `RequestResponses` time passes and `poll` is called, but no
libp2p event is owed: `CallsAnswered` rests on the periodic check alone.

## 4. Proofs

**Worker** (`WorkerProofs`): for any rooms, requests and number of proposals.
`TypeCorrect` is inductive by itself.  `BusyIffOwned`, `ReceiverKept` and
`NoStrandedRequest` are not: that the room is released once needs the place of
its receiver, which needs its sender and its parked channel.  `RoomPhases` is
the strengthening.  Every room that never had a virtual channel is idle,
requested, coordinating, executing, parked or handing back, each with exact
contents of all tables, and at most one future is awaited.  `PhaseStep` proves
that every action keeps it, with one lemma for the room acted on per kind of
object and one (`UntouchedPhase`) for all other rooms.  `BusyExact`,
`ReceiverNeverLost` and `NothingStranded` follow from it.  Assumption:
`WorkerAssumption` (types of the constants).

**ReliableBroadcast** (`ReliableBroadcastProofs`): `EchoConsistent`.  Once a
round is verified anywhere, every copy of every message in it carries the
payload of the verified vector.  The invariant adds that a sender sends once per
round, and that views hold what was sent.  With the refinement, which TLC
checks, this is the claim of README.md:44.  No assumption.

**RequestResponses** (`RequestResponsesProofs`): for any calls, fallbacks,
received requests and queue size.  `SenderNeverLost` needs that a call's first
request, its fallback and its place in `fallback_requests` exclude each other
(`OnePlace`), and that only pending requests grow old.  `ArrivalKnown` shows
that the `expect` of request_responses.rs:1157 cannot fail, given libp2p's one
outcome per substream; `FeedbackBounded` that `send_feedback` does not leak.

Only model-checked: all liveness properties and the refinement of
`ReliableBroadcast` by `Session` (liveness under fairness is out of the
prover's reach); all of `Coordination`; `RequestConserved`.

## 5. Not modelled

- cryptography, key share files, wallet paths, RPC conversions, command line;
- byte codecs (`StartMsg`, `Peerset`, `GenericCodec`) and the mapping from
  session indexes to FROST identifiers;
- the network worker's connections, Kademlia and mDNS;
- overflow of the proxy's channel to the execution;
- `PeersetMsg`, which only updates the stored peerset cache.

## 6. Plan

1. *Done:* `Worker` with its proofs, `Coordination`, `Session` with
   `ReliableBroadcast`, `RequestResponses` with its proofs.
2. Composition of `Coordination` and `Session` through the proxy: its bounded
   channel, the number of early messages of a real session, a party that
   returns to phase 1 while the others compute.
3. Pure operators checked against references: the peerset (`index_of`, codec),
   the codec of `StartMsg` at its buffer limit, the identifier mapping of
   signing, threshold checks with 16-bit arithmetic, wallet ids, percentiles.
4. `NetworkWorker`: several connections to a peer, requests queued to the
   swarm; the parts of discovery with state of their own.
5. Proofs: `PeersetAgreed` and `RunsOnce` for any nodes; `EchoAgreement` and
   the safety part of the refinement for any parties; `RequestConserved`.
