-------------------------------- MODULE Worker --------------------------------
(***************************************************************************)
(* The runtime worker of one node (client/service/src/worker.rs): one task *)
(* that owns the rooms, hands local RPC requests to them, answers remote   *)
(* proposals and runs at most one MPC session per room.                    *)
(*                                                                         *)
(* Every action is one pass through the select! loop of Worker::run, or    *)
(* one outcome of the future that the pass awaits inline.  The futures     *)
(* themselves (Phase2Channel, NegotiationChannel, ProtocolExecution) are   *)
(* seen only through what they return; Coordination and Session open them  *)
(* up.                                                                     *)
(***************************************************************************)
EXTENDS Integers, Sequences, FiniteSets

CONSTANTS
    Rooms,        \* the rooms the node was configured with
    Requests,     \* the local RPC requests (keygen, sign) that may arrive
    RoomOf,       \* service_msg_room_id: the room a request is for
    MaxProposals, \* bound: proposals of remote peers
    Nobody        \* no local request (a session a remote peer proposed)

ASSUME WorkerAssumption ==
    /\ RoomOf \in [Requests -> Rooms]
    /\ MaxProposals \in Nat
    /\ Nobody \notin Requests

VARIABLES
    chans,         \* rooms_coordination: the Phase1Channels being polled
    rooms_rpc,     \* per room: the sender of the channel's oneshot, if any
    busy,          \* busy_rooms
    pending_local, \* pending_local: per room, the queued requests
    restores,      \* pending_room_restores: the parked channel of a room
    awaiting,      \* the future awaited inline by a handler: none or one
    execs,         \* protocol_executions
    proxies,       \* network_proxies
    received,      \* the requests taken from from_service
    outcome,       \* what the RPC caller's oneshot has seen
    sessions,      \* number of sessions started
    proposals,     \* number of proposals taken from the network
    deaf,          \* history: rooms given a virtual channel
    alive          \* FALSE once the worker task has panicked

vars == <<chans, rooms_rpc, busy, pending_local, restores, awaiting, execs,
          proxies, received, outcome, sessions, proposals, deaf, alive>>

\* The receiver a channel reads: the room's own, or the virtual one that
\* dispatch_to_room makes, whose sender is dropped at once.
Receivers == {"room", "virtual"}

\* A Phase1Channel.  tx: its oneshot sender is "held" in rooms_rpc (or parked
\* next to the channel), was "sent" on, or is "gone" without having been used.
Phase1 == [room : Rooms, rx : Receivers, tx : {"held", "sent", "gone"},
           req : Requests \cup {Nobody}]

\* A Phase2Channel or a NegotiationChannel awaited inside a select! branch.
Awaited == [at : {"phase2", "negotiation"}, room : Rooms, rx : Receivers,
            req : Requests \cup {Nobody}]

\* A wrapped ProtocolExecution: computing, or computed and awaiting its echo.
Execution == [session : Nat, room : Rooms, rx : Receivers,
              req : Requests \cup {Nobody}, st : {"running", "echo"}]

\* A ReceiverProxy.
Proxy == [session : Nat, room : Rooms, rx : Receivers]

\* "ok" and "err" are answers of a session, "sender_canceled" is the error of
\* dispatch_to_room; the others are ways to drop the caller's sender unused.
Outcomes == {"none", "ok", "err", "sender_canceled",
             "dropped_by_proposal", "dropped_by_echo", "dropped_by_panic"}

TypeOK ==
    /\ chans \in SUBSET Phase1
    /\ rooms_rpc \in [Rooms -> {"none", "live", "stale"}]
    /\ busy \in SUBSET Rooms
    /\ pending_local \in [Rooms -> Seq(Requests)]
    /\ restores \in [Rooms -> Receivers \cup {"none"}]
    /\ awaiting \in SUBSET Awaited
    /\ execs \in SUBSET Execution
    /\ proxies \in SUBSET Proxy
    /\ received \in SUBSET Requests
    /\ outcome \in [Requests -> Outcomes]
    /\ sessions \in Nat
    /\ proposals \in Nat
    /\ deaf \in SUBSET Rooms
    /\ alive \in BOOLEAN
-------------------------------------------------------------------------------
NewPhase1(R, rx) == [room |-> R, rx |-> rx, tx |-> "held", req |-> Nobody]

Init ==
    /\ chans = {NewPhase1(R, "room") : R \in Rooms}
    /\ rooms_rpc = [R \in Rooms |-> "live"]
    /\ busy = {}
    /\ pending_local = [R \in Rooms |-> <<>>]
    /\ restores = [R \in Rooms |-> "none"]
    /\ awaiting = {}
    /\ execs = {}
    /\ proxies = {}
    /\ received = {}
    /\ outcome = [r \in Requests |-> "none"]
    /\ sessions = 0
    /\ proposals = 0
    /\ deaf = {}
    /\ alive = TRUE

\* The worker is back in select!.
Selecting == alive /\ awaiting = {}

Answer(r, o) ==
    outcome' = IF r = Nobody THEN outcome ELSE [outcome EXCEPT ![r] = o]

\* rooms_rpc.insert drops the sender it replaces.
Orphaned(c, R) == IF c.room = R /\ c.tx = "held"
                  THEN [c EXCEPT !.tx = "gone"] ELSE c

\* Variant for mutation: dispatch_pending_local is not called.
RestoreRoomNoDispatch(R, rx, others) ==
    /\ chans' = {Orphaned(c, R) : c \in others} \cup {NewPhase1(R, rx)}
    /\ rooms_rpc' = [rooms_rpc EXCEPT ![R] = "live"]
    /\ busy' = busy \ {R}
    /\ UNCHANGED pending_local

(***************************************************************************)
(* A room's receiver goes back to a fresh Phase1Channel:                   *)
(* rooms_coordination.push, rooms_rpc.insert, busy_rooms.remove and        *)
(* dispatch_pending_local, which sends the head of the room's queue, if    *)
(* there is one, straight into the new channel.                            *)
(***************************************************************************)
RestoreRoom(R, rx, others) ==
    LET kept == {Orphaned(c, R) : c \in others}
    IN  \/ /\ pending_local[R] = <<>>
           /\ chans' = kept \cup {NewPhase1(R, rx)}
           /\ rooms_rpc' = [rooms_rpc EXCEPT ![R] = "live"]
           /\ busy' = busy \ {R}
           /\ UNCHANGED pending_local
        \/ /\ pending_local[R] # <<>>
           /\ chans' = kept \cup {[NewPhase1(R, rx) EXCEPT
                                     !.tx = "sent", !.req = Head(pending_local[R])]}
           /\ rooms_rpc' = [rooms_rpc EXCEPT ![R] = "none"]
           /\ busy' = busy \cup {R}
           /\ pending_local' = [pending_local EXCEPT ![R] = Tail(@)]
-------------------------------------------------------------------------------
(***************************************************************************)
(* select! branch from_service.                                            *)
(***************************************************************************)
QueueLocal(r) ==
    /\ Selecting
    /\ r \notin received
    /\ RoomOf[r] \in busy
    /\ received' = received \cup {r}
    /\ pending_local' = [pending_local EXCEPT ![RoomOf[r]] = Append(@, r)]
    /\ UNCHANGED <<chans, rooms_rpc, busy, restores, awaiting, execs, proxies,
                   outcome, sessions, proposals, deaf, alive>>

\* dispatch_to_room on a room whose sender is in rooms_rpc and in use.
DispatchLocal(r) ==
    /\ Selecting
    /\ r \notin received
    /\ RoomOf[r] \notin busy
    /\ rooms_rpc[RoomOf[r]] = "live"
    /\ received' = received \cup {r}
    /\ chans' = {IF c.room = RoomOf[r] /\ c.tx = "held"
                 THEN [c EXCEPT !.tx = "sent", !.req = r] ELSE c : c \in chans}
    /\ rooms_rpc' = [rooms_rpc EXCEPT ![RoomOf[r]] = "none"]
    /\ busy' = busy \cup {RoomOf[r]}
    /\ UNCHANGED <<pending_local, restores, awaiting, execs, proxies, outcome,
                   sessions, proposals, deaf, alive>>

\* dispatch_to_room on a room with no sender: a channel on a virtual receiver
\* is made and takes the request.
DispatchVirtual(r) ==
    /\ Selecting
    /\ r \notin received
    /\ RoomOf[r] \notin busy
    /\ rooms_rpc[RoomOf[r]] = "none"
    /\ received' = received \cup {r}
    /\ chans' = chans \cup {[room |-> RoomOf[r], rx |-> "virtual",
                             tx |-> "sent", req |-> r]}
    /\ busy' = busy \cup {RoomOf[r]}
    /\ deaf' = deaf \cup {RoomOf[r]}
    /\ UNCHANGED <<rooms_rpc, pending_local, restores, awaiting, execs,
                   proxies, outcome, sessions, proposals, alive>>

\* Variant for mutation: the refused request gets an answer of no known kind.
DispatchCanceledUntyped(r) ==
    /\ Selecting
    /\ r \notin received
    /\ RoomOf[r] \notin busy
    /\ rooms_rpc[RoomOf[r]] = "stale"
    /\ received' = received \cup {r}
    /\ Answer(r, rooms_rpc[RoomOf[r]])
    /\ UNCHANGED <<chans, rooms_rpc, busy, pending_local, restores, awaiting, execs,
                   proxies, sessions, proposals, deaf, alive>>

\* dispatch_to_room on a room whose sender is left over from a channel that a
\* remote proposal consumed: "sender is canceled".
DispatchCanceled(r) ==
    /\ Selecting
    /\ r \notin received
    /\ RoomOf[r] \notin busy
    /\ rooms_rpc[RoomOf[r]] = "stale"
    /\ received' = received \cup {r}
    /\ rooms_rpc' = [rooms_rpc EXCEPT ![RoomOf[r]] = "none"]
    /\ Answer(r, "sender_canceled")
    /\ UNCHANGED <<chans, busy, pending_local, restores, awaiting, execs,
                   proxies, sessions, proposals, deaf, alive>>
-------------------------------------------------------------------------------
(***************************************************************************)
(* select! branch rooms_coordination, a channel that received a proposal.  *)
(* Phase1Channel::poll looks at the room before it looks at its oneshot,   *)
(* and the oneshot is dropped with the channel: a request already sent     *)
(* into it is lost, a sender still in rooms_rpc becomes stale.             *)
(***************************************************************************)
RemoteProposal(c) ==
    /\ Selecting
    /\ c \in chans
    /\ c.rx = "room"
    /\ proposals < MaxProposals
    /\ proposals' = proposals + 1
    /\ Answer(c.req, "dropped_by_proposal")

\* Variant for mutation: the room is not marked busy before channel.await.
FromRemoteNotBusy(c) ==
    /\ RemoteProposal(c)
    /\ chans' = chans \ {c}
    /\ rooms_rpc' = [rooms_rpc EXCEPT ![c.room] = IF c.tx = "held" THEN "stale" ELSE @]
    /\ awaiting' = {[at |-> "phase2", room |-> c.room, rx |-> c.rx, req |-> Nobody]}
    /\ UNCHANGED <<busy, pending_local, restores, execs, proxies, received, sessions,
                   deaf, alive>>

FromRemote(c) ==
    /\ RemoteProposal(c)
    /\ chans' = chans \ {c}
    /\ rooms_rpc' = [rooms_rpc EXCEPT ![c.room] = IF c.tx = "held" THEN "stale" ELSE @]
    /\ busy' = busy \cup {c.room}
    /\ awaiting' = {[at |-> "phase2", room |-> c.room, rx |-> c.rx, req |-> Nobody]}
    /\ UNCHANGED <<pending_local, restores, execs, proxies, received, sessions,
                   deaf, alive>>

\* The factory does not know the proposal's protocol: the channel is aborted.
FromRemoteUnknown(c) ==
    /\ RemoteProposal(c)
    /\ RestoreRoom(c.room, c.rx, chans \ {c})
    /\ UNCHANGED <<restores, awaiting, execs, proxies, received, sessions,
                   deaf, alive>>

\* A channel with no proposal to read finds a request in its oneshot.
FromLocal(c) ==
    /\ Selecting
    /\ c \in chans
    /\ c.tx = "sent"
    /\ chans' = chans \ {c}
    /\ awaiting' = {[at |-> "negotiation", room |-> c.room, rx |-> c.rx, req |-> c.req]}
    /\ UNCHANGED <<rooms_rpc, busy, pending_local, restores, execs, proxies,
                   received, outcome, sessions, proposals, deaf, alive>>

\* Channels, executions and proxies are polled by the worker task itself, so a
\* panic in one of them ends the worker, with the sessions of all rooms and
\* every answer that is still due.
WorkerPanics ==
    /\ alive' = FALSE
    /\ outcome' = [r \in Requests |-> IF r \in received /\ outcome[r] = "none"
                                      THEN "dropped_by_panic" ELSE outcome[r]]
    /\ UNCHANGED <<chans, rooms_rpc, busy, pending_local, restores, awaiting,
                   execs, proxies, received, sessions, proposals, deaf>>

\* A channel with no proposal to read finds its sender dropped: the unwrap in
\* Phase1Channel::poll panics.
Phase1Panic(c) ==
    /\ Selecting
    /\ c \in chans
    /\ c.tx = "gone"
    /\ WorkerPanics
-------------------------------------------------------------------------------
(***************************************************************************)
(* The awaited future returns Start or Abort.                              *)
(***************************************************************************)
Start(w) ==
    /\ alive
    /\ w \in awaiting
    /\ awaiting' = {}
    /\ busy' = busy \cup {w.room}
    /\ sessions' = sessions + 1
    /\ proxies' = proxies \cup {[session |-> sessions, room |-> w.room, rx |-> w.rx]}
    /\ execs' = execs \cup {[session |-> sessions, room |-> w.room, rx |-> w.rx,
                             req |-> w.req, st |-> "running"]}
    /\ UNCHANGED <<chans, rooms_rpc, pending_local, restores, received,
                   outcome, proposals, deaf, alive>>

\* Variant for mutation: the caller's sender is dropped without an answer.
AbortUnanswered(w) ==
    /\ alive
    /\ w \in awaiting
    /\ awaiting' = {}
    /\ RestoreRoom(w.room, w.rx, chans)
    /\ UNCHANGED <<restores, execs, proxies, received, outcome, sessions, proposals,
                   deaf, alive>>

Abort(w) ==
    /\ alive
    /\ w \in awaiting
    /\ awaiting' = {}
    /\ Answer(w.req, "err")
    /\ RestoreRoom(w.room, w.rx, chans)
    /\ UNCHANGED <<restores, execs, proxies, received, sessions, proposals,
                   deaf, alive>>
-------------------------------------------------------------------------------
(***************************************************************************)
(* select! branch protocol_executions.                                     *)
(***************************************************************************)
\* Polling an execution completes its computation: the RPC caller is answered
\* and from_network is dropped, while the echo is still awaited.  A session on
\* a virtual receiver never hears its peers and never completes.
ExecutionComputed(e) ==
    /\ Selecting
    /\ e \in execs
    /\ e.st = "running"
    /\ e.rx = "room"
    /\ execs' = (execs \ {e}) \cup {[e EXCEPT !.st = "echo"]}
    /\ Answer(e.req, "ok")
    /\ UNCHANGED <<chans, rooms_rpc, busy, pending_local, restores, awaiting,
                   proxies, received, sessions, proposals, deaf, alive>>

\* Variant for mutation: busy_rooms.remove is missing when nothing is parked.
RoomReleasedStillBusy(e) ==
    /\ Selecting
    /\ e \in execs
    /\ execs' = execs \ {e}
    /\ \/ /\ restores[e.room] # "none"
          /\ RestoreRoom(e.room, restores[e.room], chans)
          /\ restores' = [restores EXCEPT ![e.room] = "none"]
       \/ /\ restores[e.room] = "none"
          /\ UNCHANGED <<chans, rooms_rpc, busy, pending_local, restores>>
    /\ UNCHANGED <<awaiting, proxies, received, sessions, proposals, deaf, alive>>

\* The execution returns and the room is free; its channel is put back if the
\* proxy has already delivered it.
RoomReleased(e) ==
    /\ Selecting
    /\ e \in execs
    /\ execs' = execs \ {e}
    /\ \/ /\ restores[e.room] # "none"
          /\ RestoreRoom(e.room, restores[e.room], chans)
          /\ restores' = [restores EXCEPT ![e.room] = "none"]
       \/ /\ restores[e.room] = "none"
          /\ busy' = busy \ {e.room}
          /\ UNCHANGED <<chans, rooms_rpc, pending_local, restores>>
    /\ UNCHANGED <<awaiting, proxies, received, sessions, proposals, deaf, alive>>

\* After a computation: the echo ended, well or badly.
ExecutionEnded(e) ==
    /\ e.st = "echo"
    /\ RoomReleased(e)
    /\ UNCHANGED outcome

\* The computation failed; the caller was sent the error.
ExecutionFailed(e) ==
    /\ e.st = "running"
    /\ RoomReleased(e)
    /\ Answer(e.req, "err")

\* The echo failed under a running computation, which is dropped together
\* with the sender of the answer.
EchoFailed(e) ==
    /\ e.st = "running"
    /\ e.rx = "room"
    /\ RoomReleased(e)
    /\ Answer(e.req, "dropped_by_echo")

\* A try_send of ProtocolExecution::poll finds the echo channel full, or the
\* agent's channel full or closed, and its expect panics.  Session shows when
\* this happens; it takes messages of the peers.
ExecutionPanic(e) ==
    /\ Selecting
    /\ e \in execs
    /\ e.st = "running"
    /\ e.rx = "room"
    /\ WorkerPanics
-------------------------------------------------------------------------------
(***************************************************************************)
(* select! branch network_proxies: a proxy whose execution dropped its end *)
(* gives the room's receiver back.                                         *)
(***************************************************************************)
ProxyClosed(p) ==
    \A e \in execs : e.session = p.session => e.st = "echo"

\* Variant for mutation: the receiver of a busy room is dropped, not parked.
ProxyDropped(p) ==
    /\ Selecting
    /\ p \in proxies
    /\ ProxyClosed(p)
    /\ p.room \in busy
    /\ proxies' = proxies \ {p}
    /\ UNCHANGED <<chans, rooms_rpc, busy, pending_local, restores, awaiting, execs,
                   received, outcome, sessions, proposals, deaf, alive>>

ProxyParked(p) ==
    /\ Selecting
    /\ p \in proxies
    /\ ProxyClosed(p)
    /\ p.room \in busy
    /\ proxies' = proxies \ {p}
    /\ restores' = [restores EXCEPT ![p.room] = p.rx]
    /\ UNCHANGED <<chans, rooms_rpc, busy, pending_local, awaiting, execs,
                   received, outcome, sessions, proposals, deaf, alive>>

ProxyRestored(p) ==
    /\ Selecting
    /\ p \in proxies
    /\ ProxyClosed(p)
    /\ p.room \notin busy
    /\ proxies' = proxies \ {p}
    /\ RestoreRoom(p.room, p.rx, chans)
    /\ UNCHANGED <<restores, awaiting, execs, received, outcome, sessions,
                   proposals, deaf, alive>>
-------------------------------------------------------------------------------
LocalStep(r) == QueueLocal(r) \/ DispatchLocal(r) \/ DispatchVirtual(r) \/ DispatchCanceled(r)

ChannelStep(c) == FromRemote(c) \/ FromRemoteUnknown(c) \/ FromLocal(c) \/ Phase1Panic(c)

ExecutionStep(e) == ExecutionComputed(e) \/ ExecutionEnded(e) \/ ExecutionFailed(e)
                    \/ EchoFailed(e) \/ ExecutionPanic(e)

ProxyStep(p) == ProxyParked(p) \/ ProxyRestored(p)

Next ==
    \/ \E r \in Requests : LocalStep(r)
    \/ \E c \in chans : ChannelStep(c)
    \/ \E w \in awaiting : Start(w) \/ Abort(w)
    \/ \E e \in execs : ExecutionStep(e)
    \/ \E p \in proxies : ProxyStep(p)

\* What the runtime does without any input from outside the node: a ready
\* branch is taken, and both awaited futures have a timeout.  A proposal, a new
\* request and the end of an execution, which has no timeout, are not owed.
Progress ==
    \/ \E c \in chans : FromLocal(c) \/ Phase1Panic(c)
    \/ \E w \in awaiting : Start(w) \/ Abort(w)
    \/ \E p \in proxies : ProxyStep(p)

Spec == Init /\ [][Next]_vars

FairSpec == Spec /\ WF_vars(Progress)
-------------------------------------------------------------------------------
(***************************************************************************)
(* Properties.  A room in deaf was once given a virtual channel; what goes *)
(* wrong in such a room is the subject of SingleSession.                   *)
(***************************************************************************)
InRoom(S, R) == {x \in S : x.room = R}

\* What keeps a room busy: a request on its way into the room's channel, the
\* future awaited for the room, or its execution.
Owners(R) == InRoom({c \in chans : c.tx = "sent"}, R)
             \cup InRoom(awaiting, R) \cup InRoom(execs, R)

\* A room is in busy_rooms exactly while one request, negotiation, joining or
\* execution owns it, and never two: no session starts over another one, and
\* no room stays busy with nothing left to release it (worker.rs, every
\* busy_rooms.insert and remove).
BusyIffOwned ==
    \A R \in Rooms \ deaf :
        /\ R \in busy <=> Owners(R) # {}
        /\ \A x, y \in Owners(R) : x = y

\* The room's network receiver, which moves from channel to awaited future to
\* proxy to restored channel, is in one place and is never dropped.
ReceiverKept ==
    \A R \in Rooms \ deaf :
        Cardinality(InRoom(chans, R)) + Cardinality(InRoom(awaiting, R))
        + Cardinality(InRoom(proxies, R)) + (IF restores[R] = "none" THEN 0 ELSE 1) = 1

\* Requests wait in pending_local only behind a session of their room or a
\* proxy about to hand the room back; in particular an idle room whose sender
\* is in rooms_rpc has an empty queue, so a request that is dispatched
\* directly never overtakes a queued one.
NoStrandedRequest ==
    \A R \in Rooms \ deaf : pending_local[R] # <<>> =>
        \/ R \in busy /\ Owners(R) # {}
        \/ rooms_rpc[R] # "live" /\ InRoom(proxies, R) # {}

\* Where the sender of a request's answer is.
Holders(r) ==
    {<<"queue", i>> : i \in {j \in DOMAIN pending_local[RoomOf[r]] :
                                 pending_local[RoomOf[r]][j] = r}}
    \cup {<<"channel", c>> : c \in {c \in chans : c.req = r}}
    \cup {<<"awaited", w>> : w \in {w \in awaiting : w.req = r}}
    \cup {<<"execution", e>> : e \in {e \in execs : e.req = r /\ e.st = "running"}}

\* The sender of a caller's answer is held in exactly one place from the time
\* the request is received until the caller is answered (or sees the sender
\* dropped), and nowhere afterwards: no request is forgotten, none is answered
\* twice, across queueing, hand-over, negotiation, abort and execution.
RequestConserved ==
    alive => \A r \in Requests :
        Cardinality(Holders(r)) = IF r \in received /\ outcome[r] = "none" THEN 1 ELSE 0

\* Every request that the worker receives is answered, or its sender dropped,
\* unless an execution of its room never ends (it has no timeout) or the room
\* was given a virtual channel: queued requests are taken up one after the
\* other as sessions end and proxies hand the room back.
RequestResolved ==
    \A r \in Requests :
        r \in received ~> \/ outcome[r] # "none"
                         \/ RoomOf[r] \in deaf
                         \/ [](InRoom(execs, RoomOf[r]) # {})

(***************************************************************************)
(* The life of a room, from which the properties above follow.             *)
(***************************************************************************)
\* What the room consists of: channels, awaited futures, executions, proxies.
Holding(R, cs, ws, es, ps) ==
    /\ InRoom(chans, R) = cs
    /\ InRoom(awaiting, R) = ws
    /\ InRoom(execs, R) = es
    /\ InRoom(proxies, R) = ps

Idle(R) ==
    /\ Holding(R, {NewPhase1(R, "room")}, {}, {}, {})
    /\ rooms_rpc[R] = "live" /\ R \notin busy
    /\ restores[R] = "none" /\ pending_local[R] = <<>>

Requested(R) ==
    /\ \E c \in chans : c.tx = "sent" /\ c.rx = "room" /\ Holding(R, {c}, {}, {}, {})
    /\ rooms_rpc[R] = "none" /\ R \in busy /\ restores[R] = "none"

Coordinating(R) ==
    /\ \E w \in awaiting : w.rx = "room" /\ Holding(R, {}, {w}, {}, {})
    /\ rooms_rpc[R] # "live" /\ R \in busy /\ restores[R] = "none"

Executing(R) ==
    /\ \E e \in execs, p \in proxies :
           /\ p.rx = "room" /\ p.session = e.session
           /\ Holding(R, {}, {}, {e}, {p})
    /\ rooms_rpc[R] # "live" /\ R \in busy /\ restores[R] = "none"

Parked(R) ==
    /\ \E e \in execs : e.st = "echo" /\ Holding(R, {}, {}, {e}, {})
    /\ rooms_rpc[R] # "live" /\ R \in busy /\ restores[R] = "room"

HandingBack(R) ==
    /\ \E p \in proxies : p.rx = "room" /\ Holding(R, {}, {}, {}, {p})
    /\ rooms_rpc[R] # "live" /\ R \notin busy /\ restores[R] = "none"

RoomPhase(R) ==
    Idle(R) \/ Requested(R) \/ Coordinating(R) \/ Executing(R) \/ Parked(R) \/ HandingBack(R)

\* Every room that was never given a virtual channel is in one of six phases,
\* and in none of them can its sender be dropped under a channel: the
\* receiver, the busy flag, the sender and the queue change hands together.
\* One future at most is awaited inline.
RoomPhases ==
    /\ \A v, w \in awaiting : v = w
    /\ \A R \in Rooms \ deaf : RoomPhase(R)

\* README.md:117, "For one room, the runtime supports one active MPC session
\* at a time": no room is negotiated for, joined or executed in twice at once.
\* A virtual channel alone does not break this, for busy_rooms still holds; it
\* takes the virtual channel's return next to the room's own channel.
SingleSession ==
    alive => \A R \in Rooms :
        Cardinality(InRoom(awaiting, R)) + Cardinality(InRoom(execs, R)) <= 1
===============================================================================
