----------------------------- MODULE WorkerProofs -----------------------------
(***************************************************************************)
(* Proofs about Worker for any set of rooms and requests, any number of    *)
(* proposals and sessions.                                                 *)
(***************************************************************************)
EXTENDS Worker, TLAPS, FiniteSetTheorems

\* A restored channel and the channels it orphans are well typed
\* (worker.rs, rooms_coordination.push and rooms_rpc.insert).
LEMMA RestoreTyped ==
    ASSUME TypeOK, NEW R \in Rooms, NEW rx \in Receivers,
           NEW others \in SUBSET chans, RestoreRoom(R, rx, others)
    PROVE  /\ chans' \in SUBSET Phase1
           /\ rooms_rpc' \in [Rooms -> {"none", "live", "stale"}]
           /\ busy' \in SUBSET Rooms
           /\ pending_local' \in [Rooms -> Seq(Requests)]
<1>1. {Orphaned(c, R) : c \in others} \in SUBSET Phase1
  <2>1. ASSUME NEW c \in others PROVE Orphaned(c, R) \in Phase1
    <3>1. c \in Phase1
      BY DEF TypeOK
    <3> QED BY <3>1 DEF Orphaned, Phase1
  <2> QED BY <2>1
<1>2. CASE pending_local[R] = <<>>
  <2>1. NewPhase1(R, rx) \in Phase1
    BY DEF NewPhase1, Phase1
  <2> QED BY <1>1, <1>2, <2>1 DEF RestoreRoom, TypeOK
<1>3. CASE pending_local[R] # <<>>
  <2>1. /\ pending_local[R] \in Seq(Requests)
        /\ Head(pending_local[R]) \in Requests
        /\ Tail(pending_local[R]) \in Seq(Requests)
    BY <1>3 DEF TypeOK
  <2>2. [NewPhase1(R, rx) EXCEPT !.tx = "sent", !.req = Head(pending_local[R])] \in Phase1
    BY <2>1 DEF NewPhase1, Phase1
  <2> QED BY <1>1, <1>3, <2>1, <2>2 DEF RestoreRoom, TypeOK
<1> QED BY <1>2, <1>3

\* The oneshot of a caller takes an outcome (oneshot::Sender::send).
LEMMA AnswerTyped ==
    ASSUME TypeOK, NEW r \in Requests \cup {Nobody}, NEW o \in Outcomes, Answer(r, o)
    PROVE  outcome' \in [Requests -> Outcomes]
BY DEF TypeOK, Answer

\* Ending an execution keeps the state well typed (worker.rs:226-260).
LEMMA ReleaseTyped ==
    ASSUME TypeOK, NEW e \in execs, RoomReleased(e)
    PROVE  /\ chans' \in SUBSET Phase1
           /\ rooms_rpc' \in [Rooms -> {"none", "live", "stale"}]
           /\ busy' \in SUBSET Rooms
           /\ pending_local' \in [Rooms -> Seq(Requests)]
           /\ restores' \in [Rooms -> Receivers \cup {"none"}]
           /\ execs' \in SUBSET Execution
<1>1. e.room \in Rooms
  BY DEF TypeOK, Execution
<1>2. execs' \in SUBSET Execution
  BY DEF RoomReleased, TypeOK
<1>3. CASE restores[e.room] # "none"
  <2>1. restores[e.room] \in Receivers
    BY <1>1, <1>3 DEF TypeOK
  <2>2. RestoreRoom(e.room, restores[e.room], chans)
    BY <1>3 DEF RoomReleased
  <2>3. restores' \in [Rooms -> Receivers \cup {"none"}]
    BY <1>3 DEF RoomReleased, TypeOK
  <2> QED BY <1>1, <1>2, <2>1, <2>2, <2>3, RestoreTyped
<1>4. CASE restores[e.room] = "none"
  BY <1>2, <1>4 DEF RoomReleased, TypeOK
<1> QED BY <1>3, <1>4

\* Every step of the worker keeps its state well typed.
LEMMA TypeStep == TypeOK /\ [Next]_vars => TypeOK'
<1> SUFFICES ASSUME TypeOK, [Next]_vars PROVE TypeOK'
  OBVIOUS
<1> USE WorkerAssumption
<1>1. ASSUME NEW r \in Requests, QueueLocal(r) PROVE TypeOK'
  BY <1>1 DEF QueueLocal, TypeOK
<1>2. ASSUME NEW r \in Requests, DispatchLocal(r) PROVE TypeOK'
  <2>1. chans' \in SUBSET Phase1
    <3>1. ASSUME NEW c \in chans
          PROVE  (IF c.room = RoomOf[r] /\ c.tx = "held"
                  THEN [c EXCEPT !.tx = "sent", !.req = r] ELSE c) \in Phase1
      <4>1. c \in Phase1
        BY DEF TypeOK
      <4> QED BY <4>1 DEF Phase1
    <3> QED BY <1>2, <3>1 DEF DispatchLocal
  <2> QED BY <1>2, <2>1 DEF DispatchLocal, TypeOK
<1>3. ASSUME NEW r \in Requests, DispatchVirtual(r) PROVE TypeOK'
  <2>1. chans' \in SUBSET Phase1
    BY <1>3 DEF DispatchVirtual, TypeOK, Phase1, Receivers
  <2> QED BY <1>3, <2>1 DEF DispatchVirtual, TypeOK
<1>4. ASSUME NEW r \in Requests, DispatchCanceled(r) PROVE TypeOK'
  <2>1. outcome' \in [Requests -> Outcomes]
    BY <1>4, AnswerTyped DEF DispatchCanceled, Outcomes
  <2> QED BY <1>4, <2>1 DEF DispatchCanceled, TypeOK
<1>5. ASSUME NEW c \in chans, FromRemote(c) PROVE TypeOK'
  <2>1. c \in Phase1 /\ outcome' \in [Requests -> Outcomes]
    BY <1>5, AnswerTyped DEF FromRemote, RemoteProposal, Outcomes, TypeOK, Phase1
  <2>2. awaiting' \in SUBSET Awaited
    BY <1>5, <2>1 DEF FromRemote, Phase1, Awaited
  <2> QED BY <1>5, <2>1, <2>2 DEF FromRemote, RemoteProposal, TypeOK, Phase1
<1>6. ASSUME NEW c \in chans, FromRemoteUnknown(c) PROVE TypeOK'
  <2>1. /\ c.room \in Rooms /\ c.rx \in Receivers
        /\ outcome' \in [Requests -> Outcomes]
    BY <1>6, AnswerTyped DEF FromRemoteUnknown, RemoteProposal, Outcomes, TypeOK, Phase1
  <2>2. RestoreRoom(c.room, c.rx, chans \ {c})
    BY <1>6 DEF FromRemoteUnknown
  <2> QED BY <1>6, <2>1, <2>2, RestoreTyped DEF FromRemoteUnknown, RemoteProposal, TypeOK
<1>7. ASSUME NEW c \in chans, FromLocal(c) PROVE TypeOK'
  <2>1. awaiting' \in SUBSET Awaited
    BY <1>7 DEF FromLocal, TypeOK, Phase1, Awaited
  <2> QED BY <1>7, <2>1 DEF FromLocal, TypeOK
<1>8. ASSUME NEW c \in chans, Phase1Panic(c) PROVE TypeOK'
  BY <1>8 DEF Phase1Panic, WorkerPanics, TypeOK, Outcomes
<1>9. ASSUME NEW w \in awaiting, Start(w) PROVE TypeOK'
  <2>1. w \in Awaited
    BY DEF TypeOK
  <2>2. proxies' \in SUBSET Proxy /\ execs' \in SUBSET Execution
    BY <1>9, <2>1 DEF Start, TypeOK, Awaited, Proxy, Execution
  <2> QED BY <1>9, <2>1, <2>2 DEF Start, TypeOK, Awaited
<1>10. ASSUME NEW w \in awaiting, Abort(w) PROVE TypeOK'
  <2>1. /\ w.room \in Rooms /\ w.rx \in Receivers
        /\ outcome' \in [Requests -> Outcomes]
    BY <1>10, AnswerTyped DEF Abort, Outcomes, TypeOK, Awaited
  <2>2. RestoreRoom(w.room, w.rx, chans)
    BY <1>10 DEF Abort
  <2> QED BY <1>10, <2>1, <2>2, RestoreTyped DEF Abort, TypeOK
<1>11. ASSUME NEW e \in execs, ExecutionComputed(e) PROVE TypeOK'
  <2>1. e \in Execution /\ outcome' \in [Requests -> Outcomes]
    BY <1>11, AnswerTyped DEF ExecutionComputed, Outcomes, TypeOK, Execution
  <2>2. execs' \in SUBSET Execution
    BY <1>11, <2>1 DEF ExecutionComputed, TypeOK, Execution
  <2> QED BY <1>11, <2>1, <2>2 DEF ExecutionComputed, TypeOK
<1>12. ASSUME NEW e \in execs, ExecutionEnded(e) PROVE TypeOK'
  BY <1>12, ReleaseTyped DEF ExecutionEnded, RoomReleased, TypeOK
<1>13. ASSUME NEW e \in execs, ExecutionFailed(e) \/ EchoFailed(e) PROVE TypeOK'
  <2>1. RoomReleased(e) /\ outcome' \in [Requests -> Outcomes]
    BY <1>13, AnswerTyped DEF ExecutionFailed, EchoFailed, Outcomes, TypeOK, Execution
  <2> QED BY <2>1, ReleaseTyped DEF RoomReleased, TypeOK
<1>14. ASSUME NEW p \in proxies, ProxyParked(p) PROVE TypeOK'
  <2>1. restores' \in [Rooms -> Receivers \cup {"none"}]
    BY <1>14 DEF ProxyParked, TypeOK, Proxy
  <2> QED BY <1>14, <2>1 DEF ProxyParked, TypeOK
<1>15. ASSUME NEW p \in proxies, ProxyRestored(p) PROVE TypeOK'
  <2>1. p.room \in Rooms /\ p.rx \in Receivers /\ RestoreRoom(p.room, p.rx, chans)
    BY <1>15 DEF ProxyRestored, TypeOK, Proxy
  <2> QED BY <1>15, <2>1, RestoreTyped DEF ProxyRestored, TypeOK
<1>16. ASSUME NEW e \in execs, ExecutionPanic(e) PROVE TypeOK'
  BY <1>16 DEF ExecutionPanic, WorkerPanics, TypeOK, Outcomes
<1>17. CASE UNCHANGED vars
  BY <1>17 DEF vars, TypeOK
<1> QED
  BY <1>1, <1>2, <1>3, <1>4, <1>5, <1>6, <1>7, <1>8, <1>9, <1>10, <1>11, <1>12,
     <1>13, <1>14, <1>15, <1>16, <1>17
  DEF Next, LocalStep, ChannelStep, ExecutionStep, ProxyStep

\* The worker's state is always well typed (worker.rs, the locals of run).
THEOREM TypeCorrect == Spec => []TypeOK
<1>1. Init => TypeOK
  BY WorkerAssumption DEF Init, TypeOK, NewPhase1, Phase1, Receivers, Outcomes
<1> QED BY <1>1, TypeStep, PTL DEF Spec
-------------------------------------------------------------------------------
\* The part of the state a room's phase depends on does not change.
Untouched(S) ==
    /\ InRoom(chans, S)' = InRoom(chans, S)
    /\ InRoom(awaiting, S)' = InRoom(awaiting, S)
    /\ InRoom(execs, S)' = InRoom(execs, S)
    /\ InRoom(proxies, S)' = InRoom(proxies, S)
    /\ rooms_rpc'[S] = rooms_rpc[S]
    /\ (S \in busy') = (S \in busy)
    /\ restores'[S] = restores[S]
    /\ pending_local'[S] = pending_local[S]

\* A step that does not touch a room leaves its phase alone.
LEMMA UntouchedPhase ==
    ASSUME NEW S \in Rooms, RoomPhase(S), Untouched(S)
    PROVE  RoomPhase(S)'
<1> USE DEF Untouched, Holding
<1>1. CASE Idle(S)
  BY <1>1 DEF RoomPhase, Idle, NewPhase1
<1>2. CASE Requested(S)
  BY <1>2 DEF RoomPhase, Requested, InRoom
<1>3. CASE Coordinating(S)
  BY <1>3 DEF RoomPhase, Coordinating, InRoom
<1>4. CASE Executing(S)
  BY <1>4 DEF RoomPhase, Executing, InRoom
<1>5. CASE Parked(S)
  BY <1>5 DEF RoomPhase, Parked, InRoom
<1>6. CASE HandingBack(S)
  BY <1>6 DEF RoomPhase, HandingBack, InRoom
<1> QED BY <1>1, <1>2, <1>3, <1>4, <1>5, <1>6 DEF RoomPhase

\* RestoreRoom touches one room only.
LEMMA RestoreOther ==
    ASSUME TypeOK, NEW R \in Rooms, NEW rx \in Receivers, NEW others \in SUBSET chans,
           RestoreRoom(R, rx, others), NEW S \in Rooms, S # R
    PROVE  /\ InRoom(chans, S)' = InRoom(others, S)
           /\ rooms_rpc'[S] = rooms_rpc[S]
           /\ (S \in busy') = (S \in busy)
           /\ pending_local'[S] = pending_local[S]
<1>1. \A c \in others : Orphaned(c, R).room = c.room /\ (c.room = S => Orphaned(c, R) = c)
  <2> SUFFICES ASSUME NEW c \in others
               PROVE  Orphaned(c, R).room = c.room /\ (c.room = S => Orphaned(c, R) = c)
    OBVIOUS
  <2>1. c \in Phase1
    BY DEF TypeOK
  <2> QED BY <2>1 DEF Orphaned, Phase1
<1>2. \E n : /\ n.room = R
             /\ chans' = {Orphaned(c, R) : c \in others} \cup {n}
  BY DEF RestoreRoom, NewPhase1
<1>3. InRoom(chans, S)' = InRoom(others, S)
  BY <1>1, <1>2 DEF InRoom
<1> QED BY <1>3 DEF RestoreRoom, TypeOK

\* RestoreRoom on a room that is otherwise empty leaves it idle, or at once
\* busy with the head of its queue.
LEMMA RestorePhase ==
    ASSUME TypeOK, NEW R \in Rooms, NEW others \in SUBSET chans,
           RestoreRoom(R, "room", others), InRoom(others, R) = {},
           InRoom(awaiting, R)' = {}, InRoom(execs, R)' = {}, InRoom(proxies, R)' = {},
           restores'[R] = "none"
    PROVE  RoomPhase(R)'
<1>1. \A c \in others : Orphaned(c, R).room # R
  <2> SUFFICES ASSUME NEW c \in others PROVE Orphaned(c, R).room # R
    OBVIOUS
  <2>1. c \in Phase1 /\ c.room # R
    BY DEF TypeOK, InRoom
  <2> QED BY <2>1 DEF Orphaned, Phase1
<1>2. CASE pending_local[R] = <<>>
  <2>1. InRoom(chans, R)' = {NewPhase1(R, "room")}
    BY <1>1, <1>2 DEF RestoreRoom, InRoom, NewPhase1
  <2>2. rooms_rpc'[R] = "live" /\ R \notin busy' /\ pending_local'[R] = <<>>
    BY <1>2 DEF RestoreRoom, TypeOK
  <2> QED BY <2>1, <2>2 DEF RoomPhase, Idle, Holding, NewPhase1
<1>3. CASE pending_local[R] # <<>>
  <2> DEFINE n == [NewPhase1(R, "room") EXCEPT !.tx = "sent", !.req = Head(pending_local[R])]
  <2>1. n.room = R /\ n.tx = "sent" /\ n.rx = "room"
    BY DEF NewPhase1
  <2>2. chans' = {Orphaned(c, R) : c \in others} \cup {n}
    BY <1>3 DEF RestoreRoom
  <2> HIDE DEF n
  <2>3. InRoom(chans, R)' = {n} /\ n \in chans'
    BY <1>1, <2>1, <2>2 DEF InRoom
  <2>4. rooms_rpc'[R] = "none" /\ R \in busy'
    BY <1>3 DEF RestoreRoom, TypeOK
  <2>5. Requested(R)'
    BY <2>1, <2>3, <2>4 DEF Requested, Holding
  <2> QED BY <2>5 DEF RoomPhase
<1> QED BY <1>2, <1>3
-------------------------------------------------------------------------------
\* The phase of a room is read off anything that is in it.  A room with a
\* Phase1Channel holds nothing else.
LEMMA ChannelPhase ==
    ASSUME NEW c \in chans, RoomPhase(c.room)
    PROVE  /\ Holding(c.room, {c}, {}, {}, {})
           /\ c.rx = "room"
           /\ restores[c.room] = "none"
           /\ \/ c.tx = "held" /\ rooms_rpc[c.room] = "live" /\ pending_local[c.room] = <<>>
              \/ c.tx = "sent" /\ rooms_rpc[c.room] = "none" /\ c.room \in busy
<1>1. c \in InRoom(chans, c.room)
  BY DEF InRoom
<1>2. CASE Idle(c.room)
  <2>1. c = NewPhase1(c.room, "room")
    BY <1>1, <1>2 DEF Idle, Holding
  <2>2. c.tx = "held" /\ c.rx = "room"
    BY <2>1 DEF NewPhase1
  <2> QED BY <1>2, <2>1, <2>2 DEF Idle
<1>3. CASE Requested(c.room)
  BY <1>1, <1>3 DEF Requested, Holding
<1> QED
  BY <1>1, <1>2, <1>3 DEF RoomPhase, Holding, Coordinating, Executing, Parked, HandingBack

\* A room whose negotiation or joining is awaited holds nothing else.
LEMMA AwaitedPhase ==
    ASSUME NEW w \in awaiting, RoomPhase(w.room)
    PROVE  /\ Holding(w.room, {}, {w}, {}, {})
           /\ w.rx = "room" /\ restores[w.room] = "none"
           /\ rooms_rpc[w.room] # "live" /\ w.room \in busy
<1>1. w \in InRoom(awaiting, w.room)
  BY DEF InRoom
<1> QED
  BY <1>1 DEF RoomPhase, Holding, Idle, Requested, Coordinating, Executing, Parked, HandingBack

\* A room with an execution has its proxy, or the receiver parked by the proxy.
LEMMA ExecutionPhase ==
    ASSUME NEW e \in execs, RoomPhase(e.room)
    PROVE  /\ e.room \in busy /\ rooms_rpc[e.room] # "live"
           /\ \/ /\ restores[e.room] = "none"
                 /\ \E p \in proxies : /\ p.rx = "room" /\ p.session = e.session
                                       /\ Holding(e.room, {}, {}, {e}, {p})
              \/ /\ restores[e.room] = "room" /\ e.st = "echo"
                 /\ Holding(e.room, {}, {}, {e}, {})
<1>1. e \in InRoom(execs, e.room)
  BY DEF InRoom
<1>2. CASE Executing(e.room)
  BY <1>1, <1>2 DEF Executing, Holding
<1>3. CASE Parked(e.room)
  BY <1>1, <1>3 DEF Parked, Holding
<1> QED
  BY <1>1, <1>2, <1>3 DEF RoomPhase, Holding, Idle, Requested, Coordinating, HandingBack

\* A room with a proxy has its execution, or is being handed back.
LEMMA ProxyPhase ==
    ASSUME NEW p \in proxies, RoomPhase(p.room)
    PROVE  /\ p.rx = "room" /\ restores[p.room] = "none" /\ rooms_rpc[p.room] # "live"
           /\ \/ /\ p.room \in busy
                 /\ \E e \in execs : /\ p.session = e.session
                                     /\ Holding(p.room, {}, {}, {e}, {p})
              \/ p.room \notin busy /\ Holding(p.room, {}, {}, {}, {p})
<1>1. p \in InRoom(proxies, p.room)
  BY DEF InRoom
<1>2. CASE Executing(p.room)
  BY <1>1, <1>2 DEF Executing, Holding
<1>3. CASE HandingBack(p.room)
  BY <1>1, <1>3 DEF HandingBack, Holding
<1> QED
  BY <1>1, <1>2, <1>3 DEF RoomPhase, Holding, Idle, Requested, Coordinating, Parked

\* An execution that ends in a room leaves the room idle, requested or waiting
\* for its proxy, and touches no other room (worker.rs:226-260).
LEMMA ReleasePhase ==
    ASSUME TypeOK, RoomPhases, NEW e \in execs, RoomReleased(e), NEW S \in Rooms \ deaf
    PROVE  RoomPhase(S)'
<1> USE DEF RoomReleased
<1>1. e.room \in Rooms /\ RoomPhase(S)
  BY DEF TypeOK, Execution, RoomPhases
<1>2. CASE S # e.room /\ restores[e.room] = "none"
  <2>1. Untouched(S)
    BY <1>1, <1>2 DEF Untouched, InRoom
  <2> QED BY <1>1, <2>1, UntouchedPhase
<1>3. CASE S # e.room /\ restores[e.room] # "none"
  <2>1. restores[e.room] \in Receivers /\ RestoreRoom(e.room, restores[e.room], chans)
    BY <1>1, <1>3 DEF TypeOK
  <2>2. /\ InRoom(execs, S)' = InRoom(execs, S)
        /\ InRoom(awaiting, S)' = InRoom(awaiting, S)
        /\ InRoom(proxies, S)' = InRoom(proxies, S)
        /\ restores'[S] = restores[S]
    BY <1>1, <1>3 DEF InRoom, TypeOK
  <2>3. Untouched(S)
    BY <1>1, <1>3, <2>1, <2>2, RestoreOther DEF Untouched
  <2> QED BY <1>1, <2>3, UntouchedPhase
<1>4. CASE S = e.room /\ restores[e.room] = "none"
  <2>1. PICK p \in proxies : p.rx = "room" /\ Holding(S, {}, {}, {e}, {p})
    BY <1>1, <1>4, ExecutionPhase
  <2>2. /\ InRoom(execs, S)' = {} /\ InRoom(proxies, S)' = {p} /\ p \in proxies'
        /\ InRoom(chans, S)' = {} /\ InRoom(awaiting, S)' = {}
    BY <1>4, <2>1 DEF Holding, InRoom
  <2>3. rooms_rpc'[S] # "live" /\ S \notin busy' /\ restores'[S] = "none"
    BY <1>1, <1>4, ExecutionPhase
  <2>4. HandingBack(S)'
    BY <2>1, <2>2, <2>3 DEF HandingBack, Holding
  <2> QED BY <2>4 DEF RoomPhase
<1>5. CASE S = e.room /\ restores[e.room] # "none"
  <2>1. restores[S] = "room" /\ Holding(S, {}, {}, {e}, {})
    BY <1>1, <1>5, ExecutionPhase
  <2>2. /\ InRoom(execs, S)' = {} /\ InRoom(proxies, S)' = {}
        /\ InRoom(chans, S) = {} /\ InRoom(awaiting, S)' = {}
    BY <1>5, <2>1 DEF Holding, InRoom
  <2>3. RestoreRoom(S, "room", chans) /\ restores'[S] = "none"
    BY <1>1, <1>5, <2>1 DEF TypeOK
  <2> QED BY <1>1, <1>5, <2>2, <2>3, RestorePhase
<1> QED BY <1>2, <1>3, <1>4, <1>5

\* The six phases of a room are inductive: every pass of Worker::run keeps
\* every room that was never given a virtual channel in one of them.
LEMMA PhaseStep == TypeOK /\ RoomPhases /\ [Next]_vars => RoomPhases'
<1> SUFFICES ASSUME TypeOK, RoomPhases, [Next]_vars PROVE RoomPhases'
  OBVIOUS
<1>a. \A R \in Rooms \ deaf : RoomPhase(R)
  BY DEF RoomPhases
<1>u. ASSUME NEW S \in Rooms \ deaf, Untouched(S) PROVE RoomPhase(S)'
  BY <1>a, <1>u, UntouchedPhase
<1>1. \A v, w \in awaiting' : v = w
  BY DEF RoomPhases, Next, LocalStep, ChannelStep, ExecutionStep, ProxyStep, vars,
     QueueLocal, DispatchLocal, DispatchVirtual, DispatchCanceled, FromRemote,
     FromRemoteUnknown, FromLocal, Phase1Panic, Start, Abort, ExecutionComputed,
     ExecutionEnded, ExecutionFailed, EchoFailed, RoomReleased, ExecutionPanic,
     WorkerPanics, ProxyParked, ProxyRestored
<1>2. deaf \subseteq deaf'
  BY DEF Next, LocalStep, ChannelStep, ExecutionStep, ProxyStep, vars,
     QueueLocal, DispatchLocal, DispatchVirtual, DispatchCanceled, FromRemote,
     FromRemoteUnknown, FromLocal, Phase1Panic, Start, Abort, ExecutionComputed,
     ExecutionEnded, ExecutionFailed, EchoFailed, RoomReleased, ExecutionPanic,
     WorkerPanics, ProxyParked, ProxyRestored
<1> SUFFICES ASSUME NEW S \in Rooms \ deaf, S \notin deaf' PROVE RoomPhase(S)'
  BY <1>1, <1>2 DEF RoomPhases
<1>3. RoomPhase(S)
  BY <1>a
<1>4. ASSUME NEW r \in Requests, QueueLocal(r) PROVE RoomPhase(S)'
  <2>1. CASE S # RoomOf[r]
    BY <1>4, <1>u, <2>1 DEF QueueLocal, Untouched, InRoom, TypeOK
  <2>2. CASE S = RoomOf[r]
    <3>1. S \in busy /\ ~Idle(S)
      BY <1>4, <2>2 DEF QueueLocal, Idle
    <3> QED
      BY <1>3, <1>4, <3>1 DEF QueueLocal, RoomPhase, Requested, Coordinating, Executing,
         Parked, HandingBack, Holding, InRoom
  <2> QED BY <2>1, <2>2
<1>5. ASSUME NEW r \in Requests, DispatchLocal(r) PROVE RoomPhase(S)'
  <2> DEFINE f(c) == IF c.room = RoomOf[r] /\ c.tx = "held"
                     THEN [c EXCEPT !.tx = "sent", !.req = r] ELSE c
  <2>1. \A c \in chans : f(c).room = c.room /\ (c.room # RoomOf[r] => f(c) = c)
    <3> SUFFICES ASSUME NEW c \in chans
                 PROVE  f(c).room = c.room /\ (c.room # RoomOf[r] => f(c) = c)
      OBVIOUS
    <3>1. c \in Phase1
      BY DEF TypeOK
    <3> QED BY <3>1 DEF Phase1
  <2>2. chans' = {f(c) : c \in chans}
    BY <1>5 DEF DispatchLocal
  <2>3. CASE S # RoomOf[r]
    <3> HIDE DEF f
    <3>1. InRoom(chans, S)' = InRoom(chans, S)
      BY <2>1, <2>2, <2>3 DEF InRoom
    <3>2. /\ InRoom(awaiting, S)' = InRoom(awaiting, S)
          /\ InRoom(execs, S)' = InRoom(execs, S)
          /\ InRoom(proxies, S)' = InRoom(proxies, S)
      BY <1>5 DEF DispatchLocal, InRoom
    <3>3. /\ rooms_rpc'[S] = rooms_rpc[S] /\ (S \in busy') = (S \in busy)
          /\ restores'[S] = restores[S] /\ pending_local'[S] = pending_local[S]
      <4>1. /\ rooms_rpc' = [rooms_rpc EXCEPT ![RoomOf[r]] = "none"]
            /\ busy' = busy \cup {RoomOf[r]}
            /\ restores' = restores /\ pending_local' = pending_local
        BY <1>5 DEF DispatchLocal
      <4> QED BY <2>3, <4>1 DEF TypeOK
    <3>4. Untouched(S)
      BY <3>1, <3>2, <3>3 DEF Untouched
    <3> QED BY <1>u, <3>4
  <2>4. CASE S = RoomOf[r]
    <3> DEFINE c0 == NewPhase1(S, "room")
    <3>1. Idle(S)
      BY <1>3, <1>5, <2>4 DEF DispatchLocal, RoomPhase, Requested, Coordinating, Executing,
         Parked, HandingBack
    <3>2. InRoom(chans, S) = {c0} /\ c0 \in chans
      BY <3>1 DEF Idle, Holding, InRoom
    <3>3. f(c0).tx = "sent" /\ f(c0).rx = "room" /\ f(c0).room = S
      BY <2>4 DEF NewPhase1
    <3> HIDE DEF f, c0
    <3>4. InRoom(chans, S)' = {f(c0)} /\ f(c0) \in chans'
      BY <2>1, <2>2, <2>4, <3>2, <3>3 DEF InRoom
    <3>5. rooms_rpc'[S] = "none" /\ S \in busy' /\ restores'[S] = "none"
      BY <1>5, <2>4, <3>1 DEF DispatchLocal, Idle, TypeOK
    <3>6. /\ InRoom(awaiting, S)' = {} /\ InRoom(execs, S)' = {}
          /\ InRoom(proxies, S)' = {}
      BY <1>5, <3>1 DEF DispatchLocal, Idle, Holding, InRoom
    <3>7. Requested(S)'
      BY <3>3, <3>4, <3>5, <3>6 DEF Requested, Holding
    <3> QED BY <3>7 DEF RoomPhase
  <2> QED BY <2>3, <2>4
<1>6. ASSUME NEW r \in Requests, DispatchVirtual(r) PROVE RoomPhase(S)'
  <2>1. S # RoomOf[r]
    BY <1>6 DEF DispatchVirtual
  <2> QED BY <1>6, <1>u, <2>1 DEF DispatchVirtual, Untouched, InRoom, TypeOK
<1>7. ASSUME NEW r \in Requests, DispatchCanceled(r) PROVE RoomPhase(S)'
  <2>1. CASE S # RoomOf[r]
    BY <1>7, <1>u, <2>1 DEF DispatchCanceled, Untouched, InRoom, TypeOK
  <2>2. CASE S = RoomOf[r]
    <3>1. HandingBack(S)
      BY <1>3, <1>7, <2>2 DEF DispatchCanceled, RoomPhase, Idle, Requested, Coordinating,
         Executing, Parked
    <3>2. HandingBack(S)'
      BY <1>7, <2>2, <3>1 DEF DispatchCanceled, HandingBack, Holding, InRoom, TypeOK
    <3> QED BY <3>2 DEF RoomPhase
  <2> QED BY <2>1, <2>2
<1>8. ASSUME NEW c \in chans, FromRemote(c) PROVE RoomPhase(S)'
  <2> USE DEF FromRemote, RemoteProposal, Selecting
  <2>1. CASE S # c.room
    BY <1>8, <1>u, <2>1 DEF Untouched, InRoom, TypeOK
  <2>2. CASE S = c.room
    <3> DEFINE w == [at |-> "phase2", room |-> c.room, rx |-> c.rx, req |-> Nobody]
    <3>1. /\ Holding(S, {c}, {}, {}, {}) /\ c.rx = "room" /\ restores[S] = "none"
          /\ c.tx = "held" \/ rooms_rpc[S] = "none"
      BY <1>3, <2>2, ChannelPhase
    <3>2. awaiting' = {w} /\ w.room = S /\ w.rx = "room"
      BY <1>8, <2>2, <3>1
    <3> HIDE DEF w
    <3>3. Holding(S, {}, {w}, {}, {})'
      BY <1>8, <2>2, <3>1, <3>2 DEF Holding, InRoom
    <3>4. rooms_rpc'[S] # "live" /\ S \in busy' /\ restores'[S] = "none"
      BY <1>8, <2>2, <3>1 DEF TypeOK
    <3>5. Coordinating(S)'
      BY <3>2, <3>3, <3>4 DEF Coordinating
    <3> QED BY <3>5 DEF RoomPhase
  <2> QED BY <2>1, <2>2
<1>9. ASSUME NEW c \in chans, FromRemoteUnknown(c) PROVE RoomPhase(S)'
  <2> USE DEF FromRemoteUnknown, RemoteProposal, Selecting
  <2>1. c.room \in Rooms /\ c.rx \in Receivers /\ RestoreRoom(c.room, c.rx, chans \ {c})
    BY <1>9 DEF TypeOK, Phase1
  <2>2. CASE S # c.room
    <3>1. InRoom(chans \ {c}, S) = InRoom(chans, S)
      BY <2>2 DEF InRoom
    <3>2. Untouched(S)
      BY <1>9, <2>1, <2>2, <3>1, RestoreOther DEF Untouched, InRoom
    <3> QED BY <1>u, <3>2
  <2>3. CASE S = c.room
    <3>1. Holding(S, {c}, {}, {}, {}) /\ c.rx = "room" /\ restores[S] = "none"
      BY <1>3, <2>3, ChannelPhase
    <3>2. InRoom(chans \ {c}, S) = {}
      BY <3>1 DEF Holding, InRoom
    <3> QED BY <1>9, <2>1, <2>3, <3>1, <3>2, RestorePhase DEF Holding, InRoom
  <2> QED BY <2>2, <2>3
<1>10. ASSUME NEW c \in chans, FromLocal(c) PROVE RoomPhase(S)'
  <2> USE DEF FromLocal, Selecting
  <2>1. CASE S # c.room
    BY <1>10, <1>u, <2>1 DEF Untouched, InRoom, TypeOK
  <2>2. CASE S = c.room
    <3> DEFINE w == [at |-> "negotiation", room |-> c.room, rx |-> c.rx, req |-> c.req]
    <3>1. /\ Holding(S, {c}, {}, {}, {}) /\ c.rx = "room" /\ restores[S] = "none"
          /\ rooms_rpc[S] = "none" /\ S \in busy
      BY <1>3, <1>10, <2>2, ChannelPhase
    <3>2. awaiting' = {w} /\ w.room = S /\ w.rx = "room"
      BY <1>10, <2>2, <3>1
    <3> HIDE DEF w
    <3>3. Holding(S, {}, {w}, {}, {})'
      BY <1>10, <2>2, <3>1, <3>2 DEF Holding, InRoom
    <3>4. Coordinating(S)'
      BY <1>10, <3>1, <3>2, <3>3 DEF Coordinating
    <3> QED BY <3>4 DEF RoomPhase
  <2> QED BY <2>1, <2>2
<1>11. ASSUME NEW c \in chans, Phase1Panic(c) PROVE RoomPhase(S)'
  BY <1>11, <1>u DEF Phase1Panic, WorkerPanics, Untouched, InRoom
<1>12. ASSUME NEW w \in awaiting, Start(w) PROVE RoomPhase(S)'
  <2> USE DEF Start
  <2>0. awaiting = {w}
    BY DEF RoomPhases
  <2> DEFINE p == [session |-> sessions, room |-> w.room, rx |-> w.rx]
             e == [session |-> sessions, room |-> w.room, rx |-> w.rx,
                   req |-> w.req, st |-> "running"]
  <2>1. /\ proxies' = proxies \cup {p} /\ execs' = execs \cup {e}
        /\ p.room = w.room /\ e.room = w.room /\ p.session = e.session /\ p.rx = w.rx
    BY <1>12
  <2> HIDE DEF p, e
  <2>2. CASE S # w.room
    BY <1>12, <1>u, <2>0, <2>1, <2>2 DEF Untouched, InRoom
  <2>3. CASE S = w.room
    <3>1. /\ Holding(S, {}, {w}, {}, {}) /\ w.rx = "room" /\ restores[S] = "none"
          /\ rooms_rpc[S] # "live"
      BY <1>3, <2>3, AwaitedPhase
    <3>2. /\ InRoom(chans, S)' = {} /\ InRoom(awaiting, S)' = {}
          /\ InRoom(execs, S)' = {e} /\ InRoom(proxies, S)' = {p}
          /\ e \in execs' /\ p \in proxies'
      BY <1>12, <2>1, <2>3, <3>1 DEF Holding, InRoom
    <3>3. rooms_rpc'[S] # "live" /\ S \in busy' /\ restores'[S] = "none"
      BY <1>12, <2>3, <3>1
    <3>4. Executing(S)'
      BY <2>1, <3>1, <3>2, <3>3 DEF Executing, Holding
    <3> QED BY <3>4 DEF RoomPhase
  <2> QED BY <2>2, <2>3
<1>13. ASSUME NEW w \in awaiting, Abort(w) PROVE RoomPhase(S)'
  <2> USE DEF Abort
  <2>0. awaiting = {w}
    BY DEF RoomPhases
  <2>1. w.room \in Rooms /\ w.rx \in Receivers /\ RestoreRoom(w.room, w.rx, chans)
    BY <1>13 DEF TypeOK, Awaited
  <2>2. CASE S # w.room
    <3>1. InRoom(awaiting, S)' = InRoom(awaiting, S)
      BY <1>13, <2>0, <2>2 DEF InRoom
    <3>2. Untouched(S)
      BY <1>13, <2>1, <2>2, <3>1, RestoreOther DEF Untouched, InRoom
    <3> QED BY <1>u, <3>2
  <2>3. CASE S = w.room
    <3>1. Holding(S, {}, {w}, {}, {}) /\ w.rx = "room" /\ restores[S] = "none"
      BY <1>3, <2>3, AwaitedPhase
    <3>2. RestoreRoom(S, "room", chans) /\ restores'[S] = "none"
      BY <1>13, <2>1, <2>3, <3>1
    <3>3. /\ InRoom(chans, S) = {} /\ InRoom(awaiting, S)' = {}
          /\ InRoom(execs, S)' = {} /\ InRoom(proxies, S)' = {}
      BY <1>13, <3>1 DEF Holding, InRoom
    <3> QED BY <3>2, <3>3, RestorePhase
  <2> QED BY <2>2, <2>3
<1>14. ASSUME NEW e \in execs, ExecutionComputed(e) PROVE RoomPhase(S)'
  <2> USE DEF ExecutionComputed
  <2> DEFINE d == [e EXCEPT !.st = "echo"]
  <2>1. /\ execs' = (execs \ {e}) \cup {d}
        /\ d.room = e.room /\ d.session = e.session /\ d.st = "echo"
    <3>1. e \in Execution
      BY DEF TypeOK
    <3> QED BY <1>14, <3>1 DEF Execution
  <2> HIDE DEF d
  <2>2. CASE S # e.room
    BY <1>14, <1>u, <2>1, <2>2 DEF Untouched, InRoom
  <2>3. CASE S = e.room
    <3>1. CASE restores[S] = "none"
      <4>1. PICK p \in proxies : /\ p.rx = "room" /\ p.session = e.session
                                 /\ Holding(S, {}, {}, {e}, {p})
        BY <1>3, <2>3, <3>1, ExecutionPhase
      <4>2. Holding(S, {}, {}, {d}, {p})'
        BY <1>14, <2>1, <2>3, <4>1 DEF Holding, InRoom
      <4>3. rooms_rpc'[S] # "live" /\ S \in busy' /\ restores'[S] = "none"
        BY <1>3, <1>14, <2>3, <3>1, ExecutionPhase
      <4>4. Executing(S)'
        BY <1>14, <2>1, <4>1, <4>2, <4>3 DEF Executing
      <4> QED BY <4>4 DEF RoomPhase
    <3>2. CASE restores[S] # "none"
      BY <1>3, <1>14, <2>3, <3>2, ExecutionPhase
    <3> QED BY <3>1, <3>2
  <2> QED BY <2>2, <2>3
<1>15. ASSUME NEW e \in execs, ExecutionEnded(e) \/ ExecutionFailed(e) \/ EchoFailed(e)
       PROVE  RoomPhase(S)'
  BY <1>15, ReleasePhase DEF ExecutionEnded, ExecutionFailed, EchoFailed
<1>16. ASSUME NEW p \in proxies, ProxyParked(p) PROVE RoomPhase(S)'
  <2> USE DEF ProxyParked
  <2>1. CASE S # p.room
    BY <1>16, <1>u, <2>1 DEF Untouched, InRoom, TypeOK
  <2>2. CASE S = p.room
    <3>1. PICK e \in execs : p.session = e.session /\ Holding(S, {}, {}, {e}, {p})
      BY <1>3, <1>16, <2>2, ProxyPhase
    <3>2. e.st = "echo" /\ p.rx = "room" /\ rooms_rpc[S] # "live"
      BY <1>3, <1>16, <2>2, <3>1, ProxyPhase DEF ProxyClosed
    <3>3. Holding(S, {}, {}, {e}, {})'
      BY <1>16, <3>1 DEF Holding, InRoom
    <3>4. rooms_rpc'[S] # "live" /\ S \in busy' /\ restores'[S] = "room"
      BY <1>16, <2>2, <3>2 DEF TypeOK
    <3>5. Parked(S)'
      BY <1>16, <3>1, <3>2, <3>3, <3>4 DEF Parked
    <3> QED BY <3>5 DEF RoomPhase
  <2> QED BY <2>1, <2>2
<1>17. ASSUME NEW p \in proxies, ProxyRestored(p) PROVE RoomPhase(S)'
  <2> USE DEF ProxyRestored
  <2>1. p.room \in Rooms /\ p.rx \in Receivers /\ RestoreRoom(p.room, p.rx, chans)
    BY <1>17 DEF TypeOK, Proxy
  <2>2. CASE S # p.room
    <3>1. InRoom(proxies, S)' = InRoom(proxies, S)
      BY <1>17, <2>2 DEF InRoom
    <3>2. Untouched(S)
      BY <1>17, <2>1, <2>2, <3>1, RestoreOther DEF Untouched, InRoom
    <3> QED BY <1>u, <3>2
  <2>3. CASE S = p.room
    <3>1. Holding(S, {}, {}, {}, {p}) /\ p.rx = "room" /\ restores[S] = "none"
      BY <1>3, <1>17, <2>3, ProxyPhase
    <3>2. RestoreRoom(S, "room", chans) /\ restores'[S] = "none"
      BY <1>17, <2>1, <2>3, <3>1
    <3>3. /\ InRoom(chans, S) = {} /\ InRoom(awaiting, S)' = {}
          /\ InRoom(execs, S)' = {} /\ InRoom(proxies, S)' = {}
      BY <1>17, <3>1 DEF Holding, InRoom
    <3> QED BY <3>2, <3>3, RestorePhase
  <2> QED BY <2>2, <2>3
<1>18. ASSUME NEW e \in execs, ExecutionPanic(e) PROVE RoomPhase(S)'
  BY <1>18, <1>u DEF ExecutionPanic, WorkerPanics, Untouched, InRoom
<1>19. CASE UNCHANGED vars
  BY <1>19, <1>u DEF vars, Untouched, InRoom
<1> QED
  BY <1>4, <1>5, <1>6, <1>7, <1>8, <1>9, <1>10, <1>11, <1>12, <1>13, <1>14, <1>15,
     <1>16, <1>17, <1>18, <1>19
  DEF Next, LocalStep, ChannelStep, ExecutionStep, ProxyStep

\* Every room that was never given a virtual channel is always in one of its
\* six phases (worker.rs, Worker::run).
THEOREM PhasesHold == Spec => []RoomPhases
<1>1. Init => RoomPhases
  <2> SUFFICES ASSUME Init, NEW R \in Rooms PROVE Idle(R)
    BY DEF RoomPhases, RoomPhase, Init
  <2>1. InRoom(chans, R) = {NewPhase1(R, "room")}
    BY DEF Init, InRoom, NewPhase1
  <2> QED BY <2>1 DEF Init, Idle, Holding, InRoom
<1> QED BY <1>1, TypeStep, PhaseStep, TypeCorrect, PTL DEF Spec

\* The phases decide the busy flag and its single owner.
LEMMA PhasesBusy == RoomPhases => BusyIffOwned
<1> SUFFICES ASSUME RoomPhases, NEW R \in Rooms \ deaf
             PROVE  /\ R \in busy <=> Owners(R) # {}
                    /\ \A x, y \in Owners(R) : x = y
  BY DEF BusyIffOwned
<1> DEFINE sent == InRoom({c \in chans : c.tx = "sent"}, R)
<1>0. /\ RoomPhase(R)
      /\ sent = {c \in InRoom(chans, R) : c.tx = "sent"}
      /\ Owners(R) = sent \cup InRoom(awaiting, R) \cup InRoom(execs, R)
  BY DEF RoomPhases, Owners, InRoom
<1> HIDE DEF sent
<1> USE DEF Holding
<1>1. CASE Idle(R)
  <2>1. sent = {}
    BY <1>0, <1>1 DEF Idle, NewPhase1
  <2> QED BY <1>0, <1>1, <2>1 DEF Idle
<1>2. CASE Requested(R)
  BY <1>0, <1>2 DEF Requested
<1>3. CASE Coordinating(R)
  BY <1>0, <1>3 DEF Coordinating
<1>4. CASE Executing(R)
  BY <1>0, <1>4 DEF Executing
<1>5. CASE Parked(R)
  BY <1>0, <1>5 DEF Parked
<1>6. CASE HandingBack(R)
  BY <1>0, <1>6 DEF HandingBack
<1> QED BY <1>0, <1>1, <1>2, <1>3, <1>4, <1>5, <1>6 DEF RoomPhase

\* A room is in busy_rooms exactly while one thing owns it, for any number of
\* rooms, requests and sessions (worker.rs, busy_rooms).
THEOREM BusyExact == Spec => []BusyIffOwned
BY PhasesHold, PhasesBusy, PTL

\* The room's receiver is in exactly one place, so no session's end can lose
\* the room its network (worker.rs, rooms_coordination to network_proxies).
THEOREM ReceiverNeverLost == Spec => []ReceiverKept
<1>1. RoomPhases => ReceiverKept
  <2> SUFFICES ASSUME RoomPhases, NEW R \in Rooms \ deaf
               PROVE  Cardinality(InRoom(chans, R)) + Cardinality(InRoom(awaiting, R))
                      + Cardinality(InRoom(proxies, R))
                      + (IF restores[R] = "none" THEN 0 ELSE 1) = 1
    BY DEF ReceiverKept
  <2>1. RoomPhase(R)
    BY DEF RoomPhases
  <2>2. Cardinality({}) = 0 /\ \A x : Cardinality({x}) = 1
    BY FS_EmptySet, FS_Singleton
  <2>3. CASE Idle(R) \/ Requested(R)
    <3>1. PICK c : InRoom(chans, R) = {c} /\ InRoom(awaiting, R) = {} /\ InRoom(proxies, R) = {}
      BY <2>3 DEF Idle, Requested, Holding
    <3>2. /\ Cardinality(InRoom(chans, R)) = 1 /\ Cardinality(InRoom(awaiting, R)) = 0
          /\ Cardinality(InRoom(proxies, R)) = 0
      BY <2>2, <3>1, Zenon
    <3>3. restores[R] = "none"
      BY <2>3 DEF Idle, Requested
    <3> QED BY <3>2, <3>3
  <2>4. CASE Coordinating(R)
    <3>1. PICK w : InRoom(chans, R) = {} /\ InRoom(awaiting, R) = {w} /\ InRoom(proxies, R) = {}
      BY <2>4 DEF Coordinating, Holding
    <3>2. /\ Cardinality(InRoom(chans, R)) = 0 /\ Cardinality(InRoom(awaiting, R)) = 1
          /\ Cardinality(InRoom(proxies, R)) = 0
      BY <2>2, <3>1, Zenon
    <3>3. restores[R] = "none"
      BY <2>4 DEF Coordinating
    <3> QED BY <3>2, <3>3
  <2>5. CASE Executing(R) \/ HandingBack(R)
    <3>1. PICK p : InRoom(chans, R) = {} /\ InRoom(awaiting, R) = {} /\ InRoom(proxies, R) = {p}
      BY <2>5 DEF Executing, HandingBack, Holding
    <3>2. /\ Cardinality(InRoom(chans, R)) = 0 /\ Cardinality(InRoom(awaiting, R)) = 0
          /\ Cardinality(InRoom(proxies, R)) = 1
      BY <2>2, <3>1, Zenon
    <3>3. restores[R] = "none"
      BY <2>5 DEF Executing, HandingBack
    <3> QED BY <3>2, <3>3
  <2>6. CASE Parked(R)
    <3>1. InRoom(chans, R) = {} /\ InRoom(awaiting, R) = {} /\ InRoom(proxies, R) = {}
      BY <2>6 DEF Parked, Holding
    <3>2. /\ Cardinality(InRoom(chans, R)) = 0 /\ Cardinality(InRoom(awaiting, R)) = 0
          /\ Cardinality(InRoom(proxies, R)) = 0
      BY <2>2, <3>1, Zenon
    <3>3. restores[R] = "room"
      BY <2>6 DEF Parked
    <3> QED BY <3>2, <3>3
  <2> QED BY <2>1, <2>3, <2>4, <2>5, <2>6 DEF RoomPhase
<1> QED BY <1>1, PhasesHold, PTL

\* Nothing waits in a room's queue when the room is free and its sender is in
\* rooms_rpc (worker.rs, dispatch_pending_local after every release).
THEOREM NothingStranded == Spec => []NoStrandedRequest
<1>1. RoomPhases => NoStrandedRequest
  <2> SUFFICES ASSUME RoomPhases, NEW R \in Rooms \ deaf, pending_local[R] # <<>>
               PROVE  \/ R \in busy /\ Owners(R) # {}
                      \/ rooms_rpc[R] # "live" /\ InRoom(proxies, R) # {}
    BY DEF NoStrandedRequest
  <2>1. CASE R \in busy
    BY <2>1, PhasesBusy DEF BusyIffOwned
  <2>2. CASE R \notin busy
    <3>1. HandingBack(R)
      BY <2>2 DEF RoomPhases, RoomPhase, Idle, Requested, Coordinating, Executing, Parked
    <3> QED BY <3>1 DEF HandingBack, Holding
  <2> QED BY <2>1, <2>2
<1> QED BY <1>1, PhasesHold, PTL
===============================================================================
