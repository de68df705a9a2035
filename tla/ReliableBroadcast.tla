-------------------------- MODULE ReliableBroadcast ---------------------------
(***************************************************************************)
(* What the echo of a session promises (README.md, "Echo broadcast"):      *)
(* parties broadcast in numbered rounds, a broadcast may reach different   *)
(* parties with different payloads, and a party that verifies a round      *)
(* knows that every party has collected the same vector in it.             *)
(* Session implements this specification.                                  *)
(***************************************************************************)
CONSTANTS Party, Ids, Values, None

VARIABLES
    sent,    \* every copy of every broadcast, the sender's own included
    view,    \* per party and round: the vector it collected
    verified \* per party: the rounds it has verified

vars == <<sent, view, verified>>

Copy == [from : Party, to : Party, id : Ids, val : Values]

TypeOK ==
    /\ sent \subseteq Copy
    /\ view \in [Party -> [Ids -> [Party -> Values] \cup {None}]]
    /\ verified \in [Party -> SUBSET Ids]

Init ==
    /\ sent = {}
    /\ view = [p \in Party |-> [k \in Ids |-> None]]
    /\ verified = [p \in Party |-> {}]

Broadcast(p, k, f) ==
    /\ \A m \in sent : <<m.from, m.id>> # <<p, k>>
    /\ sent' = sent \cup {[from |-> p, to |-> q, id |-> k, val |-> f[q]] : q \in Party}
    /\ UNCHANGED <<view, verified>>

Collect(p, k, v) ==
    /\ view[p][k] = None
    /\ \A q \in Party : [from |-> q, to |-> p, id |-> k, val |-> v[q]] \in sent
    /\ view' = [view EXCEPT ![p][k] = v]
    /\ UNCHANGED <<sent, verified>>

Verify(p, k) ==
    /\ view[p][k] # None
    /\ \A q \in Party : view[q][k] = view[p][k]
    /\ verified' = [verified EXCEPT ![p] = @ \cup {k}]
    /\ UNCHANGED <<sent, view>>

Next ==
    \E p \in Party, k \in Ids :
        \/ \E f \in [Party -> Values] : Broadcast(p, k, f) \/ Collect(p, k, f)
        \/ Verify(p, k)

Spec == Init /\ [][Next]_vars

\* Once a party has verified a round, no two parties ever hold different
\* payloads of one sender in it, and every sender sent all of them the same.
Consistent ==
    \A p \in Party : \A k \in verified[p] :
        \A m \in sent : m.id = k => m.val = view[p][k][m.from]
===============================================================================
