----------------------- MODULE ReliableBroadcastProofs ------------------------
(***************************************************************************)
(* Consistent, for any set of parties, rounds and payloads.                *)
(***************************************************************************)
EXTENDS ReliableBroadcast, TLAPS

\* A party sends one copy to each party in a round; a view is made of copies
\* that were sent to its owner; a verified round has the same view everywhere.
IInv ==
    /\ TypeOK
    /\ \A m, n \in sent : <<m.from, m.to, m.id>> = <<n.from, n.to, n.id>> => m = n
    /\ \A p, q \in Party, k \in Ids : view[p][k] # None =>
          [from |-> q, to |-> p, id |-> k, val |-> view[p][k][q]] \in sent
    /\ \A p, q \in Party : \A k \in verified[p] :
          view[p][k] # None /\ view[q][k] = view[p][k]

\* The invariant holds before the first broadcast.
LEMMA InitIInv == Init => IInv
BY DEF Init, IInv, TypeOK

\* Every broadcast, collection and verification keeps the invariant.
LEMMA StepIInv == IInv /\ [Next]_vars => IInv'
<1> SUFFICES ASSUME IInv, [Next]_vars PROVE IInv'
  OBVIOUS
<1>1. ASSUME NEW p \in Party, NEW k \in Ids, NEW f \in [Party -> Values], Broadcast(p, k, f)
      PROVE  IInv'
  <2> DEFINE new == {[from |-> p, to |-> q, id |-> k, val |-> f[q]] : q \in Party}
  <2>1. sent' = sent \cup new /\ view' = view /\ verified' = verified
    BY <1>1 DEF Broadcast
  <2>2. new \subseteq Copy
    BY DEF Copy
  <2>3. TypeOK'
    BY <2>1, <2>2 DEF IInv, TypeOK
  <2>4. \A m, n \in sent' : <<m.from, m.to, m.id>> = <<n.from, n.to, n.id>> => m = n
    <3>1. \A m \in sent : <<m.from, m.id>> # <<p, k>>
      BY <1>1 DEF Broadcast
    <3>2. \A m \in new : m.from = p /\ m.id = k
      OBVIOUS
    <3>3. \A m, n \in new : m.to = n.to => m = n
      OBVIOUS
    <3> QED BY <2>1, <3>1, <3>2, <3>3 DEF IInv
  <2> QED BY <2>1, <2>3, <2>4 DEF IInv
<1>2. ASSUME NEW p \in Party, NEW k \in Ids, NEW v \in [Party -> Values], Collect(p, k, v)
      PROVE  IInv'
  <2>1. /\ view[p][k] = None
        /\ view' = [view EXCEPT ![p][k] = v] /\ sent' = sent /\ verified' = verified
        /\ \A q \in Party : [from |-> q, to |-> p, id |-> k, val |-> v[q]] \in sent
    BY <1>2 DEF Collect
  <2>2. \A q \in Party, i \in Ids :
           view'[q][i] = IF q = p /\ i = k THEN v ELSE view[q][i]
    BY <2>1 DEF IInv, TypeOK
  <2>3. TypeOK'
    BY <2>1 DEF IInv, TypeOK
  <2>4. \A q, s \in Party, i \in Ids : view'[q][i] # None =>
           [from |-> s, to |-> q, id |-> i, val |-> view'[q][i][s]] \in sent'
    BY <2>1, <2>2 DEF IInv
  <2>5. \A q, s \in Party : \A i \in verified'[q] :
           view'[q][i] # None /\ view'[s][i] = view'[q][i]
    <3>1. ASSUME NEW q \in Party, NEW i \in verified[q] PROVE i \in Ids /\ i # k
      BY <2>1, <3>1 DEF IInv, TypeOK
    <3> QED BY <2>1, <2>2, <3>1 DEF IInv
  <2> QED BY <2>1, <2>3, <2>4, <2>5 DEF IInv
<1>3. ASSUME NEW p \in Party, NEW k \in Ids, Verify(p, k) PROVE IInv'
  <2>1. /\ view[p][k] # None /\ \A q \in Party : view[q][k] = view[p][k]
        /\ verified' = [verified EXCEPT ![p] = @ \cup {k}]
        /\ sent' = sent /\ view' = view
    BY <1>3 DEF Verify
  <2>2. TypeOK'
    BY <2>1 DEF IInv, TypeOK
  <2>3. \A q \in Party : \A i \in verified'[q] : i \in verified[q] \/ (q = p /\ i = k)
    BY <2>1 DEF IInv, TypeOK
  <2> QED BY <2>1, <2>2, <2>3 DEF IInv
<1>4. CASE UNCHANGED vars
  BY <1>4 DEF vars, IInv, TypeOK
<1> QED BY <1>1, <1>2, <1>3, <1>4 DEF Next

\* The echo proves reliability: once a party has verified a round, all copies
\* of every broadcast of that round carry what that party saw (echo.rs:163-193).
THEOREM EchoConsistent == Spec => []Consistent
<1>1. IInv => Consistent
  <2> SUFFICES ASSUME IInv, NEW p \in Party, NEW k \in verified[p], NEW m \in sent, m.id = k
               PROVE  m.val = view[p][k][m.from]
    BY DEF Consistent
  <2>1. m \in Copy /\ k \in Ids
    BY DEF IInv, TypeOK
  <2> DEFINE c == [from |-> m.from, to |-> m.to, id |-> k, val |-> view[m.to][k][m.from]]
  <2>2. m.from \in Party /\ m.to \in Party
    BY <2>1 DEF Copy
  <2>3. view[m.to][k] = view[p][k] /\ view[p][k] # None
    BY <2>2 DEF IInv
  <2>4. c \in sent
    BY <2>1, <2>2, <2>3 DEF IInv
  <2>5. c.from = m.from /\ c.to = m.to /\ c.id = m.id /\ c.val = view[m.to][k][m.from]
    OBVIOUS
  <2>6. c = m
    <3> HIDE DEF c
    <3> QED BY <2>4, <2>5 DEF IInv
  <2> QED BY <2>3, <2>5, <2>6
<1> QED BY <1>1, InitIInv, StepIInv, PTL DEF Spec
===============================================================================
