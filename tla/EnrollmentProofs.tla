-------------------------- MODULE EnrollmentProofs --------------------------
(***************************************************************************)
(* Theorems about Enrollment, for any number of machines, tokens and       *)
(* requests.                                                               *)
(***************************************************************************)
EXTENDS Enrollment, TLAPS

LEMMA InitEnroll == Init => EnrollInv
<1> SUFFICES ASSUME Init PROVE EnrollInv
    OBVIOUS
<1>1. TypeOK
  <2>1. request \in [Request -> RequestState]
    BY DEF Init, RequestState, Phase, Id
  <2>2. tokens \in [Token -> TokenRow] /\ raced \subseteq Token /\ faults \in 0 .. MaxFaults
    BY EnrollmentAssumption DEF Init, TokenRow
  <2>3. nodes \in [Hw -> NodeRow] /\ identity \in [Hw -> Identity]
    BY DEF Init, NodeRow, NoNode, NodeStatus, Identity
  <2> QED
    BY <2>1, <2>2, <2>3 DEF TypeOK
<1>2. \A q \in Request : request[q].phase = "new"
  BY DEF Init
<1>3. \A h \in Hw : nodes[h] = NoNode /\ identity[h].id = None
  BY DEF Init
<1> QED
  BY <1>1, <1>2, <1>3
     DEF EnrollInv, RowsHaveIds, RowsHaveStatus, LookedUp, CommittedNamesNode,
         IdentityNamesNode, NoNode

\* Moving a request to another phase changes nothing else of it.
LEMMA ToFacts ==
    ASSUME TypeOK, NEW q \in Request, NEW p \in Phase, To(q, p)
    PROVE  /\ request' \in [Request -> RequestState]
           /\ request'[q].phase = p
           /\ \A r \in Request : r # q => request'[r] = request[r]
           /\ request'[q].token = request[q].token
           /\ request'[q].hw = request[q].hw
           /\ request'[q].nodeId = request[q].nodeId
BY DEF TypeOK, To, RequestState

LEMMA NextEnroll == EnrollInv /\ [Next]_vars => EnrollInv'
<1> SUFFICES ASSUME EnrollInv, [Next]_vars PROVE EnrollInv'
    OBVIOUS
<1> USE DEF EnrollInv
<1>t. /\ \A q \in Request : request[q] \in RequestState /\ request[q].hw \in Hw
                            /\ request[q].token \in Token
                            /\ request[q].nodeId \in Id \cup {None}
      /\ \A h \in Hw : nodes[h] \in NodeRow /\ identity[h] \in Identity
  BY DEF TypeOK, RequestState
\* Steps that only move a request to "matched", "lost" or "failed".
<1>m. ASSUME NEW q \in Request, NEW p \in {"matched", "lost", "failed"}, To(q, p),
             UNCHANGED <<tokens, nodes, identity>>, raced' \subseteq Token,
             faults' \in 0 .. MaxFaults
      PROVE  EnrollInv'
  <2>1. p \in Phase
    BY DEF Phase
  <2>2. TypeOK'
    BY <1>m, <2>1, ToFacts DEF TypeOK
  <2>3. RowsHaveIds' /\ RowsHaveStatus' /\ IdentityNamesNode'
    BY <1>m DEF RowsHaveIds, RowsHaveStatus, IdentityNamesNode
  <2>4. LookedUp' /\ CommittedNamesNode'
    BY <1>m, <2>1, ToFacts DEF LookedUp, CommittedNamesNode
  <2> QED
    BY <2>2, <2>3, <2>4
<1>f. faults \in 0 .. MaxFaults /\ (Fault => faults' \in 0 .. MaxFaults)
  BY EnrollmentAssumption DEF TypeOK, Fault
<1>r. raced \subseteq Token
  BY DEF TypeOK
<1>1. ASSUME NEW t \in Token, create(t) PROVE EnrollInv'
  <2>1. tokens' \in [Token -> TokenRow]
    BY <1>1, EnrollmentAssumption DEF create, TypeOK, TokenRow
  <2> QED
    BY <1>1, <2>1
       DEF create, TypeOK, RowsHaveIds, RowsHaveStatus, LookedUp, CommittedNamesNode,
           IdentityNamesNode
<1>2. ASSUME NEW h \in Hw, NEW from, NEW to \in NodeStatus \ {"none"}, "none" \notin from,
             SetStatus(h, from, to)
      PROVE  EnrollInv'
  <2>1. /\ nodes' \in [Hw -> NodeRow]
        /\ \A g \in Hw : nodes'[g].id = nodes[g].id
        /\ \A g \in Hw : g # h => nodes'[g] = nodes[g]
        /\ nodes'[h].status = to
        /\ nodes[h].status # "none"
    BY <1>2 DEF SetStatus, TypeOK, NodeRow
  <2>2. nodes[h].id # None /\ nodes'[h] # NoNode
    BY <2>1 DEF RowsHaveIds, RowsHaveStatus, NoNode
  <2>3. RowsHaveIds' /\ RowsHaveStatus'
    BY <2>1, <2>2 DEF RowsHaveIds, RowsHaveStatus
  <2>4. LookedUp' /\ CommittedNamesNode' /\ IdentityNamesNode'
    BY <1>2, <1>t, <2>1 DEF SetStatus, LookedUp, CommittedNamesNode, IdentityNamesNode
  <2> QED
    BY <1>2, <2>1, <2>3, <2>4 DEF SetStatus, TypeOK
<1>3. ASSUME NEW h \in Hw, approve(h) \/ revoke(h) \/ drain(h) PROVE EnrollInv'
  BY <1>2, <1>3 DEF approve, revoke, drain, NodeStatus
<1>4. ASSUME NEW q \in Request, Match(q) PROVE EnrollInv'
  BY <1>4, <1>m, <1>f, <1>r, <1>t DEF Match
<1>5. ASSUME NEW q \in Request, Unauthorized(q) PROVE EnrollInv'
  BY <1>5, <1>m, <1>f, <1>r DEF Unauthorized
<1>6. ASSUME NEW q \in Request, Lookup(q) PROVE EnrollInv'
  <2> DEFINE i == IF nodes[request[q].hw].id = None THEN q ELSE nodes[request[q].hw].id
  <2>1. i \in Id /\ i # None
    BY <1>t, EnrollmentAssumption DEF NodeRow, Id
  <2>2. /\ request' = [request EXCEPT ![q].phase = "looked", ![q].nodeId = i]
        /\ UNCHANGED <<tokens, nodes, identity, raced, faults>>
    BY <1>6 DEF Lookup
  <2>a. request[q] \in RequestState /\ "looked" \in Phase /\ i \in Id \cup {None}
    BY <2>1 DEF TypeOK, Phase
  <2>b. [request[q] EXCEPT !.phase = "looked", !.nodeId = i] \in RequestState
    BY <2>a DEF RequestState
  <2>3. /\ request' \in [Request -> RequestState]
        /\ request'[q].phase = "looked"
        /\ request'[q].nodeId = i
        /\ \A r \in Request : r # q => request'[r] = request[r]
    <3>1. request' = [request EXCEPT ![q] = [request[q] EXCEPT !.phase = "looked", !.nodeId = i]]
      BY <2>2 DEF TypeOK
    <3> QED
      BY <2>a, <2>b, <3>1 DEF TypeOK, RequestState
  <2>4. LookedUp' /\ CommittedNamesNode'
    BY <2>1, <2>2, <2>3 DEF LookedUp, CommittedNamesNode
  <2> QED
    BY <2>2, <2>3, <2>4 DEF TypeOK, RowsHaveIds, RowsHaveStatus, IdentityNamesNode
<1>7. ASSUME NEW q \in Request, Rollback(q) PROVE EnrollInv'
  BY <1>7, <1>m, <1>f, <1>r DEF Rollback
<1>8. ASSUME NEW q \in Request, Commit(q) PROVE EnrollInv'
  <2> DEFINE h == request[q].hw
             i == request[q].nodeId
  <2>1. h \in Hw /\ i \in Id /\ i # None /\ "committed" \in Phase
    BY <1>8, <1>t DEF Commit, LookedUp, Phase
  <2>2. /\ nodes[h] = NoNode \/ nodes[h].id = i
        /\ UNCHANGED <<identity, raced, faults>>
    BY <1>8 DEF Commit, NodeConflict
  <2>a. nodes[h] \in NodeRow /\ "pending_approval" \in NodeStatus /\ i \in Id \cup {None}
    BY <1>t, <2>1 DEF NodeStatus
  <2>b. PICK row \in NodeRow : /\ nodes' = [nodes EXCEPT ![h] = row]
                              /\ row.id = i
                              /\ row.status # "none"
    <3>1. CASE nodes[h] = NoNode
      <4> DEFINE new == [status |-> "pending_approval", id |-> i, cert |-> q]
      <4>1. new \in NodeRow
        BY <2>a DEF NodeRow
      <4>2. nodes' = [nodes EXCEPT ![h] = new]
        BY <1>8, <3>1 DEF Commit, NodeUpsert
      <4> QED
        BY <4>1, <4>2
    <3>2. CASE nodes[h] # NoNode
      <4> DEFINE new == [nodes[h] EXCEPT !.id = i, !.cert = q]
      <4>1. new \in NodeRow /\ new.id = i /\ new.status = nodes[h].status
        BY <2>a DEF NodeRow
      <4>2. nodes' = [nodes EXCEPT ![h] = new]
        BY <1>8, <1>t, <2>1, <3>2 DEF Commit, NodeUpsert, NodeRow
      <4>3. nodes[h].status # "none"
        BY <2>1, <3>2, <1>t DEF RowsHaveStatus
      <4> QED
        BY <4>1, <4>2, <4>3
    <3> QED
      BY <3>1, <3>2
  <2>3. /\ nodes' \in [Hw -> NodeRow]
        /\ nodes'[h].id = i
        /\ nodes'[h].status # "none"
        /\ \A g \in Hw : g # h => nodes'[g] = nodes[g]
    BY <1>t, <2>1, <2>b DEF TypeOK
  <2>4. \A g \in Hw : nodes[g].id # None => nodes'[g].id = nodes[g].id
    BY <2>2, <2>3 DEF NoNode
  <2>5. tokens' \in [Token -> TokenRow]
    BY <1>8, <1>t, <2>1 DEF Commit, TypeOK, TokenRow
  <2>6. RowsHaveIds' /\ RowsHaveStatus'
    BY <2>1, <2>3 DEF RowsHaveIds, RowsHaveStatus, NoNode
  <2>7. IdentityNamesNode'
    BY <2>2, <2>4 DEF IdentityNamesNode
  <2>8. To(q, "committed")
    BY <1>8 DEF Commit
  <2>9. LookedUp'
    BY <2>1, <2>8, ToFacts DEF LookedUp
  <2>10. CommittedNamesNode'
    BY <2>1, <2>3, <2>4, <2>8, <1>t, ToFacts DEF CommittedNamesNode, LookedUp
  <2> QED
    BY <2>1, <2>2, <2>3, <2>5, <2>6, <2>7, <2>8, <2>9, <2>10, ToFacts DEF TypeOK
<1>9. ASSUME NEW q \in Request, Answer(q) PROVE EnrollInv'
  <2>1. To(q, "answered") /\ "answered" \in Phase /\ UNCHANGED <<tokens, nodes, raced, faults>>
    BY <1>9 DEF Answer, Phase
  <2>2. identity' = [identity EXCEPT ![request[q].hw] = [id |-> request[q].nodeId, cert |-> q]]
    BY <1>9 DEF Answer
  <2>3. identity' \in [Hw -> Identity]
    BY <1>t, <2>2 DEF TypeOK, Identity
  <2>4. IdentityNamesNode'
    BY <1>9, <1>t, <2>1, <2>2 DEF Answer, IdentityNamesNode, CommittedNamesNode, TypeOK
  <2>5. LookedUp' /\ CommittedNamesNode'
    BY <2>1, ToFacts DEF LookedUp, CommittedNamesNode
  <2> QED
    BY <2>1, <2>3, <2>4, <2>5, ToFacts DEF TypeOK, RowsHaveIds, RowsHaveStatus
<1>10. ASSUME NEW q \in Request, AnswerLost(q) PROVE EnrollInv'
  BY <1>10, <1>m, <1>f, <1>r DEF AnswerLost
<1>11. ASSUME Tick PROVE EnrollInv'
  <2>1. tokens' \in [Token -> TokenRow]
    BY <1>11, EnrollmentAssumption DEF Tick, TypeOK, TokenRow
  <2> QED
    BY <1>11, <2>1
       DEF Tick, TypeOK, RowsHaveIds, RowsHaveStatus, LookedUp, CommittedNamesNode,
           IdentityNamesNode
<1>12. CASE UNCHANGED vars
  BY <1>12
     DEF vars, TypeOK, RowsHaveIds, RowsHaveStatus, LookedUp, CommittedNamesNode,
         IdentityNamesNode
<1> QED
  BY <1>1, <1>3, <1>4, <1>5, <1>6, <1>7, <1>8, <1>9, <1>10, <1>11, <1>12
     DEF Next, HandlerNext

\* Racing enrollments of one machine never leave it with an id that is not the
\* id of its row in the nodes table.
THEOREM IdentityCorrect == Spec => []IdentityNamesNode
BY InitEnroll, NextEnroll, PTL DEF Spec, EnrollInv

\* Tokens, rows, requests and identity files keep their types.
THEOREM EnrollmentTyped == Spec => []TypeOK
<1>1. EnrollInv => TypeOK
  BY DEF EnrollInv
<1> QED BY <1>1, InitEnroll, NextEnroll, PTL DEF Spec

-----------------------------------------------------------------------------
(* The lifecycle. *)

LEMMA InitLifecycle == Init => L!Init
BY DEF Init, L!Init, NoNode

LEMMA StepLifecycle ==
    EnrollInv /\ [Next]_vars => [L!Next]_([h \in Hw |-> nodes[h].status])
<1> DEFINE st == [h \in Hw |-> nodes[h].status]
<1> SUFFICES ASSUME EnrollInv, [Next]_vars PROVE L!Next \/ st' = st
    OBVIOUS
<1>t. nodes \in [Hw -> NodeRow] /\ \A q \in Request : request[q].hw \in Hw
  BY DEF EnrollInv, TypeOK, RequestState
<1>1. ASSUME NEW h \in Hw, approve(h) \/ revoke(h) \/ drain(h) PROVE L!Next
  <2>1. ASSUME NEW from, NEW to, SetStatus(h, from, to)
        PROVE  st[h] \in from /\ st' = [st EXCEPT ![h] = to]
    BY <1>t, <2>1 DEF SetStatus, NodeRow
  <2>2. CASE approve(h)
    BY <2>1, <2>2 DEF approve, L!Next, L!Move
  <2>3. CASE revoke(h)
    BY <2>1, <2>3 DEF revoke, NodeStatus, L!Next, L!Move, L!Lifecycle
  <2>4. CASE drain(h)
    BY <2>1, <2>4 DEF drain, L!Next, L!Move
  <2> QED
    BY <1>1, <2>2, <2>3, <2>4
<1>2. ASSUME NEW q \in Request, Commit(q) PROVE L!Next \/ st' = st
  <2>1. CASE nodes[request[q].hw] = NoNode
    <3>1. nodes' = [nodes EXCEPT ![request[q].hw] =
                      [status |-> "pending_approval", id |-> request[q].nodeId, cert |-> q]]
      BY <1>2, <2>1 DEF Commit, NodeUpsert
    <3>2. st[request[q].hw] = "none"
      BY <1>t, <2>1 DEF NoNode
    <3>3. st' = [st EXCEPT ![request[q].hw] = "pending_approval"]
      BY <1>t, <3>1
    <3> QED
      BY <1>t, <3>2, <3>3 DEF L!Next, L!Move
  <2>2. CASE nodes[request[q].hw] # NoNode
    BY <1>2, <1>t, <2>2 DEF Commit, NodeUpsert, NodeRow
  <2> QED
    BY <2>1, <2>2
<1>3. CASE UNCHANGED nodes
  BY <1>3
<1> QED
  BY <1>1, <1>2, <1>3
     DEF Next, HandlerNext, vars, create, Match, Unauthorized, Lookup, Rollback, Answer,
         AnswerLost, Tick

\* Concurrent enrollments and admin requests implement the node lifecycle; in
\* particular no re-enrollment takes a revoked machine back.
THEOREM LifecycleCorrect == Spec => LifecycleRefined
BY InitEnroll, NextEnroll, InitLifecycle, StepLifecycle, PTL DEF Spec, LifecycleRefined, L!Spec
-----------------------------------------------------------------------------
(* Tokens. *)

LEMMA InitToken == Init => TokenInv
<1> SUFFICES ASSUME Init PROVE TokenInv
    OBVIOUS
<1>1. \A q \in Request : request[q].phase = "new"
  BY DEF Init
<1>2. \A q \in Request : request[q].phase \notin Passed /\ request[q].phase \notin Enrolled
  BY <1>1 DEF Passed, Enrolled
<1> QED
  BY <1>2, InitEnroll DEF TokenInv, PassedIssued, EnrolledUsed, PassedRaced

LEMMA NextToken == TokenInv /\ [Next]_vars => TokenInv'
<1> SUFFICES ASSUME TokenInv, [Next]_vars PROVE TokenInv'
    OBVIOUS
<1> USE DEF Passed, Enrolled
<1>e. EnrollInv /\ EnrollInv' /\ TypeOK
  BY NextEnroll DEF TokenInv, EnrollInv
<1>t. /\ tokens \in [Token -> TokenRow]
      /\ \A q \in Request : request[q] \in RequestState /\ request[q].token \in Token
                            /\ request[q].nodeId \in Id \cup {None}
  BY <1>e DEF TypeOK, RequestState
<1>i. PassedIssued /\ EnrolledUsed /\ PassedRaced
  BY DEF TokenInv
<1> SUFFICES PassedIssued' /\ EnrolledUsed' /\ PassedRaced'
  BY <1>e DEF TokenInv
\* Steps that leave the requests alone and no token less issued or used.
<1>k. ASSUME UNCHANGED <<request, raced>>,
             \A t \in Token : tokens[t].issued =>
                 tokens'[t].issued /\ tokens'[t].usedBy = tokens[t].usedBy
      PROVE  PassedIssued' /\ EnrolledUsed' /\ PassedRaced'
  BY <1>k, <1>i, <1>t DEF PassedIssued, EnrolledUsed, PassedRaced
\* Steps that move a request on, within the same class, or to "failed".
<1>m. ASSUME NEW q \in Request, UNCHANGED <<tokens, raced>>,
             \A p \in Request : request'[p].token = request[p].token,
             \A p \in Request : p # q => request'[p].phase = request[p].phase,
             \/ request'[q].phase = "failed"
             \/ request[q].phase \in {"matched", "looked"} /\ request'[q].phase = "looked"
             \/ request[q].phase \in Enrolled /\ request'[q].phase \in Enrolled
      PROVE  PassedIssued' /\ EnrolledUsed' /\ PassedRaced'
  <2>1. \A p \in Request : /\ request'[p].phase \in Passed => request[p].phase \in Passed
                           /\ request'[p].phase \in Enrolled => request[p].phase \in Enrolled
    BY <1>m
  <2>2. PassedIssued'
    BY <1>m, <1>i, <2>1 DEF PassedIssued
  <2>3. EnrolledUsed'
    BY <1>m, <1>i, <2>1 DEF EnrolledUsed
  <2>4. PassedRaced'
    BY <1>m, <1>i, <2>1 DEF PassedRaced
  <2> QED
    BY <2>2, <2>3, <2>4
<1>p. {"matched", "looked", "lost", "failed", "committed", "answered"} \subseteq Phase
  BY DEF Phase
<1>1. ASSUME NEW t \in Token, create(t) PROVE PassedIssued' /\ EnrolledUsed' /\ PassedRaced'
  BY <1>1, <1>t, <1>k DEF create
<1>2. ASSUME NEW h \in Hw, approve(h) \/ revoke(h) \/ drain(h)
      PROVE  PassedIssued' /\ EnrolledUsed' /\ PassedRaced'
  BY <1>2, <1>k DEF approve, revoke, drain, SetStatus
<1>3. ASSUME Tick PROVE PassedIssued' /\ EnrolledUsed' /\ PassedRaced'
  BY <1>3, <1>t, <1>k DEF Tick, TokenRow
<1>4. ASSUME NEW q \in Request, Match(q)
      PROVE  PassedIssued' /\ EnrolledUsed' /\ PassedRaced'
  <2>1. /\ To(q, "matched")
        /\ Valid(request[q].token)
        /\ UNCHANGED tokens
        /\ raced \subseteq raced'
        /\ (\E p \in Request : /\ request[p].phase \in {"matched", "looked"}
                               /\ request[p].token = request[q].token)
              => request[q].token \in raced'
    BY <1>4 DEF Match
  <2>2. \A p \in Request : request[p].token = request[q].token => request[p].phase \notin Enrolled
    BY <1>i, <2>1 DEF EnrolledUsed, Valid
  <2>3. /\ request'[q].phase = "matched"
        /\ \A p \in Request : p # q => request'[p] = request[p]
        /\ request'[q].token = request[q].token
    BY <1>e, <1>p, <2>1, ToFacts
  <2>4. PassedIssued' /\ EnrolledUsed'
    BY <1>i, <2>1, <2>3 DEF PassedIssued, EnrolledUsed, Valid
  <2>5. PassedRaced'
    <3> SUFFICES ASSUME NEW p \in Request, NEW r \in Request, p # r,
                        request'[p].token = request'[r].token,
                        request'[p].phase \in Passed, request'[r].phase \in Passed
                 PROVE  request'[p].token \in raced'
      BY DEF PassedRaced
    <3>1. CASE p # q /\ r # q
      BY <1>i, <2>1, <2>3, <3>1 DEF PassedRaced
    <3>2. CASE p = q
      BY <2>1, <2>2, <2>3, <3>2
    <3>3. CASE r = q
      BY <2>1, <2>2, <2>3, <3>3
    <3> QED
      BY <3>1, <3>2, <3>3
  <2> QED
    BY <2>4, <2>5
<1>5. ASSUME NEW q \in Request, Unauthorized(q) \/ Rollback(q)
      PROVE  PassedIssued' /\ EnrolledUsed' /\ PassedRaced'
  <2>1. To(q, "failed") /\ UNCHANGED <<tokens, raced>>
    BY <1>5 DEF Unauthorized, Rollback
  <2> QED
    BY <1>e, <1>p, <1>m, <2>1, ToFacts
<1>6. ASSUME NEW q \in Request, Lookup(q)
      PROVE  PassedIssued' /\ EnrolledUsed' /\ PassedRaced'
  <2>1. /\ request[q].phase = "matched"
        /\ request'[q].phase = "looked"
        /\ request'[q].token = request[q].token
        /\ \A p \in Request : p # q => request'[p] = request[p]
        /\ UNCHANGED <<tokens, raced>>
    BY <1>6, <1>e DEF Lookup, TypeOK, RequestState
  <2> QED
    BY <1>m, <2>1
<1>7. ASSUME NEW q \in Request, Commit(q)
      PROVE  PassedIssued' /\ EnrolledUsed' /\ PassedRaced'
  <2>1. /\ request[q].phase = "looked"
        /\ request[q].nodeId # None
        /\ To(q, "committed")
        /\ tokens' = [tokens EXCEPT ![request[q].token].usedBy = request[q].nodeId]
        /\ UNCHANGED raced
    BY <1>7, <1>e DEF Commit, EnrollInv, LookedUp
  <2>2. /\ request'[q].phase = "committed"
        /\ \A p \in Request : p # q => request'[p] = request[p]
        /\ request'[q].token = request[q].token
    BY <1>e, <1>p, <2>1, ToFacts
  <2>3. /\ \A t \in Token : tokens'[t].issued = tokens[t].issued
        /\ \A t \in Token : t # request[q].token => tokens'[t].usedBy = tokens[t].usedBy
        /\ tokens'[request[q].token].usedBy = request[q].nodeId
    BY <1>t, <2>1 DEF TokenRow
  <2>4. PassedIssued'
    BY <1>i, <1>t, <2>1, <2>2, <2>3 DEF PassedIssued
  <2>5. EnrolledUsed'
    BY <1>i, <1>t, <2>1, <2>2, <2>3 DEF EnrolledUsed
  <2>6. PassedRaced'
    BY <1>i, <2>1, <2>2 DEF PassedRaced
  <2> QED
    BY <2>4, <2>5, <2>6
<1>8. ASSUME NEW q \in Request, NEW p \in {"answered", "lost"}, To(q, p),
             request[q].phase = "committed", UNCHANGED <<tokens, raced>>
      PROVE  PassedIssued' /\ EnrolledUsed' /\ PassedRaced'
  BY <1>8, <1>e, <1>p, <1>m, ToFacts
<1>9. ASSUME NEW q \in Request, Answer(q) \/ AnswerLost(q)
      PROVE  PassedIssued' /\ EnrolledUsed' /\ PassedRaced'
  BY <1>8, <1>9 DEF Answer, AnswerLost
<1>10. CASE UNCHANGED vars
  BY <1>10, <1>k DEF vars
<1> QED
  BY <1>1, <1>2, <1>3, <1>4, <1>5, <1>6, <1>7, <1>9, <1>10 DEF Next, HandlerNext

\* A token enrolls one machine only, unless two requests had matched it at the
\* same time.
THEOREM TokensOneTime == Spec => []ReuseOnlyByOverlap
<1>1. TokenInv => ReuseOnlyByOverlap
  BY DEF TokenInv, PassedRaced, Passed, ReuseOnlyByOverlap
<1> QED
  BY <1>1, InitToken, NextToken, PTL DEF Spec

-----------------------------------------------------------------------------
(* Tokens and rows. *)

\* A used token names the id of a row.
UsedNamed ==
    \A t \in Token : tokens[t].usedBy # None => \E h \in Hw : nodes[h].id = tokens[t].usedBy

\* Rows keep their ids, so what a used token names stays.
LEMMA NextUsedNamed ==
    ASSUME EnrollInv, UsedNamed, [Next]_vars PROVE UsedNamed'
<1>t. TypeOK
  BY DEF EnrollInv
<1>1. CASE \E t \in Token : create(t)
  <2>1. PICK t \in Token : create(t)
    BY <1>1
  <2>2. nodes' = nodes /\ \A s \in Token : tokens'[s].usedBy \in {tokens[s].usedBy, None}
    BY <1>t, <2>1 DEF create, TypeOK
  <2> QED BY <2>2 DEF UsedNamed
<1>2. ASSUME NEW h \in Hw, approve(h) \/ revoke(h) \/ drain(h) PROVE UsedNamed'
  <2>1. PICK from, to : SetStatus(h, from, to)
    BY <1>2 DEF approve, revoke, drain
  <2>2. tokens' = tokens /\ \A g \in Hw : nodes'[g].id = nodes[g].id
    BY <1>t, <2>1 DEF SetStatus, TypeOK, NodeRow
  <2> QED BY <2>2 DEF UsedNamed
<1>3. ASSUME NEW q \in Request, Commit(q) PROVE UsedNamed'
  <2> DEFINE r == request[q]
  <2>1. r.hw \in Hw /\ r.token \in Token
    BY <1>t DEF TypeOK, RequestState
  <2>2. /\ nodes'[r.hw].id = r.nodeId
        /\ \A g \in Hw \ {r.hw} : nodes'[g] = nodes[g]
    BY <1>t, <1>3, <2>1 DEF Commit, NodeUpsert, TypeOK, NodeRow
  <2>3. nodes[r.hw].id = None \/ nodes[r.hw].id = r.nodeId
    BY <1>3, <2>1 DEF Commit, NodeConflict, EnrollInv, RowsHaveIds
  <2>4. /\ tokens'[r.token].usedBy = r.nodeId
        /\ \A s \in Token \ {r.token} : tokens'[s] = tokens[s]
    BY <1>t, <1>3, <2>1 DEF Commit, TypeOK, TokenRow
  <2> SUFFICES ASSUME NEW s \in Token, tokens'[s].usedBy # None
               PROVE  \E h \in Hw : nodes'[h].id = tokens'[s].usedBy
    BY DEF UsedNamed
  <2>5. CASE s = r.token
    BY <2>1, <2>2, <2>4, <2>5
  <2>6. CASE s # r.token
    <3>1. PICK h \in Hw : nodes[h].id = tokens[s].usedBy
      BY <2>4, <2>6 DEF UsedNamed
    <3>2. tokens'[s].usedBy = tokens[s].usedBy
      BY <2>4, <2>6
    <3>3. nodes'[h].id = nodes[h].id
      BY <2>2, <2>3, <3>1, <3>2
    <3> QED BY <3>1, <3>2, <3>3
  <2> QED BY <2>5, <2>6
<1>4. CASE Tick
  <2>1. nodes' = nodes /\ \A s \in Token : tokens'[s].usedBy = tokens[s].usedBy
    BY <1>t, <1>4 DEF Tick, TypeOK, TokenRow
  <2> QED BY <2>1 DEF UsedNamed
<1>5. CASE UNCHANGED <<tokens, nodes>>
  BY <1>5 DEF UsedNamed
<1> QED
  BY <1>1, <1>2, <1>3, <1>4, <1>5
  DEF Next, HandlerNext, Match, Unauthorized, Lookup, Rollback, Answer, AnswerLost, vars

\* Token and row change together: a used token names an enrolled node, and every
\* enrollment that committed has used its token.
THEOREM TokensAccounted == Spec => []TokensAccountedFor
<1>1. Init => UsedNamed
  BY DEF Init, UsedNamed
<1>2. TokenInv /\ UsedNamed /\ [Next]_vars => UsedNamed'
  BY NextUsedNamed DEF TokenInv
<1>3. TokenInv /\ UsedNamed => TokensAccountedFor
  BY DEF TokenInv, EnrolledUsed, UsedNamed, TokensAccountedFor
<1> QED
  BY <1>1, <1>2, <1>3, InitToken, NextToken, PTL DEF Spec
=============================================================================
