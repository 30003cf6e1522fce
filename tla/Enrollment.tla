----------------------------- MODULE Enrollment -----------------------------
(***************************************************************************)
(* Enrollment of machines: the admin's one-time tokens (mgmt-backend/src/  *)
(* handlers/enroll_token.rs), the handler that exchanges a token for a     *)
(* node row and a client certificate (handlers/enroll.rs), the admin's     *)
(* approve, drain and revoke (handlers/nodes.rs) and the bootstrapper that *)
(* stores the answer (bootstrapper/src/enroll.rs, state.rs).               *)
(*                                                                         *)
(* A request reads the tokens, reads the node row, and writes everything   *)
(* in one transaction: three steps, interleaved with other requests.  The  *)
(* id a request makes up for a new node, and the certificate it mints, are *)
(* named after the request.                                                *)
(***************************************************************************)
EXTENDS Naturals, FiniteSets

CONSTANTS
    Hw,         \* machines, by hardware fingerprint
    Token,      \* enrollment tokens
    Request,    \* enrollment requests
    None,       \* no request
    Ttl,        \* life time of a token
    MaxFaults   \* bound on failed transactions and lost answers

ASSUME EnrollmentAssumption ==
    /\ None \notin Request
    /\ Ttl \in Nat \ {0}
    /\ MaxFaults \in Nat

VARIABLES
    tokens,     \* the enroll_tokens table
    nodes,      \* the nodes table, by its unique column hw_fingerprint
    request,    \* request[q]: where the handler of q is
    identity,   \* identity[h]: the identity file of machine h
    raced,      \* history: tokens that two requests had matched at the same time
    faults      \* faults so far

vars == <<tokens, nodes, request, identity, raced, faults>>

-----------------------------------------------------------------------------

Id == Request

\* left: time until expires_at; usedBy: used_by_node (and used_at with it).
TokenRow == [issued : BOOLEAN, left : 0 .. Ttl, usedBy : Id \cup {None}]

\* The statuses the handlers name; none of them ever writes "degraded".
NodeStatus == {"none", "pending_approval", "online", "degraded", "draining", "revoked"}

NodeRow == [status : NodeStatus, id : Id \cup {None}, cert : Request \cup {None}]

NoNode == [status |-> "none", id |-> None, cert |-> None]

\* nodeId: the id looked up or made up in the second step.
Phase == {"new", "matched", "looked", "committed", "answered", "lost", "failed"}

\* The transaction of the request has committed.
Enrolled == {"committed", "answered", "lost"}

RequestState == [phase : Phase, token : Token, hw : Hw, nodeId : Id \cup {None}]

Identity == [id : Id \cup {None}, cert : Request \cup {None}]

TypeOK ==
    /\ tokens \in [Token -> TokenRow]
    /\ nodes \in [Hw -> NodeRow]
    /\ request \in [Request -> RequestState]
    /\ identity \in [Hw -> Identity]
    /\ raced \subseteq Token
    /\ faults \in 0 .. MaxFaults

\* Which machine sends a request, with which token, is arbitrary.
Init ==
    /\ tokens = [t \in Token |-> [issued |-> FALSE, left |-> 0, usedBy |-> None]]
    /\ nodes = [h \in Hw |-> NoNode]
    /\ \E tok \in [Request -> Token], hw \in [Request -> Hw] :
          request = [q \in Request |-> [phase |-> "new", token |-> tok[q], hw |-> hw[q],
                                        nodeId |-> None]]
    /\ identity = [h \in Hw |-> [id |-> None, cert |-> None]]
    /\ raced = {}
    /\ faults = 0

Fault == faults < MaxFaults /\ faults' = faults + 1

-----------------------------------------------------------------------------
(* The admin. *)

\* Mutated: a token that expires too late.
create_Late(t) ==
    /\ ~tokens[t].issued
    /\ tokens' = [tokens EXCEPT ![t] = [issued |-> TRUE, left |-> Ttl + 1, usedBy |-> None]]
    /\ UNCHANGED <<nodes, request, identity, raced, faults>>

create(t) ==
    /\ ~tokens[t].issued
    /\ tokens' = [tokens EXCEPT ![t] = [issued |-> TRUE, left |-> Ttl, usedBy |-> None]]
    /\ UNCHANGED <<nodes, request, identity, raced, faults>>

SetStatus(h, from, to) ==
    /\ nodes[h].status \in from
    /\ nodes' = [nodes EXCEPT ![h].status = to]
    /\ UNCHANGED <<tokens, request, identity, raced, faults>>

approve(h) == SetStatus(h, {"pending_approval"}, "online")

revoke(h) == SetStatus(h, NodeStatus \ {"none"}, "revoked")

drain(h) == SetStatus(h, {"online", "degraded"}, "draining")

-----------------------------------------------------------------------------
(* The enrollment handler. *)

To(q, phase) == request' = [request EXCEPT ![q].phase = phase]

\* Mutated: used tokens are selected too.
Valid_Used(t) == tokens[t].issued /\ tokens[t].left > 0

Valid(t) == tokens[t].issued /\ tokens[t].usedBy = None /\ tokens[t].left > 0

\* The SELECT over unused, unexpired tokens finds the one presented.
Match(q) ==
    /\ request[q].phase = "new"
    /\ Valid(request[q].token)
    /\ To(q, "matched")
    /\ raced' = IF \E p \in Request : /\ request[p].phase \in {"matched", "looked"}
                                      /\ request[p].token = request[q].token
                THEN raced \cup {request[q].token} ELSE raced
    /\ UNCHANGED <<tokens, nodes, identity, faults>>

Unauthorized(q) ==
    /\ request[q].phase = "new"
    /\ ~Valid(request[q].token)
    /\ To(q, "failed")
    /\ UNCHANGED <<tokens, nodes, identity, raced, faults>>

\* An enrolled machine keeps its node id, a new one gets a fresh id.
Lookup(q) ==
    LET known == nodes[request[q].hw].id
    IN  /\ request[q].phase = "matched"
        /\ request' = [request EXCEPT
                        ![q].phase = "looked",
                        ![q].nodeId = IF known = None THEN q ELSE known]
        /\ UNCHANGED <<tokens, nodes, identity, raced, faults>>

\* Mutated: re-enrollment resets the status.
NodeUpsert_Reset(q) ==
    LET r == request[q]
    IN  nodes' = [nodes EXCEPT ![r.hw] = [status |-> "pending_approval", id |-> r.nodeId,
                                          cert |-> q]]

\* Mutated: a conflicting insert replaces the row of the machine.
NodeConflict_Never(q) == FALSE

\* INSERT ... ON CONFLICT (id) DO UPDATE, which leaves the status alone.
NodeUpsert(q) ==
    LET r == request[q]
    IN  IF nodes[r.hw] = NoNode
        THEN nodes' = [nodes EXCEPT ![r.hw] = [status |-> "pending_approval",
                                               id |-> r.nodeId, cert |-> q]]
        ELSE nodes' = [nodes EXCEPT ![r.hw].id = r.nodeId, ![r.hw].cert = q]

\* The insert meets another id under the unique hw_fingerprint.
NodeConflict(q) ==
    LET row == nodes[request[q].hw]
    IN  row # NoNode /\ row.id # request[q].nodeId

\* Mutated: the token is marked outside the transaction.
Rollback_TokenSpent(q) ==
    /\ request[q].phase = "looked"
    /\ (NodeConflict(q) /\ UNCHANGED faults) \/ Fault
    /\ To(q, "failed")
    /\ tokens' = [tokens EXCEPT ![request[q].token].usedBy = request[q].nodeId]
    /\ UNCHANGED <<nodes, identity, raced>>

\* A conflict or a failing statement rolls everything back.
Rollback(q) ==
    /\ request[q].phase = "looked"
    /\ (NodeConflict(q) /\ UNCHANGED faults) \/ Fault
    /\ To(q, "failed")
    /\ UNCHANGED <<tokens, nodes, identity, raced>>

\* The transaction: node row, token used (named by its id only) and audit entry.
Commit(q) ==
    /\ request[q].phase = "looked"
    /\ ~NodeConflict(q)
    /\ NodeUpsert(q)
    /\ tokens' = [tokens EXCEPT ![request[q].token].usedBy = request[q].nodeId]
    /\ To(q, "committed")
    /\ UNCHANGED <<identity, raced, faults>>

-----------------------------------------------------------------------------
(* The bootstrapper. *)

\* persist_identity overwrites the identity file with the answer.
Answer(q) ==
    /\ request[q].phase = "committed"
    /\ To(q, "answered")
    /\ identity' = [identity EXCEPT ![request[q].hw] =
                        [id |-> request[q].nodeId, cert |-> q]]
    /\ UNCHANGED <<tokens, nodes, raced, faults>>

AnswerLost(q) ==
    /\ request[q].phase = "committed"
    /\ Fault
    /\ To(q, "lost")
    /\ UNCHANGED <<tokens, nodes, identity, raced>>

Tick ==
    /\ \E t \in Token : tokens[t].left > 0
    /\ tokens' = [t \in Token |->
                    IF tokens[t].left > 0 THEN [tokens[t] EXCEPT !.left = @ - 1]
                    ELSE tokens[t]]
    /\ UNCHANGED <<nodes, request, identity, raced, faults>>

-----------------------------------------------------------------------------

HandlerNext(q) ==
    \/ Match(q) \/ Unauthorized(q) \/ Lookup(q) \/ Rollback(q) \/ Commit(q)
    \/ Answer(q) \/ AnswerLost(q)

Next ==
    \/ \E t \in Token : create(t)
    \/ \E h \in Hw : approve(h) \/ revoke(h) \/ drain(h)
    \/ \E q \in Request : HandlerNext(q)
    \/ Tick

Spec == Init /\ [][Next]_vars

-----------------------------------------------------------------------------
(* Properties. *)

\* The status of a machine follows the lifecycle through every interleaving of
\* enrollments, re-enrollments and admin requests; revoked is final.
L == INSTANCE NodeLifecycle WITH status <- [h \in Hw |-> nodes[h].status]

LifecycleRefined == L!Spec

\* A machine's identity file names the node row of that machine: the unique
\* hw_fingerprint keeps two racing enrollments (enroll.rs:101-110, then
\* 125-151) from handing out two ids.
IdentityNamesNode ==
    \A h \in Hw : identity[h].id # None => identity[h].id = nodes[h].id

\* A used token names an enrolled node, and the token of every committed
\* enrollment is used, its answer lost or not: node row and token change together or not at all.
TokensAccountedFor ==
    /\ \A t \in Token : tokens[t].usedBy # None =>
          \E h \in Hw : nodes[h].id = tokens[t].usedBy
    /\ \A q \in Request : request[q].phase \in Enrolled =>
          tokens[request[q].token].usedBy # None

\* What makes IdentityNamesNode inductive: a row has an id once it has a status,
\* a request past its lookup has one, and a committed one has the row's.
RowsHaveIds == \A h \in Hw : nodes[h].id = None <=> nodes[h] = NoNode

RowsHaveStatus == \A h \in Hw : nodes[h].status = "none" <=> nodes[h] = NoNode

LookedUp ==
    \A q \in Request : request[q].phase \in {"looked", "committed"} =>
        request[q].nodeId # None

CommittedNamesNode ==
    \A q \in Request : request[q].phase = "committed" =>
        request[q].nodeId = nodes[request[q].hw].id

EnrollInv ==
    /\ TypeOK
    /\ RowsHaveIds
    /\ RowsHaveStatus
    /\ LookedUp
    /\ CommittedNamesNode
    /\ IdentityNamesNode

\* docs/PLAN.md:207 promises one-time tokens.  The handler selects the unused
\* ones before its transaction and marks the one it matched by id alone
\* (enroll.rs:80, 162), so the promise holds except for requests that overlap:
\* a token enrolls twice only if one request matched it while another had
\* matched it and not yet committed.
ReuseOnlyByOverlap ==
    \A p, q \in Request :
        /\ p # q
        /\ request[p].token = request[q].token
        /\ request[p].phase \in Enrolled
        /\ request[q].phase \in Enrolled
        => request[p].token \in raced

\* What makes ReuseOnlyByOverlap inductive: the token of a request that passed
\* the check is issued, so it is never made anew; the token of an enrolled one
\* is used; and the overlap shows as soon as both have matched.
Passed == {"matched", "looked"} \cup Enrolled

PassedIssued ==
    \A q \in Request : request[q].phase \in Passed => tokens[request[q].token].issued

EnrolledUsed ==
    \A q \in Request : request[q].phase \in Enrolled =>
        tokens[request[q].token].usedBy # None

PassedRaced ==
    \A p, q \in Request :
        /\ p # q
        /\ request[p].token = request[q].token
        /\ request[p].phase \in Passed
        /\ request[q].phase \in Passed
        => request[p].token \in raced

TokenInv ==
    /\ EnrollInv
    /\ PassedIssued
    /\ EnrolledUsed
    /\ PassedRaced
=============================================================================
