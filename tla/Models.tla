------------------------------- MODULE Models -------------------------------
(***************************************************************************)
(* The life of a model row: the admin handlers of the management backend   *)
(* (mgmt-backend/src/handlers/models.rs), the reconciler that writes what  *)
(* the workers report back into the table (mgmt-backend/src/reconciler.rs),*)
(* the coordinator's load_model proxy and node list, and the workers'      *)
(* download tasks and supervisors.                                         *)
(*                                                                         *)
(* Every SQL statement is atomic; handlers and reconciler are interleaved  *)
(* between their statements and HTTP calls.  What a row holds besides its  *)
(* status, node hint and updated_at does not influence the control flow:   *)
(* every row modelled here has hf_repo and hf_file.  A report travels in   *)
(* no time; module Registry has late and lost ones.                        *)
(***************************************************************************)
EXTENDS Naturals, FiniteSets

CONSTANTS
    Model,        \* model ids
    Node,         \* workers
    None,         \* no model, no node
    Unknown,      \* the coordinator has no entry for the node
    StuckAfter,   \* STUCK_THRESHOLD in time units
    MaxAdminOps,  \* bound on admin requests
    MaxFaults     \* bound on failed calls, crashes and restarts

ASSUME ModelsAssumption ==
    /\ None \notin Model \cup Node
    /\ Unknown \notin Model \cup {None}
    /\ StuckAfter \in Nat
    /\ MaxAdminOps \in Nat
    /\ MaxFaults \in Nat

VARIABLES
    rows,      \* the models table
    loads,     \* load requests between two of their steps
    rec,       \* the reconciler's pass
    reported,  \* reported[n]: current_model in the coordinator's entry of n
    worker,    \* worker[n]: the worker process
    adminOps,  \* admin requests so far
    faults     \* faults so far

vars == <<rows, loads, rec, reported, worker, adminOps, faults>>

-----------------------------------------------------------------------------

AgeCap == StuckAfter + 1

InFlight == {"downloading", "loading"}

AdminOwned == {"disabled", "error"}

\* What validate_status accepts.
Status == InFlight \cup AdminOwned \cup {"available"}

Row == [status : Status, node : Node \cup {None}, age : 0 .. AgeCap]

NoRow == [status |-> "absent", node |-> None, age |-> 0]

Op == 1 .. MaxAdminOps

\* op: which admin request it is.
Load == [op : Op, model : Model, node : Node, stage : {"send", "update"}]

\* pending: the rows of the SELECT still to be treated; observed: the loaded
\* map; touched: history, the rows an admin wrote since the SELECT.
Pass == [phase : {"idle", "listed", "rows"},
         observed : [Model -> Node \cup {None}],
         pending : [Model -> Row \cup {NoRow}],
         touched : SUBSET Model]

IdlePass == [phase |-> "idle", observed |-> [m \in Model |-> None],
             pending |-> [m \in Model |-> NoRow], touched |-> {}]

\* A detached download task: the request it came from and the model.
Job == [req : Op, model : Model]

\* serving: the supervisor's model_id.
Worker == [up : BOOLEAN, serving : Model \cup {None}, jobs : SUBSET Job]

TypeOK ==
    /\ rows \in [Model -> Row \cup {NoRow}]
    /\ loads \subseteq Load
    /\ rec \in Pass
    /\ reported \in [Node -> Model \cup {None, Unknown}]
    /\ worker \in [Node -> Worker]
    /\ adminOps \in 0 .. MaxAdminOps
    /\ faults \in 0 .. MaxFaults

Idle == [up |-> TRUE, serving |-> None, jobs |-> {}]

\* The table outlives the processes: a row may be there from before.
OldRow == [status |-> "available", node |-> None, age |-> AgeCap]

Init ==
    /\ rows \in [Model -> {NoRow, OldRow}]
    /\ loads = {}
    /\ rec = IdlePass
    /\ reported = [n \in Node |-> Unknown]
    /\ worker = [n \in Node |-> Idle]
    /\ adminOps = 0
    /\ faults = 0

Fault == faults < MaxFaults /\ faults' = faults + 1

AdminRequest == adminOps < MaxAdminOps /\ adminOps' = adminOps + 1

-----------------------------------------------------------------------------
(* The admin handlers. *)

\* Every statement of an admin handler that writes row m.
Write(m, row) ==
    /\ rows' = [rows EXCEPT ![m] = row]
    /\ rec' = IF rec.phase = "rows" THEN [rec EXCEPT !.touched = @ \cup {m}] ELSE rec

create(m, status) ==
    /\ AdminRequest
    /\ rows[m] = NoRow
    /\ Write(m, [status |-> status, node |-> None, age |-> 0])
    /\ UNCHANGED <<loads, reported, worker, faults>>

update(m, status) ==
    /\ AdminRequest
    /\ rows[m] # NoRow
    /\ Write(m, [rows[m] EXCEPT !.status = status, !.age = 0])
    /\ UNCHANGED <<loads, reported, worker, faults>>

delete(m) ==
    /\ AdminRequest
    /\ rows[m] # NoRow
    /\ Write(m, NoRow)
    /\ UNCHANGED <<loads, reported, worker, faults>>

\* load reads the row ...
load(m, n) ==
    /\ AdminRequest
    /\ rows[m] # NoRow
    /\ loads' = loads \cup {[op |-> adminOps', model |-> m, node |-> n, stage |-> "send"]}
    /\ UNCHANGED <<rows, rec, reported, worker, faults>>

Done(l) == loads' = loads \ {l}

JobOf(l) == [req |-> l.op, model |-> l.model]

\* ... asks the coordinator, whose proxy (load_model_proxy) finds the node and
\* a worker that answers ...
LoadAccepted(l) ==
    /\ l.stage = "send"
    /\ reported[l.node] # Unknown
    /\ worker[l.node].up
    /\ worker' = [worker EXCEPT ![l.node].jobs = @ \cup {JobOf(l)}]
    /\ loads' = (loads \ {l}) \cup {[l EXCEPT !.stage = "update"]}
    /\ UNCHANGED <<rows, rec, reported, adminOps, faults>>

\* ... or does not, which ends the request before it wrote anything ...
LoadRefused(l) ==
    /\ l.stage = "send"
    /\ reported[l.node] = Unknown \/ ~worker[l.node].up
    /\ Done(l)
    /\ UNCHANGED <<rows, rec, reported, worker, adminOps, faults>>

\* ... or the worker starts and its answer is lost ...
LoadAnswerLost(l) ==
    /\ l.stage = "send"
    /\ reported[l.node] # Unknown
    /\ worker[l.node].up
    /\ Fault
    /\ worker' = [worker EXCEPT ![l.node].jobs = @ \cup {JobOf(l)}]
    /\ Done(l)
    /\ UNCHANGED <<rows, rec, reported, adminOps>>

\* Mutated: a status the table's readers do not know.
LoadUpdate_Queued(l) ==
    /\ l.stage = "update"
    /\ Done(l)
    /\ IF rows[l.model] = NoRow
       THEN UNCHANGED <<rows, rec>>
       ELSE Write(l.model, [status |-> "queued", node |-> l.node, age |-> 0])
    /\ UNCHANGED <<reported, worker, adminOps, faults>>

\* ... and ends with the optimistic UPDATE, which finds no row after a delete.
LoadUpdate(l) ==
    /\ l.stage = "update"
    /\ Done(l)
    /\ IF rows[l.model] = NoRow
       THEN UNCHANGED <<rows, rec>>
       ELSE Write(l.model, [status |-> "downloading", node |-> l.node, age |-> 0])
    /\ UNCHANGED <<reported, worker, adminOps, faults>>

-----------------------------------------------------------------------------
(* The reconciler. *)

\* The loaded map: for each model one of the nodes listed with it.  Offline
\* nodes are listed with the model they reported last.
Observations ==
    {f \in [Model -> Node \cup {None}] :
        \A m \in Model :
            LET serving == {n \in Node : reported[n] = m}
            IN  IF serving = {} THEN f[m] = None ELSE f[m] \in serving}

ReconcileList ==
    /\ rec.phase = "idle"
    /\ \E f \in Observations : rec' = [rec EXCEPT !.phase = "listed", !.observed = f]
    /\ UNCHANGED <<rows, loads, reported, worker, adminOps, faults>>

\* Mutated: the SELECT forgets its WHERE clause.
ReconcileSelect_All ==
    /\ rec.phase = "listed"
    /\ rec' = [rec EXCEPT !.phase = "rows", !.pending = rows]
    /\ UNCHANGED <<rows, loads, reported, worker, adminOps, faults>>

ReconcileSelect ==
    /\ rec.phase = "listed"
    /\ rec' = [rec EXCEPT
                !.phase = "rows",
                !.pending = [m \in Model |-> IF rows[m].status \in AdminOwned
                                             THEN NoRow ELSE rows[m]]]
    /\ UNCHANGED <<rows, loads, reported, worker, adminOps, faults>>

is_stuck(age) == age > StuckAfter

\* Mutated: a download nobody reports is never given up.
Decide_Patient(r, node) ==
    IF node # None
    THEN [node |-> node, status |-> IF r.status \in InFlight THEN "available" ELSE r.status]
    ELSE IF r.status \in InFlight
    THEN [node |-> r.node, status |-> r.status]
    ELSE [node |-> None, status |-> r.status]

\* Mutated: a report of an available model does not refresh its node.
Decide_KeepNode(r, node) ==
    IF node # None /\ r.status \in InFlight
    THEN [node |-> node, status |-> "available"]
    ELSE IF r.status \in InFlight
    THEN IF is_stuck(r.age)
         THEN [node |-> None, status |-> "error"]
         ELSE [node |-> r.node, status |-> r.status]
    ELSE [node |-> r.node, status |-> r.status]

\* The new (loaded_on_node, status) pair for a row, given who reports it.
Decide(r, node) ==
    IF node # None
    THEN [node |-> node, status |-> IF r.status \in InFlight THEN "available" ELSE r.status]
    ELSE IF r.status \in InFlight
    THEN IF is_stuck(r.age)
         THEN [node |-> None, status |-> "error"]
         ELSE [node |-> r.node, status |-> r.status]
    ELSE [node |-> None, status |-> r.status]

\* One row of the pass.  The UPDATE names the row by id only: it overwrites
\* whatever the row has become since the SELECT, unless it is gone.
ReconcileRow(m) ==
    LET old == rec.pending[m]
        new == Decide(old, rec.observed[m])
    IN  /\ rec.phase = "rows"
        /\ old # NoRow
        /\ rec' = [rec EXCEPT !.pending[m] = NoRow]
        /\ IF (new.node # old.node \/ new.status # old.status) /\ rows[m] # NoRow
           THEN rows' = [rows EXCEPT ![m] = [status |-> new.status, node |-> new.node,
                                             age |-> 0]]
           ELSE UNCHANGED rows
        /\ UNCHANGED <<loads, reported, worker, adminOps, faults>>

ReconcileEnd ==
    /\ rec.phase = "rows"
    /\ \A m \in Model : rec.pending[m] = NoRow
    /\ rec' = IdlePass
    /\ UNCHANGED <<rows, loads, reported, worker, adminOps, faults>>

\* An unreachable coordinator or a failed statement ends the pass.
ReconcileFail ==
    /\ rec.phase # "idle"
    /\ Fault
    /\ rec' = IdlePass
    /\ UNCHANGED <<rows, loads, reported, worker, adminOps>>

-----------------------------------------------------------------------------
(* Workers and coordinator. *)

\* Mutated: the task of an older request for the same model ends as well.
JobDone_Both(n, j) ==
    /\ j \in worker[n].jobs
    /\ worker' = [worker EXCEPT ![n].jobs = {k \in @ : k.model # j.model},
                                ![n].serving = j.model]
    /\ UNCHANGED <<rows, loads, rec, reported, adminOps, faults>>

\* The download succeeds and switch_inner replaces the running llama-server.
JobDone(n, j) ==
    /\ j \in worker[n].jobs
    /\ worker' = [worker EXCEPT ![n].jobs = @ \ {j}, ![n].serving = j.model]
    /\ UNCHANGED <<rows, loads, rec, reported, adminOps, faults>>

\* The download fails: only a log line says so.
DownloadFails(n, j) ==
    /\ j \in worker[n].jobs
    /\ Fault
    /\ worker' = [worker EXCEPT ![n].jobs = @ \ {j}]
    /\ UNCHANGED <<rows, loads, rec, reported, adminOps>>

\* The new llama-server does not start; the old one is gone already.
SwitchFails(n, j) ==
    /\ j \in worker[n].jobs
    /\ Fault
    /\ worker' = [worker EXCEPT ![n].jobs = @ \ {j}, ![n].serving = None]
    /\ UNCHANGED <<rows, loads, rec, reported, adminOps>>

WorkerCrash(n) ==
    /\ worker[n].up
    /\ Fault
    /\ worker' = [worker EXCEPT ![n] = [up |-> FALSE, serving |-> None, jobs |-> {}]]
    /\ UNCHANGED <<rows, loads, rec, reported, adminOps>>

WorkerStart(n) ==
    /\ ~worker[n].up
    /\ worker' = [worker EXCEPT ![n] = Idle]
    /\ UNCHANGED <<rows, loads, rec, reported, adminOps, faults>>

Heartbeat(n) ==
    /\ worker[n].up
    /\ reported' = [reported EXCEPT ![n] = worker[n].serving]
    /\ UNCHANGED <<rows, loads, rec, worker, adminOps, faults>>

CoordinatorRestart ==
    /\ Fault
    /\ reported' = [n \in Node |-> Unknown]
    /\ UNCHANGED <<rows, loads, rec, worker, adminOps>>

\* A time unit is long compared with a reconciler pass.
Tick ==
    /\ rec.phase = "idle"
    /\ rows' = [m \in Model |->
                  IF rows[m] # NoRow /\ rows[m].age < AgeCap
                  THEN [rows[m] EXCEPT !.age = @ + 1] ELSE rows[m]]
    /\ UNCHANGED <<loads, rec, reported, worker, adminOps, faults>>

-----------------------------------------------------------------------------

AdminNext(m) ==
    \/ \E status \in Status : create(m, status) \/ update(m, status)
    \/ delete(m)
    \/ \E n \in Node : load(m, n)

LoadNext(l) ==
    LoadAccepted(l) \/ LoadRefused(l) \/ LoadAnswerLost(l) \/ LoadUpdate(l)

ReconcilerNext ==
    \/ ReconcileList
    \/ ReconcileSelect
    \/ \E m \in Model : ReconcileRow(m)
    \/ ReconcileEnd

WorkerNext(n) ==
    \/ \E j \in worker[n].jobs : JobDone(n, j) \/ DownloadFails(n, j) \/ SwitchFails(n, j)
    \/ WorkerCrash(n)
    \/ WorkerStart(n)

Next ==
    \/ \E m \in Model : AdminNext(m)
    \/ \E l \in loads : LoadNext(l)
    \/ ReconcilerNext
    \/ ReconcileFail
    \/ \E n \in Node : WorkerNext(n) \/ Heartbeat(n)
    \/ CoordinatorRestart
    \/ Tick

Spec == Init /\ [][Next]_vars

\* The reconciler's interval and the workers' heartbeats go on for ever, an
\* HTTP request ends, and time passes between the reconciler's passes.  No
\* download need ever end and no crashed worker need come back.
Fairness ==
    /\ WF_vars(ReconcilerNext)
    /\ SF_vars(Tick)
    /\ \A n \in Node : WF_vars(Heartbeat(n))
    /\ WF_vars(\E l \in loads : LoadNext(l))

FairSpec == Spec /\ Fairness

-----------------------------------------------------------------------------
(* Properties. *)

\* The reconciler writes row m in this step.
Reconciles(m) ==
    /\ rec.phase = "rows"
    /\ rec.pending[m] # NoRow
    /\ rec'.phase = "rows"
    /\ rec'.pending[m] = NoRow
    /\ rows'[m] # rows[m]

\* The reconciler comes to the end of its rows.
PassEnds == rec.phase = "rows" /\ rec'.phase = "idle" /\ UNCHANGED faults

\* What a pass that listed rec.observed should make of row m: an available row names
\* the node listed with it, or none, and a download is young and listed nowhere.
Agrees(m) ==
    \/ rows[m] = NoRow
    \/ rows[m].status \in AdminOwned
    \/ rows[m].status = "available" /\ rows[m].node = rec.observed[m]
    \/ rows[m].status \in InFlight /\ rec.observed[m] = None /\ ~is_stuck(rows[m].age)

\* The state machine of reconciler.rs:18-27, for rows no admin wrote during the
\* pass (the others the UPDATE by id overwrites): disabled and error rows stay, a
\* download becomes available only if some node was listed with it and fails only
\* after the threshold; and when the pass has come to its end all rows agree with
\* what it listed, whatever happened between its statements.
ReconcilerStateMachine ==
    [][/\ \A m \in Model :
             (Reconciles(m) /\ m \notin rec.touched) =>
                 /\ rows[m].status \notin AdminOwned
                 /\ rows'[m].status = "error" =>
                       rows[m].status \in InFlight /\ is_stuck(rows[m].age)
                 /\ (rows'[m].status = "available" /\ rows[m].status # "available") =>
                       rec.observed[m] # None
                 /\ rows'[m].status \notin InFlight
       /\ PassEnds => \A m \in Model \ rec.touched : Agrees(m)]_vars

\* A worker's jobs and its advertised model are what module Worker makes of them.
W == INSTANCE LoadJobs WITH
        Request <- Op,
        jobs <- [n \in Node |-> worker[n].jobs],
        serving <- [n \in Node |-> worker[n].serving]

\* Requests, retries, lost answers and crashes use a worker only in the way the
\* real one (module Worker) was shown to behave.
JobsAsPromised == W!Spec

\* The optimistic `downloading' does not stay for ever (reconciler.rs:12-14):
\* when the admins rest, every row ends up available, failed, disabled or gone.
LoadSettles ==
    \A m \in Model : <>[](rows[m].status \notin InFlight)

\* The node hint follows the workers: a row that stays available, of a model that
\* one worker keeps serving, ends up naming a node listed with it.
HintIsServed ==
    \A m \in Model :
        <>[](/\ rows[m].status = "available"
             /\ \E n \in Node : worker[n].up /\ worker[n].serving = m)
            => <>[](rows[m].node # None /\ reported[rows[m].node] = m)

\* reconciler.rs:21-23: loaded_on_node of an available row is cleared once the
\* worker stops reporting the model, so none names a worker gone for good.
DeadWorkerCleared ==
    \A m \in Model, n \in Node :
        <>[](~worker[n].up /\ rows[m].status = "available")
            => <>[](rows[m].node # n)

-----------------------------------------------------------------------------
(* What makes the safety properties inductive. *)

\* For ReconcilerStateMachine: what is left of the SELECT is still in the table,
\* except where an admin wrote.
Snapshot ==
    /\ rec.phase # "rows" => rec.touched = {}
    /\ rec.phase = "rows" =>
          \A m \in Model : rec.pending[m] # NoRow =>
              /\ rec.pending[m].status \notin AdminOwned
              /\ m \in rec.touched \/ rows[m] = rec.pending[m]

\* The rows the pass is through with agree with it.
Concluded ==
    rec.phase = "rows" =>
        \A m \in Model \ rec.touched : rec.pending[m] = NoRow => Agrees(m)

\* For JobsAsPromised: each request is sent once.
SentOnce ==
    /\ \A l \in loads : l.op <= adminOps
    /\ \A n \in Node : \A j \in worker[n].jobs : j.req <= adminOps
    /\ \A k, l \in loads : k.op = l.op => k = l
    /\ \A l \in loads : l.stage = "send" =>
          \A n \in Node : \A j \in worker[n].jobs : j.req # l.op

ModelsInv == TypeOK /\ Snapshot /\ Concluded /\ SentOnce
=============================================================================
