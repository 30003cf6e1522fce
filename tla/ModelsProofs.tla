---------------------------- MODULE ModelsProofs ----------------------------
(***************************************************************************)
(* Theorems about Models, for any number of models, workers, requests and  *)
(* faults.  The invariant ModelsInv falls into a part about the table and  *)
(* the reconciler's pass (RowsInv) and one about requests and jobs         *)
(* (JobsInv), which no step disturbs together.                             *)
(***************************************************************************)
EXTENDS Models, TLAPS

RowsInv ==
    /\ rows \in [Model -> Row \cup {NoRow}]
    /\ rec \in Pass
    /\ Snapshot
    /\ Concluded

JobsInv ==
    /\ loads \subseteq Load
    /\ worker \in [Node -> Worker]
    /\ adminOps \in 0 .. MaxAdminOps
    /\ SentOnce

\* A row of the table that is there.
LEMMA RowFacts ==
    ASSUME NEW r \in Row \cup {NoRow}
    PROVE  /\ r # NoRow => /\ r \in Row
                           /\ r.status \in Status
                           /\ r.node \in Node \cup {None}
                           /\ r.age \in 0 .. AgeCap
           /\ r.node \in Node \cup {None}
BY DEF Row, NoRow

LEMMA PassFacts ==
    ASSUME rec \in Pass
    PROVE  /\ rec.phase \in {"idle", "listed", "rows"}
           /\ rec.observed \in [Model -> Node \cup {None}]
           /\ rec.pending \in [Model -> Row \cup {NoRow}]
           /\ rec.touched \in SUBSET Model
BY DEF Pass

LEMMA Zero == 0 \in 0 .. AgeCap
BY ModelsAssumption DEF AgeCap

\* The statements of the admin handlers.
LEMMA WriteKeeps ==
    ASSUME RowsInv, NEW m \in Model, NEW row \in Row \cup {NoRow}, Write(m, row)
    PROVE  RowsInv'
<1>1. rows' \in [Model -> Row \cup {NoRow}]
  BY DEF RowsInv, Write
<1>2. CASE rec.phase = "rows"
  <2>1. rec' = [rec EXCEPT !.touched = rec.touched \cup {m}]
    BY <1>2 DEF Write
  <2>2. /\ rec' \in Pass
        /\ rec'.phase = "rows"
        /\ rec'.pending = rec.pending
        /\ rec'.observed = rec.observed
        /\ rec'.touched = rec.touched \cup {m}
    BY <1>2, <2>1 DEF RowsInv, Pass
  <2>3. \A k \in Model : k # m => rows'[k] = rows[k]
    BY DEF RowsInv, Write
  <2>4. Snapshot'
    BY <1>1, <1>2, <2>2, <2>3 DEF RowsInv, Snapshot
  <2>5. Concluded'
    BY <1>2, <2>2, <2>3 DEF RowsInv, Concluded, Agrees
  <2> QED
    BY <1>1, <2>2, <2>4, <2>5 DEF RowsInv
<1>3. CASE rec.phase # "rows"
  BY <1>1, <1>3 DEF RowsInv, Snapshot, Concluded, Write
<1> QED
  BY <1>2, <1>3

\* The reconciler gives a row a status and a node.
LEMMA DecideType ==
    ASSUME NEW r \in Row, NEW node \in Node \cup {None}
    PROVE  Decide(r, node).status \in Status /\ Decide(r, node).node \in Node \cup {None}
<1>1. r.status \in Status /\ r.node \in Node \cup {None}
  BY DEF Row
<1>2. {"available", "error"} \subseteq Status
  BY DEF Status, AdminOwned
<1> QED
  BY <1>1, <1>2 DEF Decide

\* What the reconciler does to a row.
LEMMA Decided ==
    ASSUME NEW r \in Row, r.status \notin AdminOwned, NEW node \in Node \cup {None},
           Decide(r, node).node # r.node \/ Decide(r, node).status # r.status
    PROVE  /\ Decide(r, node).status = "error" => r.status \in InFlight /\ is_stuck(r.age)
           /\ (Decide(r, node).status = "available" /\ r.status # "available") => node # None
           /\ Decide(r, node).status \notin InFlight
BY DEF Decide, Row, Status, InFlight, AdminOwned

\* And where it leaves it.
LEMMA Outcome ==
    ASSUME NEW r \in Row, r.status \notin AdminOwned, NEW node \in Node \cup {None}
    PROVE  \/ Decide(r, node).status \in AdminOwned
           \/ Decide(r, node).status = "available" /\ Decide(r, node).node = node
           \/ Decide(r, node).status \in InFlight /\ node = None /\ ~is_stuck(r.age)
BY DEF Decide, Row, Status, InFlight, AdminOwned

\* A missing row is no row of the table.
LEMMA NoRowIsNone == NoRow \notin Row
BY DEF NoRow, Row, Status, InFlight, AdminOwned

LEMMA RowKeeps ==
    ASSUME RowsInv, NEW m \in Model, ReconcileRow(m)
    PROVE  RowsInv'
<1> DEFINE old == rec.pending[m]
           new == Decide(old, rec.observed[m])
<1>1. /\ rec.phase = "rows"
      /\ old \in Row
      /\ rec.observed[m] \in Node \cup {None}
  BY PassFacts, RowFacts DEF RowsInv, ReconcileRow
<1>2. [status |-> new.status, node |-> new.node, age |-> 0] \in Row
  <2>1. new.status \in Status /\ new.node \in Node \cup {None}
    BY <1>1, DecideType
  <2> HIDE DEF new
  <2> QED
    BY <2>1, Zero DEF Row
<1>3. /\ rows' \in [Model -> Row \cup {NoRow}]
      /\ \A k \in Model : k # m => rows'[k] = rows[k]
  <2> HIDE DEF new
  <2>1. \/ rows' = rows
        \/ rows' = [rows EXCEPT ![m] = [status |-> new.status, node |-> new.node, age |-> 0]]
    BY DEF ReconcileRow, new
  <2> QED
    BY <1>2, <2>1 DEF RowsInv
<1>4. rec' = [rec EXCEPT !.pending = [rec.pending EXCEPT ![m] = NoRow]]
  BY PassFacts DEF RowsInv, ReconcileRow, Pass
<1>5. [rec.pending EXCEPT ![m] = NoRow] \in [Model -> Row \cup {NoRow}]
  BY PassFacts DEF RowsInv
<1>6. /\ rec' \in Pass
      /\ rec'.phase = "rows"
      /\ rec'.touched = rec.touched
      /\ rec'.observed = rec.observed
      /\ rec'.pending = [rec.pending EXCEPT ![m] = NoRow]
  BY <1>1, <1>4, <1>5 DEF RowsInv, Pass
<1>7. /\ rec'.pending[m] = NoRow
      /\ \A k \in Model : k # m => rec'.pending[k] = rec.pending[k]
  BY <1>6, PassFacts DEF RowsInv
<1>8. Snapshot'
  BY <1>1, <1>3, <1>6, <1>7 DEF RowsInv, Snapshot
<1>9. ASSUME m \notin rec.touched PROVE Agrees(m)'
  <2>1. rows[m] = old /\ old.status \notin AdminOwned
    BY <1>1, <1>9 DEF RowsInv, Snapshot, ReconcileRow
  <2>2. rows'[m].status = new.status /\ rows'[m].node = new.node
    <3> HIDE DEF new
    <3>1. \/ rows' = rows /\ new.node = old.node /\ new.status = old.status
          \/ rows' = [rows EXCEPT ![m] = [status |-> new.status, node |-> new.node, age |-> 0]]
      BY <1>1, <2>1, NoRowIsNone DEF ReconcileRow, new
    <3> QED
      BY <2>1, <3>1 DEF RowsInv
  <2>3. new.status \in InFlight => rows'[m].age = old.age
    <3>1. new.status \in InFlight => new.node = old.node /\ new.status = old.status
      BY <1>1, <2>1, Decided
    <3> HIDE DEF new
    <3>2. new.status \in InFlight => rows' = rows
      BY <3>1 DEF ReconcileRow, new
    <3> QED
      BY <2>1, <3>2
  <2>4. \/ new.status \in AdminOwned
        \/ new.status = "available" /\ new.node = rec.observed[m]
        \/ new.status \in InFlight /\ rec.observed[m] = None /\ ~is_stuck(old.age)
    BY <1>1, <2>1, Outcome
  <2> HIDE DEF new, old
  <2> QED
    BY <1>6, <2>2, <2>3, <2>4 DEF Agrees, is_stuck
<1>10. Concluded'
  <2>1. \A k \in Model : (k # m /\ Agrees(k)) => Agrees(k)'
    BY <1>3, <1>6 DEF Agrees
  <2> QED
    BY <1>1, <1>6, <1>7, <1>9, <2>1 DEF RowsInv, Concluded
<1> QED
  BY <1>3, <1>6, <1>8, <1>10 DEF RowsInv

LEMMA IdlePassType == IdlePass \in Pass /\ IdlePass.phase = "idle" /\ IdlePass.touched = {}
BY DEF IdlePass, Pass

LEMMA RowsKept ==
    ASSUME ModelsInv, [Next]_vars
    PROVE  RowsInv'
<1>0. RowsInv
  BY DEF ModelsInv, TypeOK, RowsInv
<1>t. /\ rows \in [Model -> Row \cup {NoRow}]
      /\ rec \in Pass
  BY <1>0 DEF RowsInv
<1>u. ASSUME UNCHANGED <<rows, rec>> PROVE RowsInv'
  BY <1>0, <1>u DEF RowsInv, Snapshot, Concluded, Agrees
<1>1. ASSUME NEW m \in Model, AdminNext(m) PROVE RowsInv'
  <2>1. ASSUME NEW status \in Status, create(m, status) PROVE RowsInv'
    <3>1. [status |-> status, node |-> None, age |-> 0] \in Row
      BY Zero DEF Row
    <3> QED
      BY <1>0, <2>1, <3>1, WriteKeeps DEF create
  <2>2. ASSUME NEW status \in Status, update(m, status) PROVE RowsInv'
    <3>1. rows[m] \in Row
      BY <1>t, <2>2, RowFacts DEF update
    <3>2. [rows[m] EXCEPT !.status = status, !.age = 0] \in Row
      BY <3>1, Zero DEF Row
    <3> QED
      BY <1>0, <2>2, <3>2, WriteKeeps DEF update
  <2>3. ASSUME delete(m) PROVE RowsInv'
    BY <1>0, <2>3, WriteKeeps DEF delete
  <2>4. ASSUME NEW n \in Node, load(m, n) PROVE RowsInv'
    BY <1>u, <2>4 DEF load
  <2> QED
    BY <1>1, <2>1, <2>2, <2>3, <2>4 DEF AdminNext
<1>2. ASSUME NEW l \in loads, LoadNext(l) PROVE RowsInv'
  <2>0. l.model \in Model /\ l.node \in Node
    BY DEF ModelsInv, TypeOK, Load
  <2>1. CASE LoadUpdate(l)
    <3>1. [status |-> "downloading", node |-> l.node, age |-> 0] \in Row
      BY <2>0, Zero DEF Row, Status, InFlight
    <3>2. CASE rows[l.model] = NoRow
      BY <1>u, <2>1, <3>2 DEF LoadUpdate
    <3>3. CASE rows[l.model] # NoRow
      <4>1. Write(l.model, [status |-> "downloading", node |-> l.node, age |-> 0])
        BY <2>1, <3>3 DEF LoadUpdate
      <4> QED
        BY <1>0, <2>0, <3>1, <4>1, WriteKeeps
    <3> QED
      BY <3>2, <3>3
  <2> QED
    BY <1>2, <1>u, <2>1 DEF LoadNext, LoadAccepted, LoadRefused, LoadAnswerLost
<1>3. ASSUME ReconcileList PROVE RowsInv'
  <2>1. PICK f \in Observations : rec' = [rec EXCEPT !.phase = "listed", !.observed = f]
    BY <1>3 DEF ReconcileList
  <2>2. f \in [Model -> Node \cup {None}]
    BY DEF Observations
  <2>3. rec' \in Pass /\ rec'.phase = "listed" /\ rec'.touched = rec.touched
    BY <1>t, <2>1, <2>2 DEF Pass
  <2> QED
    BY <1>0, <1>3, <2>3 DEF RowsInv, Snapshot, Concluded, ReconcileList
<1>4. ASSUME ReconcileSelect PROVE RowsInv'
  <2> DEFINE p == [m \in Model |-> IF rows[m].status \in AdminOwned THEN NoRow ELSE rows[m]]
  <2>1. p \in [Model -> Row \cup {NoRow}]
    BY <1>t
  <2>2. rec' = [rec EXCEPT !.phase = "rows", !.pending = p]
    BY <1>4 DEF ReconcileSelect
  <2>3. \A m \in Model : p[m] # NoRow => p[m].status \notin AdminOwned /\ rows[m] = p[m]
    OBVIOUS
  <2> HIDE DEF p
  <2>4. rec' \in Pass /\ rec'.phase = "rows" /\ rec'.pending = p
    BY <1>t, <2>1, <2>2 DEF Pass
  <2>5. \A m \in Model : p[m] = NoRow => rows[m] = NoRow \/ rows[m].status \in AdminOwned
    BY DEF p
  <2>6. Concluded'
    BY <1>4, <2>4, <2>5 DEF Concluded, Agrees, ReconcileSelect
  <2> QED
    BY <1>t, <1>4, <2>3, <2>4, <2>6 DEF RowsInv, Snapshot, ReconcileSelect
<1>5. ASSUME NEW m \in Model, ReconcileRow(m) PROVE RowsInv'
  BY <1>0, <1>5, RowKeeps
<1>6. ASSUME ReconcileEnd \/ ReconcileFail PROVE RowsInv'
  BY <1>0, <1>6, IdlePassType DEF RowsInv, Snapshot, Concluded, ReconcileEnd, ReconcileFail
<1>7. ASSUME NEW n \in Node, WorkerNext(n) \/ Heartbeat(n) PROVE RowsInv'
  BY <1>7, <1>u DEF WorkerNext, JobDone, DownloadFails, SwitchFails, WorkerCrash,
                    WorkerStart, Heartbeat
<1>8. ASSUME CoordinatorRestart PROVE RowsInv'
  BY <1>8, <1>u DEF CoordinatorRestart
<1>9. ASSUME Tick PROVE RowsInv'
  <2>1. ASSUME NEW m \in Model, rows[m] # NoRow, rows[m].age < AgeCap
        PROVE  [rows[m] EXCEPT !.age = @ + 1] \in Row
    <3>1. rows[m] \in Row /\ rows[m].age \in 0 .. AgeCap
      BY <1>t, <2>1, RowFacts
    <3>2. rows[m].age + 1 \in 0 .. AgeCap
      BY <2>1, <3>1, ModelsAssumption DEF AgeCap
    <3> QED
      BY <3>1, <3>2 DEF Row
  <2>2. rows' \in [Model -> Row \cup {NoRow}]
    <3>1. \A m \in Model : rows'[m] \in Row \cup {NoRow}
      BY <1>t, <1>9, <2>1 DEF Tick
    <3>2. rows' = [m \in Model |-> rows'[m]]
      BY <1>9 DEF Tick
    <3> QED
      BY <3>1, <3>2
  <2> QED
    BY <1>0, <1>9, <2>2 DEF RowsInv, Snapshot, Concluded, Tick
<1> QED
  BY <1>1, <1>2, <1>3, <1>4, <1>5, <1>6, <1>7, <1>8, <1>9, <1>u
     DEF Next, ReconcilerNext, vars

-----------------------------------------------------------------------------
(* Requests and jobs. *)

LEMMA LoadFacts ==
    ASSUME JobsInv, NEW l \in loads
    PROVE  /\ l \in Load
           /\ l.op \in Op /\ l.model \in Model /\ l.node \in Node
           /\ JobOf(l) \in Job
BY DEF JobsInv, Load, JobOf, Job

LEMMA WorkerFacts ==
    ASSUME JobsInv, NEW n \in Node
    PROVE  /\ worker[n] \in Worker
           /\ worker[n].up \in BOOLEAN
           /\ worker[n].serving \in Model \cup {None}
           /\ worker[n].jobs \in SUBSET Job
BY DEF JobsInv, Worker

\* A step of worker n gives it jobs it had, and any model to serve.
LEMMA JobsShrink ==
    ASSUME JobsInv, NEW n \in Node, NEW w \in Worker,
           w.jobs \subseteq worker[n].jobs,
           worker' = [worker EXCEPT ![n] = w],
           UNCHANGED <<loads, adminOps>>
    PROVE  JobsInv'
<1>1. /\ worker' \in [Node -> Worker]
      /\ \A k \in Node : worker'[k].jobs \subseteq worker[k].jobs
  BY DEF JobsInv
<1> QED
  BY <1>1 DEF JobsInv, SentOnce

\* A request that ends.
LEMMA LoadsShrink ==
    ASSUME JobsInv, NEW l \in loads, loads' = loads \ {l}, UNCHANGED <<worker, adminOps>>
    PROVE  JobsInv'
BY DEF JobsInv, SentOnce

\* The worker takes the request's job.
LEMMA TakeJob ==
    ASSUME JobsInv, NEW l \in loads,
           worker' = [worker EXCEPT ![l.node].jobs = @ \cup {JobOf(l)}]
    PROVE  /\ worker' \in [Node -> Worker]
           /\ worker'[l.node].jobs = worker[l.node].jobs \cup {JobOf(l)}
           /\ worker'[l.node].serving = worker[l.node].serving
           /\ \A n \in Node : n # l.node => worker'[n] = worker[n]
           /\ \A n \in Node : worker'[n].jobs \subseteq worker[n].jobs \cup {JobOf(l)}
<1> DEFINE w == [worker[l.node] EXCEPT !.jobs = worker[l.node].jobs \cup {JobOf(l)}]
<1>1. /\ w \in Worker
      /\ w.jobs = worker[l.node].jobs \cup {JobOf(l)}
      /\ w.serving = worker[l.node].serving
  BY LoadFacts, WorkerFacts DEF Worker
<1>2. worker' = [worker EXCEPT ![l.node] = w]
  BY LoadFacts DEF JobsInv
<1> HIDE DEF w
<1> QED
  BY <1>1, <1>2, LoadFacts DEF JobsInv

LEMMA AcceptKeeps ==
    ASSUME JobsInv, NEW l \in loads, l.stage = "send", UNCHANGED adminOps,
           worker' = [worker EXCEPT ![l.node].jobs = @ \cup {JobOf(l)}],
           \/ loads' = loads \ {l}
           \/ loads' = (loads \ {l}) \cup {[l EXCEPT !.stage = "update"]}
    PROVE  JobsInv'
<1> DEFINE u == [l EXCEPT !.stage = "update"]
<1>1. u \in Load /\ u.op = l.op /\ u.stage = "update"
  BY LoadFacts DEF Load
<1>2. loads' \subseteq (loads \ {l}) \cup {u}
  OBVIOUS
<1> HIDE DEF u
<1>3. \A k \in loads' : k.op \in Op /\ k.op <= adminOps
  BY <1>1, <1>2, LoadFacts DEF JobsInv, SentOnce
<1>4. \A n \in Node : \A j \in worker'[n].jobs : j \in worker[n].jobs \/ j.req = l.op
  BY TakeJob DEF JobOf
<1>5. \A j \in loads : j # l => j.op # l.op
  BY DEF JobsInv, SentOnce
<1>6. \A n \in Node : \A j \in worker'[n].jobs : j.req <= adminOps
  BY <1>4 DEF JobsInv, SentOnce
<1>7. \A i, k \in loads' : k.op = i.op => k = i
  BY <1>1, <1>2, <1>5 DEF JobsInv, SentOnce
<1>8. ASSUME NEW i \in loads', i.stage = "send", NEW n \in Node, NEW j \in worker'[n].jobs
      PROVE  j.req # i.op
  <2>1. i \in loads /\ i # l
    BY <1>1, <1>2, <1>8
  <2> QED
    BY <1>4, <1>5, <1>8, <2>1 DEF JobsInv, SentOnce
<1>9. loads' \subseteq Load /\ worker' \in [Node -> Worker]
  BY <1>1, <1>2, TakeJob DEF JobsInv
<1> QED
  BY <1>3, <1>6, <1>7, <1>8, <1>9 DEF JobsInv, SentOnce

\* A new request gets a number no request had.
LEMMA LoadKeeps ==
    ASSUME JobsInv, NEW m \in Model, NEW n \in Node, load(m, n)
    PROVE  JobsInv'
<1> DEFINE l == [op |-> adminOps', model |-> m, node |-> n, stage |-> "send"]
<1>1. /\ adminOps \in Nat /\ adminOps' = adminOps + 1 /\ adminOps' \in Op
      /\ adminOps' \in 0 .. MaxAdminOps
  BY ModelsAssumption DEF JobsInv, load, AdminRequest, Op
<1>2. l \in Load /\ l.op = adminOps + 1
  BY <1>1 DEF Load
<1>3. loads' = loads \cup {l} /\ UNCHANGED worker
  BY DEF load
<1> HIDE DEF l
<1>4. \A k \in loads : k.op \in Nat /\ k.op <= adminOps
  BY LoadFacts, ModelsAssumption DEF JobsInv, SentOnce, Op
<1>5. \A k \in Node : \A j \in worker[k].jobs : j.req \in Nat /\ j.req <= adminOps
  BY WorkerFacts, ModelsAssumption DEF JobsInv, SentOnce, Job, Op
<1>6. \A k \in loads' : k.op <= adminOps'
  BY <1>1, <1>2, <1>3, <1>4
<1>7. \A k \in Node : \A j \in worker'[k].jobs : j.req <= adminOps' /\ j.req # l.op
  BY <1>1, <1>2, <1>3, <1>5
<1>8. \A i, k \in loads' : k.op = i.op => k = i
  <2>1. \A k \in loads : k.op # l.op
    BY <1>1, <1>2, <1>4
  <2> QED
    BY <1>3, <2>1 DEF JobsInv, SentOnce
<1>9. \A i \in loads' : i.stage = "send" =>
          \A k \in Node : \A j \in worker'[k].jobs : j.req # i.op
  BY <1>3, <1>7 DEF JobsInv, SentOnce
<1> QED
  BY <1>1, <1>2, <1>3, <1>6, <1>7, <1>8, <1>9 DEF JobsInv, SentOnce

LEMMA JobsKept ==
    ASSUME ModelsInv, [Next]_vars
    PROVE  JobsInv'
<1>0. JobsInv
  BY DEF ModelsInv, TypeOK, JobsInv
<1>u. ASSUME UNCHANGED <<loads, worker, adminOps>> PROVE JobsInv'
  BY <1>0, <1>u DEF JobsInv, SentOnce
<1>1. ASSUME NEW m \in Model, AdminNext(m) PROVE JobsInv'
  <2>1. ASSUME AdminRequest, UNCHANGED <<loads, worker>> PROVE JobsInv'
    <3>1. /\ adminOps \in Nat /\ adminOps' = adminOps + 1
          /\ adminOps' \in 0 .. MaxAdminOps
      BY <1>0, <2>1, ModelsAssumption DEF JobsInv, AdminRequest
    <3>2. \A k \in loads : k.op \in Nat
      BY <1>0, LoadFacts DEF Op
    <3>3. \A k \in Node : \A j \in worker[k].jobs : j.req \in Nat
      BY <1>0, WorkerFacts DEF Job, Op
    <3> QED
      BY <1>0, <2>1, <3>1, <3>2, <3>3 DEF JobsInv, SentOnce
  <2>2. ASSUME NEW n \in Node, load(m, n) PROVE JobsInv'
    BY <1>0, <2>2, LoadKeeps
  <2> QED
    BY <1>1, <2>1, <2>2 DEF AdminNext, create, update, delete
<1>2. ASSUME NEW l \in loads, LoadNext(l) PROVE JobsInv'
  <2>1. CASE LoadAccepted(l)
    BY <1>0, <2>1, AcceptKeeps DEF LoadAccepted
  <2>2. CASE LoadAnswerLost(l)
    BY <1>0, <2>2, AcceptKeeps DEF LoadAnswerLost, Done
  <2>3. CASE LoadRefused(l) \/ LoadUpdate(l)
    BY <1>0, <2>3, LoadsShrink DEF LoadRefused, LoadUpdate, Done
  <2> QED
    BY <1>2, <2>1, <2>2, <2>3 DEF LoadNext
<1>3. ASSUME NEW n \in Node, WorkerNext(n) PROVE JobsInv'
  <2>1. ASSUME NEW w \in Worker, w.jobs \subseteq worker[n].jobs,
               worker' = [worker EXCEPT ![n] = w], UNCHANGED <<loads, adminOps>>
        PROVE  JobsInv'
    BY <1>0, <2>1, JobsShrink
  <2>2. worker[n] \in Worker /\ n \in DOMAIN worker
    BY <1>0, WorkerFacts DEF JobsInv
  <2>3. ASSUME NEW j \in worker[n].jobs, JobDone(n, j) \/ DownloadFails(n, j) \/ SwitchFails(n, j)
        PROVE  JobsInv'
    <3> DEFINE w(s) == [worker[n] EXCEPT !.jobs = worker[n].jobs \ {j}, !.serving = s]
    <3>1. j.model \in Model /\ worker[n].serving \in Model \cup {None}
      BY <1>0, WorkerFacts DEF Job
    <3>2. \A s \in Model \cup {None} : w(s) \in Worker /\ w(s).jobs \subseteq worker[n].jobs
      BY <2>2 DEF Worker
    <3>3. CASE JobDone(n, j)
      <4>1. worker' = [worker EXCEPT ![n] = w(j.model)]
        BY <2>2, <3>3 DEF JobDone
      <4> QED
        BY <2>1, <3>1, <3>2, <3>3, <4>1 DEF JobDone
    <3>4. CASE DownloadFails(n, j)
      <4>1. worker' = [worker EXCEPT ![n] = [worker[n] EXCEPT !.jobs = worker[n].jobs \ {j}]]
        BY <2>2, <3>4 DEF DownloadFails
      <4>2. [worker[n] EXCEPT !.jobs = worker[n].jobs \ {j}] = w(worker[n].serving)
        BY <2>2 DEF Worker
      <4> QED
        BY <2>1, <3>1, <3>2, <3>4, <4>1, <4>2 DEF DownloadFails
    <3>5. CASE SwitchFails(n, j)
      <4>1. worker' = [worker EXCEPT ![n] = w(None)]
        BY <2>2, <3>5 DEF SwitchFails
      <4> QED
        BY <2>1, <3>2, <3>5, <4>1 DEF SwitchFails
    <3> QED
      BY <2>3, <3>3, <3>4, <3>5
  <2>4. CASE WorkerCrash(n)
    BY <2>1, <2>4 DEF WorkerCrash, Worker
  <2>5. CASE WorkerStart(n)
    BY <2>1, <2>5 DEF WorkerStart, Worker, Idle
  <2> QED
    BY <1>3, <2>3, <2>4, <2>5 DEF WorkerNext
<1>4. ASSUME \/ ReconcilerNext \/ ReconcileFail \/ CoordinatorRestart \/ Tick
             \/ \E n \in Node : Heartbeat(n)
             \/ UNCHANGED vars
      PROVE  JobsInv'
  BY <1>4, <1>u DEF ReconcilerNext, ReconcileList, ReconcileSelect, ReconcileRow, ReconcileEnd,
                    ReconcileFail, CoordinatorRestart, Tick, Heartbeat, vars
<1> QED
  BY <1>1, <1>2, <1>3, <1>4 DEF Next

\* The coordinator's entries and the count of faults.
LEMMA RestKept ==
    ASSUME ModelsInv, [Next]_vars
    PROVE  /\ reported' \in [Node -> Model \cup {None, Unknown}]
           /\ faults' \in 0 .. MaxFaults
<1>t. /\ reported \in [Node -> Model \cup {None, Unknown}]
      /\ faults \in 0 .. MaxFaults
      /\ JobsInv
  BY DEF ModelsInv, TypeOK, JobsInv
<1>f. Fault => faults' \in 0 .. MaxFaults
  BY <1>t, ModelsAssumption DEF Fault
<1>1. ASSUME NEW n \in Node, Heartbeat(n)
      PROVE  /\ reported' \in [Node -> Model \cup {None, Unknown}]
             /\ UNCHANGED faults
  <2>1. worker[n].serving \in Model \cup {None}
    BY <1>t, WorkerFacts
  <2> QED
    BY <1>1, <1>t, <2>1 DEF Heartbeat
<1>2. ASSUME CoordinatorRestart
      PROVE  reported' \in [Node -> Model \cup {None, Unknown}] /\ Fault
  BY <1>2 DEF CoordinatorRestart
<1>3. ASSUME \/ \E m \in Model : AdminNext(m)
             \/ \E l \in loads : LoadNext(l)
             \/ ReconcilerNext \/ ReconcileFail \/ Tick \/ UNCHANGED vars
             \/ \E n \in Node : WorkerNext(n)
      PROVE  UNCHANGED reported /\ (UNCHANGED faults \/ Fault)
  <2>1. ASSUME NEW m \in Model, AdminNext(m) PROVE UNCHANGED <<reported, faults>>
    BY <2>1 DEF AdminNext, create, update, delete, load
  <2>2. ASSUME NEW l \in loads, LoadNext(l) PROVE UNCHANGED reported /\ (UNCHANGED faults \/ Fault)
    BY <2>2 DEF LoadNext, LoadAccepted, LoadRefused, LoadAnswerLost, LoadUpdate
  <2>3. ASSUME ReconcilerNext \/ ReconcileFail \/ Tick \/ UNCHANGED vars
        PROVE  UNCHANGED reported /\ (UNCHANGED faults \/ Fault)
    BY <2>3 DEF ReconcilerNext, ReconcileList, ReconcileSelect, ReconcileRow, ReconcileEnd,
                ReconcileFail, Tick, vars
  <2>4. ASSUME NEW n \in Node, WorkerNext(n)
        PROVE  UNCHANGED reported /\ (UNCHANGED faults \/ Fault)
    BY <2>4 DEF WorkerNext, JobDone, DownloadFails, SwitchFails, WorkerCrash, WorkerStart
  <2> QED
    BY <1>3, <2>1, <2>2, <2>3, <2>4
<1> QED
  BY <1>1, <1>2, <1>3, <1>f, <1>t DEF Next

-----------------------------------------------------------------------------
(* The theorems. *)

LEMMA InitModels == Init => ModelsInv
<1> SUFFICES ASSUME Init PROVE ModelsInv
  OBVIOUS
<1>1. OldRow \in Row
  BY ModelsAssumption DEF OldRow, Row, Status, AgeCap
<1>2. rows \in [Model -> Row \cup {NoRow}]
  BY <1>1 DEF Init
<1>3. Idle \in Worker /\ Idle.jobs = {}
  BY DEF Idle, Worker
<1>4. TypeOK
  BY <1>2, <1>3, IdlePassType, ModelsAssumption DEF Init, TypeOK
<1>5. Snapshot /\ Concluded
  BY IdlePassType DEF Init, Snapshot, Concluded
<1>6. SentOnce
  BY <1>3 DEF Init, SentOnce
<1> QED
  BY <1>4, <1>5, <1>6 DEF ModelsInv

LEMMA ModelsStep == ModelsInv /\ [Next]_vars => ModelsInv'
BY RowsKept, JobsKept, RestKept DEF ModelsInv, TypeOK, RowsInv, JobsInv

LEMMA ModelsInvariant == Spec => []ModelsInv
BY InitModels, ModelsStep, PTL DEF Spec

\* The table, the requests, the reconciler's pass and the workers keep their types:
\* no handler and no pass stores a status the readers of the table do not know.
THEOREM ModelsTyped == Spec => []TypeOK
<1>1. ModelsInv => TypeOK
  BY DEF ModelsInv
<1> QED
  BY <1>1, ModelsInvariant, PTL

\* The state machine of reconciler.rs:18-27: of a row no admin wrote since the SELECT,
\* the reconciler changes a download only, to available when a node was listed with
\* it and to error after the threshold, or an available row's node; and a pass that
\* comes to its end leaves all of them in agreement with what it listed.
THEOREM ReconcilerCorrect == Spec => ReconcilerStateMachine
<1>1. ASSUME ModelsInv, [Next]_vars, NEW m \in Model, Reconciles(m), m \notin rec.touched
      PROVE  /\ rows[m].status \notin AdminOwned
             /\ rows'[m].status = "error" =>
                   rows[m].status \in InFlight /\ is_stuck(rows[m].age)
             /\ (rows'[m].status = "available" /\ rows[m].status # "available") =>
                   rec.observed[m] # None
             /\ rows'[m].status \notin InFlight
  <2>0. /\ rec.phase = "rows" /\ rec \in Pass
        /\ rec.pending[m] # NoRow /\ rec'.pending[m] = NoRow /\ rec'.phase = "rows"
        /\ rows'[m] # rows[m]
        /\ rows \in [Model -> Row \cup {NoRow}]
    BY <1>1 DEF Reconciles, ModelsInv, TypeOK
  <2>1. /\ rows[m] = rec.pending[m]
        /\ rec.pending[m] \in Row
        /\ rec.pending[m].status \notin AdminOwned
        /\ rec.observed[m] \in Node \cup {None}
    BY <1>1, <2>0, PassFacts, RowFacts DEF ModelsInv, Snapshot
  <2>2. ASSUME NEW k \in Model, NEW row, Write(k, row) PROVE FALSE
    BY <2>0, <2>2 DEF Write, Pass
  <2>3. PICK k \in Model : ReconcileRow(k)
    <3>1. ASSUME NEW k \in Model, AdminNext(k) PROVE FALSE
      BY <2>0, <2>2, <3>1 DEF AdminNext, create, update, delete, load
    <3>2. ASSUME NEW l \in loads, LoadNext(l) PROVE FALSE
      <4>1. l.model \in Model
        BY <1>1 DEF ModelsInv, TypeOK, Load
      <4> QED
        BY <2>0, <2>2, <3>2, <4>1 DEF LoadNext, LoadAccepted, LoadRefused, LoadAnswerLost,
                                     LoadUpdate
    <3>3. ASSUME ReconcileList \/ ReconcileSelect \/ ReconcileEnd \/ ReconcileFail \/ Tick
          PROVE  FALSE
      BY <2>0, <3>3 DEF ReconcileList, ReconcileSelect, ReconcileEnd, ReconcileFail, Tick
    <3>4. ASSUME \/ \E n \in Node : WorkerNext(n) \/ Heartbeat(n)
                 \/ CoordinatorRestart \/ UNCHANGED vars
          PROVE  FALSE
      BY <2>0, <3>4 DEF WorkerNext, JobDone, DownloadFails, SwitchFails, WorkerCrash, WorkerStart,
                        Heartbeat, CoordinatorRestart, vars
    <3> QED
      BY <1>1, <3>1, <3>2, <3>3, <3>4 DEF Next, ReconcilerNext
  <2> DEFINE new == Decide(rec.pending[k], rec.observed[k])
  <2>4. /\ new.node # rec.pending[k].node \/ new.status # rec.pending[k].status
        /\ rows' = [rows EXCEPT ![k] = [status |-> new.status, node |-> new.node, age |-> 0]]
    BY <2>0, <2>3 DEF ReconcileRow
  <2>5. k = m
    <3> HIDE DEF new
    <3> QED
      BY <2>0, <2>4
  <2>6. rows'[m].status = new.status
    <3> HIDE DEF new
    <3> QED
      BY <2>0, <2>4, <2>5
  <2> QED
    BY <2>1, <2>4, <2>5, <2>6, Decided
<1>2. ASSUME ModelsInv, [Next]_vars, PassEnds, NEW m \in Model \ rec.touched PROVE Agrees(m)
  <2>1. rec.phase = "rows" /\ rec'.phase = "idle" /\ UNCHANGED faults /\ rec \in Pass
    BY <1>2 DEF PassEnds, ModelsInv, TypeOK
  <2>2. ASSUME NEW k \in Model, NEW row, Write(k, row) PROVE FALSE
    BY <2>1, <2>2 DEF Write, Pass
  <2>3. \A k \in Model : rec.pending[k] = NoRow
    <3>1. ASSUME NEW k \in Model, AdminNext(k) PROVE FALSE
      BY <2>1, <2>2, <3>1 DEF AdminNext, create, update, delete, load
    <3>2. ASSUME NEW l \in loads, LoadNext(l) PROVE FALSE
      <4>1. l.model \in Model
        BY <1>2 DEF ModelsInv, TypeOK, Load
      <4> QED
        BY <2>1, <2>2, <3>2, <4>1 DEF LoadNext, LoadAccepted, LoadRefused, LoadAnswerLost,
                                     LoadUpdate
    <3>3. ASSUME ReconcileList \/ ReconcileSelect \/ Tick PROVE FALSE
      BY <2>1, <3>3 DEF ReconcileList, ReconcileSelect, Tick
    <3>4. ASSUME NEW k \in Model, ReconcileRow(k) PROVE FALSE
      BY <2>1, <3>4 DEF ReconcileRow, Pass
    <3>5. ~ReconcileFail
      BY <1>2, <2>1 DEF ReconcileFail, Fault, ModelsInv, TypeOK
    <3>6. ASSUME \/ \E n \in Node : WorkerNext(n) \/ Heartbeat(n)
                 \/ CoordinatorRestart \/ UNCHANGED vars
          PROVE  FALSE
      BY <2>1, <3>6 DEF WorkerNext, JobDone, DownloadFails, SwitchFails, WorkerCrash, WorkerStart,
                        Heartbeat, CoordinatorRestart, vars
    <3> QED
      BY <1>2, <3>1, <3>2, <3>3, <3>4, <3>5, <3>6 DEF Next, ReconcilerNext, ReconcileEnd
  <2> QED
    BY <1>2, <2>1, <2>3 DEF ModelsInv, Concluded
<1>3. ModelsInv /\ [Next]_vars =>
        [/\ \A m \in Model :
             (Reconciles(m) /\ m \notin rec.touched) =>
                 /\ rows[m].status \notin AdminOwned
                 /\ rows'[m].status = "error" =>
                       rows[m].status \in InFlight /\ is_stuck(rows[m].age)
                 /\ (rows'[m].status = "available" /\ rows[m].status # "available") =>
                       rec.observed[m] # None
                 /\ rows'[m].status \notin InFlight
         /\ PassEnds => \A m \in Model \ rec.touched : Agrees(m)]_vars
  BY <1>1, <1>2
<1> QED
  BY <1>3, ModelsInvariant, PTL DEF Spec, ReconcilerStateMachine

-----------------------------------------------------------------------------
(* Models uses a worker as LoadJobs promises. *)

LEMMA RefinedInit == Init => W!Init
BY DEF Init, W!Init, Idle

\* A step of worker n, seen through the refinement mapping.
LEMMA Mapped ==
    ASSUME JobsInv, NEW n \in Node, NEW w \in Worker, worker' = [worker EXCEPT ![n] = w]
    PROVE  /\ [k \in Node |-> worker'[k].jobs] =
                  [[k \in Node |-> worker[k].jobs] EXCEPT ![n] = w.jobs]
           /\ [k \in Node |-> worker'[k].serving] =
                  [[k \in Node |-> worker[k].serving] EXCEPT ![n] = w.serving]
BY DEF JobsInv

\* The worker of request l takes it as a job it has not yet.
LEMMA RefinedAccept ==
    ASSUME JobsInv, NEW l \in loads, l.stage = "send",
           worker' = [worker EXCEPT ![l.node].jobs = @ \cup {JobOf(l)}]
    PROVE  W!Next
<1>1. l.node \in Node /\ JobOf(l) \in W!Accepted
  BY LoadFacts DEF Job, W!Accepted
<1>2. \A k \in worker[l.node].jobs : k.req # JobOf(l).req
  BY <1>1 DEF JobsInv, SentOnce, JobOf
<1>3. /\ worker'[l.node] \in Worker
      /\ worker' = [worker EXCEPT ![l.node] = worker'[l.node]]
      /\ worker'[l.node].jobs = worker[l.node].jobs \cup {JobOf(l)}
      /\ worker'[l.node].serving = worker[l.node].serving
  BY <1>1, TakeJob DEF JobsInv
<1>4. W!Accept(l.node, JobOf(l))
  <2>1. /\ [k \in Node |-> worker'[k].jobs] =
              [[k \in Node |-> worker[k].jobs] EXCEPT ![l.node] = worker'[l.node].jobs]
        /\ [k \in Node |-> worker'[k].serving] =
              [[k \in Node |-> worker[k].serving] EXCEPT ![l.node] = worker'[l.node].serving]
    BY <1>1, <1>3, Mapped
  <2>2. [k \in Node |-> worker'[k].serving] = [k \in Node |-> worker[k].serving]
    BY <1>1, <1>3, <2>1
  <2>3. [k \in Node |-> worker'[k].jobs] =
            [[k \in Node |-> worker[k].jobs] EXCEPT ![l.node] = @ \cup {JobOf(l)}]
    BY <1>1, <1>3, <2>1
  <2>4. \A k \in [n \in Node |-> worker[n].jobs][l.node] : k.req # JobOf(l).req
    BY <1>1, <1>2
  <2> QED
    BY <2>2, <2>3, <2>4, Zenon DEF W!Accept
<1> QED
  BY <1>1, <1>4 DEF W!Next

\* The end of a job.
LEMMA RefinedEnd ==
    ASSUME JobsInv, NEW n \in Node, NEW j \in worker[n].jobs,
           JobDone(n, j) \/ DownloadFails(n, j) \/ SwitchFails(n, j)
    PROVE  W!Next
<1>1. j \in W!Accepted /\ j.model \in Model
  BY WorkerFacts DEF Job, W!Accepted
<1> DEFINE w(s) == [worker[n] EXCEPT !.jobs = worker[n].jobs \ {j}, !.serving = s]
<1>2. /\ worker[n] \in Worker /\ n \in DOMAIN worker
      /\ worker[n].serving \in Model \cup {None}
  BY WorkerFacts DEF JobsInv
<1>3. \A s \in Model \cup {None} :
          w(s) \in Worker /\ w(s).jobs = worker[n].jobs \ {j} /\ w(s).serving = s
  BY <1>2 DEF Worker
<1>4. ASSUME NEW s \in Model \cup {None}, worker' = [worker EXCEPT ![n] = w(s)]
      PROVE  /\ [k \in Node |-> worker'[k].jobs] =
                   [[k \in Node |-> worker[k].jobs] EXCEPT ![n] = worker[n].jobs \ {j}]
             /\ [k \in Node |-> worker'[k].serving] =
                   [[k \in Node |-> worker[k].serving] EXCEPT ![n] = s]
  <2>1. PICK v \in Worker : /\ v.jobs = worker[n].jobs \ {j} /\ v.serving = s
                            /\ worker' = [worker EXCEPT ![n] = v]
    BY <1>3, <1>4
  <2> QED
    BY <2>1, Mapped
<1>5. CASE JobDone(n, j)
  <2>1. worker' = [worker EXCEPT ![n] = w(j.model)]
    BY <1>2, <1>5 DEF JobDone
  <2>2. W!Switch(n, j)
    <3> HIDE DEF w
    <3> QED
      BY <1>1, <1>4, <2>1 DEF W!Switch, W!End
  <2> QED
    BY <1>1, <2>2 DEF W!Next
<1>6. CASE DownloadFails(n, j)
  <2>1. worker' = [worker EXCEPT ![n] = w(worker[n].serving)]
    <3>1. worker' = [worker EXCEPT ![n] = [worker[n] EXCEPT !.jobs = worker[n].jobs \ {j}]]
      BY <1>2, <1>6 DEF DownloadFails
    <3>2. [worker[n] EXCEPT !.jobs = worker[n].jobs \ {j}] = w(worker[n].serving)
      BY <1>2 DEF Worker
    <3> QED
      BY <3>1, <3>2
  <2>2. W!Fail(n, j)
    <3> HIDE DEF w
    <3> QED
      BY <1>2, <1>4, <2>1 DEF W!Fail, W!End
  <2> QED
    BY <1>1, <2>2 DEF W!Next
<1>7. CASE SwitchFails(n, j)
  <2>1. worker' = [worker EXCEPT ![n] = w(None)]
    BY <1>2, <1>7 DEF SwitchFails
  <2>2. W!SwitchFails(n, j)
    <3> HIDE DEF w
    <3> QED
      BY <1>4, <2>1 DEF W!SwitchFails, W!End
  <2> QED
    BY <1>1, <2>2 DEF W!Next
<1> QED
  BY <1>5, <1>6, <1>7

\* A worker that dies or starts has neither jobs nor a model.
LEMMA RefinedDie ==
    ASSUME JobsInv, NEW n \in Node, WorkerCrash(n) \/ WorkerStart(n)
    PROVE  W!Next
<1>1. PICK w \in Worker : w.jobs = {} /\ w.serving = None /\ worker' = [worker EXCEPT ![n] = w]
  BY DEF WorkerCrash, WorkerStart, Idle, Worker
<1>2. W!Die(n)
  BY <1>1, Mapped DEF W!Die
<1> QED
  BY <1>2 DEF W!Next

LEMMA RefinedStep == ModelsInv /\ [Next]_vars => [W!Next]_W!vars
<1> SUFFICES ASSUME ModelsInv, [Next]_vars PROVE [W!Next]_W!vars
  OBVIOUS
<1>0. JobsInv
  BY DEF ModelsInv, TypeOK, JobsInv
<1>u. ASSUME UNCHANGED worker PROVE UNCHANGED W!vars
  BY <1>u DEF W!vars
<1>1. ASSUME NEW m \in Model, AdminNext(m) PROVE UNCHANGED worker
  BY <1>1 DEF AdminNext, create, update, delete, load
<1>2. ASSUME NEW l \in loads, LoadNext(l) PROVE W!Next \/ UNCHANGED worker
  BY <1>0, <1>2, RefinedAccept DEF LoadNext, LoadAccepted, LoadRefused, LoadAnswerLost, LoadUpdate
<1>3. ASSUME NEW n \in Node, WorkerNext(n) PROVE W!Next
  BY <1>0, <1>3, RefinedEnd, RefinedDie DEF WorkerNext
<1>4. ASSUME \/ ReconcilerNext \/ ReconcileFail \/ CoordinatorRestart \/ Tick
             \/ \E n \in Node : Heartbeat(n)
             \/ UNCHANGED vars
      PROVE  UNCHANGED worker
  BY <1>4 DEF ReconcilerNext, ReconcileList, ReconcileSelect, ReconcileRow, ReconcileEnd,
              ReconcileFail, CoordinatorRestart, Tick, Heartbeat, vars
<1> QED
  BY <1>1, <1>2, <1>3, <1>4, <1>u DEF Next

\* Retries, lost answers, crashes and restarts included, no load request becomes two
\* jobs of its worker, and a worker's jobs and model change only as LoadJobs says.
THEOREM ModelsUseLoadJobs == Spec => JobsAsPromised
BY RefinedInit, RefinedStep, ModelsInvariant, PTL DEF Spec, JobsAsPromised, W!Spec
=============================================================================
