------------------------------ MODULE Registry ------------------------------
(***************************************************************************)
(* The coordinator's node registry and everything that writes to it: the   *)
(* workers' periodic reports (worker/src/heartbeat.rs), the report handler *)
(* with its duplicate-worker guard (coordinator/src/server.rs), the gRPC   *)
(* register call (coordinator/src/service.rs) and the watchdog that marks  *)
(* silent nodes offline (coordinator/src/heartbeat.rs).                    *)
(*                                                                         *)
(* Time is discrete.  A timestamp is modelled by its age, which stops      *)
(* growing at AgeCap: the code only compares ages with StaleAfter.         *)
(* Reports travel in `net' and take at most MaxDelay time units; the code  *)
(* that runs without an await (the handler after decoding its body, the    *)
(* watchdog's loop) takes no time but interleaves with other threads.      *)
(***************************************************************************)
EXTENDS Naturals, FiniteSets

CONSTANTS
    Node,             \* node ids, one per worker data directory
    Hw,               \* Hw[n]: the hardware fingerprint worker n reports
    NoHw,             \* the empty fingerprint
    GpuNode,          \* the nodes whose inventory lists a GPU
    GrpcNode,         \* the nodes whose agent calls the gRPC register
    StaleAfter,       \* 60 s: freshness window of guard, watchdog, eligibility
    HeartbeatPeriod,  \* 30 s
    WatchdogPeriod,   \* 5 s
    MaxDelay,         \* bound on the transit time of a report
    CalmCap,          \* where the history clock `calm' stops
    MaxFaults         \* bound on lost reports and coordinator restarts

ASSUME NodeAssumption ==
    /\ IsFiniteSet(Node)
    /\ GpuNode \subseteq Node
    /\ GrpcNode \subseteq Node
    /\ Hw = [n \in Node |-> Hw[n]]

ASSUME TimeAssumption ==
    /\ StaleAfter \in Nat \ {0}
    /\ HeartbeatPeriod \in Nat \ {0}
    /\ WatchdogPeriod \in Nat \ {0}
    /\ MaxDelay \in Nat
    /\ CalmCap \in Nat
    /\ MaxFaults \in Nat

VARIABLES
    registry,   \* registry[n]: the DashMap entry of n
    net,        \* reports sent and not yet answered
    worker,     \* worker[n]: the worker process of n
    marking,    \* the nodes the running watchdog pass still has to mark
    wdTimer,    \* time since the watchdog's last tick
    overlap,    \* history: fingerprints whose reports overlapped in the handler
    calm,       \* history: calm[n]: how long worker n has been running without a
                \* coordinator restart and without a lost or refused report
    faults      \* faults so far

vars == <<registry, net, worker, marking, wdTimer, overlap, calm, faults>>

-----------------------------------------------------------------------------

AgeCap == StaleAfter + WatchdogPeriod + MaxDelay + 1

Age == 0 .. AgeCap

Older(a) == IF a < AgeCap THEN a + 1 ELSE a

\* What a worker reports, and what an entry can hold ("Absent": no entry).
ReportStatus == {"Online", "Draining"}

Status == ReportStatus \cup {"Offline", "Absent"}

NodeEntry == [status : Status, age : Age]

NoEntry == [status |-> "Absent", age |-> AgeCap]

\* A report is "sent" until the handler has passed its duplicate guard.
Report == [node : Node, status : ReportStatus, age : 0 .. MaxDelay,
           phase : {"sent", "checked"}]

\* beat: time since the last report; downFor: time since the process ended, 0
\* while it runs.
Worker == [up : BOOLEAN, beat : 0 .. HeartbeatPeriod, downFor : Age]

TypeOK ==
    /\ registry \in [Node -> NodeEntry]
    /\ net \subseteq Report
    /\ worker \in [Node -> Worker]
    /\ marking \subseteq Node
    /\ wdTimer \in 0 .. WatchdogPeriod
    /\ overlap \subseteq {Hw[n] : n \in Node}
    /\ calm \in [Node -> 0 .. CalmCap]
    /\ faults \in 0 .. MaxFaults

Init ==
    /\ registry = [n \in Node |-> NoEntry]
    /\ net = {}
    /\ worker = [n \in Node |->
                    [up |-> FALSE, beat |-> HeartbeatPeriod, downFor |-> AgeCap]]
    /\ marking = {}
    /\ wdTimer = WatchdogPeriod
    /\ overlap = {}
    /\ calm = [n \in Node |-> 0]
    /\ faults = 0

-----------------------------------------------------------------------------
(* The registry's own operations. *)

\* Every upsert stamps the entry with the current time, whoever calls it.
upsert(n, status) ==
    registry' = [registry EXCEPT ![n] = [status |-> status, age |-> 0]]

\* Mutated: a freshness window shorter than the heartbeat period.
find_active_ShortWindow(hw, excluded) ==
    {m \in Node : /\ hw # NoHw
                  /\ m # excluded
                  /\ Hw[m] = hw
                  /\ registry[m] # NoEntry
                  /\ registry[m].age < HeartbeatPeriod}

find_active_with_hw_fingerprint(hw, excluded) ==
    {m \in Node : /\ hw # NoHw
                  /\ m # excluded
                  /\ Hw[m] = hw
                  /\ registry[m] # NoEntry
                  /\ registry[m].age <= StaleAfter}

\* The dispatcher's view: fresh, with a GPU, not draining and not offline.
eligible_nodes ==
    {n \in GpuNode : /\ registry[n].status = "Online"
                     /\ registry[n].age < StaleAfter}

-----------------------------------------------------------------------------
(* The worker. *)

\* The process starts; run_loop publishes at once, before its first tick.
StartWorker(n) ==
    /\ ~worker[n].up
    /\ worker' = [worker EXCEPT ![n] =
                    [up |-> TRUE, beat |-> HeartbeatPeriod, downFor |-> 0]]
    /\ UNCHANGED <<registry, net, marking, wdTimer, overlap, calm, faults>>

Disturbed(n) == calm' = [calm EXCEPT ![n] = 0]

publish(n, status) ==
    net' = net \cup {[node |-> n, status |-> status, age |-> 0, phase |-> "sent"]}

\* One turn of run_loop.
Heartbeat(n) ==
    /\ worker[n].up
    /\ worker[n].beat = HeartbeatPeriod
    /\ publish(n, "Online")
    /\ worker' = [worker EXCEPT ![n].beat = 0]
    /\ UNCHANGED <<registry, marking, wdTimer, overlap, calm, faults>>

\* A shutdown signal drops run_loop and sends one last report.
Shutdown(n) ==
    /\ worker[n].up
    /\ publish(n, "Draining")
    /\ worker' = [worker EXCEPT ![n].up = FALSE]
    /\ Disturbed(n)
    /\ UNCHANGED <<registry, marking, wdTimer, overlap, faults>>

Crash(n) ==
    /\ worker[n].up
    /\ worker' = [worker EXCEPT ![n].up = FALSE]
    /\ Disturbed(n)
    /\ UNCHANGED <<registry, net, marking, wdTimer, overlap, faults>>

-----------------------------------------------------------------------------
(* The coordinator's handlers. *)

\* report_node up to the duplicate guard: a conflict is answered with 409 and
\* the worker only logs it.
ReportReject(r) ==
    /\ r.phase = "sent"
    /\ find_active_with_hw_fingerprint(Hw[r.node], r.node) # {}
    /\ net' = net \ {r}
    /\ Disturbed(r.node)
    /\ UNCHANGED <<registry, worker, marking, wdTimer, overlap, faults>>

ReportCheck(r) ==
    /\ r.phase = "sent"
    /\ find_active_with_hw_fingerprint(Hw[r.node], r.node) = {}
    /\ net' = (net \ {r}) \cup {[r EXCEPT !.phase = "checked"]}
    /\ overlap' = IF \E q \in net : /\ q.phase = "checked"
                                    /\ q.node # r.node
                                    /\ Hw[q.node] = Hw[r.node]
                  THEN overlap \cup {Hw[r.node]}
                  ELSE overlap
    /\ UNCHANGED <<registry, worker, marking, wdTimer, calm, faults>>

\* The rest of report_node.
ReportUpsert(r) ==
    /\ r.phase = "checked"
    /\ upsert(r.node, r.status)
    /\ net' = net \ {r}
    /\ UNCHANGED <<worker, marking, wdTimer, overlap, calm, faults>>

\* The gRPC register call inserts without consulting the guard; one that was on its
\* way when its worker ended does so too.
Register(n) ==
    /\ n \in GrpcNode
    /\ worker[n].downFor <= MaxDelay
    /\ upsert(n, "Online")
    /\ UNCHANGED <<net, worker, marking, wdTimer, overlap, calm, faults>>

\* Mutated: the threshold is the heartbeat period.
WatchdogScan_Hasty ==
    /\ marking = {}
    /\ wdTimer = WatchdogPeriod
    /\ wdTimer' = 0
    /\ marking' = {n \in Node : /\ registry[n] # NoEntry
                                /\ registry[n].age >= HeartbeatPeriod}
    /\ UNCHANGED <<registry, net, worker, overlap, calm, faults>>

\* Mutated: draining nodes are left to themselves.
WatchdogScan_OnlineOnly ==
    /\ marking = {}
    /\ wdTimer = WatchdogPeriod
    /\ wdTimer' = 0
    /\ marking' = {n \in Node : /\ registry[n].status = "Online"
                                /\ registry[n].age > StaleAfter}
    /\ UNCHANGED <<registry, net, worker, overlap, calm, faults>>

\* A watchdog tick copies the registry and picks the stale entries ...
WatchdogScan ==
    /\ marking = {}
    /\ wdTimer = WatchdogPeriod
    /\ wdTimer' = 0
    /\ marking' = {n \in Node : /\ registry[n] # NoEntry
                                /\ registry[n].age > StaleAfter}
    /\ UNCHANGED <<registry, net, worker, overlap, calm, faults>>

\* Mutated: the stale entry is written back with the status it had.
WatchdogMark_KeepStatus(n) ==
    /\ n \in marking
    /\ upsert(n, registry[n].status)
    /\ marking' = marking \ {n}
    /\ UNCHANGED <<net, worker, wdTimer, overlap, calm, faults>>

\* Mutated: the written status does not convert to a known one.
WatchdogMark_Unspecified(n) ==
    /\ n \in marking
    /\ upsert(n, "Unspecified")
    /\ marking' = marking \ {n}
    /\ UNCHANGED <<net, worker, wdTimer, overlap, calm, faults>>

\* ... then writes each one back as offline, whatever the registry holds now.
WatchdogMark(n) ==
    /\ n \in marking
    /\ upsert(n, "Offline")
    /\ marking' = marking \ {n}
    /\ UNCHANGED <<net, worker, wdTimer, overlap, calm, faults>>

-----------------------------------------------------------------------------
(* Faults and time. *)

\* The request fails or times out before the handler sees it.
LoseReport(r) ==
    /\ r.phase = "sent"
    /\ faults < MaxFaults
    /\ faults' = faults + 1
    /\ net' = net \ {r}
    /\ Disturbed(r.node)
    /\ UNCHANGED <<registry, worker, marking, wdTimer, overlap>>

\* The registry lives in memory only.
CoordinatorRestart ==
    /\ faults < MaxFaults
    /\ faults' = faults + 1
    /\ registry' = [n \in Node |-> NoEntry]
    /\ net' = {r \in net : r.phase = "sent"}
    /\ marking' = {}
    /\ wdTimer' = WatchdogPeriod
    /\ calm' = [n \in Node |-> 0]
    /\ UNCHANGED <<worker, overlap>>

\* Time waits for whatever is due: reports, ticks and code without an await.
Tick ==
    /\ \A r \in net : r.phase = "sent" /\ r.age < MaxDelay
    /\ marking = {}
    /\ wdTimer < WatchdogPeriod
    /\ \A n \in Node : worker[n].up => worker[n].beat < HeartbeatPeriod
    /\ registry' = [n \in Node |-> [registry[n] EXCEPT !.age = Older(@)]]
    /\ net' = {[r EXCEPT !.age = @ + 1] : r \in net}
    /\ worker' = [n \in Node |->
                    IF worker[n].up
                    THEN [worker[n] EXCEPT !.beat = @ + 1]
                    ELSE [worker[n] EXCEPT !.downFor = Older(@)]]
    /\ wdTimer' = wdTimer + 1
    /\ calm' = [n \in Node |-> IF worker[n].up /\ calm[n] < CalmCap
                               THEN calm[n] + 1 ELSE calm[n]]
    /\ UNCHANGED <<marking, overlap, faults>>

-----------------------------------------------------------------------------

WorkerNext(n) == StartWorker(n) \/ Heartbeat(n) \/ Shutdown(n) \/ Crash(n)

HandlerNext(r) == ReportReject(r) \/ ReportCheck(r) \/ ReportUpsert(r)

Next ==
    \/ \E n \in Node : WorkerNext(n) \/ Register(n) \/ WatchdogMark(n)
    \/ \E r \in net : HandlerNext(r) \/ LoseReport(r)
    \/ WatchdogScan
    \/ CoordinatorRestart
    \/ Tick

Spec == Init /\ [][Next]_vars

\* The runtime polls every ready task: due heartbeats are sent, delivered
\* reports are handled, the watchdog runs and time goes on.  Workers need
\* neither start nor stop, and faults need not happen.
Fairness ==
    /\ WF_vars(Tick)
    /\ WF_vars(WatchdogScan)
    /\ WF_vars(\E n \in Node : WatchdogMark(n))
    /\ WF_vars(\E r \in net : HandlerNext(r))
    /\ \A n \in Node : WF_vars(Heartbeat(n))

FairSpec == Spec /\ Fairness

-----------------------------------------------------------------------------
(* Properties. *)

\* A node the dispatcher may pick had a running worker less than
\* StaleAfter + MaxDelay ago, although the watchdog keeps refreshing the
\* timestamp of dead entries (heartbeat.rs:18, registry.rs:46).
EligibleIsRecent ==
    \A n \in eligible_nodes : worker[n].downFor < StaleAfter + MaxDelay

\* The watchdog is in time: an entry still says Online or Draining at most
\* StaleAfter + WatchdogPeriod + MaxDelay after its worker ended, also when the
\* watchdog, a late report and a restarted worker get in each other's way
\* (heartbeat.rs:7-28).
MarkedInTime ==
    \A n \in Node : registry[n].status \in ReportStatus =>
        worker[n].downFor <= StaleAfter + WatchdogPeriod + MaxDelay

\* The time from one upsert of a running worker to its next.
Beat == HeartbeatPeriod + MaxDelay

\* A worker that runs undisturbed for two such times is offered to the
\* dispatcher, whatever its earlier lives, the watchdog's copy of the registry or a
\* restarted coordinator left behind (registry.rs:35-50, heartbeat.rs:7-28).
ListedInTime ==
    \A n \in GpuNode : (Beat < StaleAfter /\ calm[n] > 2 * Beat) => n \in eligible_nodes

\* Two workers of one machine are both eligible only if two of their reports
\* were inside report_node at once, between the guard and the upsert
\* (server.rs:217-248).
RivalsOnlyByOverlap ==
    \A m, n \in eligible_nodes \ GrpcNode :
        (m # n /\ Hw[m] = Hw[n] /\ Hw[m] # NoHw) => Hw[m] \in overlap

\* What makes EligibleIsRecent inductive: a report in flight, and an entry as a
\* report left it, are not much younger than the end of their worker.
RunningIsNow == \A n \in Node : worker[n].up => worker[n].downFor = 0

ReportsAreRecent == \A r \in net : worker[r.node].downFor <= r.age

ReportedIsRecent ==
    \A n \in Node :
        registry[n].status \in ReportStatus
            => worker[n].downFor <= registry[n].age + MaxDelay

RecentInv == TypeOK /\ RunningIsNow /\ ReportsAreRecent /\ ReportedIsRecent

\* For MarkedInTime: an entry is not older than the next tick of the watchdog allows.
MarkedSoon ==
    \A n \in Node :
        registry[n].status \in ReportStatus =>
            registry[n].age <= StaleAfter + (IF n \in marking THEN WatchdogPeriod ELSE wdTimer)

\* For ListedInTime.  A draining report of an earlier life is as old as the calm.
DownIsDisturbed == \A n \in Node : ~worker[n].up => calm[n] = 0

DrainsPass ==
    \A r \in net : (r.status = "Draining" /\ worker[r.node].up) => r.age >= calm[r.node]

\* No upsert since the calm began, or for long, has one of two reasons: no report
\* was due yet, or one is on its way that is nearly as old.
Awaited ==
    \A n \in Node : worker[n].up =>
        LET since(t) == calm[n] <= t \/ registry[n].age <= t
        IN  \/ since(worker[n].beat)
            \/ \E r \in net : r.node = n /\ since(r.age + HeartbeatPeriod)

\* So the watchdog does not pick a worker after the first Beat of its calm, and
\* the first report after that leaves Online for good.
Unmarked == \A n \in marking : calm[n] <= Beat

Settled ==
    \A n \in Node : calm[n] > Beat =>
        registry[n].status = "Online" \/ calm[n] <= registry[n].age + Beat

CalmInv ==
    /\ RecentInv
    /\ DownIsDisturbed
    /\ DrainsPass
    /\ Awaited
    /\ Beat < StaleAfter => Unmarked /\ Settled

\* What makes RivalsOnlyByOverlap inductive.  Rivals are two nodes of one
\* machine that only use the guarded report; Fresh is what the dispatcher asks
\* of an entry.
Rivals(m, n) ==
    /\ m \in Node \ GrpcNode
    /\ n \in Node \ GrpcNode
    /\ m # n
    /\ Hw[m] = Hw[n]
    /\ Hw[m] # NoHw

Fresh(n) == registry[n].status = "Online" /\ registry[n].age < StaleAfter

CheckedOverlap ==
    \A q, r \in net :
        (q.phase = "checked" /\ r.phase = "checked" /\ Rivals(q.node, r.node))
            => Hw[r.node] \in overlap

CheckedExcludes ==
    \A r \in net, m \in Node :
        (r.phase = "checked" /\ Rivals(m, r.node) /\ Fresh(m))
            => Hw[m] \in overlap

FreshExcludes ==
    \A m, n \in Node :
        (Rivals(m, n) /\ Fresh(m) /\ Fresh(n)) => Hw[m] \in overlap

RivalInv == TypeOK /\ CheckedOverlap /\ CheckedExcludes /\ FreshExcludes

\* A worker that keeps running ends up eligible for good, once faults stop:
\* watchdog and late reports of its earlier lives only hide it for a while.
LiveWorkerListed ==
    \A n \in GpuNode : <>[](worker[n].up) => <>[](n \in eligible_nodes)

\* A node whose worker never comes back ends up offline (or forgotten by a
\* restarted coordinator), also when it left with a draining report.
DeadWorkerMarked ==
    \A n \in Node :
        <>[](~worker[n].up) => <>[](registry[n].status \in {"Offline", "Absent"})

\* server.rs:213-216: once the original worker truly goes away, the new one of
\* the same machine takes over without operator intervention.
TakeoverSucceeds ==
    \A n \in GpuNode :
        <>[](worker[n].up /\ \A m \in Node \ {n} : ~worker[m].up)
            => <>[](n \in eligible_nodes)
=============================================================================
