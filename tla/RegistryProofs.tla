--------------------------- MODULE RegistryProofs ---------------------------
(***************************************************************************)
(* Theorems about Registry, for every set of nodes, every assignment of    *)
(* fingerprints and every choice of periods and delays.                    *)
(***************************************************************************)
EXTENDS Registry, TLAPS

\* Ages stay ages.
LEMMA AgeFacts ==
    /\ AgeCap \in Nat
    /\ 0 \in Age
    /\ AgeCap \in Age
    /\ \A a \in Age : Older(a) \in Age /\ Older(a) <= a + 1
BY TimeAssumption DEF AgeCap, Age, Older

-----------------------------------------------------------------------------
(* Type correctness. *)

LEMMA InitType == Init => TypeOK
<1> SUFFICES ASSUME Init PROVE TypeOK
    OBVIOUS
<1>1. NoEntry \in NodeEntry
  BY AgeFacts DEF NoEntry, NodeEntry, Status, ReportStatus
<1>2. [up |-> FALSE, beat |-> HeartbeatPeriod, downFor |-> AgeCap] \in Worker
  BY AgeFacts, TimeAssumption DEF Worker
<1> QED
  BY <1>1, <1>2, TimeAssumption DEF Init, TypeOK

LEMMA UpsertType ==
    ASSUME TypeOK, NEW n \in Node, NEW s \in Status, upsert(n, s)
    PROVE  registry' \in [Node -> NodeEntry]
<1>1. [status |-> s, age |-> 0] \in NodeEntry
  BY AgeFacts DEF NodeEntry
<1> QED
  BY <1>1 DEF TypeOK, upsert

LEMMA DisturbedFacts ==
    ASSUME TypeOK, NEW n \in Node, Disturbed(n)
    PROVE  /\ calm' \in [Node -> 0 .. CalmCap]
           /\ calm'[n] = 0
           /\ \A m \in Node : m # n => calm'[m] = calm[m]
BY TimeAssumption DEF TypeOK, Disturbed

LEMMA NextType == TypeOK /\ [Next]_vars => TypeOK'
<1> SUFFICES ASSUME TypeOK, [Next]_vars PROVE TypeOK'
    OBVIOUS
<1> USE DEF TypeOK
<1>1. ASSUME NEW n \in Node, StartWorker(n) PROVE TypeOK'
  BY <1>1, AgeFacts, TimeAssumption DEF StartWorker, Worker
<1>2. ASSUME NEW n \in Node, Heartbeat(n) PROVE TypeOK'
  <2>1. [node |-> n, status |-> "Online", age |-> 0, phase |-> "sent"] \in Report
    BY TimeAssumption DEF Report, ReportStatus
  <2>2. worker' \in [Node -> Worker]
    BY <1>2, TimeAssumption DEF Heartbeat, Worker
  <2> QED
    BY <1>2, <2>1, <2>2 DEF Heartbeat, publish
<1>3. ASSUME NEW n \in Node, Shutdown(n) PROVE TypeOK'
  <2>1. [node |-> n, status |-> "Draining", age |-> 0, phase |-> "sent"] \in Report
    BY TimeAssumption DEF Report, ReportStatus
  <2>2. worker' \in [Node -> Worker]
    BY <1>3 DEF Shutdown, Worker
  <2> QED
    BY <1>3, <2>1, <2>2, DisturbedFacts DEF Shutdown, publish
<1>4. ASSUME NEW n \in Node, Crash(n) PROVE TypeOK'
  <2>1. worker' \in [Node -> Worker]
    BY <1>4 DEF Crash, Worker
  <2> QED
    BY <1>4, <2>1, DisturbedFacts DEF Crash
<1>5. ASSUME NEW n \in Node, Register(n) PROVE TypeOK'
  BY <1>5, UpsertType DEF Register, Status, ReportStatus
<1>6. ASSUME NEW n \in Node, WatchdogMark(n) PROVE TypeOK'
  BY <1>6, UpsertType DEF WatchdogMark, Status
<1>7. ASSUME NEW r \in net, ReportReject(r) PROVE TypeOK'
  <2>1. r.node \in Node
    BY DEF Report
  <2> QED
    BY <1>7, <2>1, DisturbedFacts DEF ReportReject
<1>8. ASSUME NEW r \in net, ReportCheck(r) PROVE TypeOK'
  <2>1. [r EXCEPT !.phase = "checked"] \in Report
    BY DEF Report
  <2>2. Hw[r.node] \in {Hw[n] : n \in Node}
    BY DEF Report
  <2> QED
    BY <1>8, <2>1, <2>2 DEF ReportCheck
<1>9. ASSUME NEW r \in net, ReportUpsert(r) PROVE TypeOK'
  <2>1. r.node \in Node /\ r.status \in Status
    BY DEF Report, Status
  <2> QED
    BY <1>9, <2>1, UpsertType DEF ReportUpsert
<1>10. ASSUME NEW r \in net, LoseReport(r) PROVE TypeOK'
  <2>1. r.node \in Node
    BY DEF Report
  <2>2. faults' \in 0 .. MaxFaults
    BY <1>10, TimeAssumption DEF LoseReport
  <2> QED
    BY <1>10, <2>1, <2>2, DisturbedFacts DEF LoseReport
<1>11. ASSUME WatchdogScan PROVE TypeOK'
  BY <1>11, TimeAssumption DEF WatchdogScan
<1>12. ASSUME CoordinatorRestart PROVE TypeOK'
  <2>1. NoEntry \in NodeEntry
    BY AgeFacts DEF NoEntry, NodeEntry, Status, ReportStatus
  <2> QED
    BY <1>12, <2>1, TimeAssumption DEF CoordinatorRestart
<1>13. ASSUME Tick PROVE TypeOK'
  <2>1. registry' \in [Node -> NodeEntry]
    BY <1>13, AgeFacts DEF Tick, NodeEntry
  <2>2. net' \subseteq Report
    BY <1>13, TimeAssumption DEF Tick, Report
  <2>3. worker' \in [Node -> Worker]
    <3>1. \A n \in Node : worker[n].up => [worker[n] EXCEPT !.beat = @ + 1] \in Worker
      BY <1>13, TimeAssumption DEF Tick, Worker
    <3>2. \A n \in Node : [worker[n] EXCEPT !.downFor = Older(@)] \in Worker
      BY AgeFacts DEF Worker
    <3> QED
      BY <1>13, <3>1, <3>2 DEF Tick
  <2>4. wdTimer' \in 0 .. WatchdogPeriod
    BY <1>13, TimeAssumption DEF Tick
  <2>5. calm' \in [Node -> 0 .. CalmCap]
    <3>1. \A n \in Node : calm[n] < CalmCap => calm[n] + 1 \in 0 .. CalmCap
      BY TimeAssumption
    <3> QED
      BY <1>13, <3>1 DEF Tick
  <2> QED
    BY <1>13, <2>1, <2>2, <2>3, <2>4, <2>5 DEF Tick
<1>14. CASE UNCHANGED vars
  BY <1>14 DEF vars
<1> QED
  BY <1>1, <1>2, <1>3, <1>4, <1>5, <1>6, <1>7, <1>8, <1>9, <1>10, <1>11, <1>12,
     <1>13, <1>14
     DEF Next, WorkerNext, HandlerNext

\* Whatever the interleaving of workers, handlers and watchdog, the registry,
\* the network and the workers keep their types.
THEOREM TypeCorrect == Spec => []TypeOK
BY InitType, NextType, PTL DEF Spec

-----------------------------------------------------------------------------
(* Bounded staleness. *)

LEMMA InitRecent == Init => RecentInv
BY InitType DEF Init, RecentInv, RunningIsNow, ReportsAreRecent, ReportedIsRecent, NoEntry,
                ReportStatus

LEMMA NextRecent == RecentInv /\ [Next]_vars => RecentInv'
<1> DEFINE Goal == RunningIsNow' /\ ReportsAreRecent' /\ ReportedIsRecent'
<1> SUFFICES ASSUME RecentInv, [Next]_vars PROVE Goal
    BY NextType DEF RecentInv
<1> USE DEF RecentInv, TypeOK, RunningIsNow, ReportsAreRecent, ReportedIsRecent
<1>a. /\ \A r \in net : r.node \in Node /\ r.age \in Nat /\ r.age <= MaxDelay
      /\ \A n \in Node : worker[n].downFor \in Nat /\ worker[n].downFor <= AgeCap
      /\ \A n \in Node : registry[n].age \in Nat /\ registry[n].age <= AgeCap
      /\ MaxDelay \in Nat
      /\ AgeCap \in Nat
  BY AgeFacts, TimeAssumption DEF Report, Worker, NodeEntry, Age
<1>1. ASSUME NEW n \in Node, StartWorker(n) PROVE Goal
  BY <1>1, <1>a DEF StartWorker
<1>2. ASSUME NEW n \in Node, Heartbeat(n) PROVE Goal
  BY <1>2, <1>a DEF Heartbeat, publish, Worker
<1>3. ASSUME NEW n \in Node, Shutdown(n) PROVE Goal
  BY <1>3, <1>a DEF Shutdown, publish, Worker
<1>4. ASSUME NEW n \in Node, Crash(n) PROVE Goal
  BY <1>4, <1>a DEF Crash, Worker
<1>5. ASSUME NEW n \in Node, Register(n) PROVE Goal
  BY <1>5, <1>a DEF Register, upsert
<1>6. ASSUME NEW n \in Node, WatchdogMark(n) PROVE Goal
  BY <1>6, <1>a DEF WatchdogMark, upsert, ReportStatus
<1>7. ASSUME NEW r \in net, ReportReject(r) PROVE Goal
  BY <1>7 DEF ReportReject
<1>8. ASSUME NEW r \in net, ReportCheck(r) PROVE Goal
  <2>1. /\ [r EXCEPT !.phase = "checked"].node = r.node
        /\ [r EXCEPT !.phase = "checked"].age = r.age
    BY DEF Report
  <2> QED
    BY <1>8, <2>1 DEF ReportCheck
<1>9. ASSUME NEW r \in net, ReportUpsert(r) PROVE Goal
  <2>1. worker[r.node].downFor <= 0 + MaxDelay
    BY <1>a
  <2> QED
    BY <1>9, <1>a, <2>1 DEF ReportUpsert, upsert
<1>10. ASSUME NEW r \in net, LoseReport(r) PROVE Goal
  BY <1>10 DEF LoseReport
<1>11. ASSUME WatchdogScan PROVE Goal
  BY <1>11 DEF WatchdogScan
<1>12. ASSUME CoordinatorRestart PROVE Goal
  BY <1>12 DEF CoordinatorRestart, NoEntry, ReportStatus
<1>13. ASSUME Tick PROVE Goal
  <2>1. \A n \in Node : /\ worker'[n].up = worker[n].up
                        /\ worker[n].up => worker'[n].downFor = worker[n].downFor
                        /\ ~worker[n].up => worker'[n].downFor = Older(worker[n].downFor)
    BY <1>13 DEF Tick, Worker
  <2>2. \A n \in Node : /\ worker'[n].downFor \in Nat
                        /\ worker'[n].downFor <= AgeCap
                        /\ worker'[n].downFor <= worker[n].downFor + 1
    BY <2>1, <1>a DEF Older
  <2>3. RunningIsNow'
    BY <2>1
  <2>4. ReportsAreRecent'
    <3>1. ASSUME NEW q \in net' PROVE worker'[q.node].downFor <= q.age
      <4>1. PICK r \in net : q = [r EXCEPT !.age = @ + 1]
        BY <1>13 DEF Tick
      <4>2. q.node = r.node /\ q.age = r.age + 1
        BY <4>1 DEF Report
      <4>3. worker[r.node].downFor <= r.age
        OBVIOUS
      <4> QED
        BY <4>2, <4>3, <2>2, <1>a
    <3> QED
      BY <3>1
  <2>5. ReportedIsRecent'
    <3>1. ASSUME NEW n \in Node, registry'[n].status \in ReportStatus
          PROVE  worker'[n].downFor <= registry'[n].age + MaxDelay
      <4>1. registry[n].status \in ReportStatus /\ registry'[n].age = Older(registry[n].age)
        BY <1>13, <3>1 DEF Tick, NodeEntry
      <4>2. worker[n].downFor <= registry[n].age + MaxDelay
        BY <4>1
      <4> QED
        BY <4>1, <4>2, <2>2, <1>a DEF Older
    <3> QED
      BY <3>1
  <2> QED
    BY <2>3, <2>4, <2>5
<1>14. CASE UNCHANGED vars
  BY <1>14 DEF vars
<1> QED
  BY <1>1, <1>2, <1>3, <1>4, <1>5, <1>6, <1>7, <1>8, <1>9, <1>10, <1>11, <1>12,
     <1>13, <1>14
     DEF Next, WorkerNext, HandlerNext

LEMMA RecentImplies == RecentInv => EligibleIsRecent
<1> SUFFICES ASSUME RecentInv, NEW n \in eligible_nodes
             PROVE  worker[n].downFor < StaleAfter + MaxDelay
    BY DEF EligibleIsRecent
<1>1. n \in Node /\ registry[n].status = "Online" /\ registry[n].age < StaleAfter
  BY NodeAssumption DEF eligible_nodes
<1>2. worker[n].downFor \in Nat /\ registry[n].age \in Nat
  BY <1>1, AgeFacts DEF RecentInv, TypeOK, Worker, NodeEntry, Age
<1> QED
  BY <1>1, <1>2, TimeAssumption DEF RecentInv, ReportedIsRecent, ReportStatus

\* However the watchdog refreshes timestamps and however late reports arrive,
\* the dispatcher is never offered a node whose worker ended StaleAfter +
\* MaxDelay ago or earlier.
THEOREM BoundedStaleness == Spec => []EligibleIsRecent
BY InitRecent, NextRecent, RecentImplies, PTL DEF Spec
-----------------------------------------------------------------------------
(* The duplicate-worker guard. *)

LEMMA InitRival == Init => RivalInv
BY InitType DEF Init, RivalInv, CheckedOverlap, CheckedExcludes, FreshExcludes, Fresh,
                NoEntry

\* An upsert changes one entry.
LEMMA UpsertFresh ==
    ASSUME TypeOK, NEW n \in Node, NEW s, upsert(n, s), NEW m \in Node, m # n
    PROVE  Fresh(m)' = Fresh(m)
BY DEF upsert, Fresh, TypeOK

LEMMA NextRival == RivalInv /\ [Next]_vars => RivalInv'
<1> DEFINE Goal == CheckedOverlap' /\ CheckedExcludes' /\ FreshExcludes'
<1> SUFFICES ASSUME RivalInv, [Next]_vars PROVE Goal
    BY NextType DEF RivalInv
<1> USE DEF RivalInv, CheckedOverlap, CheckedExcludes, FreshExcludes
<1>a. \A r \in net : r \in Report /\ r.node \in Node
  BY DEF TypeOK, Report
<1>b. ASSUME UNCHANGED <<registry, overlap>>,
             \A r \in net' : r.phase = "checked" => r \in net
      PROVE  Goal
  BY <1>b DEF Fresh, Rivals
<1>1. ASSUME NEW n \in Node, StartWorker(n) PROVE Goal
  BY <1>1, <1>b DEF StartWorker
<1>2. ASSUME NEW n \in Node, Heartbeat(n) PROVE Goal
  BY <1>2, <1>b DEF Heartbeat, publish
<1>3. ASSUME NEW n \in Node, Shutdown(n) PROVE Goal
  BY <1>3, <1>b DEF Shutdown, publish
<1>4. ASSUME NEW n \in Node, Crash(n) PROVE Goal
  BY <1>4, <1>b DEF Crash
<1>5. ASSUME NEW n \in Node, Register(n) PROVE Goal
  <2>1. \A m \in Node : m # n => Fresh(m)' = Fresh(m)
    BY <1>5, UpsertFresh DEF Register
  <2>2. \A m \in Node : ~Rivals(m, n) /\ ~Rivals(n, m)
    BY <1>5 DEF Register, Rivals
  <2> QED
    BY <1>5, <1>a, <2>1, <2>2 DEF Register, Rivals
<1>6. ASSUME NEW n \in Node, WatchdogMark(n) PROVE Goal
  <2>1. \A m \in Node : m # n => Fresh(m)' = Fresh(m)
    BY <1>6, UpsertFresh DEF WatchdogMark
  <2>2. ~Fresh(n)'
    BY <1>6 DEF WatchdogMark, upsert, Fresh, TypeOK
  <2> QED
    BY <1>6, <1>a, <2>1, <2>2 DEF WatchdogMark, Rivals
<1>7. ASSUME NEW r \in net, ReportReject(r) PROVE Goal
  BY <1>7, <1>b DEF ReportReject
<1>8. ASSUME NEW r \in net, ReportCheck(r) PROVE Goal
  <2> DEFINE c == [r EXCEPT !.phase = "checked"]
  <2>1. c.node = r.node
    BY <1>a DEF Report
  <2>2. \A q \in net' : q = c \/ q \in net
    BY <1>8 DEF ReportCheck
  <2>3. overlap \subseteq overlap' /\ registry' = registry
    BY <1>8 DEF ReportCheck
  <2>4. \A q \in net : (q.phase = "checked" /\ Rivals(q.node, r.node))
                           => Hw[r.node] \in overlap'
    BY <1>8, <1>a DEF ReportCheck, Rivals
  <2>5. \A m \in Node : Rivals(m, r.node) => ~Fresh(m)
    BY <1>8, <1>a, TimeAssumption
       DEF ReportCheck, find_active_with_hw_fingerprint, Rivals, Fresh, NoEntry, TypeOK,
           NodeEntry, Age
  <2>6. CheckedOverlap'
    BY <2>1, <2>2, <2>3, <2>4 DEF Rivals
  <2>7. CheckedExcludes'
    BY <2>1, <2>2, <2>3, <2>5 DEF Rivals, Fresh
  <2>8. FreshExcludes'
    BY <2>3 DEF Rivals, Fresh
  <2> QED
    BY <2>6, <2>7, <2>8
<1>9. ASSUME NEW r \in net, ReportUpsert(r) PROVE Goal
  <2>1. \A m \in Node : m # r.node => Fresh(m)' = Fresh(m)
    BY <1>9, <1>a, UpsertFresh DEF ReportUpsert, RivalInv
  <2>2. r.phase = "checked" /\ net' \subseteq net /\ overlap' = overlap
    BY <1>9 DEF ReportUpsert
  <2>3. CheckedOverlap'
    BY <2>2
  <2>4. CheckedExcludes'
    BY <1>a, <2>1, <2>2 DEF Rivals
  <2>5. FreshExcludes'
    BY <1>a, <2>1, <2>2 DEF Rivals
  <2> QED
    BY <2>3, <2>4, <2>5
<1>10. ASSUME NEW r \in net, LoseReport(r) PROVE Goal
  BY <1>10, <1>b DEF LoseReport
<1>11. ASSUME WatchdogScan PROVE Goal
  BY <1>11, <1>b DEF WatchdogScan
<1>12. ASSUME CoordinatorRestart PROVE Goal
  BY <1>12 DEF CoordinatorRestart, Fresh, NoEntry
<1>13. ASSUME Tick PROVE Goal
  <2>1. \A n \in Node : Fresh(n)' => Fresh(n)
    BY <1>13, TimeAssumption DEF Tick, Fresh, TypeOK, NodeEntry, Age, Older, AgeCap
  <2>2. \A q \in net' : q.phase # "checked"
    BY <1>13, <1>a DEF Tick, Report
  <2>3. overlap' = overlap
    BY <1>13 DEF Tick
  <2> QED
    BY <2>1, <2>2, <2>3 DEF Rivals
<1>14. CASE UNCHANGED vars
  BY <1>14, <1>b DEF vars
<1> QED
  BY <1>1, <1>2, <1>3, <1>4, <1>5, <1>6, <1>7, <1>8, <1>9, <1>10, <1>11, <1>12,
     <1>13, <1>14
     DEF Next, WorkerNext, HandlerNext

LEMMA RivalImplies == RivalInv => RivalsOnlyByOverlap
<1> SUFFICES ASSUME RivalInv,
                    NEW m \in eligible_nodes \ GrpcNode, NEW n \in eligible_nodes \ GrpcNode,
                    m # n, Hw[m] = Hw[n], Hw[m] # NoHw
             PROVE  Hw[m] \in overlap
    BY DEF RivalsOnlyByOverlap
<1>1. m \in Node /\ n \in Node /\ Fresh(m) /\ Fresh(n) /\ Rivals(m, n)
  BY NodeAssumption DEF eligible_nodes, Fresh, Rivals
<1> QED
  BY <1>1 DEF RivalInv, FreshExcludes

\* The duplicate-worker guard keeps two workers of one machine from being
\* eligible together, except when their reports overlap inside report_node.
THEOREM GuardSound == Spec => []RivalsOnlyByOverlap
BY InitRival, NextRival, RivalImplies, PTL DEF Spec
-----------------------------------------------------------------------------
(* The watchdog is in time. *)

\* The numbers the invariants compare.
LEMMA Numbers ==
    ASSUME TypeOK
    PROVE  /\ \A r \in net : /\ r \in Report /\ r.node \in Node /\ r.age \in Nat
                             /\ r.age <= MaxDelay /\ r.status \in ReportStatus
           /\ \A n \in Node : /\ registry[n] \in NodeEntry
                              /\ registry[n].age \in Nat /\ registry[n].age <= AgeCap
                              /\ worker[n] \in Worker
                              /\ worker[n].up \in BOOLEAN
                              /\ worker[n].beat \in Nat /\ worker[n].beat <= HeartbeatPeriod
                              /\ worker[n].downFor \in Nat
                              /\ calm[n] \in Nat
           /\ wdTimer \in Nat /\ wdTimer <= WatchdogPeriod
           /\ StaleAfter \in Nat /\ WatchdogPeriod \in Nat /\ MaxDelay \in Nat
           /\ HeartbeatPeriod \in Nat /\ CalmCap \in Nat
           /\ AgeCap = StaleAfter + WatchdogPeriod + MaxDelay + 1
BY TimeAssumption DEF TypeOK, Report, NodeEntry, Worker, Age, AgeCap

\* What an upsert leaves.
LEMMA UpsertFacts ==
    ASSUME TypeOK, NEW n \in Node, NEW s, upsert(n, s)
    PROVE  /\ registry'[n].status = s /\ registry'[n].age = 0
           /\ \A m \in Node : m # n => registry'[m] = registry[m]
BY DEF TypeOK, upsert

\* What a time unit does.
LEMMA TickFacts ==
    ASSUME TypeOK, Tick
    PROVE  /\ \A n \in Node : /\ registry'[n].status = registry[n].status
                              /\ registry'[n].age = Older(registry[n].age)
                              /\ worker'[n].up = worker[n].up
                              /\ worker[n].up => worker'[n].beat = worker[n].beat + 1
                              /\ calm'[n] \in {calm[n], calm[n] + 1}
                              /\ ~worker[n].up => calm'[n] = calm[n]
           /\ \A r \in net : \E q \in net' : /\ q.node = r.node /\ q.age = r.age + 1
                                             /\ q.status = r.status
           /\ \A q \in net' : \E r \in net : /\ q.node = r.node /\ q.age = r.age + 1
                                             /\ q.status = r.status
           /\ wdTimer' = wdTimer + 1 /\ marking = {} /\ marking' = {}
<1>1. \A n \in Node : /\ registry'[n].status = registry[n].status
                      /\ registry'[n].age = Older(registry[n].age)
  BY Numbers DEF Tick, NodeEntry
<1>2. \A n \in Node : /\ worker'[n].up = worker[n].up
                      /\ worker[n].up => worker'[n].beat = worker[n].beat + 1
  BY Numbers DEF Tick, Worker
<1>3. \A n \in Node : /\ calm'[n] \in {calm[n], calm[n] + 1}
                      /\ ~worker[n].up => calm'[n] = calm[n]
  BY DEF Tick
<1>4. \A r \in net : LET q == [r EXCEPT !.age = @ + 1]
                     IN  q \in net' /\ q.node = r.node /\ q.age = r.age + 1 /\ q.status = r.status
  BY Numbers DEF Tick, Report
<1>5. \A q \in net' : \E r \in net : /\ q.node = r.node /\ q.age = r.age + 1
                                     /\ q.status = r.status
  <2> TAKE q \in net'
  <2>1. PICK r \in net : q = [r EXCEPT !.age = @ + 1]
    BY DEF Tick
  <2> QED
    BY <1>4, <2>1
<1>6. wdTimer' = wdTimer + 1 /\ marking = {} /\ marking' = {}
  BY DEF Tick
<1> QED
  BY <1>1, <1>2, <1>3, <1>4, <1>5, <1>6

LEMMA NextMarked == TypeOK /\ MarkedSoon /\ [Next]_vars => MarkedSoon'
<1> SUFFICES ASSUME TypeOK, MarkedSoon, [Next]_vars PROVE MarkedSoon'
    OBVIOUS
<1> DEFINE Limit(n) == StaleAfter + (IF n \in marking THEN WatchdogPeriod ELSE wdTimer)
<1>0. \A n \in Node : registry[n].status \in ReportStatus => registry[n].age <= Limit(n)
  BY DEF MarkedSoon
<1>1. ASSUME UNCHANGED <<registry, marking, wdTimer>> PROVE MarkedSoon'
  BY <1>1 DEF MarkedSoon
<1>2. ASSUME NEW n \in Node, NEW s, upsert(n, s), UNCHANGED <<marking, wdTimer>> PROVE MarkedSoon'
  BY <1>2, Numbers, UpsertFacts DEF MarkedSoon
<1>3. ASSUME NEW n \in Node, WatchdogMark(n) PROVE MarkedSoon'
  <2>1. registry'[n].status \notin ReportStatus
    BY <1>3, UpsertFacts DEF WatchdogMark, ReportStatus
  <2>2. \A m \in Node : m # n => registry'[m] = registry[m] /\ (m \in marking' <=> m \in marking)
    BY <1>3, UpsertFacts DEF WatchdogMark
  <2>3. wdTimer' = wdTimer
    BY <1>3 DEF WatchdogMark
  <2> QED
    BY <2>1, <2>2, <2>3 DEF MarkedSoon
<1>4. ASSUME WatchdogScan PROVE MarkedSoon'
  <2> SUFFICES ASSUME NEW n \in Node, registry'[n].status \in ReportStatus
               PROVE  registry'[n].age <=
                          StaleAfter + (IF n \in marking' THEN WatchdogPeriod ELSE wdTimer')
    BY DEF MarkedSoon
  <2>1. /\ registry' = registry /\ marking = {} /\ wdTimer = WatchdogPeriod /\ wdTimer' = 0
        /\ n \in marking' <=> registry[n] # NoEntry /\ registry[n].age > StaleAfter
    BY <1>4 DEF WatchdogScan
  <2>2. registry[n] # NoEntry
    BY <2>1 DEF NoEntry, ReportStatus
  <2>3. registry[n].age <= StaleAfter + WatchdogPeriod
    BY <1>0, <2>1
  <2> QED
    BY <2>1, <2>2, <2>3, Numbers
<1>5. ASSUME CoordinatorRestart PROVE MarkedSoon'
  BY <1>5 DEF CoordinatorRestart, MarkedSoon, NoEntry, ReportStatus
<1>6. ASSUME Tick PROVE MarkedSoon'
  <2>1. \A n \in Node : registry'[n].age <= registry[n].age + 1 /\ registry'[n].age \in Nat
    BY <1>6, TickFacts, Numbers DEF Older
  <2> QED
    BY <1>6, <2>1, TickFacts, Numbers DEF MarkedSoon
<1>7. ASSUME NEW r \in net, ReportUpsert(r) PROVE MarkedSoon'
  BY <1>7, <1>2, Numbers DEF ReportUpsert
<1>8. ASSUME NEW n \in Node, Register(n) PROVE MarkedSoon'
  BY <1>8, <1>2 DEF Register
<1>9. ASSUME NEW r \in net, ReportReject(r) \/ ReportCheck(r) \/ LoseReport(r) PROVE MarkedSoon'
  BY <1>9, <1>1 DEF ReportReject, ReportCheck, LoseReport
<1>10. ASSUME NEW n \in Node, WorkerNext(n) PROVE MarkedSoon'
  BY <1>10, <1>1 DEF WorkerNext, StartWorker, Heartbeat, Shutdown, Crash
<1>11. CASE UNCHANGED vars
  BY <1>11, <1>1 DEF vars
<1> QED
  BY <1>3, <1>4, <1>5, <1>6, <1>7, <1>8, <1>9, <1>10, <1>11 DEF Next, HandlerNext

\* A dead worker does not stay listed as running or draining: the watchdog has
\* marked it StaleAfter + WatchdogPeriod + MaxDelay after its end at the latest.
THEOREM WatchdogInTime == Spec => []MarkedInTime
<1>1. Init => MarkedSoon
  BY DEF Init, MarkedSoon, NoEntry, ReportStatus
<1>2. RecentInv /\ MarkedSoon /\ [Next]_vars => MarkedSoon'
  BY NextMarked DEF RecentInv
<1>3. RecentInv /\ MarkedSoon => MarkedInTime
  <2> SUFFICES ASSUME RecentInv, MarkedSoon, NEW n \in Node, registry[n].status \in ReportStatus
               PROVE  worker[n].downFor <= StaleAfter + WatchdogPeriod + MaxDelay
    BY DEF MarkedInTime
  <2>1. registry[n].age <= StaleAfter + WatchdogPeriod
    BY Numbers DEF MarkedSoon, RecentInv
  <2>2. worker[n].downFor <= registry[n].age + MaxDelay
    BY DEF RecentInv, ReportedIsRecent
  <2> QED
    BY <2>1, <2>2, Numbers DEF RecentInv
<1> QED
  BY <1>1, <1>2, <1>3, InitRecent, NextRecent, PTL DEF Spec
-----------------------------------------------------------------------------
(* A worker that runs undisturbed is listed. *)

Since(n, t) == calm[n] <= t \/ registry[n].age <= t

AwaitedOf(n) ==
    \/ ~worker[n].up
    \/ Since(n, worker[n].beat)
    \/ \E r \in net : r.node = n /\ Since(n, r.age + HeartbeatPeriod)

LEMMA AwaitedAll == Awaited <=> \A n \in Node : AwaitedOf(n)
BY DEF Awaited, AwaitedOf, Since

\* Nothing about n but reports that keep their node and age.
LEMMA AwaitedKept ==
    ASSUME NEW n \in Node, AwaitedOf(n),
           calm'[n] = calm[n], registry'[n].age = registry[n].age,
           worker'[n].up = worker[n].up, worker'[n].beat = worker[n].beat,
           \A r \in net : r.node = n => \E q \in net' : q.node = n /\ q.age = r.age
    PROVE  AwaitedOf(n)'
BY DEF AwaitedOf, Since

\* A disturbance or an upsert starts a new wait.
LEMMA AwaitedNew ==
    ASSUME TypeOK, TypeOK', NEW n \in Node, calm'[n] = 0 \/ registry'[n].age = 0
    PROVE  AwaitedOf(n)'
<1>1. worker'[n].beat \in Nat
  BY DEF TypeOK, Worker
<1> QED
  BY <1>1 DEF AwaitedOf, Since

LEMMA NextAwaited ==
    ASSUME TypeOK, TypeOK', DownIsDisturbed, Awaited, [Next]_vars
    PROVE  Awaited'
<1>0. \A n \in Node : AwaitedOf(n)
  BY AwaitedAll
<1> SUFFICES ASSUME NEW n \in Node PROVE AwaitedOf(n)'
  BY AwaitedAll DEF Awaited, AwaitedOf, Since
<1>1. ASSUME NEW m \in Node, StartWorker(m) PROVE AwaitedOf(n)'
  <2>1. CASE m = n
    <3>1. calm'[n] = 0
      BY <1>1, <2>1 DEF StartWorker, DownIsDisturbed
    <3> QED
      BY <3>1, AwaitedNew
  <2>2. CASE m # n
    <3>1. worker'[n] = worker[n] /\ UNCHANGED <<calm, registry, net>>
      BY <1>1, <2>2 DEF StartWorker, TypeOK
    <3> QED
      BY <1>0, <3>1, AwaitedKept
  <2> QED
    BY <2>1, <2>2
<1>2. ASSUME NEW m \in Node, Heartbeat(m) PROVE AwaitedOf(n)'
  <2>0. UNCHANGED <<calm, registry>> /\ net \subseteq net'
    BY <1>2 DEF Heartbeat, publish
  <2>1. CASE m = n
    <3>1. \E q \in net' : q.node = n /\ q.age = 0
      <4> DEFINE q == [node |-> n, status |-> "Online", age |-> 0, phase |-> "sent"]
      <4>1. q \in net' /\ q.node = n /\ q.age = 0
        BY <1>2, <2>1 DEF Heartbeat, publish
      <4> QED
        BY <4>1
    <3>2. worker[n].beat = HeartbeatPeriod
      BY <1>2, <2>1 DEF Heartbeat
    <3>3. \/ ~worker[n].up \/ Since(n, 0 + HeartbeatPeriod)
          \/ \E r \in net : r.node = n /\ Since(n, r.age + HeartbeatPeriod)
      BY <1>0, <3>2, Numbers DEF AwaitedOf
    <3>4. worker[n].up
      BY <1>2, <2>1 DEF Heartbeat
    <3> QED
      BY <2>0, <3>1, <3>3, <3>4 DEF AwaitedOf, Since
  <2>2. CASE m # n
    <3>1. worker'[n] = worker[n]
      BY <1>2, <2>2 DEF Heartbeat, TypeOK
    <3> QED
      BY <1>0, <2>0, <3>1, AwaitedKept
  <2> QED
    BY <2>1, <2>2
<1>3. ASSUME NEW m \in Node, Shutdown(m) \/ Crash(m) PROVE AwaitedOf(n)'
  <2>0. UNCHANGED registry /\ net \subseteq net' /\ Disturbed(m)
    BY <1>3 DEF Shutdown, Crash, publish
  <2>1. CASE m = n
    BY <2>0, <2>1, DisturbedFacts, AwaitedNew
  <2>2. CASE m # n
    <3>1. worker'[n] = worker[n] /\ calm'[n] = calm[n]
      BY <1>3, <2>0, <2>2, DisturbedFacts DEF Shutdown, Crash, TypeOK
    <3> QED
      BY <1>0, <2>0, <3>1, AwaitedKept
  <2> QED
    BY <2>1, <2>2
<1>4. ASSUME NEW m \in Node, NEW s, upsert(m, s), UNCHANGED <<worker, calm>>,
             \A r \in net : r \in net' \/ r.node = m
      PROVE  AwaitedOf(n)'
  <2>1. CASE m = n
    BY <1>4, <2>1, UpsertFacts, AwaitedNew
  <2>2. CASE m # n
    BY <1>0, <1>4, <2>2, UpsertFacts, AwaitedKept
  <2> QED
    BY <2>1, <2>2
<1>5. ASSUME NEW m \in Node, Register(m) \/ WatchdogMark(m) PROVE AwaitedOf(n)'
  BY <1>4, <1>5 DEF Register, WatchdogMark
<1>6. ASSUME NEW r \in net, ReportUpsert(r) PROVE AwaitedOf(n)'
  BY <1>4, <1>6, Numbers DEF ReportUpsert
<1>7. ASSUME NEW r \in net, ReportReject(r) \/ LoseReport(r) PROVE AwaitedOf(n)'
  <2>0. UNCHANGED <<registry, worker>> /\ net' = net \ {r} /\ Disturbed(r.node) /\ r.node \in Node
    BY <1>7, Numbers DEF ReportReject, LoseReport
  <2>1. CASE r.node = n
    BY <2>0, <2>1, DisturbedFacts, AwaitedNew
  <2>2. CASE r.node # n
    <3>1. calm'[n] = calm[n]
      BY <2>0, <2>2, DisturbedFacts
    <3> QED
      BY <1>0, <2>0, <2>2, <3>1, AwaitedKept
  <2> QED
    BY <2>1, <2>2
<1>8. ASSUME NEW r \in net, ReportCheck(r) PROVE AwaitedOf(n)'
  <2> DEFINE c == [r EXCEPT !.phase = "checked"]
  <2>1. c \in net' /\ c.node = r.node /\ c.age = r.age
    BY <1>8, Numbers DEF ReportCheck, Report
  <2>2. UNCHANGED <<registry, worker, calm>> /\ \A q \in net : q = r \/ q \in net'
    BY <1>8 DEF ReportCheck
  <2> HIDE DEF c
  <2> QED
    BY <1>0, <2>1, <2>2, AwaitedKept
<1>9. ASSUME WatchdogScan \/ UNCHANGED vars PROVE AwaitedOf(n)'
  <2>1. UNCHANGED <<registry, worker, calm, net>>
    BY <1>9 DEF WatchdogScan, vars
  <2> QED
    BY <1>0, <2>1, AwaitedKept
<1>10. ASSUME CoordinatorRestart PROVE AwaitedOf(n)'
  BY <1>10, AwaitedNew DEF CoordinatorRestart
<1>11. ASSUME Tick PROVE AwaitedOf(n)'
  <2>1. /\ worker'[n].up = worker[n].up
        /\ worker[n].up => worker'[n].beat = worker[n].beat + 1
        /\ calm'[n] \in {calm[n], calm[n] + 1}
        /\ registry'[n].age \in {registry[n].age, registry[n].age + 1}
    BY <1>11, TickFacts DEF Older
  <2>2. \A t \in Nat : Since(n, t) => Since(n, t + 1)'
    BY <2>1, Numbers DEF Since
  <2>3. CASE worker[n].up /\ Since(n, worker[n].beat)
    BY <2>1, <2>2, <2>3, Numbers DEF AwaitedOf
  <2>4. ASSUME NEW r \in net, r.node = n, Since(n, r.age + HeartbeatPeriod)
        PROVE  AwaitedOf(n)'
    <3>1. PICK q \in net' : q.node = r.node /\ q.age = r.age + 1
      BY <1>11, TickFacts
    <3>2. Since(n, (r.age + HeartbeatPeriod) + 1)'
      BY <2>2, <2>4, Numbers
    <3>3. (r.age + HeartbeatPeriod) + 1 = q.age + HeartbeatPeriod
      BY <3>1, Numbers
    <3> QED
      BY <2>4, <3>1, <3>2, <3>3 DEF AwaitedOf, Since
  <2> QED
    BY <1>0, <2>1, <2>3, <2>4 DEF AwaitedOf
<1> QED
  BY <1>1, <1>2, <1>3, <1>5, <1>6, <1>7, <1>8, <1>9, <1>10, <1>11
     DEF Next, WorkerNext, HandlerNext

\* A calm worker's entry is never older than Beat.
LEMMA AgeBound ==
    ASSUME TypeOK, DownIsDisturbed, Awaited, NEW n \in Node
    PROVE  Beat \in Nat /\ (calm[n] <= Beat \/ registry[n].age <= Beat)
<1>0. Beat \in Nat /\ HeartbeatPeriod <= Beat /\ MaxDelay <= Beat
  BY Numbers DEF Beat
<1>1. CASE ~worker[n].up
  BY <1>0, <1>1 DEF DownIsDisturbed
<1>2. CASE Since(n, worker[n].beat)
  BY <1>0, <1>2, Numbers DEF Since
<1>3. ASSUME NEW r \in net, Since(n, r.age + HeartbeatPeriod)
      PROVE  calm[n] <= Beat \/ registry[n].age <= Beat
  BY <1>3, Numbers DEF Since, Beat
<1> QED
  BY <1>0, <1>1, <1>2, <1>3, AwaitedAll DEF AwaitedOf

\* What a step does to the calm of a node.
LEMMA CalmSteps ==
    ASSUME TypeOK, TypeOK', [Next]_vars
    PROVE  \/ Tick
           \/ \A n \in Node : calm'[n] = 0 \/ calm'[n] = calm[n]
<1>1. ASSUME NEW m \in Node, Disturbed(m) PROVE \A n \in Node : calm'[n] = 0 \/ calm'[n] = calm[n]
  BY <1>1, DisturbedFacts
<1>2. ASSUME NEW m \in Node, WorkerNext(m) \/ Register(m) \/ WatchdogMark(m)
      PROVE  Disturbed(m) \/ calm' = calm
  BY <1>2 DEF WorkerNext, StartWorker, Heartbeat, Shutdown, Crash, Register, WatchdogMark
<1>3. ASSUME NEW r \in net, HandlerNext(r) \/ LoseReport(r)
      PROVE  Disturbed(r.node) \/ calm' = calm
  BY <1>3 DEF HandlerNext, ReportReject, ReportCheck, ReportUpsert, LoseReport
<1>4. ASSUME CoordinatorRestart PROVE \A n \in Node : calm'[n] = 0
  BY <1>4 DEF CoordinatorRestart
<1>5. ASSUME WatchdogScan \/ UNCHANGED vars PROVE calm' = calm
  BY <1>5 DEF WatchdogScan, vars
<1> QED
  BY <1>1, <1>2, <1>3, <1>4, <1>5, Numbers DEF Next

LEMMA NextDown ==
    ASSUME TypeOK, TypeOK', DownIsDisturbed, [Next]_vars
    PROVE  DownIsDisturbed'
<1> SUFFICES ASSUME NEW n \in Node, ~worker'[n].up PROVE calm'[n] = 0
    BY DEF DownIsDisturbed
<1>1. ASSUME worker[n].up => worker'[n].up, ~Tick PROVE calm'[n] = 0
  BY <1>1, CalmSteps DEF DownIsDisturbed
<1>2. ASSUME NEW m \in Node, Shutdown(m) \/ Crash(m), m = n PROVE calm'[n] = 0
  BY <1>2, DisturbedFacts DEF Shutdown, Crash
<1>3. ASSUME NEW m \in Node, Shutdown(m) \/ Crash(m), m # n PROVE worker'[n] = worker[n]
  BY <1>3 DEF Shutdown, Crash, TypeOK
<1>4. ASSUME NEW m \in Node, StartWorker(m) PROVE worker[n].up => worker'[n].up
  BY <1>4 DEF StartWorker, TypeOK
<1>5. ASSUME NEW m \in Node, Heartbeat(m) PROVE worker[n].up => worker'[n].up
  BY <1>5, Numbers DEF Heartbeat, TypeOK, Worker
<1>6. ASSUME NEW m \in Node, Register(m) \/ WatchdogMark(m) PROVE worker' = worker
  BY <1>6 DEF Register, WatchdogMark
<1>7. ASSUME NEW r \in net, HandlerNext(r) \/ LoseReport(r) PROVE worker' = worker
  BY <1>7 DEF HandlerNext, ReportReject, ReportCheck, ReportUpsert, LoseReport
<1>8. ASSUME WatchdogScan \/ CoordinatorRestart \/ UNCHANGED vars PROVE worker' = worker
  BY <1>8 DEF WatchdogScan, CoordinatorRestart, vars
<1>9. ASSUME Tick PROVE calm'[n] = 0
  BY <1>9, TickFacts DEF DownIsDisturbed
<1> QED
  BY <1>1, <1>2, <1>3, <1>4, <1>5, <1>6, <1>7, <1>8, <1>9 DEF Next, WorkerNext

\* The reports that a step leaves in flight were in flight before, except a new one.
LEMMA DrainsKept ==
    ASSUME TypeOK, TypeOK', DrainsPass,
           \A q \in net' : (q.status = "Draining" /\ worker'[q.node].up) =>
               \E r \in net : /\ q.node = r.node /\ q.age = r.age /\ r.status = "Draining"
                              /\ worker[r.node].up,
           \A n \in Node : calm'[n] = 0 \/ calm'[n] = calm[n]
    PROVE  DrainsPass'
<1> SUFFICES ASSUME NEW q \in net', q.status = "Draining", worker'[q.node].up
             PROVE  q.age >= calm'[q.node]
    BY DEF DrainsPass
<1>1. PICK r \in net : /\ q.node = r.node /\ q.age = r.age /\ r.status = "Draining"
                       /\ worker[r.node].up
  OBVIOUS
<1>2. r.age >= calm[r.node]
  BY <1>1 DEF DrainsPass
<1> QED
  BY <1>1, <1>2, Numbers

LEMMA NextDrains ==
    ASSUME RecentInv, TypeOK', DownIsDisturbed, DrainsPass, [Next]_vars
    PROVE  DrainsPass'
<1> USE DEF RecentInv
<1> DEFINE Old(q) == \E r \in net : /\ q.node = r.node /\ q.age = r.age /\ r.status = "Draining"
                                    /\ worker[r.node].up
           New(q) == q.status = "Draining" /\ worker'[q.node].up
<1>0. ASSUME \A q \in net' : New(q) => Old(q), ~Tick PROVE DrainsPass'
  BY <1>0, CalmSteps, DrainsKept
<1> HIDE DEF Old, New
<1>1. ASSUME net' \subseteq net, UNCHANGED worker, ~Tick PROVE DrainsPass'
  BY <1>0, <1>1 DEF Old, New
<1>2. ASSUME NEW m \in Node, StartWorker(m) PROVE DrainsPass'
  <2> SUFFICES ASSUME NEW q \in net', q.status = "Draining", worker'[q.node].up
               PROVE  q.age >= calm'[q.node]
    BY DEF DrainsPass
  <2>1. q \in net /\ calm' = calm /\ ~worker[m].up
    BY <1>2 DEF StartWorker
  <2>2. CASE q.node = m
    BY <2>1, <2>2, Numbers DEF DownIsDisturbed
  <2>3. CASE q.node # m
    <3>1. worker'[q.node] = worker[q.node]
      BY <1>2, <2>1, <2>3, Numbers DEF StartWorker, TypeOK
    <3> QED
      BY <2>1, <3>1 DEF DrainsPass
  <2> QED
    BY <2>2, <2>3
<1>3. ASSUME NEW m \in Node, Heartbeat(m), ~Tick PROVE DrainsPass'
  <2>1. \A q \in net' : q.status = "Draining" => q \in net
    BY <1>3 DEF Heartbeat, publish
  <2>2. \A n \in Node : worker'[n].up = worker[n].up
    BY <1>3, Numbers DEF Heartbeat, TypeOK, Worker
  <2> QED
    BY <1>0, <1>3, <2>1, <2>2, Numbers DEF Old, New
<1>4. ASSUME NEW m \in Node, Shutdown(m) \/ Crash(m), ~Tick PROVE DrainsPass'
  <2>1. \A q \in net' : q \in net \/ q.node = m
    BY <1>4 DEF Shutdown, Crash, publish
  <2>2. ~worker'[m].up
    BY <1>4, Numbers DEF Shutdown, Crash, TypeOK, Worker
  <2>3. \A n \in Node : n # m => worker'[n] = worker[n]
    BY <1>4 DEF Shutdown, Crash, TypeOK
  <2> QED
    BY <1>0, <1>4, <2>1, <2>2, <2>3, Numbers DEF Old, New
<1>5. ASSUME NEW r \in net, ReportCheck(r), ~Tick PROVE DrainsPass'
  <2> DEFINE c == [r EXCEPT !.phase = "checked"]
  <2>1. c.node = r.node /\ c.age = r.age /\ c.status = r.status
    BY <1>5, Numbers DEF Report
  <2>2. UNCHANGED worker /\ \A q \in net' : q = c \/ q \in net
    BY <1>5 DEF ReportCheck
  <2> HIDE DEF c
  <2> QED
    BY <1>0, <1>5, <2>1, <2>2 DEF Old, New
<1>6. ASSUME Tick PROVE DrainsPass'
  <2> SUFFICES ASSUME NEW q \in net', q.status = "Draining", worker'[q.node].up
               PROVE  q.age >= calm'[q.node]
    BY DEF DrainsPass
  <2>1. PICK r \in net : q.node = r.node /\ q.age = r.age + 1 /\ q.status = r.status
    BY <1>6, TickFacts
  <2>2. r.age >= calm[r.node]
    BY <1>6, <2>1, TickFacts, Numbers DEF DrainsPass
  <2> QED
    BY <1>6, <2>1, <2>2, TickFacts, Numbers
<1>7. ASSUME NEW m \in Node, Register(m) \/ WatchdogMark(m) PROVE net' \subseteq net /\ UNCHANGED worker
  BY <1>7 DEF Register, WatchdogMark
<1>8. ASSUME NEW r \in net, ReportReject(r) \/ ReportUpsert(r) \/ LoseReport(r)
      PROVE  net' \subseteq net /\ UNCHANGED worker
  BY <1>8 DEF ReportReject, ReportUpsert, LoseReport
<1>9. ASSUME WatchdogScan \/ CoordinatorRestart \/ UNCHANGED vars
      PROVE  net' \subseteq net /\ UNCHANGED worker
  BY <1>9 DEF WatchdogScan, CoordinatorRestart, vars
<1> QED
  BY <1>1, <1>2, <1>3, <1>4, <1>5, <1>6, <1>7, <1>8, <1>9 DEF Next, WorkerNext, HandlerNext

LEMMA NextUnmarked ==
    ASSUME TypeOK, TypeOK', DownIsDisturbed, Awaited, Beat < StaleAfter, Unmarked, [Next]_vars
    PROVE  Unmarked'
<1> SUFFICES ASSUME NEW n \in marking' PROVE calm'[n] <= Beat
    BY DEF Unmarked, Beat
<1>0. n \in Node /\ Beat \in Nat
  BY Numbers DEF TypeOK, Beat
<1>1. ASSUME n \in marking, ~Tick PROVE calm'[n] <= Beat
  BY <1>0, <1>1, CalmSteps DEF Unmarked
<1>2. ASSUME WatchdogScan PROVE calm'[n] <= Beat
  <2>1. calm' = calm /\ registry[n].age > StaleAfter
    BY <1>2 DEF WatchdogScan
  <2> QED
    BY <1>0, <2>1, AgeBound, Numbers
<1>3. ~Tick
  BY TickFacts
<1>4. \A m \in Node : WorkerNext(m) \/ Register(m) \/ WatchdogMark(m) => n \in marking
  BY DEF WorkerNext, StartWorker, Heartbeat, Shutdown, Crash, Register, WatchdogMark
<1>5. \A r \in net : HandlerNext(r) \/ LoseReport(r) => n \in marking
  BY DEF HandlerNext, ReportReject, ReportCheck, ReportUpsert, LoseReport
<1>6. CoordinatorRestart \/ UNCHANGED vars => n \in marking
  BY DEF CoordinatorRestart, vars
<1> QED
  BY <1>1, <1>2, <1>3, <1>4, <1>5, <1>6 DEF Next

LEMMA NextSettled ==
    ASSUME TypeOK, TypeOK', DownIsDisturbed, DrainsPass, Awaited, Beat < StaleAfter,
           Unmarked, Settled, [Next]_vars
    PROVE  Settled'
<1> SUFFICES ASSUME NEW n \in Node, calm'[n] > Beat
             PROVE  registry'[n].status = "Online" \/ calm'[n] <= registry'[n].age + Beat
    BY DEF Settled, Beat
<1> DEFINE Goal == registry'[n].status = "Online" \/ calm'[n] <= registry'[n].age + Beat
<1>0. Beat \in Nat /\ MaxDelay <= Beat
  BY Numbers DEF Beat
<1>1. ASSUME ~Tick PROVE calm'[n] = calm[n] /\ calm[n] > Beat /\ worker[n].up
  BY <1>0, <1>1, CalmSteps DEF DownIsDisturbed
<1>2. ASSUME registry'[n] = registry[n], ~Tick PROVE Goal
  BY <1>1, <1>2 DEF Settled
<1>3. ASSUME NEW m \in Node, WatchdogMark(m), ~Tick PROVE Goal
  <2>1. m # n
    BY <1>0, <1>1, <1>3, Numbers DEF WatchdogMark, Unmarked
  <2> QED
    BY <1>2, <1>3, <2>1, UpsertFacts DEF WatchdogMark
<1>4. ASSUME NEW m \in Node, Register(m), ~Tick PROVE Goal
  BY <1>2, <1>4, UpsertFacts DEF Register
<1>5. ASSUME NEW r \in net, ReportUpsert(r), ~Tick PROVE Goal
  <2>1. CASE r.node # n
    BY <1>2, <1>5, <2>1, UpsertFacts, Numbers DEF ReportUpsert
  <2>2. CASE r.node = n
    <3>1. r.status # "Draining"
      BY <1>0, <1>1, <1>5, <2>2, Numbers DEF DrainsPass
    <3>2. r.status = "Online"
      BY <3>1, Numbers DEF ReportStatus
    <3> QED
      BY <1>5, <2>2, <3>2, UpsertFacts DEF ReportUpsert
  <2> QED
    BY <2>1, <2>2
<1>6. ASSUME Tick PROVE Goal
  <2>0. /\ registry'[n].status = registry[n].status
        /\ registry'[n].age = Older(registry[n].age)
        /\ calm'[n] \in {calm[n], calm[n] + 1}
    BY <1>6, TickFacts
  <2>1. CASE calm[n] > Beat
    <3>1. registry[n].age <= Beat
      BY <1>0, <2>1, AgeBound, Numbers
    <3>2. registry'[n].age = registry[n].age + 1
      BY <1>0, <2>0, <3>1, Numbers DEF Older
    <3>3. registry[n].status = "Online" \/ calm[n] <= registry[n].age + Beat
      BY <2>1 DEF Settled
    <3> QED
      BY <1>0, <2>0, <3>2, <3>3, Numbers
  <2>2. CASE calm[n] <= Beat
    <3>1. registry'[n].age \in Nat /\ registry'[n].age >= 1
      BY <2>0, Numbers DEF Older
    <3> QED
      BY <1>0, <2>0, <2>2, <3>1, Numbers
  <2> QED
    BY <1>0, <2>1, <2>2, Numbers
<1>7. ASSUME NEW m \in Node, WorkerNext(m) PROVE registry' = registry
  BY <1>7 DEF WorkerNext, StartWorker, Heartbeat, Shutdown, Crash
<1>8. ASSUME NEW r \in net, ReportReject(r) \/ ReportCheck(r) \/ LoseReport(r) PROVE registry' = registry
  BY <1>8 DEF ReportReject, ReportCheck, LoseReport
<1>9. ASSUME WatchdogScan \/ UNCHANGED vars PROVE registry' = registry
  BY <1>9 DEF WatchdogScan, vars
<1>10. ~CoordinatorRestart
  BY <1>0 DEF CoordinatorRestart
<1> QED
  BY <1>2, <1>3, <1>4, <1>5, <1>6, <1>7, <1>8, <1>9, <1>10 DEF Next, HandlerNext

LEMMA InitCalm == Init => CalmInv
<1> SUFFICES ASSUME Init PROVE CalmInv
    OBVIOUS
<1>1. RecentInv /\ TypeOK
  BY InitRecent DEF RecentInv
<1>2. DownIsDisturbed /\ DrainsPass /\ Awaited /\ Unmarked
  BY DEF Init, DownIsDisturbed, DrainsPass, Awaited, Unmarked
<1>3. Settled
  <2>1. \A n \in Node : ~(calm[n] > Beat)
    BY Numbers, <1>1 DEF Init, Beat
  <2> QED
    BY <2>1 DEF Settled
<1> QED
  BY <1>1, <1>2, <1>3 DEF CalmInv

LEMMA NextCalm == CalmInv /\ [Next]_vars => CalmInv'
<1> SUFFICES ASSUME CalmInv, [Next]_vars PROVE CalmInv'
    OBVIOUS
<1>1. RecentInv /\ TypeOK /\ DownIsDisturbed /\ DrainsPass /\ Awaited
  BY DEF CalmInv, RecentInv
<1>2. RecentInv' /\ TypeOK'
  BY <1>1, NextRecent DEF RecentInv
<1>3. DownIsDisturbed' /\ DrainsPass' /\ Awaited'
  BY <1>1, <1>2, NextDown, NextDrains, NextAwaited
<1>4. ASSUME Beat < StaleAfter PROVE Unmarked' /\ Settled'
  BY <1>1, <1>2, <1>4, NextUnmarked, NextSettled DEF CalmInv
<1>5. (Beat < StaleAfter)' <=> Beat < StaleAfter
  BY DEF Beat
<1> QED
  BY <1>2, <1>3, <1>4, <1>5 DEF CalmInv

LEMMA CalmImplies == CalmInv => ListedInTime
<1> SUFFICES ASSUME CalmInv, NEW n \in GpuNode, Beat < StaleAfter, calm[n] > 2 * Beat
             PROVE  n \in eligible_nodes
    BY DEF ListedInTime
<1>1. TypeOK /\ n \in Node
  BY NodeAssumption DEF CalmInv, RecentInv
<1>2. Beat \in Nat /\ (calm[n] <= Beat \/ registry[n].age <= Beat)
  BY <1>1, AgeBound DEF CalmInv
<1>3. calm[n] > Beat /\ registry[n].age <= Beat
  BY <1>1, <1>2, Numbers
<1>4. registry[n].status = "Online"
  BY <1>1, <1>2, <1>3, Numbers DEF CalmInv, Settled
<1> QED
  BY <1>1, <1>2, <1>3, <1>4, Numbers DEF eligible_nodes

\* A worker that has run for two beats without a coordinator restart and without
\* a lost or refused report is offered to the dispatcher.
THEOREM WorkerListedInTime == Spec => []ListedInTime
BY InitCalm, NextCalm, CalmImplies, PTL DEF Spec
=============================================================================
