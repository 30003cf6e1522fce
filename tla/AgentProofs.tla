---------------------------- MODULE AgentProofs ----------------------------
(***************************************************************************)
(* Proofs about Agent.  AgentInv is inductive; its parts are kept one      *)
(* after the other, each from itself and the types.                        *)
(***************************************************************************)
EXTENDS Agent, TLAPS

-----------------------------------------------------------------------------
(* Types. *)

\* Ending processes keeps their types.
LEMMA KillType ==
    ASSUME proc \in [Proc -> Process], NEW dead, Kill(dead)
    PROVE  proc' \in [Proc -> Process] /\ muddled' \in BOOLEAN
<1>1. Gone \in Process
  BY DEF Gone, NewProcess, Process
<1> QED BY <1>1 DEF Kill

\* A signal ends a process or leaves it draining, otherwise as it was.
LEMMA SignalEffect ==
    ASSUME proc \in [Proc -> Process], NEW dead, Signal(dead)
    PROVE  /\ proc' \in [Proc -> Process] /\ muddled' \in BOOLEAN
           /\ muddled' = (muddled \/ \E w \in dead : proc[w].phase = "write")
           /\ \A w \in Proc : \/ proc'[w] = proc[w] /\ w \notin dead \cap Running
                              \/ proc'[w] = Gone /\ w \in dead \cap Running
                              \/ /\ w \in dead \cap Listening
                                 /\ proc'[w] = [proc[w] EXCEPT !.phase = "draining"]
<1>1. PICK calm \in SUBSET (dead \cap Listening) :
          proc' = [w \in Proc |-> CASE w \in calm -> [proc[w] EXCEPT !.phase = "draining"]
                                    [] w \in (dead \cap Running) \ calm -> Gone
                                    [] OTHER -> proc[w]]
  BY DEF Signal
<1>2. muddled' = (muddled \/ \E w \in dead : proc[w].phase = "write")
  BY DEF Signal
<1>3. ASSUME NEW w \in Proc
      PROVE  /\ proc'[w] \in Process
             /\ \/ proc'[w] = proc[w] /\ w \notin dead \cap Running
                \/ proc'[w] = Gone /\ w \in dead \cap Running
                \/ /\ w \in dead \cap Listening
                   /\ proc'[w] = [proc[w] EXCEPT !.phase = "draining"]
  <2>1. CASE w \in calm
    <3>1. proc'[w] = [proc[w] EXCEPT !.phase = "draining"]
      BY <1>1, <2>1
    <3>2. [proc[w] EXCEPT !.phase = "draining"] \in Process
      BY DEF Process
    <3> QED BY <2>1, <3>1, <3>2
  <2>2. CASE w \in (dead \cap Running) \ calm
    <3>1. proc'[w] = Gone
      BY <1>1, <2>2
    <3>2. Gone \in Process
      BY DEF Gone, NewProcess, Process
    <3> QED BY <2>2, <3>1, <3>2
  <2>3. CASE w \notin calm /\ w \notin dead \cap Running
    <3>1. proc'[w] = proc[w]
      BY <1>1, <2>3
    <3> QED BY <2>3, <3>1
  <2> QED BY <2>1, <2>2, <2>3
<1>4. proc' \in [Proc -> Process]
  BY <1>1, <1>3
<1> QED BY <1>2, <1>3, <1>4

\* A worker that is started or asked for is the next one.
LEMMA StartEffect ==
    ASSUME TypeOK, NEW phase \in {"boot", "asked"}, Start(phase)
    PROVE  /\ spawned + 1 \in Proc /\ spawned' = spawned + 1 /\ spawned' \in 0 .. MaxSpawns
           /\ proc' \in [Proc -> Process]
           /\ proc'[spawned + 1].phase = phase /\ proc'[spawned + 1].env = agent.env
           /\ \A w \in Proc : w # spawned + 1 => proc'[w] = proc[w]
           /\ lost \subseteq lost' /\ lost' \subseteq Proc
           /\ cli = "stopped" => spawned + 1 \in lost'
<1>1. spawned + 1 \in Proc /\ spawned' = spawned + 1 /\ spawned' \in 0 .. MaxSpawns
  BY AgentAssumption DEF Start, TypeOK, Proc
<1> DEFINE new == [NewProcess EXCEPT !.phase = phase, !.env = agent.env]
<1>2. new \in Process /\ new.phase = phase /\ new.env = agent.env
  BY DEF NewProcess, Process, TypeOK, AgentState
<1>3. proc' = [proc EXCEPT ![spawned + 1] = new] /\ proc \in [Proc -> Process]
  BY DEF Start, TypeOK
<1> HIDE DEF new
<1>4. lost' = (IF cli = "stopped" THEN lost \cup {spawned + 1} ELSE lost) /\ lost \subseteq Proc
  BY DEF Start, TypeOK
<1> QED BY <1>1, <1>2, <1>3, <1>4

\* The mark of a change names workers.
LEMMA RewritesType ==
    ASSUME rewritten \subseteq Proc, Rewrites PROVE rewritten' \subseteq Proc
  BY DEF Rewrites, Booting

\* A stopped and a starting agent.
LEMMA DownType == Down \in AgentState /\ [Down EXCEPT !.at = "load"] \in AgentState
  BY DEF Down, AgentState

\* Types hold at first.
LEMMA InitType == Init => TypeOK
<1>1. NewProcess \in Process
  BY DEF NewProcess, Process
<1> SUFFICES ASSUME Init PROVE TypeOK
  OBVIOUS
<1>2. proc \in [Proc -> Process] /\ agent \in AgentState
  BY <1>1, DownType DEF Init
<1>3. enrolls \in 0 .. MaxEnrolls /\ spawned \in 0 .. MaxSpawns /\ faults \in 0 .. MaxFaults
  BY AgentAssumption DEF Init
<1> QED BY <1>2, <1>3 DEF Init, TypeOK

\* Every step keeps the types.
LEMMA NextType ==
    ASSUME TypeOK, Tracked, Current, [Next]_vars PROVE TypeOK'
<1> USE AgentAssumption DEF TypeOK, files
<1>1. CASE install \/ Enable
  BY <1>1 DEF install, Enable, write_unit
<1>2. CASE EnrollOpen
  BY <1>2, RewritesType DEF EnrollOpen, Enrollment
<1>3. CASE EnrollWrite
  BY <1>3, RewritesType DEF EnrollWrite, Current
<1>4. CASE UninstallStop
  BY <1>4, KillType, SignalEffect DEF UninstallStop, stop_worker, Asked
<1>5. CASE StopFails
  BY <1>5, SignalEffect DEF StopFails, Fault, Asked, Running
<1>6. ASSUME NEW dead, Exits(dead)
       PROVE  /\ proc' \in [Proc -> Process] /\ muddled' \in BOOLEAN /\ agent' \in AgentState
              /\ lost' \subseteq Proc /\ spawned' \in 0 .. MaxSpawns
  BY <1>6, SignalEffect, StartEffect, DownType DEF Exits, LeavesRequest, Tracked
<1>7. CASE UninstallDisable
  BY <1>6, <1>7 DEF UninstallDisable
<1>8. CASE DisableFails \/ CliCrash
  BY <1>8 DEF DisableFails, CliCrash, Fault
<1>9. CASE Purge
  <2>1. Gone \in Process
    BY DEF Gone, NewProcess, Process
  <2>2. \A w \in Proc : [proc[w] EXCEPT !.phase = "unlinked"] \in Process
    BY DEF Process
  <2>3. proc' \in [Proc -> Process]
    BY <1>9, <2>1, <2>2 DEF Purge
  <2> QED BY <1>9, <2>3, RewritesType DEF Purge
<1>10. CASE AgentStart
  BY <1>10, DownType DEF AgentStart
<1>11. CASE load_identity
  <2>1. agent' \in AgentState
    <3>1. CASE identity \in Enrollment
      <4>1. agent' = [agent EXCEPT !.at = "spawn", !.env = identity]
        BY <1>11, <3>1 DEF load_identity
      <4> QED BY <3>1, <4>1 DEF AgentState
    <3>2. CASE identity \notin Enrollment
      BY <1>11, <3>2, DownType DEF load_identity
    <3> QED BY <3>1, <3>2
  <2> QED BY <1>11, <2>1 DEF load_identity
<1>12. CASE RunNative \/ RunDocker
  <2>1. PICK place \in {"record", "idle"} : Spawn(place)
    BY <1>12 DEF RunNative, RunDocker
  <2>2. agent' \in AgentState
    BY <2>1, StartEffect DEF Spawn, AgentState
  <2> QED BY <1>12, <2>1, <2>2, StartEffect DEF RunNative, RunDocker, Spawn
<1>13. CASE RecordPid
  BY <1>13 DEF RecordPid, AgentState, Tracked
<1>14. CASE RecordFails
  BY <1>14 DEF RecordFails, AgentState, Tracked, Fault
<1>15. CASE RunDockerFails
  BY <1>15, DownType, StartEffect DEF RunDockerFails, LeavesRequest, Fault
<1>16. CASE AgentCrash
  BY <1>6, <1>16 DEF AgentCrash, Fault
<1>17. CASE Reboot
  BY <1>17, KillType, DownType DEF Reboot, Fault
<1>18. ASSUME NEW w \in Proc, WorkerNext(w) PROVE TypeOK'
  <2> USE <1>18
  <2>1. CASE ReadNodeId(w)
    <3>1. [proc[w] EXCEPT !.phase = "tls", !.id = nodeId] \in Process
      <4>1. nodeId \in Proc \cup {None, Torn} /\ proc[w] \in Process
        OBVIOUS
      <4> QED BY <4>1 DEF Process
    <3>2. proc' \in [Proc -> Process]
      BY <2>1, <3>1 DEF ReadNodeId
    <3> QED BY <2>1, <3>2 DEF ReadNodeId, Overlaps
  <2>2. CASE ChooseNodeId(w)
    BY <2>2 DEF ChooseNodeId, Overlaps, To, Process
  <2>3. CASE OpenNodeId(w)
    BY <2>3 DEF OpenNodeId, To, Process
  <2>4. CASE WriteNodeId(w)
    <3>1. [proc[w] EXCEPT !.phase = "tls", !.id = w] \in Process
      <4>1. proc[w] \in Process
        OBVIOUS
      <4> QED BY <4>1 DEF Process
    <3>2. proc' \in [Proc -> Process]
      BY <2>4, <3>1 DEF WriteNodeId
    <3>3. nodeId' \in Proc \cup {None, Torn}
      BY <2>4 DEF WriteNodeId
    <3> QED BY <2>4, <3>2, <3>3 DEF WriteNodeId
  <2>5. CASE build_worker_http_client(w)
    <3> DEFINE c == IF identity \in Enrollment THEN identity ELSE None
    <3>1. c \in Enrollment \cup {None}
      OBVIOUS
    <3>2. proc' = [proc EXCEPT ![w] = [@ EXCEPT !.phase = "up", !.cert = c]]
      BY <2>5 DEF build_worker_http_client
    <3> HIDE DEF c
    <3>3. [proc[w] EXCEPT !.phase = "up", !.cert = c] \in Process
      BY <3>1 DEF Process
    <3>4. proc' \in [Proc -> Process]
      BY <3>2, <3>3
    <3> QED BY <2>5, <3>4 DEF build_worker_http_client
  <2>6. CASE publish_draining(w)
    BY <2>6, KillType DEF publish_draining
  <2> QED BY <2>1, <2>2, <2>3, <2>4, <2>5, <2>6 DEF WorkerNext
<1>19. ASSUME NEW w \in Proc, WorkerExits(w) PROVE TypeOK'
  BY <1>19, KillType DEF WorkerExits, Fault
<1>20. ASSUME NEW w \in Proc, DockerStarts(w) PROVE TypeOK'
  <2>1. Gone \in Process /\ [proc[w] EXCEPT !.phase = "boot"] \in Process
    BY DEF Gone, NewProcess, Process
  <2>2. proc' \in [Proc -> Process]
    BY <1>20, <2>1 DEF DockerStarts
  <2> QED BY <1>20, <2>2 DEF DockerStarts
<1>21. CASE UNCHANGED vars
  BY <1>21 DEF vars
<1> QED
  BY <1>1, <1>2, <1>3, <1>4, <1>5, <1>7, <1>8, <1>9, <1>10, <1>11, <1>12, <1>13, <1>14,
     <1>15, <1>16, <1>17, <1>18, <1>19, <1>20, <1>21 DEF Next, OperatorNext, AgentNext

-----------------------------------------------------------------------------
(* Uninstall. *)

\* What Kill leaves alive.
LEMMA KillLive ==
    ASSUME proc \in [Proc -> Process], NEW dead, Kill(dead)
    PROVE  Live' \subseteq Live \ dead
<1>1. Gone.phase = "gone"
  BY DEF Gone, NewProcess
<1>2. \A w \in Proc :
          proc'[w] = IF w \in dead \cap (Running \cup Asked) THEN Gone ELSE proc[w]
  BY DEF Kill
<1> QED BY <1>1, <1>2 DEF Live, Running, Asked

\* What a signal leaves alive.
LEMMA SignalLive ==
    ASSUME proc \in [Proc -> Process], NEW dead, Signal(dead)
    PROVE  Live' \subseteq Live \ (dead \cap Running)
<1>1. Gone.phase = "gone"
  BY DEF Gone, NewProcess
<1>2. \A w \in Proc : [proc[w] EXCEPT !.phase = "draining"].phase = "draining"
  BY DEF Process
<1> QED BY <1>1, <1>2, SignalEffect DEF Live

\* A start adds the next worker.
LEMMA StartLive ==
    ASSUME TypeOK, NEW phase \in {"boot", "asked"}, Start(phase)
    PROVE  Live' \subseteq Live \cup {spawned + 1}
  BY StartEffect DEF Live

\* The agent's end leaves no worker alive that it would still have recorded.
LEMMA ExitsLive ==
    ASSUME TypeOK, Tracked, NEW dead, Exits(dead)
    PROVE  /\ agent'.at = "down"
           /\ lost \cup Recording \subseteq lost'
           /\ native => Live' \subseteq Live
           /\ cli = "stopped" => Live' \subseteq Live \cup lost'
<1>1. agent'.at = "down"
  BY DEF Exits, Down
<1>2. proc \in [Proc -> Process]
  BY DEF TypeOK
<1>3. CASE Signal(dead) /\ lost' = IF agent.at = "record" THEN lost \cup {agent.child} ELSE lost
  BY <1>1, <1>2, <1>3, SignalLive DEF Recording
<1>4. CASE LeavesRequest
  <2>1. ~native /\ agent.at = "spawn" /\ Start("asked")
    BY <1>4 DEF LeavesRequest
  <2> QED BY <1>1, <2>1, StartEffect, StartLive DEF Recording
<1> QED BY <1>3, <1>4 DEF Exits

\* A worker's own steps bring none to life.
LEMMA WorkerLive ==
    ASSUME proc \in [Proc -> Process], NEW w \in Proc, WorkerNext(w) \/ DockerStarts(w)
    PROVE  Live' \subseteq Live
<1>1. CASE publish_draining(w)
  BY <1>1, KillLive DEF publish_draining
<1>2. CASE ~publish_draining(w)
  <2>1. proc[w].phase \notin {"new", "draining", "gone"}
    BY <1>2 DEF WorkerNext, ReadNodeId, ChooseNodeId, OpenNodeId, WriteNodeId,
                build_worker_http_client, DockerStarts, Asked
  <2>2. \A v \in Proc \ {w} : proc'[v] = proc[v]
    BY <1>2 DEF WorkerNext, ReadNodeId, ChooseNodeId, OpenNodeId, WriteNodeId,
                build_worker_http_client, DockerStarts, To
  <2> QED BY <2>1, <2>2 DEF Live
<1> QED BY <1>1, <1>2

\* Every step keeps account of the live workers.
LEMMA NextTracked ==
    ASSUME TypeOK, Tracked, [Next]_vars PROVE Tracked'
<1> USE DEF Tracked, Recording
<1>0. proc \in [Proc -> Process] /\ lost \subseteq Proc /\ Live \subseteq Proc
  BY DEF TypeOK, Live
<1>1. CASE install \/ Enable
  <2>1. Live' = Live
    BY <1>1 DEF install, Enable, Live
  <2>2. unit' # "none"
    BY <1>1 DEF install, Enable, write_unit
  <2> QED BY <1>1, <2>1, <2>2 DEF install, Enable, files
<1>2. CASE EnrollOpen \/ EnrollWrite \/ DisableFails \/ CliCrash
  <2>1. Live' = Live
    BY <1>2 DEF EnrollOpen, EnrollWrite, DisableFails, CliCrash, Live
  <2> QED BY <1>2, <2>1 DEF EnrollOpen, EnrollWrite, DisableFails, CliCrash, files
<1>3. CASE UninstallStop
  <2>1. lost' = lost \cup Asked /\ UNCHANGED <<native, unit, agent>>
    BY <1>3 DEF UninstallStop
  <2>2. Live \subseteq Running \cup Asked
    BY DEF Live, Running, Asked
  <2>3. CASE native
    <3>1. Live' \subseteq Live \ (({pid} \cap Proc) \cap Running) /\ pid' = None
      BY <1>0, <1>3, <2>3, SignalLive DEF UninstallStop, stop_worker
    <3> QED BY <1>0, <2>1, <2>2, <2>3, <3>1
  <2>4. CASE ~native
    <3>1. Live' \subseteq Live \ Running
      BY <1>0, <1>3, <2>4, KillLive DEF UninstallStop, stop_worker
    <3> QED BY <2>1, <2>2, <2>4, <3>1
  <2> QED BY <2>3, <2>4
<1>4. CASE StopFails
  <2>1. UNCHANGED <<native, unit, agent>>
    BY <1>4 DEF StopFails
  <2>2. CASE native
    <3>1. Live' \subseteq Live
      BY <1>0, <1>4, <2>2, SignalLive DEF StopFails
    <3>2. lost' = lost \cup ({pid} \cap Proc)
      BY <1>4, <2>2 DEF StopFails
    <3> QED BY <1>0, <2>1, <2>2, <3>1, <3>2
  <2>3. CASE ~native
    <3>1. Live' = Live /\ lost' = lost \cup Running \cup Asked
      BY <1>4, <2>3 DEF StopFails, Live
    <3>2. Live \subseteq lost'
      BY <3>1 DEF Live, Running, Asked
    <3> QED BY <2>1, <2>3, <3>1, <3>2
  <2> QED BY <2>2, <2>3
<1>5. CASE UninstallDisable
  <2>1. PICK dead : Exits(dead)
    BY <1>5 DEF UninstallDisable
  <2> QED BY <1>5, <2>1, ExitsLive DEF UninstallDisable, files
<1>6. CASE Purge
  <2>1. Live' \subseteq Live
    BY <1>0, <1>6 DEF Purge, Live, Gone, NewProcess
  <2> QED BY <1>0, <1>6, <2>1 DEF Purge
<1>7. CASE AgentStart \/ load_identity
  <2>1. Live' = Live
    BY <1>7 DEF AgentStart, load_identity, Live
  <2>2. agent.at # "record" /\ agent'.at # "record" /\ unit # "none"
    <3>1. CASE AgentStart
      BY <3>1 DEF AgentStart, Down
    <3>2. CASE load_identity
      <4>1. agent'.at \in {"spawn", "down"}
        BY <3>2 DEF load_identity, Down, TypeOK, AgentState
      <4>2. agent.at = "load"
        BY <3>2 DEF load_identity
      <4> QED BY <4>1, <4>2
    <3> QED BY <1>7, <3>1, <3>2
  <2> QED BY <1>7, <2>1, <2>2 DEF AgentStart, load_identity, files
<1>8. CASE RunNative \/ RunDocker
  <2>1. PICK place \in {"record", "idle"} : Spawn(place) /\ (native <=> place = "record")
    BY <1>8 DEF RunNative, RunDocker
  <2>2. agent.at = "spawn" /\ agent'.at = place /\ agent'.child = spawned + 1
    BY <2>1 DEF Spawn, TypeOK, AgentState
  <2>3. /\ spawned + 1 \in Proc /\ Live' \subseteq Live \cup {spawned + 1}
        /\ lost \subseteq lost'
        /\ cli = "stopped" => spawned + 1 \in lost'
    BY <2>1, StartEffect, StartLive DEF Spawn
  <2>4. UNCHANGED <<native, unit, cli, pid>>
    BY <1>8 DEF RunNative, RunDocker, files
  <2> QED BY <2>1, <2>2, <2>3, <2>4
<1>9. CASE RecordPid \/ RecordFails
  <2>1. Live' = Live
    BY <1>9 DEF RecordPid, RecordFails, Live
  <2>2. agent.at = "record" /\ agent'.at = "idle"
    BY <1>9 DEF RecordPid, RecordFails, TypeOK, AgentState
  <2> QED BY <1>0, <1>9, <2>1, <2>2 DEF RecordPid, RecordFails, files
<1>10. CASE RunDockerFails
  <2>1. agent.at = "spawn" /\ agent'.at = "down" /\ ~native
    BY <1>10 DEF RunDockerFails, Down
  <2>2. UNCHANGED <<native, unit, cli>>
    BY <1>10 DEF RunDockerFails
  <2>3. CASE UNCHANGED <<proc, lost>>
    <3>1. Live' = Live
      BY <2>3 DEF Live
    <3> QED BY <2>1, <2>2, <2>3, <3>1
  <2>4. CASE LeavesRequest
    <3>1. /\ Live' \subseteq Live \cup {spawned + 1} /\ lost \subseteq lost'
          /\ cli = "stopped" => spawned + 1 \in lost'
      BY <2>4, StartEffect, StartLive DEF LeavesRequest
    <3> QED BY <2>1, <2>2, <3>1
  <2> QED BY <1>10, <2>3, <2>4 DEF RunDockerFails
<1>11. CASE AgentCrash
  <2>1. PICK dead : Exits(dead)
    BY <1>11 DEF AgentCrash
  <2>2. agent.at # "down"
    BY <1>11 DEF AgentCrash
  <2> QED BY <1>11, <2>1, <2>2, ExitsLive DEF AgentCrash, files
<1>12. CASE Reboot
  <2>1. Live' = {}
    BY <1>0, <1>12, KillLive DEF Reboot
  <2>2. agent'.at = "down"
    BY <1>12 DEF Reboot, Down
  <2> QED BY <2>1, <2>2
<1>13. ASSUME NEW w \in Proc, WorkerNext(w) \/ DockerStarts(w) PROVE Tracked'
  <2>1. Live' \subseteq Live
    BY <1>0, <1>13, WorkerLive
  <2>2. UNCHANGED <<native, unit, cli, pid, agent, lost>>
    BY <1>13 DEF WorkerNext, ReadNodeId, ChooseNodeId, OpenNodeId, WriteNodeId,
                 build_worker_http_client, publish_draining, DockerStarts, files
  <2> QED BY <2>1, <2>2
<1>14. ASSUME NEW w \in Proc, WorkerExits(w) PROVE Tracked'
  <2>1. Live' \subseteq Live
    BY <1>0, <1>14, KillLive DEF WorkerExits
  <2> QED BY <1>14, <2>1 DEF WorkerExits, files
<1>15. CASE UNCHANGED vars
  BY <1>15 DEF vars, Live
<1> QED
  BY <1>1, <1>2, <1>3, <1>4, <1>5, <1>6, <1>7, <1>8, <1>9, <1>10, <1>11, <1>12, <1>13,
     <1>14, <1>15 DEF Next, OperatorNext, AgentNext

-----------------------------------------------------------------------------
(* Certificates. *)

\* A change of identity.json marks every worker it can reach.
LEMMA RewritesAll ==
    ASSUME TypeOK, Rewrites
    PROVE  /\ Booting \subseteq rewritten' /\ rewritten \subseteq rewritten'
           /\ agent.at = "spawn" /\ spawned + 1 \in Proc => spawned + 1 \in rewritten'
  BY DEF Rewrites

\* The parts of Current and CertMatches that speak of processes.
Presents(w) ==
    /\ w \in Booting \ rewritten => identity \in Enrollment /\ proc[w].env = identity
    /\ proc[w].phase = "up" /\ w \notin rewritten => proc[w].cert = proc[w].env

\* Ending processes disturbs nothing.
LEMMA KillPresents ==
    ASSUME proc \in [Proc -> Process], NEW dead, Kill(dead), NEW w \in Proc, Presents(w),
           UNCHANGED <<identity, rewritten>>
    PROVE  Presents(w)'
<1>1. Gone.phase = "gone"
  BY DEF Gone, NewProcess
<1>2. proc'[w] = proc[w] \/ proc'[w] = Gone
  BY DEF Kill
<1> QED BY <1>1, <1>2 DEF Presents, Booting

\* Nor does a signal.
LEMMA SignalPresents ==
    ASSUME proc \in [Proc -> Process], NEW dead, Signal(dead), NEW w \in Proc, Presents(w),
           UNCHANGED <<identity, rewritten>>
    PROVE  Presents(w)'
<1>1. Gone.phase = "gone" /\ [proc[w] EXCEPT !.phase = "draining"].phase = "draining"
  BY DEF Gone, NewProcess, Process
<1>2. \/ proc'[w] = proc[w] \/ proc'[w] = Gone
      \/ proc'[w] = [proc[w] EXCEPT !.phase = "draining"]
  BY SignalEffect
<1> QED BY <1>1, <1>2 DEF Presents, Booting

\* The agent starts a worker with the enrollment that it read.
LEMMA StartPresents ==
    ASSUME TypeOK, Current, NEW phase \in {"boot", "asked"}, Start(phase), agent.at = "spawn",
           NEW w \in Proc, Presents(w), UNCHANGED <<identity, rewritten>>
    PROVE  Presents(w)'
<1>1. CASE w = spawned + 1
  <2>1. proc'[w].phase = phase /\ proc'[w].env = agent.env
    BY <1>1, StartEffect
  <2>2. w \notin rewritten => identity \in Enrollment /\ agent.env = identity
    BY <1>1 DEF Current
  <2> QED BY <2>1, <2>2 DEF Presents
<1>2. CASE w # spawned + 1
  BY <1>2, StartEffect DEF Presents, Booting
<1> QED BY <1>1, <1>2

\* Every step keeps what certificates rest on.
LEMMA NextCurrent ==
    ASSUME TypeOK, Current, CertMatches, [Next]_vars
    PROVE  Current' /\ CertMatches'
<1> DEFINE Enrolled == cli = "enroll" => enrolls \in Enrollment
           Fresh == agent.at = "spawn" /\ spawned + 1 \in Proc \ rewritten =>
                       identity \in Enrollment /\ agent.env = identity
           Goal == Enrolled' /\ Fresh' /\ \A w \in Proc : Presents(w)'
<1> SUFFICES Goal
  <2>1. Booting' \subseteq Proc
    BY DEF Booting
  <2> QED BY <2>1 DEF Current, CertMatches, Presents
<1>0. /\ Enrolled /\ Fresh /\ \A w \in Proc : Presents(w)
      /\ proc \in [Proc -> Process]
  BY DEF TypeOK, Current, CertMatches, Presents
<1>1. CASE install \/ Enable \/ DisableFails \/ CliCrash
  BY <1>0, <1>1 DEF install, Enable, DisableFails, CliCrash, files, Presents, Booting
<1>2. CASE EnrollOpen \/ EnrollWrite
  <2>1. Enrolled'
    BY <1>2, AgentAssumption DEF EnrollOpen, EnrollWrite, TypeOK, Enrollment
  <2>2. Rewrites /\ UNCHANGED <<agent, proc, spawned>>
    BY <1>2 DEF EnrollOpen, EnrollWrite
  <2>3. Fresh'
    BY <2>2, RewritesAll
  <2>4. ASSUME NEW w \in Proc PROVE Presents(w)'
    BY <1>0, <2>2, RewritesAll DEF Presents, Booting
  <2> QED BY <2>1, <2>3, <2>4
<1>3. CASE UninstallStop \/ StopFails
  <2>1. UNCHANGED proc \/ \E dead : Kill(dead) \/ Signal(dead)
    BY <1>3 DEF UninstallStop, StopFails, stop_worker
  <2>2. UNCHANGED <<identity, enrolls, agent, spawned, rewritten>> /\ cli' = "stopped"
    BY <1>3 DEF UninstallStop, StopFails
  <2>3. ASSUME UNCHANGED proc PROVE \A w \in Proc : Presents(w)'
    BY <1>0, <2>2, <2>3 DEF Presents, Booting
  <2>4. \A w \in Proc : Presents(w)'
    BY <1>0, <2>1, <2>2, <2>3, KillPresents, SignalPresents
  <2> QED BY <1>0, <2>2, <2>4
<1>4. CASE UninstallDisable \/ AgentCrash
  <2>1. PICK dead : Exits(dead)
    BY <1>4 DEF UninstallDisable, AgentCrash
  <2>2. UNCHANGED <<identity, enrolls, rewritten>> /\ agent'.at = "down"
    BY <1>4, <2>1 DEF UninstallDisable, AgentCrash, Exits, Down, files
  <2>3. cli' = "enroll" => cli = "enroll"
    BY <1>4 DEF UninstallDisable, AgentCrash
  <2>4. Signal(dead) \/ (agent.at = "spawn" /\ Start("asked"))
    BY <2>1 DEF Exits, LeavesRequest
  <2>5. \A w \in Proc : Presents(w)'
    BY <1>0, <2>2, <2>4, SignalPresents, StartPresents
  <2> QED BY <1>0, <2>2, <2>3, <2>5
<1>5. CASE Purge
  <2>1. Rewrites /\ UNCHANGED <<agent, spawned>> /\ cli' = "idle"
    BY <1>5 DEF Purge
  <2>2. Fresh'
    BY <2>1, RewritesAll
  <2>3. ASSUME NEW w \in Proc PROVE Presents(w)'
    <3>1. /\ proc'[w].phase = "up" => proc'[w] = proc[w]
          /\ w \in Booting' => w \in Booting
      <4>1. \/ proc'[w] = proc[w] \/ proc'[w] = Gone
            \/ proc[w].phase = "write" /\ proc'[w] = [proc[w] EXCEPT !.phase = "unlinked"]
        BY <1>5 DEF Purge
      <4> QED BY <1>0, <4>1 DEF Booting, Gone, NewProcess, Process
    <3> QED BY <1>0, <2>1, <3>1, RewritesAll DEF Presents
  <2> QED BY <2>1, <2>2, <2>3
<1>6. CASE AgentStart \/ RecordPid \/ RecordFails
  <2>1. agent'.at \in {"load", "idle"}
    BY <1>6 DEF AgentStart, RecordPid, RecordFails, Down, TypeOK, AgentState
  <2>2. UNCHANGED <<cli, identity, enrolls, proc, rewritten>>
    BY <1>6 DEF AgentStart, RecordPid, RecordFails, files
  <2> QED BY <1>0, <2>1, <2>2 DEF Presents, Booting
<1>7. CASE RunDockerFails
  <2>1. agent.at = "spawn" /\ agent'.at = "down"
    BY <1>7 DEF RunDockerFails, Down
  <2>2. UNCHANGED <<cli, identity, enrolls, rewritten>>
    BY <1>7 DEF RunDockerFails, files
  <2>3. UNCHANGED proc \/ Start("asked")
    BY <1>7 DEF RunDockerFails, LeavesRequest
  <2>4. ASSUME UNCHANGED proc PROVE \A w \in Proc : Presents(w)'
    BY <1>0, <2>2, <2>4 DEF Presents, Booting
  <2>5. \A w \in Proc : Presents(w)'
    BY <1>0, <2>1, <2>2, <2>3, <2>4, StartPresents
  <2> QED BY <1>0, <2>1, <2>2, <2>5
<1>8. CASE load_identity
  <2>1. Fresh'
    <3>1. CASE identity \in Enrollment
      <4>1. agent'.env = identity
        BY <1>8, <3>1 DEF load_identity, TypeOK, AgentState
      <4> QED BY <1>8, <3>1, <4>1 DEF load_identity, files
    <3>2. CASE identity \notin Enrollment
      BY <1>8, <3>2 DEF load_identity, Down
    <3> QED BY <3>1, <3>2
  <2>2. UNCHANGED <<cli, identity, enrolls, proc, rewritten>>
    BY <1>8 DEF load_identity, files
  <2> QED BY <1>0, <2>1, <2>2 DEF Presents, Booting
<1>9. CASE RunNative \/ RunDocker
  <2>1. PICK place \in {"record", "idle"} : Spawn(place)
    BY <1>9 DEF RunNative, RunDocker
  <2>2. UNCHANGED <<cli, identity, enrolls, rewritten>>
    BY <1>9 DEF RunNative, RunDocker, files
  <2>3. agent.at = "spawn" /\ agent'.at # "spawn" /\ Start("boot")
    BY <2>1 DEF Spawn, TypeOK, AgentState
  <2>4. \A w \in Proc : Presents(w)'
    BY <1>0, <2>2, <2>3, StartPresents
  <2> QED BY <1>0, <2>2, <2>3, <2>4
<1>10. CASE Reboot
  <2>1. \A w \in Proc : Presents(w)'
    BY <1>0, <1>10, KillPresents DEF Reboot, files
  <2> QED BY <1>10, <2>1 DEF Reboot, Down
<1>11. ASSUME NEW v \in Proc, WorkerNext(v) \/ DockerStarts(v), ~publish_draining(v)
       PROVE  Goal
  <2>1. UNCHANGED <<cli, identity, enrolls, agent, spawned, rewritten>>
    BY <1>11 DEF WorkerNext, ReadNodeId, ChooseNodeId, OpenNodeId, WriteNodeId,
                 build_worker_http_client, DockerStarts, files
  <2>2. ASSUME NEW w \in Proc PROVE Presents(w)'
    <3>1. CASE w # v
      <4>1. proc'[w] = proc[w]
        BY <1>0, <1>11, <3>1 DEF WorkerNext, ReadNodeId, ChooseNodeId, OpenNodeId,
                                 WriteNodeId, build_worker_http_client, DockerStarts, To
      <4> QED BY <1>0, <2>1, <4>1 DEF Presents, Booting
    <3>4. CASE w = v /\ DockerStarts(v)
      <4>1. w \in Booting
        BY <3>4 DEF DockerStarts, Asked, Booting
      <4>2. proc'[w] = Gone \/ proc'[w] = [proc[w] EXCEPT !.phase = "boot"]
        BY <1>0, <3>4 DEF DockerStarts
      <4> QED BY <1>0, <2>1, <4>1, <4>2 DEF Presents, Booting, Gone, NewProcess, Process
    <3>2. CASE w = v /\ ~build_worker_http_client(v) /\ ~DockerStarts(v)
      <4>1. /\ w \in Booting /\ proc'[w].phase # "up"
            /\ proc'[w].env = proc[w].env
        BY <1>0, <1>11, <3>2 DEF WorkerNext, ReadNodeId, ChooseNodeId, OpenNodeId,
                                 WriteNodeId, To, Booting, Process
      <4> QED BY <1>0, <2>1, <4>1 DEF Presents
    <3>3. CASE w = v /\ build_worker_http_client(v)
      <4>1. w \in Booting /\ proc'[w].phase = "up" /\ proc'[w].env = proc[w].env
        BY <1>0, <3>3 DEF build_worker_http_client, Booting, Process
      <4>2. identity \in Enrollment => proc'[w].cert = identity
        BY <1>0, <3>3 DEF build_worker_http_client, Process
      <4>3. w \notin Booting'
        BY <4>1 DEF Booting
      <4> QED BY <1>0, <2>1, <4>1, <4>2, <4>3 DEF Presents
    <3> QED BY <3>1, <3>2, <3>3, <3>4
  <2> QED BY <1>0, <2>1, <2>2
<1>12. ASSUME NEW v \in Proc, WorkerExits(v) \/ publish_draining(v) PROVE Goal
  <2>1. Kill({v}) /\ UNCHANGED <<cli, identity, enrolls, agent, spawned, rewritten>>
    BY <1>12 DEF WorkerExits, publish_draining, files
  <2>2. \A w \in Proc : Presents(w)'
    BY <1>0, <2>1, KillPresents
  <2> QED BY <1>0, <2>1, <2>2
<1>13. CASE UNCHANGED vars
  BY <1>0, <1>13 DEF vars, Presents, Booting
<1> HIDE DEF Goal
<1> QED
  BY <1>1, <1>2, <1>3, <1>4, <1>5, <1>6, <1>7, <1>8, <1>9, <1>10, <1>11, <1>12, <1>13
  DEF Next, OperatorNext, AgentNext, WorkerNext

-----------------------------------------------------------------------------
(* The node id. *)

\* Ending processes keeps IdsAgree; a worker that breaks off at the empty file is
\* recorded.
LEMMA KillIds ==
    ASSUME TypeOK, IdsAgree, NEW dead, Kill(dead), nodeId' = nodeId PROVE IdsAgree'
<1> SUFFICES ASSUME ~muddled' PROVE IdsAgree'
  BY DEF IdsAgree
<1>1. ~muddled /\ \A w \in dead : proc[w].phase # "write"
  BY DEF Kill
<1>2. Gone.phase = "gone"
  BY DEF Gone, NewProcess
<1>3. \A w \in Proc : /\ proc'[w] = proc[w] \/ proc'[w].phase = "gone"
                      /\ proc[w].phase = "write" => proc'[w] = proc[w]
  BY <1>1, <1>2 DEF Kill
<1> QED BY <1>1, <1>3 DEF IdsAgree, Creating

\* So does a signal: it cannot reach a worker that makes node.id and let it go on.
LEMMA SignalIds ==
    ASSUME TypeOK, IdsAgree, NEW dead, Signal(dead), nodeId' = nodeId PROVE IdsAgree'
<1> SUFFICES ASSUME ~muddled' PROVE IdsAgree'
  BY DEF IdsAgree
<1>0. proc \in [Proc -> Process]
  BY DEF TypeOK
<1>1. ~muddled /\ \A w \in dead : proc[w].phase # "write"
  BY <1>0, SignalEffect
<1>2. Gone.phase = "gone"
  BY DEF Gone, NewProcess
<1>3. ASSUME NEW w \in Proc
      PROVE  \/ proc'[w] = proc[w]
             \/ proc'[w].phase = "gone" /\ w \in dead
             \/ /\ proc'[w].phase = "draining" /\ proc'[w].id = proc[w].id
                /\ proc[w].phase \in {"tls", "up", "draining"}
  <2>1. /\ [proc[w] EXCEPT !.phase = "draining"].phase = "draining"
        /\ [proc[w] EXCEPT !.phase = "draining"].id = proc[w].id
    BY <1>0 DEF Process
  <2> QED BY <1>0, <1>2, <2>1, SignalEffect DEF Listening
<1> QED BY <1>1, <1>3 DEF IdsAgree, Creating

\* And a start.
LEMMA StartIds ==
    ASSUME TypeOK, Unborn, IdsAgree, NEW phase \in {"boot", "asked"}, Start(phase),
           UNCHANGED <<nodeId, muddled>>
    PROVE  IdsAgree'
<1> SUFFICES ASSUME ~muddled' PROVE IdsAgree'
  BY DEF IdsAgree
<1>1. /\ spawned + 1 \in Proc /\ proc'[spawned + 1].phase = phase
      /\ \A w \in Proc : w # spawned + 1 => proc'[w] = proc[w]
  BY StartEffect
<1>2. proc[spawned + 1].phase = "new"
  BY <1>1, AgentAssumption DEF Unborn, TypeOK
<1> QED BY <1>1, <1>2 DEF IdsAgree, Creating

\* Every step starts at most the next process.
LEMMA NextUnborn ==
    ASSUME TypeOK, Unborn, [Next]_vars PROVE Unborn'
<1> USE AgentAssumption
<1>0. proc \in [Proc -> Process] /\ spawned \in Nat /\ Proc \subseteq Nat
  BY DEF TypeOK, Proc
<1>1. CASE UNCHANGED <<proc, spawned>>
  BY <1>1 DEF Unborn
<1>2. ASSUME NEW dead, Kill(dead), spawned' = spawned PROVE Unborn'
  BY <1>0, <1>2 DEF Kill, Unborn, Running, Asked
<1>3. ASSUME NEW dead, Signal(dead), spawned' = spawned PROVE Unborn'
  BY <1>0, <1>3, SignalEffect DEF Unborn, Running, Listening
<1>4. ASSUME NEW phase \in {"boot", "asked"}, Start(phase) PROVE Unborn'
  BY <1>0, <1>4, StartEffect DEF Unborn
<1>5. CASE UninstallStop \/ StopFails \/ UninstallDisable \/ AgentCrash \/ Reboot
  <2>1. \/ spawned' = spawned /\ UNCHANGED proc
        \/ spawned' = spawned /\ \E dead : Kill(dead) \/ Signal(dead)
        \/ Start("asked")
    BY <1>5 DEF UninstallStop, StopFails, stop_worker, UninstallDisable, AgentCrash, Reboot,
                Exits, LeavesRequest
  <2> QED BY <1>1, <1>2, <1>3, <1>4, <2>1
<1>6. CASE Purge
  BY <1>0, <1>6 DEF Purge, Unborn
<1>7. CASE RunNative \/ RunDocker
  BY <1>4, <1>7 DEF RunNative, RunDocker, Spawn
<1>8. CASE RunDockerFails
  BY <1>1, <1>4, <1>8 DEF RunDockerFails, LeavesRequest
<1>9. ASSUME NEW v \in Proc, WorkerNext(v) \/ DockerStarts(v) PROVE Unborn'
  <2>1. spawned' = spawned /\ \A w \in Proc : proc[w].phase = "new" => proc'[w] = proc[w]
    BY <1>0, <1>9 DEF WorkerNext, ReadNodeId, ChooseNodeId, OpenNodeId, WriteNodeId,
                      build_worker_http_client, publish_draining, Kill, Draining,
                      DockerStarts, Asked, To
  <2> QED BY <2>1 DEF Unborn
<1>10. ASSUME NEW v \in Proc, WorkerExits(v) PROVE Unborn'
  BY <1>2, <1>10 DEF WorkerExits
<1> QED
  <2> USE DEF install, Enable, EnrollOpen, EnrollWrite, DisableFails, CliCrash, AgentStart,
              load_identity, RecordPid, RecordFails, vars
  <2> QED BY <1>1, <1>5, <1>6, <1>7, <1>8, <1>9, <1>10 DEF Next, OperatorNext, AgentNext

\* Every step keeps the ids agreed, or is recorded as one that may not.
LEMMA NextIds ==
    ASSUME TypeOK, Unborn, IdsAgree, [Next]_vars PROVE IdsAgree'
<1> USE AgentAssumption
<1>0. proc \in [Proc -> Process]
  BY DEF TypeOK
<1>1. CASE UNCHANGED <<proc, nodeId, muddled>>
  BY <1>1 DEF IdsAgree, Creating
<1>2. CASE UninstallStop \/ StopFails \/ UninstallDisable \/ AgentCrash \/ Reboot
  <2>1. /\ nodeId' = nodeId
        /\ \/ UNCHANGED <<proc, muddled>>
           \/ \E dead : Kill(dead) \/ Signal(dead)
           \/ Start("asked") /\ UNCHANGED muddled
    BY <1>2 DEF UninstallStop, StopFails, stop_worker, UninstallDisable, AgentCrash, Reboot,
                Exits, LeavesRequest, files
  <2> QED BY <1>1, <2>1, KillIds, SignalIds, StartIds
<1>3. CASE Purge
  <2> SUFFICES ASSUME ~muddled' PROVE IdsAgree'
    BY DEF IdsAgree
  <2>1. Running = {}
    BY <1>3 DEF Purge
  <2>2. \A w \in Proc : proc[w].phase \in {"new", "asked", "gone"}
    BY <2>1, <1>0 DEF Running
  <2>3. \A w \in Proc : proc'[w].phase \in {"new", "asked", "gone"}
    BY <1>3, <2>2 DEF Purge
  <2>4. nodeId' = None
    BY <1>3 DEF Purge
  <2> QED BY <2>3, <2>4 DEF IdsAgree, Creating
<1>4. CASE RunNative \/ RunDocker
  BY <1>4, StartIds DEF RunNative, RunDocker, Spawn, files
<1>5. CASE RunDockerFails
  BY <1>1, <1>5, StartIds DEF RunDockerFails, LeavesRequest, files
<1>6. ASSUME NEW v \in Proc, DockerStarts(v) PROVE IdsAgree'
  <2>1. proc[v].phase = "asked" /\ UNCHANGED <<nodeId, muddled>>
    BY <1>6 DEF DockerStarts, Asked, files
  <2>2. /\ proc'[v].phase \in {"boot", "gone"}
        /\ \A w \in Proc \ {v} : proc'[w] = proc[w]
    BY <1>0, <1>6 DEF DockerStarts, Gone, NewProcess, Process
  <2> QED BY <2>1, <2>2 DEF IdsAgree, Creating
<1>7. ASSUME NEW v \in Proc, ReadNodeId(v) PROVE IdsAgree'
  <2> SUFFICES ASSUME ~muddled' PROVE IdsAgree'
    BY DEF IdsAgree
  <2>1. ~muddled /\ Creating = {} /\ nodeId # None /\ nodeId' = nodeId
    BY <1>7 DEF ReadNodeId, Overlaps, files
  <2>2. nodeId \in Proc
    BY <2>1 DEF IdsAgree, Creating, TypeOK
  <2>3. /\ proc'[v].phase = "tls" /\ proc'[v].id = nodeId
        /\ \A w \in Proc \ {v} : proc'[w] = proc[w]
    BY <1>0, <1>7 DEF ReadNodeId, Process
  <2>4. nodeId # Torn
    BY <2>2 DEF Proc
  <2> QED BY <2>1, <2>2, <2>3, <2>4 DEF IdsAgree, Creating
<1>8. ASSUME NEW v \in Proc, ChooseNodeId(v) PROVE IdsAgree'
  <2> SUFFICES ASSUME ~muddled' PROVE IdsAgree'
    BY DEF IdsAgree
  <2>1. ~muddled /\ Creating = {} /\ nodeId = None /\ nodeId' = nodeId
    BY <1>8 DEF ChooseNodeId, Overlaps, files
  <2>2. /\ proc'[v].phase = "create"
        /\ \A w \in Proc \ {v} : proc'[w] = proc[w]
    BY <1>0, <1>8 DEF ChooseNodeId, To, Process
  <2>3. None \notin Proc
    BY DEF Proc
  <2>4. \A w \in Proc :
            proc[w].phase \notin {"tls", "up", "draining", "create", "write", "unlinked"}
    BY <2>1, <2>3 DEF IdsAgree, Creating
  <2> QED BY <2>1, <2>2, <2>4 DEF IdsAgree, Creating
<1>9. ASSUME NEW v \in Proc, OpenNodeId(v) PROVE IdsAgree'
  <2> SUFFICES ASSUME ~muddled' PROVE IdsAgree'
    BY DEF IdsAgree
  <2>1. ~muddled /\ proc[v].phase = "create" /\ nodeId' = Torn
    BY <1>9 DEF OpenNodeId
  <2>2. /\ proc'[v].phase = "write"
        /\ \A w \in Proc \ {v} : proc'[w] = proc[w]
    BY <1>0, <1>9 DEF OpenNodeId, To, Process
  <2>3. nodeId = None /\ None \notin Proc
    BY <2>1 DEF IdsAgree, Proc
  <2>4. \A w \in Proc \ {v} :
            proc[w].phase \notin {"tls", "up", "draining", "create", "write", "unlinked"}
    BY <2>1, <2>3 DEF IdsAgree, Creating
  <2> QED BY <2>1, <2>2, <2>4 DEF IdsAgree, Creating
<1>10. ASSUME NEW v \in Proc, WriteNodeId(v) PROVE IdsAgree'
  <2> SUFFICES ASSUME ~muddled' PROVE IdsAgree'
    BY DEF IdsAgree
  <2>1. ~muddled
    BY <1>10 DEF WriteNodeId
  <2>2. proc[v].phase = "write"
    BY <1>10, <2>1 DEF WriteNodeId, IdsAgree
  <2>3. /\ nodeId' = v /\ proc'[v].phase = "tls" /\ proc'[v].id = v
        /\ \A w \in Proc \ {v} : proc'[w] = proc[w]
    BY <1>0, <1>10, <2>2 DEF WriteNodeId, Process
  <2>4. nodeId = Torn /\ Torn \notin Proc
    BY <2>1, <2>2 DEF IdsAgree, Proc
  <2>5. \A w \in Proc \ {v} :
            proc[w].phase \notin {"tls", "up", "draining", "create", "write", "unlinked"}
    BY <2>1, <2>2, <2>4 DEF IdsAgree, Creating
  <2> QED BY <2>3, <2>4, <2>5 DEF IdsAgree, Creating
<1>11. ASSUME NEW v \in Proc, build_worker_http_client(v) PROVE IdsAgree'
  <2> SUFFICES ASSUME ~muddled' PROVE IdsAgree'
    BY DEF IdsAgree
  <2>1. ~muddled /\ nodeId' = nodeId /\ proc[v].phase = "tls"
    BY <1>11 DEF build_worker_http_client, files
  <2>2. /\ proc'[v].phase = "up" /\ proc'[v].id = proc[v].id
        /\ \A w \in Proc \ {v} : proc'[w] = proc[w]
    BY <1>0, <1>11 DEF build_worker_http_client, Process
  <2> QED BY <2>1, <2>2 DEF IdsAgree, Creating
<1>12. ASSUME NEW v \in Proc, WorkerExits(v) \/ publish_draining(v) PROVE IdsAgree'
  BY <1>12, KillIds DEF WorkerExits, publish_draining, files
<1> QED
  <2> USE DEF install, Enable, EnrollOpen, EnrollWrite, DisableFails, CliCrash, AgentStart,
              load_identity, RecordPid, RecordFails, vars, files
  <2> QED
    BY <1>1, <1>2, <1>3, <1>4, <1>5, <1>6, <1>7, <1>8, <1>9, <1>10, <1>11, <1>12
    DEF Next, OperatorNext, AgentNext, WorkerNext

-----------------------------------------------------------------------------
(* Theorems. *)

\* All parts together.
LEMMA AgentInductive == Spec => []AgentInv
<1>1. Init => AgentInv
  <2> SUFFICES ASSUME Init PROVE AgentInv
    OBVIOUS
  <2>1. \A w \in Proc : proc[w].phase = "new"
    BY DEF Init, NewProcess
  <2>2. agent.at = "down"
    BY DEF Init, Down
  <2>3. Tracked /\ Current /\ CertMatches /\ Unborn
    BY <2>1, <2>2 DEF Init, Tracked, Live, Current, Booting, CertMatches, Unborn
  <2>4. IdsAgree
    BY <2>1, AgentAssumption DEF Init, IdsAgree, Creating
  <2> QED BY <2>3, <2>4, InitType DEF AgentInv
<1>2. AgentInv /\ [Next]_vars => AgentInv'
  BY NextType, NextTracked, NextCurrent, NextUnborn, NextIds DEF AgentInv
<1> QED BY <1>1, <1>2, PTL DEF Spec

\* The files, the agent and its workers keep their types.
THEOREM AgentTyped == Spec => []TypeOK
<1>1. AgentInv => TypeOK
  BY DEF AgentInv
<1> QED BY <1>1, AgentInductive, PTL

\* After uninstall every worker of the host has ended or is sending its last
\* report, except one lost before: by a pid that was overwritten, purged or not
\* recorded, by a start after uninstall's first step, or because that step failed.
THEOREM UninstallComplete == Spec => []UninstallCleans
<1>1. Running \subseteq Live \cup Draining
  BY DEF Running, Live, Draining
<1>2. AgentInv => UninstallCleans
  BY <1>1 DEF AgentInv, Tracked, UninstallCleans
<1> QED BY <1>2, AgentInductive, PTL

\* A worker presents the certificate of the enrollment it serves, unless
\* identity.json changed while it started.
THEOREM CertCorrect == Spec => []CertMatches
<1>1. AgentInv => CertMatches
  BY DEF AgentInv
<1> QED BY <1>1, AgentInductive, PTL

\* Through crashes, restarts and reboots all workers of a host report under the id
\* in node.id, unless starts overlapped there, one broke off, or it was purged.
THEOREM HostHasOneId == Spec => []OneNodeId
<1>1. AgentInv => OneNodeId
  BY DEF AgentInv, IdsAgree, OneNodeId
<1> QED BY <1>1, AgentInductive, PTL
=============================================================================
