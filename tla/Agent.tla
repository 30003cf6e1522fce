------------------------------- MODULE Agent -------------------------------
(***************************************************************************)
(* The host agent (bootstrapper/src) and the start of the workers it       *)
(* spawns (worker/src/identity.rs, agent.rs, heartbeat.rs), on one host:   *)
(* the operator's install, enroll and uninstall commands, the service      *)
(* manager that keeps `gpucluster-agent run' alive, its run_loop, and the  *)
(* files all of them share: identity.json, worker.pid and node.id.         *)
(*                                                                         *)
(* The operator runs one command at a time.  A file that is written in     *)
(* place is seen empty between its open and its write.  Preflight checks   *)
(* pass and the worker binary or image is there.  The service managers and *)
(* Docker are external: systemd and launchd restart the agent for ever,    *)
(* launchd may or may not end the children of an agent that ends, a        *)
(* container outlives the agent and its name is free once it ended         *)
(* (--rm), and the docker daemon may go on with a request whose client is  *)
(* gone.  A process id is not used twice.                                  *)
(***************************************************************************)
EXTENDS Naturals

CONSTANTS
    None,        \* no file, no process
    Torn,        \* a file without its content
    MaxSpawns,   \* bound on worker processes
    MaxEnrolls,  \* bound on enrollments
    MaxFaults    \* bound on crashes, reboots and failed calls

Proc == 1 .. MaxSpawns
Enrollment == 1 .. MaxEnrolls

ASSUME AgentAssumption ==
    /\ None \notin Nat
    /\ Torn \notin Nat
    /\ None # Torn
    /\ MaxSpawns \in Nat
    /\ MaxEnrolls \in Nat
    /\ MaxFaults \in Nat

VARIABLES
    native,     \* native_worker_required: macOS, otherwise Docker
    unit,       \* the unit or plist of the agent
    cli,        \* where the operator's command is
    identity,   \* identity.json
    enrolls,    \* enrollments the backend accepted
    agent,      \* the agent process
    proc,       \* proc[w]: the w-th worker process
    spawned,    \* workers started so far
    pid,        \* worker.pid
    nodeId,     \* node.id: the UUID is named after the worker that chose it
    lost,       \* history: workers no file names, that were started behind uninstall's
                \* back, or whose stop failed
    rewritten,  \* history: workers that started while identity.json changed
    muddled,    \* history: starts overlapped or one broke off at node.id, or it was
                \* purged under a worker
    faults      \* faults so far

vars == <<native, unit, cli, identity, enrolls, agent, proc, spawned, pid, nodeId,
          lost, rewritten, muddled, faults>>

files == <<identity, enrolls, pid, nodeId>>

-----------------------------------------------------------------------------

\* env: the enrollment whose endpoint the agent passed on; cert: the one whose
\* certificate the worker presents; id: the node id it reports.  A container the
\* docker daemon has yet to start is "asked".
Process == [phase : {"new", "asked", "boot", "create", "write", "unlinked", "tls", "up",
                     "draining", "gone"},
            env : Enrollment \cup {None},
            id : Proc \cup {None, Torn},
            cert : Enrollment \cup {None}]

NewProcess == [phase |-> "new", env |-> None, id |-> None, cert |-> None]

Gone == [NewProcess EXCEPT !.phase = "gone"]

AgentState == [at : {"down", "load", "spawn", "record", "idle"},
               env : Enrollment \cup {None}, child : Proc \cup {None}]

Down == [at |-> "down", env |-> None, child |-> None]

TypeOK ==
    /\ native \in BOOLEAN
    /\ unit \in {"none", "written", "loaded"}
    /\ cli \in {"idle", "enroll", "stopped", "purge"}
    /\ identity \in Enrollment \cup {None, Torn}
    /\ enrolls \in 0 .. MaxEnrolls
    /\ agent \in AgentState
    /\ proc \in [Proc -> Process]
    /\ spawned \in 0 .. MaxSpawns
    /\ pid \in Proc \cup {None}
    /\ nodeId \in Proc \cup {None, Torn}
    /\ lost \subseteq Proc
    /\ rewritten \subseteq Proc
    /\ muddled \in BOOLEAN
    /\ faults \in 0 .. MaxFaults

Init ==
    /\ native \in BOOLEAN
    /\ unit = "none"
    /\ cli = "idle"
    /\ identity = None
    /\ enrolls = 0
    /\ agent = Down
    /\ proc = [w \in Proc |-> NewProcess]
    /\ spawned = 0
    /\ pid = None
    /\ nodeId = None
    /\ lost = {}
    /\ rewritten = {}
    /\ muddled = FALSE
    /\ faults = 0

Fault == faults < MaxFaults /\ faults' = faults + 1

Asked == {w \in Proc : proc[w].phase = "asked"}

Running == {w \in Proc : proc[w].phase \notin {"new", "asked", "gone"}}

Creating == {w \in Proc : proc[w].phase \in {"create", "write"}}

Booting ==
    {w \in Proc : proc[w].phase \in {"asked", "boot", "create", "write", "unlinked", "tls"}}

Draining == {w \in Proc : proc[w].phase = "draining"}

\* The processes in dead end; one that breaks off while node.id is empty leaves
\* it so.
Kill(dead) ==
    /\ proc' = [w \in Proc |-> IF w \in dead \cap (Running \cup Asked) THEN Gone ELSE proc[w]]
    /\ muddled' = (muddled \/ \E w \in dead : proc[w].phase = "write")

\* The workers that may have installed their signal handler, which select! does
\* in the poll that also builds the HTTP client.
Listening == {w \in Proc : proc[w].phase \in {"tls", "up", "draining"}}

\* SIGTERM to the processes in dead, which is not waited for: those with a handler
\* go on to their last report, the others end.
Signal(dead) ==
    \E calm \in SUBSET (dead \cap Listening) :
        /\ proc' = [w \in Proc |-> CASE w \in calm -> [proc[w] EXCEPT !.phase = "draining"]
                                    [] w \in (dead \cap Running) \ calm -> Gone
                                    [] OTHER -> proc[w]]
        /\ muddled' = (muddled \/ \E w \in dead : proc[w].phase = "write")

\* identity.json changes: workers that start meanwhile, and the one the agent is
\* about to start, may see something else than the agent.
Rewrites ==
    rewritten' = rewritten \cup Booting
                 \cup (IF agent.at = "spawn" THEN {w \in Proc : w = spawned + 1} ELSE {})

-----------------------------------------------------------------------------
(* The operator. *)

\* launchctl bootstrap loads the plist; the systemd unit is only written.
write_unit ==
    unit' = IF native THEN "loaded" ELSE IF unit = "none" THEN "written" ELSE unit

install ==
    /\ cli = "idle"
    /\ write_unit
    /\ UNCHANGED <<native, cli, files, agent, proc, spawned, lost, rewritten, muddled, faults>>

\* systemctl enable --now.
Enable ==
    /\ cli = "idle"
    /\ unit = "written"
    /\ unit' = "loaded"
    /\ UNCHANGED <<native, cli, files, agent, proc, spawned, lost, rewritten, muddled, faults>>

\* The backend accepts the token; persist_identity opens identity.json ...
EnrollOpen ==
    /\ cli = "idle"
    /\ enrolls < MaxEnrolls
    /\ enrolls' = enrolls + 1
    /\ identity' = Torn
    /\ cli' = "enroll"
    /\ Rewrites
    /\ UNCHANGED <<native, unit, agent, proc, spawned, pid, nodeId, lost, muddled, faults>>

\* ... and writes it.
EnrollWrite ==
    /\ cli = "enroll"
    /\ identity' = enrolls
    /\ cli' = "idle"
    /\ Rewrites
    /\ UNCHANGED <<native, unit, enrolls, agent, proc, spawned, pid, nodeId, lost, muddled,
                   faults>>

\* The process worker.pid names gets a SIGTERM and the file is removed; docker stop
\* waits for the container and ends it when its time is up.
stop_worker ==
    \/ native /\ Signal({pid} \cap Proc) /\ pid' = None
    \/ ~native /\ Kill(Running) /\ pid' = pid

\* uninstall: the worker is stopped; docker has no container to stop where it was
\* only asked for one ...
UninstallStop ==
    /\ cli = "idle"
    /\ cli' = "stopped"
    /\ stop_worker
    /\ lost' = lost \cup Asked
    /\ UNCHANGED <<native, unit, identity, enrolls, agent, spawned, nodeId, rewritten, faults>>

\* (whatever fails in stop_worker is ignored: worker.pid cannot be read or
\* removed, kill or docker stop fails)
StopFails ==
    /\ cli = "idle"
    /\ Fault
    /\ cli' = "stopped"
    /\ \/ /\ native
          /\ Signal({}) \/ Signal({pid} \cap Proc)
          /\ pid' \in {None, pid}
          /\ lost' = lost \cup ({pid} \cap Proc)
       \/ /\ ~native
          /\ lost' = lost \cup Running \cup Asked
          /\ UNCHANGED <<proc, pid, muddled>>
    /\ UNCHANGED <<native, unit, identity, enrolls, agent, spawned, nodeId, rewritten>>

\* A worker is started, or asked for; behind the back of an uninstall that stopped
\* the last one it is lost.
Start(phase) ==
    /\ spawned < MaxSpawns
    /\ spawned' = spawned + 1
    /\ proc' = [proc EXCEPT ![spawned + 1] = [NewProcess EXCEPT !.phase = phase,
                                                                !.env = agent.env]]
    /\ lost' = IF cli = "stopped" THEN lost \cup {spawned + 1} ELSE lost

\* The client of docker run is cut off; the daemon has the request.
LeavesRequest == ~native /\ agent.at = "spawn" /\ Start("asked") /\ UNCHANGED muddled

\* The agent ends.  A child whose pid was not recorded is lost.
Exits(dead) ==
    /\ agent' = Down
    /\ \/ /\ Signal(dead)
          /\ lost' = IF agent.at = "record" THEN lost \cup {agent.child} ELSE lost
          /\ UNCHANGED spawned
       \/ LeavesRequest

\* Which workers are signalled with the agent.
WithAgent == {{}} \cup (IF native THEN {{agent.child} \cap Proc} ELSE {})

\* ... then the service is disabled, which ends the agent, and its file removed;
UninstallDisable ==
    /\ cli = "stopped"
    /\ unit' = "none"
    /\ \E dead \in WithAgent : Exits(dead)
    /\ cli' \in {"idle", "purge"}
    /\ UNCHANGED <<native, files, rewritten, faults>>

\* if that fails (no root), uninstall goes on all the same;
DisableFails ==
    /\ cli = "stopped"
    /\ Fault
    /\ cli' \in {"idle", "purge"}
    /\ UNCHANGED <<native, unit, files, agent, proc, spawned, lost, rewritten, muddled>>

\* with --purge the data directory goes.  A worker that has node.id open writes
\* to a file without a name; one that was about to open it fails, unless it is
\* early enough to make the directory again.
Purge ==
    /\ cli = "purge"
    /\ cli' = "idle"
    /\ identity' = None
    /\ pid' = None
    /\ nodeId' = None
    /\ \E late \in SUBSET {w \in Proc : proc[w].phase = "create"} :
          proc' = [w \in Proc |->
                     CASE proc[w].phase = "write" -> [proc[w] EXCEPT !.phase = "unlinked"]
                       [] w \in late -> Gone
                       [] OTHER -> proc[w]]
    /\ Rewrites
    /\ muddled' = (muddled \/ Running # {})
    /\ lost' = lost \cup ({pid} \cap Proc)
    /\ UNCHANGED <<native, unit, enrolls, agent, spawned, faults>>

\* A command breaks off.
CliCrash ==
    /\ cli # "idle"
    /\ Fault
    /\ cli' = "idle"
    /\ UNCHANGED <<native, unit, files, agent, proc, spawned, lost, rewritten, muddled>>

-----------------------------------------------------------------------------
(* The agent under its service manager. *)

AgentStart ==
    /\ unit = "loaded"
    /\ agent.at = "down"
    /\ agent' = [Down EXCEPT !.at = "load"]
    /\ UNCHANGED <<native, unit, cli, files, proc, spawned, lost, rewritten, muddled, faults>>

\* Mutated: a file that does not parse is passed on.
load_identity_Unparsed ==
    /\ agent.at = "load"
    /\ agent' = IF identity # None
                THEN [agent EXCEPT !.at = "spawn", !.env = identity] ELSE Down
    /\ UNCHANGED <<native, unit, cli, files, proc, spawned, lost, rewritten, muddled, faults>>

\* Without a whole identity run_loop returns an error, which ends the agent.
load_identity ==
    /\ agent.at = "load"
    /\ agent' = IF identity \in Enrollment
                THEN [agent EXCEPT !.at = "spawn", !.env = identity] ELSE Down
    /\ UNCHANGED <<native, unit, cli, files, proc, spawned, lost, rewritten, muddled, faults>>

Spawn(at) ==
    /\ agent.at = "spawn"
    /\ Start("boot")
    /\ agent' = [agent EXCEPT !.at = at, !.child = spawned + 1]

\* native::run_worker spawns whatever else is running ...
RunNative ==
    /\ native
    /\ Spawn("record")
    /\ UNCHANGED <<native, unit, cli, files, rewritten, muddled, faults>>

\* Mutated: the file of an earlier worker is kept.
RecordPid_Keep ==
    /\ agent.at = "record"
    /\ pid' = IF pid = None THEN agent.child ELSE pid
    /\ agent' = [agent EXCEPT !.at = "idle"]
    /\ lost' = lost \cup (IF cli = "stopped" THEN {agent.child} ELSE {})
    /\ UNCHANGED <<native, unit, cli, identity, enrolls, proc, spawned, nodeId, rewritten,
                   muddled, faults>>

\* ... and then overwrites worker.pid.
RecordPid ==
    /\ agent.at = "record"
    /\ pid' = agent.child
    /\ agent' = [agent EXCEPT !.at = "idle"]
    /\ lost' = lost \cup ({pid} \cap Proc)
                    \cup (IF cli = "stopped" THEN {agent.child} ELSE {})
    /\ UNCHANGED <<native, unit, cli, identity, enrolls, proc, spawned, nodeId, rewritten,
                   muddled, faults>>

\* A failed write is ignored.
RecordFails ==
    /\ agent.at = "record"
    /\ Fault
    /\ agent' = [agent EXCEPT !.at = "idle"]
    /\ lost' = lost \cup {agent.child}
    /\ UNCHANGED <<native, unit, cli, files, proc, spawned, rewritten, muddled>>

\* Mutated: no --rm, a container keeps its name when it ended.
NameInUse_Kept == spawned > 0

NameInUse == Running # {}

\* docker::run_worker.
RunDocker ==
    /\ ~native
    /\ ~NameInUse
    /\ Spawn("idle")
    /\ UNCHANGED <<native, unit, cli, files, rewritten, muddled, faults>>

\* docker run fails, which ends the agent; a connection that broke off may have
\* left the request behind.
RunDockerFails ==
    /\ ~native
    /\ agent.at = "spawn"
    /\ agent' = Down
    /\ \/ /\ (NameInUse /\ UNCHANGED faults) \/ Fault
          /\ UNCHANGED <<proc, spawned, lost, muddled>>
       \/ Fault /\ LeavesRequest
    /\ UNCHANGED <<native, unit, cli, files, rewritten>>

\* The daemon comes to a request whose client is gone; it refuses it if the name
\* is in use.
DockerStarts(w) ==
    /\ w \in Asked
    /\ proc' = [proc EXCEPT ![w] = IF NameInUse THEN Gone ELSE [@ EXCEPT !.phase = "boot"]]
    /\ UNCHANGED <<native, unit, cli, files, agent, spawned, lost, rewritten, muddled, faults>>

AgentCrash ==
    /\ agent.at # "down"
    /\ Fault
    /\ \E dead \in WithAgent : Exits(dead)
    /\ UNCHANGED <<native, unit, cli, files, rewritten>>

\* Only files and units survive.
Reboot ==
    /\ Fault
    /\ agent' = Down
    /\ Kill(Proc)
    /\ cli' = "idle"
    /\ UNCHANGED <<native, unit, files, spawned, lost, rewritten>>

-----------------------------------------------------------------------------
(* The start of a worker. *)

To(w, phase) == proc' = [proc EXCEPT ![w].phase = phase]

\* A start that overlaps with the writing of node.id.
Overlaps == muddled' = (muddled \/ Creating # {})

\* load_or_create_node_id: what is in the file is the id, even if it is empty ...
ReadNodeId(w) ==
    /\ proc[w].phase = "boot"
    /\ nodeId # None
    /\ proc' = [proc EXCEPT ![w] = [@ EXCEPT !.phase = "tls", !.id = nodeId]]
    /\ Overlaps
    /\ UNCHANGED <<native, unit, cli, files, agent, spawned, lost, rewritten, faults>>

\* ... without a file the worker chooses one ...
ChooseNodeId(w) ==
    /\ proc[w].phase = "boot"
    /\ nodeId = None
    /\ To(w, "create")
    /\ Overlaps
    /\ UNCHANGED <<native, unit, cli, files, agent, spawned, lost, rewritten, faults>>

\* ... opens the file, emptied ...
OpenNodeId(w) ==
    /\ proc[w].phase = "create"
    /\ nodeId' = Torn
    /\ To(w, "write")
    /\ UNCHANGED <<native, unit, cli, identity, enrolls, pid, agent, spawned, lost, rewritten,
                   muddled, faults>>

\* Mutated: the file stays empty.
WriteNodeId_Skip(w) ==
    /\ proc[w].phase \in {"write", "unlinked"}
    /\ proc' = [proc EXCEPT ![w] = [@ EXCEPT !.phase = "tls", !.id = w]]
    /\ UNCHANGED <<native, unit, cli, files, agent, spawned, lost, rewritten, muddled, faults>>

\* ... and writes it.
WriteNodeId(w) ==
    /\ proc[w].phase \in {"write", "unlinked"}
    /\ proc' = [proc EXCEPT ![w] = [@ EXCEPT !.phase = "tls", !.id = w]]
    /\ nodeId' = IF proc[w].phase = "write" THEN w ELSE nodeId
    /\ UNCHANGED <<native, unit, cli, identity, enrolls, pid, agent, spawned, lost, rewritten,
                   muddled, faults>>

\* Mutated: the certificate is looked for in the wrong directory.
build_worker_http_client_Plain(w) ==
    /\ proc[w].phase = "tls"
    /\ To(w, "up")
    /\ UNCHANGED <<native, unit, cli, files, agent, spawned, lost, rewritten, muddled, faults>>

\* The certificate is in identity.json; without a whole one the worker goes on
\* with plain HTTP.
build_worker_http_client(w) ==
    /\ proc[w].phase = "tls"
    /\ proc' = [proc EXCEPT ![w] = [@ EXCEPT !.phase = "up",
                    !.cert = IF identity \in Enrollment THEN identity ELSE None]]
    /\ UNCHANGED <<native, unit, cli, files, agent, spawned, lost, rewritten, muddled, faults>>

\* A signalled worker sends its last report, under a timeout and with whatever
\* certificate identity.json has by then, and ends.
publish_draining(w) ==
    /\ w \in Draining
    /\ Kill({w})
    /\ UNCHANGED <<native, unit, cli, files, agent, spawned, lost, rewritten, faults>>

\* A worker dies, or gives up because of a failed call; the agent does not notice.
WorkerExits(w) ==
    /\ w \in Running
    /\ Fault
    /\ Kill({w})
    /\ UNCHANGED <<native, unit, cli, files, agent, spawned, lost, rewritten>>

-----------------------------------------------------------------------------

OperatorNext ==
    install \/ Enable \/ EnrollOpen \/ EnrollWrite \/ UninstallStop \/ StopFails
    \/ UninstallDisable \/ DisableFails \/ Purge \/ CliCrash

AgentNext ==
    AgentStart \/ load_identity \/ RunNative \/ RecordPid \/ RunDocker \/ RunDockerFails

WorkerNext(w) ==
    ReadNodeId(w) \/ ChooseNodeId(w) \/ OpenNodeId(w) \/ WriteNodeId(w)
    \/ build_worker_http_client(w) \/ publish_draining(w)

Next ==
    \/ OperatorNext
    \/ AgentNext
    \/ RecordFails \/ AgentCrash \/ Reboot
    \/ \E w \in Proc : WorkerNext(w) \/ WorkerExits(w) \/ DockerStarts(w)

Spec == Init /\ [][Next]_vars

\* Restart=always and KeepAlive start the agent for ever, and its run_loop goes
\* on to the worker.  Nothing is assumed of operators and workers.
Fairness == WF_vars(AgentNext)

FairSpec == Spec /\ Fairness

-----------------------------------------------------------------------------
(* Properties. *)

\* native.rs:54-55: the pid is recorded so that uninstall can clean the worker up.
\* Once the service is gone every worker has ended or is sending its last report,
\* except those lost: a later agent overwrote the pid, it was never written, a
\* purge removed it, the agent or docker started one after uninstall's first step,
\* or that step failed, which uninstall ignores.
UninstallCleans ==
    (cli = "idle" /\ unit = "none") => Running \subseteq lost \cup Draining

\* The workers of a host report under one whole id, their last report included,
\* across crashes, restarts and reboots, unless starts overlapped at node.id, one
\* broke off while the file was empty, or the directory was purged under a worker.
OneNodeId ==
    muddled \/ \A w \in Proc : proc[w].phase \in {"up", "draining"} =>
                   proc[w].id = nodeId /\ nodeId \in Proc

\* A worker presents the certificate of the enrollment whose coordinator it talks
\* to.  heartbeat.rs:47-49 expects plain HTTP only outside of enrolled hosts;
\* with an enroll or purge during its start an agent's worker does the same.
CertMatches ==
    \A w \in Proc : proc[w].phase = "up" /\ w \notin rewritten => proc[w].cert = proc[w].env

\* Crashes, reboots, failed starts and a container of an earlier agent delay the
\* worker but do not prevent it: on an enrolled host whose agent is down, its
\* service manager gets a worker running.
WorkerStarted ==
    (unit = "loaded" /\ identity \in Enrollment /\ agent.at = "down" /\ spawned < MaxSpawns)
        ~> (Running # {} \/ unit # "loaded" \/ identity \notin Enrollment
            \/ spawned = MaxSpawns)

-----------------------------------------------------------------------------
(* What makes the invariants inductive. *)

\* The child whose pid is not on disk yet.
Recording == IF agent.at = "record" THEN {agent.child} ELSE {}

\* Started or asked for, and neither ended nor ending.
Live == {w \in Proc : proc[w].phase \notin {"new", "draining", "gone"}}

\* A live worker that is not lost is known to worker.pid or to an agent that is
\* about to record it; uninstall's first step signals the first, its second gives
\* up the others.  Nothing that docker was asked for starts unnoticed after that.
Tracked ==
    /\ agent.at = "record" => native /\ agent.child \in Proc
    /\ unit = "none" => agent.at = "down" /\ Live \subseteq lost
    /\ native => Live \subseteq lost \cup {pid} \cup Recording
    /\ cli = "stopped" => Live \subseteq lost \cup Recording

\* From the agent's reading of identity.json to the worker's, neither is stale.
Current ==
    /\ cli = "enroll" => enrolls \in Enrollment
    /\ agent.at = "spawn" /\ spawned + 1 \in Proc \ rewritten =>
          identity \in Enrollment /\ agent.env = identity
    /\ \A w \in Booting \ rewritten : identity \in Enrollment /\ proc[w].env = identity

\* Unless starts got muddled one worker at a time makes node.id, and no other has
\* an id before it is written.
IdsAgree ==
    muddled \/
        /\ \A w \in Proc : proc[w].phase \in {"tls", "up", "draining"} =>
                           proc[w].id = nodeId /\ nodeId \in Proc
        /\ \A w \in Proc : proc[w].phase = "create" => nodeId = None
        /\ \A w \in Proc : proc[w].phase = "write" => nodeId = Torn
        /\ \A w \in Proc : proc[w].phase # "unlinked"
        /\ \A v, w \in Creating : v = w
        /\ nodeId = Torn => \E w \in Proc : proc[w].phase = "write"

\* Processes are started in their order.
Unborn == \A w \in Proc : w > spawned => proc[w].phase = "new"

AgentInv == TypeOK /\ Tracked /\ Current /\ CertMatches /\ Unborn /\ IdsAgree
=============================================================================
