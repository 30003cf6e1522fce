# MultiGPUCluster in TLA+

MultiGPUCluster joins machines with GPUs into one inference service. This
directory holds TLA+ modules for its control logic, the TLC runs that check
them on small instances, and TLAPS proofs of the results that matter most.

Check everything from this directory:

    tlc -workers 2 -config registry_live.cfg MCRegistry     # one of the runs below
    tlapm RegistryProofs.tla                                # one of the proof modules

## 1. Inventory

| Component | State | Operations | Talks to |
|---|---|---|---|
| Coordinator registry (`crates/coordinator`) | `DashMap` of nodes: status, last_heartbeat, endpoints, current_model; memory only | `report_node` with a duplicate guard, gRPC `register`, watchdog, `eligible_nodes`, `load_model_proxy` | workers (HTTP), management backend and dispatcher (HTTP) |
| Worker (`crates/worker`) | node.id file, models directory, llama-server child, detached download tasks | heartbeat loop, draining report, `load_model`, `fetch`, `switch_to` | coordinator, Hugging Face |
| Management backend (`crates/mgmt-backend`) | PostgreSQL: enroll_tokens, nodes, api_keys, models, settings, audit | enrollment, node administration, API keys, model registry, reconciler task | coordinator, bootstrapper, gateway |
| Gateway (`crates/gateway`) | cache of API-key verdicts | `/v1` authentication, proxying, admin pages | management backend, dispatcher |
| Dispatcher (`crates/openai-api`) | none beyond a request | pick an eligible node, forward, stream, write the inference log | coordinator, workers, management backend |
| Bootstrapper (`bootstrapper`) | identity.json, worker.pid, a systemd unit or launchd plist | `enroll`, `install`, `uninstall --purge`, the service's `run_loop`, start of the worker in Docker or natively | management backend, service manager, Docker, the worker (through files and environment) |
| Scheduler (`crates/scheduler`) | none | layer placement, compute groups, common precision | nobody at this commit |
| System inventory (`crates/sysinfo`, `common/src/nodes.rs`) | none | detect GPUs (NVML, Metal), report them as JSON, parse the report | worker, coordinator, scheduler |
| CA, CLI, HTTP clients | CA key; none; none | sign, print, call | |

What makes them hard, and what correct means:

- **Registry.** Reports may be late, lost or from an earlier process; guard and
  upsert are two operations; the watchdog works on a copy and writes through the
  same `upsert` that refreshes `last_heartbeat`. Correct: the dispatcher sees
  only recently live workers, a live one is not lost, a dead one is marked,
  two processes on one machine do not both serve, a replacement takes over.
- **Models.** The reconciler decides on a snapshot, HTTP handlers hold no lock
  over their calls, answers get lost, downloads run detached. Correct: rows
  follow the reconciler's documented state machine, none stays in flight, and
  the node hint names a worker that has the model.
- **Enrollment.** Token check, row lookup and transaction are separate; answers
  get lost after the commit. Correct: one machine has one identity, token and
  row change together, a revoked machine stays revoked, a token works once
  (`docs/PLAN.md`:207), except for requests that overlap.
- **API keys.** The gateway caches verdicts of both signs, and a verification is
  suspended twice. Correct: verdicts follow the keys within bounded times.
- **Downloads.** Tasks share a directory and overwrite each other's temporary
  files; the process may die at any await. Correct: a published file is whole.
- **Dispatcher.** Three calls in a row that may each hang, a stream that stays open
  over one of them, customers who leave in the middle. Correct: the customer hears
  something before the gateway gives up, the inference log agrees with the answer,
  and the log never costs the customer the answer.

- **Host agent.** Operator, service manager, agent and workers share three files that
  are written in place; every start of the agent starts a worker; nobody looks at it
  afterwards; uninstall ignores whatever fails. Correct: uninstall leaves nothing running
  that it could have known of and stopped, the host reports under one
  id, a worker uses the certificate of its enrollment, and the host gets a worker.
- **Scheduler.** Shares of layers are rounded one by one and the last GPU gets a
  difference in `u32`; four places restate what a GPU can do. Correct: the stages cover
  the layers exactly once on GPUs that can run them, and a common precision is common.

Every hazard is listed at its line in `PROJECT.json`.

## 2. Modules

| Module | Models | Composition |
|---|---|---|
| `Registry` | coordinator registry, report handler, gRPC register, watchdog, worker heartbeat and shutdown | `MCRegistry` gives instances; `RegistryProofs` |
| `LoadJobs` | abstract specification: a `load_model` request accepted by a worker ends once | |
| `Models` | model handlers, reconciler, load proxy, worker jobs; run as it is | composes backend, coordinator and workers; implements `LoadJobs`; `ModelsProofs` |
| `NodeLifecycle` | abstract specification of a machine's status | |
| `Enrollment` | token creation, `complete`, approve/drain/revoke, the bootstrapper's identity file | implements `NodeLifecycle`; `EnrollmentProofs` |
| `AuthCache` | API-key handlers, gateway middleware and cache | composes backend and gateway; `MCAuthCache`, `AuthCacheProofs` |
| `Worker` | load_model tasks, downloader, llama-server supervisor | implements `LoadJobs`, step by step what `Models` treats as one step; `MCWorker`, `WorkerProofs` |
| `Agent` | the bootstrapper's commands, its service, the start of a worker; run as it is | composes operator, agent, workers and the files they share; `AgentProofs` |
| `Placement` | GPU detection, the report and its parsing, common precision, compute groups, `GreedyVramWeighted` | composes sysinfo, common and scheduler; `MCPlacement`, `PlacementProofs` |
| `Dispatch` | a chat request through the gateway's proxy, the dispatcher, a worker and the inference log; run as it is | composes gateway, dispatcher and backend; `DispatchProofs` |

The map in `PROJECT.json` gives the lines behind each definition. The common
conventions:

- **Steps.** One action is the code between two suspension points or two shared
  operations: a SQL statement or a transaction, an HTTP call, a DashMap
  operation, a file operation. A handler with several of them is several actions
  with a phase.
- **Time.** A timestamp is modelled by its age, which stops growing where the
  code no longer distinguishes (`AgeCap`). `Tick` lets a unit pass; it does not
  pass a deadline the code keeps (the next heartbeat, the arrival of a report or
  an answer).
- **Faults.** Lost messages, failed calls, crashes and restarts share one counter
  bounded by `MaxFaults`. A crash of a worker in `Registry` and key changes in
  `AuthCache` are not bounded.
- **History variables** (`overlap`, `calm`, `since`, `refused`, `straddled`, `touched`,
  `spoiled`, `raced`, `unlogged`, and `lost`, `rewritten`, `muddled` in `Agent`) record
  what a property speaks of; no guard reads them.

`Registry`: `registry[n]` is the entry of n, `net` the reports on their way
(`sent`, then `checked` once past the guard: `ReportCheck` and `ReportUpsert` are
the two halves of `report_node`), `worker[n]` the process, `marking` the nodes of
the watchdog's copy that are still to be written back. `eligible_nodes` is the
handler's filter. `ReportReject` is the 409 answer. `calm[n]` counts for how long worker
n has been running while the coordinator did not restart and none of its reports was
lost or refused; it stops at `CalmCap`.

`Models`: `rows` is the table, `loads` the load handlers between their HTTP call
and their UPDATE, `rec` the pass (`ReconcileList`: GET nodes; `ReconcileSelect`;
one `ReconcileRow` per row; `ReconcileEnd`), `reported[n]` the coordinator's
`current_model`, `worker[n]` the jobs and what the supervisor serves.

`Enrollment`: `Match`, `Lookup` and `Commit` are the three database steps of
`complete`; `Rollback` a transaction that fails, `Answer` and `AnswerLost` what
reaches the bootstrapper. Ids and certificates are named after the request that
made them.

`AuthCache`: a request looks up the cache (`Hit` or `Miss`), the backend answers
(`verify`), the answer is stored and applied (`Store`) or does not come
(`VerifyFails`). `insert` is the store with its sweep above `CacheLimit`, one
step: there is no await between them, and each of two threads that interleave them
sweeps after its own insert.

`Worker`: names and contents of files are apart, as in the operating system. A
task writes to the content it opened; `File::create` on an existing name empties
that content; `rename` moves whatever is under the name. Chunks that nobody wrote
are holes.

`LoadJobs` is the interface of the two. `Models` maps a worker's set of jobs and what it
serves onto it (`JobsAsPromised`), `Worker` the tasks between `load_model` and their end
and the supervisor's current model (`JobsImplemented`). So what `Models` assumes of a
worker in one step is what `Worker` shows of the code in many: each request ends once,
by a switch or a failure, and a restart forgets both.

`Agent`: `cli` is where the operator's command is between two file operations
(`EnrollOpen` and `EnrollWrite`; `UninstallStop`, `UninstallDisable`, `Purge`), `agent` the
place in `run_loop` (`load_identity`, `RunNative` and `RecordPid`, or `RunDocker`),
`proc[w]` the w-th worker from its start (`ReadNodeId` or `ChooseNodeId`, `OpenNodeId`,
`WriteNodeId`) to `build_worker_http_client`. A file that is open and not yet written is
`Torn`. launchd may or may not signal the children of an agent that ends; a container
outlives it. A stop takes three forms: native `kill` sends SIGTERM and returns, so a worker
whose handler is installed goes on `draining` until it has sent its last report
(`publish_draining`) while uninstall goes on; `docker stop` waits and ends the container; and
either may fail, which `uninstall` does not notice (`StopFails`). An agent that is cut off in
`docker run` may leave its request with the docker daemon (`LeavesRequest`), which starts the
container later (`DockerStarts`), possibly after `docker stop` found none. `lost` records the
workers that uninstall cannot reach or failed to.

`Placement`: the loops of `plan` are steps (`Collect`, `Add`, `Divide`, `Assign`,
`AssignLast`); everything before it is an operator of a GPU: `Gpu(n, i)` is what the
coordinator knows of a GPU after detection, JSON and parsing. The share of memory is an
`f64` in the code; the model rounds the exact quotient to a nearest integer and takes
either one at a tie, which covers an error of the floating point product that does not
cross a half. `AssignLast` wraps modulo `Word` as a release build does,
`AssignLastOverflows` panics as a debug build does.

`Dispatch`: a request lists the eligible nodes (`dispatch`, `DispatchFailure`), calls
the worker (`forward_chat_to_worker`, `chat_completions_stream`, `WorkerFails`), logs
(`LogInsert` at the backend; `flush_log` or `LogFails` at the dispatcher) and, if it
is streamed, reads the body (`StreamEnds`, `StreamCut`). `call` is the clock of the
current call, `upstream` that of the worker call, which goes on through the log call
because the client's timeout covers the body; `age` is the clock of the gateway's
call. The gateway reads the whole body before it answers, a streamed one too, and
drops its error (`bytes().await.unwrap_or_default()`), so a stream that breaks off
arrives as status 200 with an empty body.

## 3. Runs

| Run | Result | What it shows | Bounds |
|---|---|---|---|
| `registry_live` | holds | `EligibleIsRecent`; `MarkedInTime` and `ListedInTime`, which bound the times of marking a dead worker and of listing a calm one; `LiveWorkerListed`, `DeadWorkerMarked` under fairness | one node, unit 15 s, two faults: enough for a late report of an earlier life and a coordinator restart in one run; `CalmCap` is one more than two beats |
| `registry_rivals` | holds | `RivalsOnlyByOverlap`: both workers of a machine are eligible only if their reports overlapped in the handler | two nodes, unit 15 s, two faults; the guard compares two nodes, and neither it nor the upsert reads how long a report was on its way, so reports arrive within the unit |
| `registry_takeover` | violated | `TakeoverSucceeds`: the watchdog keeps the dead entry fresh, so the guard refuses the replacement for ever | no fault, no delay needed |
| `models` | holds | `ReconcilerStateMachine` for rows no admin wrote during the pass, step by step and for the pass as a whole; `JobsAsPromised` (`LoadJobs` is implemented); `LoadSettles`, `HintIsServed` | one model, two workers, two admin requests, two faults; rows are independent in the code, and the second request is what overtakes a pass or starts a rival download |
| `models_dead` | violated | `DeadWorkerCleared`: offline nodes count as reporting, so the hint stays | one crash |
| `enrollment` | holds | `IdentityNamesNode`, `TokensAccountedFor`, `ReuseOnlyByOverlap`, `LifecycleRefined` (the abstract lifecycle is implemented) | three requests, two machines, two tokens: two racing enrollments of one machine and a re-enrollment |
| `auth` | holds | `InvalidStops`, `ValidStarts`, `RefusedStaysRefused`, `CacheSwept` | two keys, two requests, limit of one entry so that sweeps happen, TTLs 2 and 1, answers up to 1 late |
| `worker` | holds | `DestinationsComplete`; `JobsImplemented` (`LoadJobs` is implemented) | three tasks, three files of two chunks, two of them with one partial name; two faults |
| `agent` | holds | `UninstallCleans`, `OneNodeId`, `CertMatches`; `WorkerStarted` under fairness | one host, two worker processes, two enrollments, two faults: an agent that restarts over its own worker, a re-enrollment during a start, a crash followed by a reboot |
| `placement` | holds | `StagesTile`, `NearShare`, `EligibleOnly`, `GcdAgreed`, `GroupsAlike` | two machines with up to two GPUs; alike GPUs with every distribution of 0 to 3 units of memory, and mixed fleets of nine kinds; up to three layers: the subtraction wraps with two layers on four GPUs, and with one on three of which the last has no memory |
| `dispatch` | holds | `AnsweredInTime`, `LogAgrees`; `EventuallyAnswered` under fairness | one request (requests share nothing), unit 5 s: timeouts of 3 and 12 as 15 s and 60 s, so every call can hang for its whole timeout |
| `dispatch_log` | violated | `LogNeverHurts`: the stream's time runs out while the handler waits for the log | as `dispatch` |

The violated runs are disagreements between a comment or a document and the code;
`PROJECT.json` quotes both. A violated run checks nothing else.

Deadlock is checked in `registry_*`, `models*`, `auth` and `agent`. `enrollment`, `worker`,
`dispatch*` and `placement` end when all requests are used up.

Some promises of comments hold only on a condition, and the property states which:

- `ReconcilerStateMachine`: `reconciler.rs`:27 "never touches" disabled and error rows. It
  does not select them, but its UPDATE goes by id, so a PATCH between SELECT and UPDATE
  is overwritten; the property is about rows nobody wrote during the pass.
- `DestinationsComplete`: `model_downloader.rs`:11-14 promises that no half-written file is
  ever seen. Two downloads under one partial name, and a last write whose error `flush`
  reports to nobody, break it (`spoiled`).
- `UninstallCleans`: `native.rs`:53-55 records the pid so that uninstall can clean up; the
  file holds one pid and every restart of the agent overwrites it, a write or a stop that
  fails is ignored, and the agent or docker may start a worker after the stop (`lost`). A
  worker that was signalled may still be sending its last report (`Draining`).
- `CertMatches`: `heartbeat.rs`:46-49 expects plain HTTP on hosts that are not enrolled; a
  worker that starts while `enroll` has the file open does the same (`rewritten`). It speaks
  of the client the worker runs with; the last report builds another one, from the
  identity.json of that moment.
- `StagesTile`: `placement.rs` has no guard around `total - cursor`. The property holds if
  the last GPU is due more than (n - 3) / 2 layers, which is always so for up to three
  GPUs with memory; `NearShare` says how far off a stage is in any case.
- `ListedInTime`: the two beats (a beat is a heartbeat period and the way of a report) are
  there because the watchdog may mark a worker once in the first one. It asks for a beat
  shorter than the window of 60 s, that is, for reports that take less than 30 s; with
  slower ones a live worker may fall out of the window again and again.

`ReuseOnlyByOverlap` says how far the one-time promise goes: `complete` selects the
unused tokens outside its transaction and marks the one it matched by id alone, so
two requests that both pass the SELECT before either commits both enroll. `raced`
records that; without it, no token is used twice.

**Fairness.** `registry_live` and `registry_takeover`: time passes, the watchdog's
interval fires and finishes its pass, an accepted report is handled (or answered
409), a running worker's loop sends its reports. `models*`: the reconciler's
interval and its statements, the heartbeats, the end of HTTP calls (they have
timeouts) and time. `Tick` has strong fairness there because a pass in progress
disables it again and again. No fairness on downloads, restarts of crashed
workers, admins or faults: a download may hang for ever and a worker need never
come back. `dispatch`: time passes, and a call whose timeout has passed ends; nobody
need ever answer. `agent`: the service manager restarts the agent for ever
(`Restart=always`, `KeepAlive`) and `run_loop` goes on; nothing is assumed of operators,
workers and containers.

## 4. Proofs

All hold for every value of the constants allowed by the modules' `ASSUME`s
(finite node and key sets where a cardinality is used, positive periods).

| Theorem | Statement | Inductive invariant |
|---|---|---|
| `RegistryProofs!TypeCorrect` | `Spec => []TypeOK` | itself |
| `RegistryProofs!BoundedStaleness` | `Spec => []EligibleIsRecent` | `RecentInv` |
| `RegistryProofs!WatchdogInTime` | `Spec => []MarkedInTime` | `MarkedSoon` with `RecentInv` |
| `RegistryProofs!WorkerListedInTime` | `Spec => []ListedInTime` | `CalmInv` |
| `RegistryProofs!GuardSound` | `Spec => []RivalsOnlyByOverlap` | `RivalInv` |
| `ModelsProofs!ModelsTyped` | `Spec => []TypeOK` | `ModelsInv` |
| `ModelsProofs!ReconcilerCorrect` | `Spec => ReconcilerStateMachine` | `ModelsInv` |
| `ModelsProofs!ModelsUseLoadJobs` | `Spec => JobsAsPromised` | `ModelsInv` |
| `EnrollmentProofs!EnrollmentTyped` | `Spec => []TypeOK` | `EnrollInv` |
| `EnrollmentProofs!IdentityCorrect` | `Spec => []IdentityNamesNode` | `EnrollInv` |
| `EnrollmentProofs!LifecycleCorrect` | `Spec => LifecycleRefined` | `EnrollInv` |
| `EnrollmentProofs!TokensOneTime` | `Spec => []ReuseOnlyByOverlap` | `TokenInv` |
| `EnrollmentProofs!TokensAccounted` | `Spec => []TokensAccountedFor` | `TokenInv`, `UsedNamed` with `EnrollInv` |
| `AuthCacheProofs!AuthTyped` | `Spec => []TypeOK` | `AuthInv` |
| `AuthCacheProofs!VerdictsFollowKeys`, `NewKeysWork` | `Spec => [](InvalidStops /\ ValidStarts)` | `AuthInv` |
| `AuthCacheProofs!NoReturn` | `Spec => []RefusedStaysRefused` | `RefusedInv` |
| `AuthCacheProofs!SweepWorks` | `Spec => []CacheSwept` | itself with `TypeOK` |
| `WorkerProofs!WorkerTyped` | `Spec => []TypeOK` | `WorkerInv` |
| `WorkerProofs!DownloadsAtomic` | `Spec => []DestinationsComplete` | `WorkerInv` |
| `WorkerProofs!WorkerKeepsPromise` | `Spec => JobsImplemented` | `WorkerInv` |
| `AgentProofs!AgentTyped` | `Spec => []TypeOK` | `AgentInv` |
| `AgentProofs!UninstallComplete` | `Spec => []UninstallCleans` | `AgentInv` |
| `AgentProofs!CertCorrect` | `Spec => []CertMatches` | `AgentInv` |
| `AgentProofs!HostHasOneId` | `Spec => []OneNodeId` | `AgentInv` |
| `DispatchProofs!DispatchTyped` | `Spec => []TypeOK` | `LogInv` |
| `DispatchProofs!GatewayWaits` | `Spec => []AnsweredInTime` | `TimeInv` |
| `DispatchProofs!LogCorrect` | `Spec => []LogAgrees` | `LogInv` |
| `PlacementProofs!PlacementTyped` | `Spec => []TypeOK` | `PlacementInv` |
| `PlacementProofs!PlacementTiles` | `Spec => []StagesTile` | `PlacementInv` |
| `PlacementProofs!PlacementNear` | `Spec => []NearShare` | `PlacementInv` |
| `PlacementProofs!PlacementEligible` | `Spec => []EligibleOnly` | `FromEligible` with `PlacementInv` |
| `PlacementProofs!GcdSound` | `Spec => []GcdAgreed` | the type of `fleet` |
| `PlacementProofs!GroupsSound` | `Spec => []GroupsAlike` | none: it holds in every state |

- `RecentInv`: the property speaks of entries, but entries come from reports, and
  the watchdog makes dead entries young. So: a report is at least as old as the
  death of its worker, and an entry *that still says Online or Draining* is at most
  `MaxDelay` behind it. The watchdog may refresh the age because it changes the
  status in the same write.
- `MarkedSoon`: an entry that a report left is older than `StaleAfter` by at most the time
  since the watchdog's last scan, or by one period while it waits to be marked. With
  `RecentInv` this bounds the time since the end of the worker.
- `CalmInv`: why has the entry of a running worker not been written for long? Either its
  next report is not due, or one is on its way that was sent when it was due (`Awaited`).
  So after one calm beat the entry is at most a beat old; the watchdog does not pick it
  (`Unmarked`), and what it picked before is written within the same time unit. A
  draining report of an earlier life is older than the calm (`DrainsPass`) and is in
  by then too. Hence an upsert after the first beat leaves Online for good (`Settled`),
  and one comes in the second. `Unmarked` and `Settled` need `Beat < StaleAfter`, the
  other parts hold for all periods.
- `RivalInv`: besides two fresh entries (`FreshExcludes`) the cases of one fresh
  entry and one report past the guard, and of two such reports, lead to overlap.
- `ModelsInv`: what is left of the reconciler's SELECT is still in the table, except for
  rows an admin wrote since (`Snapshot`); so a decision taken on the copy is one about the
  row, and only `Decide` is left to look at; and the rows the pass is through with agree
  with what it listed (`Concluded`), so that at its end all do. A request that is still to be sent has no job
  anywhere (`SentOnce`), so that `LoadAccepted` and `LoadAnswerLost` are `Accept` of
  `LoadJobs`; the workers' steps map one to one, a crash and a start both to `Die`.
- `EnrollInv`: a request that has committed carries the id of the row. It needs
  that rows never change their id, which the unique fingerprint and the
  `ON CONFLICT (id)` clause give together.
- `TokenInv`: the token of an enrolled request is used and stays used, because a
  token is issued once (`PassedIssued`, `EnrolledUsed`); so a request can match it
  only before that, while the other one is between its match and its commit.
- `UsedNamed`: the row a used token names keeps its id, as `EnrollInv` says of every row.
- `AuthInv`: a verdict that is wrong by now turned wrong after it was formed,
  hence at most its age (for an answer) or its age plus the way of an answer (for
  an entry) ago. `fresh` then bounds the age.
- `RefusedInv`: of a key that is gone, no positive answer is on its way unless it
  was when the key went.
- `CacheSwept` is inductive: ages grow together, `insert` gives the newest entry age 0 and,
  above the limit, leaves only entries that are fresh; a deletion can bring the cache only
  below it.
- `WorkerInv`: contents never move between partial names (`NamesKept`); under a
  name that is not spoiled at most one task fetches (`Alone`), finds no leftover
  when it opens the file and writes to its own content (`FetchInOrder`), and a
  destination holds the content of a task that has stopped writing
  (`DestinationsFinished`). For `WorkerKeepsPromise` only `JobsStarted` is needed: a task
  that was accepted has its file. Every step before the last one of a task is a stutter.
- `AgentInv`: a worker that was started or asked for, has not been signalled and is not lost
  is the one in worker.pid or the child the agent has not recorded yet (`Tracked`, over
  `Live`); uninstall's first step takes away the first reason and its second step the
  other. This has to count requests that docker has yet to serve, which are not running
  but will be. From the agent's reading of identity.json to the
  worker's the file stays as it was (`Current`); one worker at a time makes node.id and no
  other has an id meanwhile (`IdsAgree`). The reasons for `lost`, `rewritten` and `muddled` are
  the steps at which these fail.
- `TimeInv`: each phase adds at most one timeout to the age, which gives three for a
  request that logs last. A stream has a fourth phase, but it is open only while the
  worker call itself is young, so that its age is bounded a second time, by the clock
  of that call. Assumed: the gateway's timeout is more than three call timeouts (60 s
  and 15 s in the code).
- `LogInv`: a row says what the trace says, the trace what the answer says, and a
  request past `flush_log` has its row unless the call failed or there is no backend.

- `PlacementInv`: after k GPUs the cursor is at most k / 2 layers from their exact share
  (`Near` in `OnTrack`), because each rounding adds or takes at most half a layer. This is
  `NearShare` for the stages that were made; the last one ends at the end of the model,
  wrapped difference or not. With T the memory, L the layers and S the memory before
  the last of n GPUs, 2 T cursor is at most 2 L S + T (n - 1). As S is at most T, this keeps
  the cursor below `Word` before the last turn; and with `LastHasRoom` it gives
  cursor < L + 1, so that the last difference is not negative. Assumed: layers and GPUs
  together fit into a `u32`, and a minor compute capability is one digit (an 8.10 would
  count as an Ampere with FP8).
- `GcdSound` rests on `Nested`: a GPU that can do a precision can do the less aggressive
  ones, whichever way it was detected, so its best one says all.

Every invariant, the action property and all three refinements of the passing runs are
proved. Only model-checked: the liveness properties (`LiveWorkerListed`,
`DeadWorkerMarked`, `LoadSettles`, `HintIsServed`, `WorkerStarted`, `EventuallyAnswered`), as
TLAPS does not reason about fairness, and the violated properties. For three of them a
safety property with a bound is proved, which says by when, if time goes on:
`ListedInTime`, `MarkedInTime` and `AnsweredInTime`. What remains for TLC is that time does go
on, that is, that `Tick` is never held up for ever. `LoadSettles` and `HintIsServed` have
no such bound: a time unit of `Models` is not tied to the reconciler's interval, and the
pass may fail. Of a pass that does not fail, `ReconcilerStateMachine` says what it leaves.

## 5. Not modelled, and what the abstraction hides

- **The scheduler has no caller** at this commit: `Placement` composes it with what the
  workers report, as its types ask for. `require_arch_min`, `prefer_homogeneous` and
  `model_bytes` of a request are not read by the code.
- **The model a customer asks for** plays no part in the choice of a node: `dispatch`
  takes the first node with an inference URL, whatever it serves, and tries no other
  when that one fails. So `Dispatch` has neither models nor nodes.
- **Certificate authority** (`ca`, `ca_store.rs`): cryptography behind two calls; that the CA
  key is created once is a start-up check without a second actor. `Enrollment` names a
  certificate after the request it was made for.
- **Audit log and settings**: rows that are appended or overwritten and that no control
  flow reads, the Hugging Face token apart.
- **RPC launcher** (`rpc_backend.rs`): one child at boot. **CLI**: stubs that print.
  **Admin pages and the other gateway routes**: static, or forwarded as the one in `Dispatch`.
- **Host, network and operating system facts** of a report: displayed only.
- **The Windows service** of the bootstrapper is a stub.
- **The gRPC register call** with an empty node id makes up an id for the caller, and it
  clears the endpoints of an entry that a report made; `Registry` has neither endpoints
  nor nodes without an id.
- **The heartbeat interval** starts when the first report was answered, so the second report
  may be later than a period after the first by the time of one call. `Registry` sends
  exactly every period; the time of a call is in `MaxDelay`.
- **Two models with one `local_filename`**: the second counts as cached although the file is
  the first one's. `Worker` names a destination after its model.
- **A slow download** is taken for a dead worker after 300 s (`reconciler.rs`:36-39), on purpose;
  the row stays in `error` even if the model is served later.
- **Smaller abstractions**: a token's lifetime is one value instead of 60 s to a day
  (`Enrollment`); the rows and the clock of a verification are read in one step (`AuthCache`),
  so a prolongation between them counts as after it; an old partial file that cannot be
  removed is truncated by the next open (`Worker`, `CleanPartial`).
- **Process ids are reused** by operating systems: `uninstall` may end a process that is no
  worker. `Agent` names processes for ever, so it does not show this.
- **Nobody watches a worker.** `run_loop` sleeps after the start (the TODO at
  `service.rs`:131): a worker that dies under an idle agent stays dead until the agent
  restarts. `WorkerStarted` therefore starts from an agent that is down.
- **Drain and revoke** change the nodes table only. Neither worker nor coordinator
  reads it, so a drained or revoked machine goes on serving. There is no
  interleaving to explore; `Enrollment` and `Registry` share no state.
- **Two node ids.** The agent passes the enrolled id as `NODE_ID` (`service.rs`:116) and
  nothing reads it: the worker reports the id in its own `node.id` file, so the two
  tables cannot be related.
- **Audit inserts** of the model and settings handlers swallow their error. PostgreSQL
  aborts the transaction at the failed statement, COMMIT then rolls back, and the handler
  answers with the row it did not store. `Models` has no audit insert that fails alone.
  The enrollment handler propagates the error, which is `Rollback`.
- **`PATCH ttl_secs: null`** on a key: serde maps it to "not given", so only 0 clears
  the expiry. `update` in `AuthCache` has the values that reach the UPDATE. A cached
  verdict also keeps the key's name and scope; no control depends on them.
- **`MODEL_PATH`** at worker boot starts llama-server on a file outside the models
  directory. A worker killed with SIGKILL leaves an orphan llama-server on its
  port; the files are not synced, so a power failure may lose what a crash of the
  process does not.
- **A llama-server that exits** is a step of `Worker` (`ChildExits`) without a property:
  the code never looks at the child again before the next switch.
- **is_default** of a model row, endpoints' text, and the rest of the payloads.

## 6. Plan

1. `Registry`, `Models`, `Enrollment`, `AuthCache`, `Worker`, `Dispatch`, `LoadJobs` with both
   its implementations, `Agent` and `Placement`, with their runs and the theorems above: done.
2. When the code grows a caller of the scheduler, a poll of the node status by the workers,
   or a supervisor loop in the agent, those belong next: they relate `Placement` and
   `Registry`, `Enrollment` and `Registry`, and give `Agent` a liveness property without
   restarts.
