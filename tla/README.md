# gpuflow: a verification project

gpuflow runs container jobs on GPU servers. A control plane keeps jobs, nodes
and projects in memory behind one mutex, mirrors them in MySQL and schedules the
queue; one agent per GPU server registers, polls for work, runs one container
per attempt and reports back. This directory holds TLA+ modules for the parts
whose correctness depends on the order in which clients, agents, the scheduler
and time act, TLC configurations that check them on small instances, and proofs
checked by TLAPS for every size of instance.

- [Inventory](#inventory): components, their state, operations and hard behaviours
- [Plan](#plan): modules in order, abstract specifications, runs, theorems
- [The job store](#the-job-store-jobstoretla): the model and how it corresponds to the code
- [The other modules](#the-other-modules): agents, leases, results, persistence, fair shares, images
- [Runs](#runs): what each run checks, its bounds
- [Proofs](#proofs): what is proved, from what, and how
- [Limits](#limits): what is only model-checked, and what is not modelled

To check everything here: `tlc -config <X>.cfg <MC module>` for each row of
[Runs](#runs), and `tlapm <module>.tla` for each module of [Proofs](#proofs).

## Inventory

Paths are relative to `src/`. "Store" below is `internal/store/store.go`.

### Job store (`internal/store/store.go`, `node_maintenance.go`, `internal/model/types.go`)

*State.* Jobs (status, node, session, attempt token and its lease, attempts,
automatic disposition, GPU indexes), nodes (session epoch, cleanup-required
fence, last heartbeat, health report, inventory, maintenance flag, cached usage),
projects (active, limits), the licence's capacity limits, virtual runtimes of
projects, usage records.

*Operations.* Users create, rerun, cancel and delete jobs. Administrators
create and update projects, set limits, drain and delete nodes. Agents register
a session, confirm cleanup, heartbeat, report health, claim work and report
status. `Schedule` fences offline nodes and assigns queued jobs.

*Interactions.* HTTP handlers call one operation and afterwards, in a separate
critical section, a best-effort scheduling pass. Every operation on persisted
state commits a transaction before its effect stays.

*Hard behaviours.* Takeover by a new agent session at any point of an attempt's
life; late requests of a fenced agent; four different ways into the queue, each
subject to limits; a cached usage flag; capacity that shrinks under running jobs;
licences that change under registered nodes.

*Correct when* an active job has exactly one owner or is fenced; no GPU is given
twice; limits hold on every path; starts never exceed the retry budget; a
cancellation is final; a started job keeps its node until its own attempt's
holder reports.

### Fair scheduler (store, `scheduleFairLocked`)

*State.* A virtual runtime (int64) per project, its weight, job priorities.
*Operations.* One pass picks the project with the least virtual runtime among
those with placeable work; an assignment charges a stride scaled by weight and
GPUs; a project that returns from idleness is lifted to the baseline.
*Hard.* Charges that requeues repeat, weights that change, entry from idleness.
*Correct when* competing projects drift apart by a bounded amount and a project
cannot save up credit while idle.

### Persistence (`internal/store/mysql_state.go`)

*State.* The tables, a transaction, the copy of memory taken before an
operation. *Operations.* Write the difference, commit, roll memory back when
that fails, reload at startup. *Hard.* A commit whose outcome is unknown leaves
memory behind the database; a restart in the middle of an attempt.
*Correct when* an answered operation survives a restart and a refused one leaves
no effect that anyone acts on.

### Schema migrations (`internal/store/mysql_migrations.go`)

*State.* The migrations table, the schema, a named lock. *Hard.* Several control
planes starting together; a crash between a statement and its record.
*Correct when* each migration's effect is there once and in order.

### Agent (`internal/agent/agent.go`)

*State.* Session epoch, lease deadline (25 s after the request that renewed it
was sent, against 30 s on the server), running workers, containers on the host.
*Operations.* Register, clean up left-over containers, confirm, heartbeat, poll,
execute an attempt (validate, create the container, inspect a name conflict,
validate again), monitor cancellation, report, stop itself when the session is
rejected or the lease runs out. *Hard.* Every remote call can fail or come late;
validation and container creation are two steps; the agent can die between any
two. *Correct when* at most one container of a job computes at a time, and every
cancellation that an agent can see is eventually cleaned up.

### Result delivery (`internal/agent/result_delivery.go`, `updateJobStatusUntilAccepted`)

*State.* A workspace with log and outputs, the progress of upload and report.
*Hard.* Lost answers, retries of what was applied, an attempt superseded while
it delivers. *Correct when* results are not lost before a terminal report is
accepted and a superseded attempt leaves its successor alone.

### Artifact publication (`internal/artifact/store.go`, `internal/api/artifact_upload.go`, `internal/store/artifacts.go`)

*State.* Staged and published immutable versions, the references of a job.
*Operations.* Stage, validate the attempt, commit, publish a reference, discard.
*Hard.* Takeover, retry or deletion between any two; a failed publication that
may have committed. *Correct when* every reference names a version that exists
and only the current attempt's version is published.

### Image builder (`internal/api/images.go`, `internal/store/mysql_task_images.go`)

*State.* A map of image records beside a table, background builds. *Hard.*
Deletion and builds interleave without the lock held; restart during a build.
*Correct when* a name has one owner, and no record stays BUILDING for ever.

### Agent handoff (`internal/agent/local_control.go`)

*State.* A draining flag and a count of active ticks. *Operations.* Quiesce,
resume, readiness. *Hard.* A tick that passed the check while quiesce started.
*Correct when* a successful quiesce means no work runs or can start.

### Smaller parts

| part | files | role |
| --- | --- | --- |
| HTTP API | `internal/api/server.go`, `node_projection.go` | authentication, decoding, store operation then scheduling pass |
| Scheduling explanation | `internal/store/scheduling_observability.go` | read-only: why a job waits |
| Host resources | `internal/store/host_resources.go`, `internal/agent/resource_limits.go` | CPU and memory reservations |
| Job output | `internal/store/job_output.go` | truncation of text |
| Accelerator probing | `internal/agent/probe.go`, `accelerator.go`, `ascend.go` | external tools, parsing |
| Platform, edition, project scope | `pkg/platform`, `pkg/edition`, `pkg/projectscope` | composition at startup |
| Client, command line | `internal/client`, `cmd/gpuflow` | requests and flags |
| Web console | `web/src`, `internal/webui` | presentation |
| Deployment | `scripts`, `infra`, `deploy` | shell and container files |

`PROJECT.json` lists every component with its state of work, and under
`hazards` the places that are hard to test, each with the properties that
would notice.

## Plan

In order of weight. Every module takes its sizes as CONSTANTS with named
assumptions, has one action per operation, states invariants as conjunctions of
named parts, and declares no RECURSIVE operator.

| module | about | composes / refines | state of work |
| --- | --- | --- | --- |
| `JobStore` | the control plane's store | | done for the FIFO pass; proofs in `JobStoreProofs`, `JobStoreOwnership` |
| `JobLifecycle` | the abstract life of one job | implemented by `JobStore` | done; proof in `JobStoreProofs` |
| `Agent` | processes, workers, containers, handoff | extends `JobStore` | done for one worker loop per worker; liveness under fairness; proofs in `AgentProofs` |
| `SessionLease` | the two leases of a session | assumed by `Agent` | done; proofs in `SessionLeaseProofs` |
| `Results` | delivery, publication, deletion | extends `JobLifecycle` | done; proofs in `ResultsProofs` |
| `Persistence` | transactions, doubt, restart | extends `JobStore` | done; proofs in `PersistenceProofs` |
| `FairScheduler` | the weighted fair pass | stands beside `JobStore` | done; proof in `FairSchedulerProofs` |
| `TaskImages` | builds, deletion, rows, restart | | done for the Community edition; proofs in `TaskImagesProofs` |

*Left.* Theorems: `NeverRevived`'s counterpart in `JobStore`. Models: CPU and
memory reservations as a second capacity; the publisher of the Enterprise
edition.

## The job store: `JobStore.tla`

### State

| variable | code |
| --- | --- |
| `job` | `Job` in `model/types.go`: `status`, `node` (NodeID), `session` (SessionEpoch), `claim` (AttemptToken with LeaseExpiresAt), `attempts`, `mark` (the recovery and cleanup markers), `gpus` (GPUIndexes) |
| `node` | `Node`: `session`, `cleanup` (CleanupRequired), `stale` (heartbeat older than 30 s), `healthy` (a fresh HEALTHY report), `maintenance`, `gpus` (inventory), `busy` |
| `project` | `Project` with its limits |
| `licence` | the limits of `SetSchedulingLimits` and `SetCommercialLimits` |
| `cursor` | the scheduling pass's position while it holds the mutex, 0 when the mutex is free |
| `started`, `cancelAsked`, `runner` | history only: starts of a job, accepted cancellations, the session that started the current attempt |

Job and node IDs are numbers, in the order of creation and of names; that is the
order the code sorts them by. A job that does not exist yet or any more has
status `absent` or `removed`.

### Actions

One per exported method; `MutexFree` guards all but the pass's own steps.

| actions | code |
| --- | --- |
| `CreateProject`, `UpdateProject`, `SetLicence` | the methods of the same name, `SetSchedulingLimits`, `SetCommercialLimits` |
| `CreateJob`, `CancelJob`, `BeginJobDeletion`, `DeleteJob` | `createJobLocked` (creation and rerun), `CancelJobForScope`, ... |
| `RegisterNode`, `ConfirmCleanup`, `UpdateNodeHealth` | `registerNode` with `recoverNodeJobsLocked` and admission, `ConfirmNodeCleanupSession`, `updateNodeHealthLocked` |
| `FenceExpiredSession` | the branch of `validateAgentSessionLocked` that every agent request may take |
| `SetNodeMaintenance`, `DeleteNode` | the same |
| `Schedule`, `ScheduleAssign`, `ScheduleEnd` | `Schedule`: `reconcileOfflineJobsLocked`, then the loop of `scheduleFIFOLocked`, one assignment per step |
| `NextJob` | `nextJobLocked`: cleanup first, then new work, or the requeue of work the node may no longer start |
| `ReportRunning`, `ReportSucceeded`, `ReportFailed`, `ReportCanceled` | the branches of `updateJobLocked` |
| `HeartbeatLapses`, `HealthReportLapses`, `LeaseExpires` | comparisons with the clock that come out differently as time passes |

A trailing `refreshNodeUsageLocked` is part of each action (`SetJob`,
`Refreshed`). `requeueAssignedJobsLocked` ranges over a map: which jobs find
room in a nearly full queue is left open.

### Abstractions

- *Time* is the outcome of the three comparisons the code makes. A session's
  TTL and the pass's offline threshold are both 30 s, so one flag serves both.
  A heartbeat is not an action: it keeps `HeartbeatLapses` from happening, and
  because a lapse may be arbitrarily late or early this loses no behaviour.
  A lapsed heartbeat is not undone by a heartbeat (the request is refused and
  fences the node) but by a new registration, of the same session or another.
- *Tokens* are fresh random values: a request either has the current one or is
  refused. The model keeps whether one exists, under which lease, and, through
  `HoldsAttempt`, that the request's session is the node's and the job's. A
  refused request changes nothing, except the fence, which is an action.
- *Choice of node.* Which capable node is best depends on price and memory; the
  model takes any. Every property therefore holds for whatever ranking.
- *Inventory* is a number of GPUs; memory, vendor labels, CPU and memory
  reservations are left out, and `hostChanged` stands for a report that differs
  in them.
- *Commits succeed.* A failed transaction restores the memory and is no step;
  failures, and the commit whose outcome is unknown, are in `Persistence`.
- *Health reports* are a feature of the edition: `NodeHealth` says whether it is
  on. Without it (Community, `pkg/edition/edition.go:119`) a node registers
  without a health status, `nodeHealthyLocked` asks for none and agents send no
  reports (`agent.go:196`). Most runs have it, as the larger set of behaviours;
  `cancel_completes` and `uncertain_commit` do without.
- *Jobs without stored indexes.* An active job that was assigned in whole-node
  mode holds, under granular scheduling, the first indexes (`HeldGpus`,
  `store.go:1718-1730`). Only a change of the edition across a restart makes one.
- The variants without session ("trusted") are used by tests only and are left
  out.

## The other modules

### `JobLifecycle.tla`: what the store promises of a job

One variable, `life`: status, number of runs, whether a worker owns the run, and
whether the user canceled. Nine moves, none of which mentions nodes, sessions or
tokens. `JobStore` defines `Life` (the refinement mapping: `owned` is a token
that is held, `runs` is `started`) and `ImplementsLifecycle`, the abstract
specification under that mapping. `Results` builds on the abstract life, so
anything the store may do to a job between two steps of a delivery can happen
there.

### `Agent.tla`: processes, workers, containers

| variable | code (`internal/agent/agent.go`) |
| --- | --- |
| `agent` | one process per session: how far `Run` is, whether its lease lasts, and the local control's draining state |
| `worker` | the point of `tick`, `updateJobStatusUntilAccepted` and `execute` at which another actor can come between, with the attempt it holds |
| `box` | containers: requested of the daemon, created, starting, computing |
| `holder`, `faults` | the worker that was sent the current token (history); the bound on faults |

| actions | code |
| --- | --- |
| `Register`, `CleanManaged`, `Confirm`, `ReportHealth` | `Run` up to the start of the workers, `cleanupManagedContainers`, `healthLoop` |
| `LeaseRunsOut`, `StopExpired`, `Crash`, `SessionRefused`, `Withdraw` | `heartbeatLoop` and `stopExpiredSession`; a process that dies or fails stop, and what its workers still do |
| `Tick`, `Poll`, `PollInVain` | `tick` up to the received job |
| `PostRunning`, `PostRunningFails`, `RereadStart`, `RereadFails` | `updateJobStatusUntilAccepted` with RUNNING |
| `Prepare`, `Validate`, `RequestCreate`, `Created`, `ValidateAgain`, `Launch`, `Finishes`, `SeesCancellation`, `RemoveBox`, `ExecuteFails` | `execute` with `createAttemptContainer` and the cleanup of its container |
| `PostEnd`, `PostEndFails`, `RecheckEnd` | the report of the end and its repetition |
| `Quiesce`, `AcknowledgeQuiesce`, `Resume` | `local_control.go` |
| `Daemon` | the container daemon, external: it creates and starts what it was asked for at some later time |

Everything an agent asks of the store is the store's own action, joined with the
agent's step; `Surroundings` is the rest of the store (users, the pass, time).
Administrators and deletions stay outside. A request is applied or lost, and its
answer may be lost afterwards; a request that the server applies after the agent
gave up is one whose answer was lost. A branch of the code cannot be reached
here: `createAttemptContainer` looks at a container that has its name already,
and `NamesFree` says there never is one.

A job that was requeued meanwhile may be assigned to another host (`Elsewhere`).
The server then answers 409 before it looks at the token (`server.go:655`), the
worker asks again, and after 30 s in vain the agent stops (`FailStop`); it does so
as well for a report of the end.

`HeartbeatMissed` lets the store find a session stale only after its process's
lease has run out. That is no assumption of convenience but `SessionLease`'s
theorem.

### `SessionLease.tla`: the two leases

The agent counts 25 s from before it sent a request, the server 30 s from when
it processed one (`model/types.go:14-20`). Requests and answers form a set that
delivers in any order or not at all; `Advance` moves the time both sides
measure, at one rate. The agent renews its deadline by the time of *sending*
(`agent.go:574-592`), and registration sets it before the request. `past` keeps
the sessions the node was taken from.

### `Results.tla`: from a run's files to its users

One job and its runs. The agent's side (`run`) walks through `finishResult`,
`failResultDelivery` and `updateJobStatusUntilAccepted`; each upload handler
(`upload`) through validate, stage, validate again and commit, publish, discard
(`server.go:127-200`); `objects` are the staged and published copies in the
object store; `ref` and `stored` are the published references in memory and in
the database, which differ after an uncertain commit; `deletion` is the handler
that marks, cleans and removes. `Restart` drops all handlers and reloads.

Staging and the check after it are one step, as are discarding a staged copy
and the handler's end; copying to the version and publishing its reference are
two, because a restart, a takeover or a deletion between them matters. A storage
id that left nothing behind is used again. Uncertain commits of the job's
*status* are left to `Persistence`. A new run of the job begins when the worker
of the last one has stopped, which is what `ContainersAccounted` shows of
`Agent`.

Two behaviours that no property is about: a run that fails before its log file
exists (`agent.go:656-658`) cannot deliver a log, so `failResultDelivery`
reports it as not retryable although no result was lost; and an object whose
discard fails stays in the object store until the job is deleted, or, when the
deletion had begun, for good (`lost`).

### `Persistence.tla`: the store above MySQL

`Operate` is any operation of `JobStore`, after which `before` holds the
snapshot it took; then the transaction commits, fails, or fails with its rows
written. Written rows are those that differ from the snapshot, as in
`saveMySQLChangesLocked`. `doubt` are the rows that a failed transaction may
have written and none has written since; `tainted` remembers that a restart
loaded such rows. Rows hold times, not the flags that age, so time passes for
the memory and the rows alike. The licence is not a row. History variables are
restored together with the snapshot: an operation that failed did not happen to
its client.

### `FairScheduler.tla`: the weighted fair pass

One round of `scheduleFairLocked` is an action: the placeable job of the project
with the least virtual runtime is assigned and charged. Which jobs are placeable
in a round, and which projects with work compete, is left open (nodes, quotas,
licences and project status are `JobStore`'s), and so are ties. A job that is
requeued is charged again, as in the code. The stride is any number and the
weights need not divide it: a charge is rounded up (`store.go:2043`), and at least
one. `won` counts, in parts of a `Scale` that every weight divides, what one
project received beyond another since both have had work in every round; `due` is
what it was behind when that began, and `rounded` how many of the other's charges
have been rounded up since, each by less than one. A project
that works alone keeps its growing virtual runtime, and one that enters when no
competitor is found keeps its own; the second then catches up for as long as the
difference is: that is `due`, and it is what the code does.

### `TaskImages.tla`: builds, deletions and rows

| variable | code (`internal/api/images.go`, `mysql_task_images.go`) |
| --- | --- |
| `images`, `row`, `docker` | the builder's map, the table, the daemon's images |
| `builder` | the goroutine of each record's build: `build`, then the sections of `finish`; a build that the daemon goes on with after a crash is `abandoned` |
| `deleter` | a deletion between its three calls |
| `up`, `faults` | the process; the bound on failing statements and restarts |
| `used`, `deleted`, `late` | history |

A row has two keys, and saving a record replaces the row of a namesake. A failed
statement may have been executed. At a restart the table may not be listed, and
the code then starts with no records (`images.go:88`); images found on the
daemon are imported and take the rows of their namesakes. The daemon may complete
the build of a control plane that died, and tags its image whenever it is done
(`CompleteAbandoned`, external): before the restart, when the image is discovered,
or after it, when it takes the name from an image built since.

`finish` gives the mutex up before it saves the result (`images.go:499-500`). A
deletion in between is answered with success, and the save writes the row again;
if the name was reserved anew it takes the newer record's row. Such records are
in `late`, which `DeletedStaysDeleted` excepts: the row comes back, contrary to
what `README.md:387` of the repository says of a deletion. Two more windows are
visible in the model and break nothing it states: the daemon's image goes before
the row, so that a crash leaves a ready record without an image, and a second
deletion of a record may remove an image that a namesake has built since.

## Runs

The modules named MC… give the constants their values. The number of jobs bounds
creations; attempts need no bound, they are bounded by the retry budget, which is
itself one of the properties. Deadlock is checked unless noted.

| run | instance | properties | shows |
| --- | --- | --- | --- |
| `takeover` (`MCTakeover.cfg`, MCJobStore, 166 thousand states) | 1 node, 2 jobs (one with a retry), 2 interchangeable sessions, inventories 0 and 2, granular | `TypeOK`, `OwnedOrFenced`, `HeldByRunner`, `AttemptBudget`, `CancelHonoured`, `HoldsUntilReported`, `CleanupGate`, `FinishedStaysFinished`, `ImplementsLifecycle` | who owns a job, how often it starts, when it lets go of its node, and that every job lives the abstract life, with the agent restarted, fenced, drained, degraded or deleted at any point |
| `sharing` (`MCSharing.cfg`, MCJobStore, 1.5 million) | 1 node with 1 or 2 GPUs, jobs for one, two, one and no GPU of one project (the first with a retry), granular; limits of 1 queued and either 1 concurrent job or 1 GPU, set at any time | `ExclusiveUse`, `QueueQuota`, `ActiveQuota`, `WorkConserving` | no GPU is given twice, a CPU-only job has the node for itself, every way into the queue and onto a node respects limits that arrive late, and a pass leaves nothing it could still place |
| `whole_node` (`MCWholeNode.cfg`, MCJobStore, 1.1 million) | 2 nodes with 1 or 2 GPUs, a two-GPU job before a one-GPU job, whole-node scheduling, three licences (2 nodes and 3 GPUs, 1 node, expired) | `ExclusiveUse`, `UsageCoherent`, `WorkConserving`, `GrowthLicensed` | the cached Busy flag, on which whole-node placement rests alone, agrees with the jobs; capacity only grows within the licence in force |
| `agent` (`MCAgent.cfg`, MCAgent, 764 thousand) | 2 hosts, on one a process with 2 workers and its successor with one, on the other a process with one; any two of the three are started (`MaxProcesses`); 1 job, 1 fault besides crashes | `AgentTypeOK`, `ContainersAccounted`, `NamesFree` | what computes on a host is the job's current attempt, once, also when a process is replaced, and while the job is requeued to the other host |
| `agent_liveness` (`MCAgentLiveness.cfg`, MCAgent, 107 thousand) | 1 host, two processes with one worker each, health reports, a handoff of the first process, fairness | `QuiescedHoldsNothing`, `RunsEnd`, `InterruptedRecovered` | a quiesced process can be replaced; runs end and interrupted work is recovered |
| `cancel_completes` (`MCAgentCancel.cfg`, MCAgent) | the same without handoff and health reports | `CancelCompletes` is violated | see below |
| `session_lease` (`MCSessionLease.cfg`, MCSessionLease, 1.4 million) | 2 sessions, leases of 2 and 3 ticks, 7 ticks, 3 messages at once | `LeaseProtected`, `NeverRevived` | the agent has stopped before another session is let in |
| `results` (`MCResults.cfg`, MCResults, 2.5 million) | 1 job with a retry, 3 uploads, the first run produces files, 1 fault | `TypeOK`, `ReferencesReadable`, `ServedByItsRun`, `SucceededIsServed`, `WorkspaceKept`, `DeletedLeavesNothing`, `RetriesComputationOnly` | results are neither lost, mixed up nor left behind |
| `persistence` (`MCPersistence.cfg`, MCPersistence, 4.8 million) | 1 node that may lose a GPU, a two-GPU job before a one-GPU job, 2 sessions, 2 failures | `PersistenceTypeOK`, `AcknowledgedIsStored`, `SoundAfterFailures` | failures and restarts leave the store as sound as `JobStore` |
| `uncertain_commit` (`MCPersistenceLost.cfg`, MCPersistence) | 2 nodes of 2 GPUs with one session, 2 one-GPU jobs, whole-node, no health reports | `RunsAlone` is violated | see below |
| `fair_share` (`MCFair.cfg`, MCFairScheduler, 1.4 million) | 2 projects, 4 jobs for one, two and no GPU, the later ones of higher priority, weights 1 and 3, a stride of 2 | `FairShare` | nobody receives more than a job beyond their share and what rounding charged the other |
| `task_images` (`MCTaskImages.cfg`, MCTaskImages, 1.2 million) | 3 records of one name, 2 deletions at a time, 2 faults, fairness | `BuilderHasRecord`, `OneRecordPerName`, `DeletedStaysDeleted`, `BuildsEnd` | names have one owner, deletions stay, builds end |

*Why these bounds are enough.* Ownership concerns one job and one node; the
second job is there so that a handler's loop over the node's jobs meets jobs in
different states, and the second session so that a takeover can itself be taken
over (a session may be reused after the next one: the code only compares it).
Inventory 0 is the degraded report and the shrink below what is assigned.
Sharing needs a job that fits beside another, one that does not and one that
takes a node for itself, on an inventory that shrinks below what is held; the
limit of one queued job is passed by four jobs in every way, and the retry makes
two of them compete for the last place. A licence is exceeded by the second
node's second GPU. For the agents, two workers compete for one job, the successor
meets whatever the crashed process left, one lost answer is enough to make
agent and store disagree about an attempt, and a second host is where the store may
send the job meanwhile. A successor and a second host at once would be forty million
steps; each meets the first process without the other. The lease needs an agent that is
renewed, lapses and is replaced. Results need two runs, for a late upload of the
first to meet the second, and one fault in every step. An uncertain commit and a
restart are two failures. Fair shares need an idle project that returns twice, and a
weight of 3 beside a stride of 2 makes nearly every charge a rounded one.
Three records of a name are one that is deleted, one that follows and one that a
restart discovers.

*Where a run may stop.* `agent` and its siblings end when no process is left to
start, `session_lease` at its last tick, `results` and `fair_share` when their jobs
are over, `task_images` when records are used up: these configurations say
`CHECK_DEADLOCK FALSE`.

*Fairness.* `JobStore` has none: agents, users and administrators decide whether
anything happens. `Agent` has strong fairness for each worker (they compete for
the store's mutex, which Go hands over fairly), and weak fairness for what a
process does to get ready, the daemon, the expiry of a claim's lease and the end
of a scheduling pass; crashes, cancellations, faults and lapses of a session's
lease are not fair. Its liveness properties speak of a session that goes on
serving (`Serving`). `TaskImages` has weak fairness for each build's goroutine,
which a timeout of 15 minutes limits, and for the restart of a control plane
that died; deletions are not fair.

*What the two violations say.*

- `cancel_completes`. A worker reports RUNNING, the store applies it, the answer
  is lost, and the user cancels. The worker reads the job again
  (`agent.go:439-480`), finds CANCELING where it expects RUNNING or ASSIGNED, and
  gives the start up. The job has a token without a lease, which
  `nextJobLocked` dispatches to nobody (`store.go:2157`): it stays CANCELING,
  and keeps its node, as long as this session lives, while `README.md:381` of the
  repository says that stopping sets it to canceled. A restart of the agent
  resolves it (`InterruptedRecovered`).
- `uncertain_commit`. A scheduling pass assigns a job to each of two nodes; the
  transaction is committed but fails with its answer, and `store.go:287` puts the
  old memory back. A heartbeat of the first node lapses, the next pass assigns its
  job to the second, where it runs, and a restart loads the row of the other job,
  assigned to the second node as well: both run there, while `README.md:32` says
  that a node runs one task at a time. Only heartbeats occur in the run, no report
  that the Community edition lacks.

*Mistakes.* Operators named `Faulty...` stand before the definition they are a
plausible mistake of: a fence that is not looked at, a refund or a budget off by
one, a token that survives a takeover, a lease counted from the answer, a version
discarded although its publication is uncertain, a project that returns from
idleness with its old virtual runtime, a charge that is rounded down. With the mistake in place of the
definition TLC finds the property violated in the same run; `PROJECT.json` lists
the pairs under `mutants`.

## Proofs

Eight modules hold the theorems; every obligation is checked by TLAPS (backends
Z3, Zenon and LS4). They hold for every value of the constants, under the
assumptions that the modules name and that TLC evaluates in every run:

- `JobStore`, and with it `Agent` and `Persistence`: sizes are natural numbers
  (`SizesAssumption`), every job has a project, a GPU count within the largest
  inventory and a retry count (`JobAttributesAssumption`), and the policy
  constants have their types (`PolicyAssumption`);
- `SessionLease`: the agent's lease is no longer than the server's
  (`LeaseAssumption`);
- `FairScheduler`: every weight divides `Scale`, the unit in which shares are counted
  (`FairAssumption`). Such a number exists for any finite set of weights, and nothing
  else is asked of it; the stride and the weights are arbitrary, the code's million
  and 1 to 100 among them;
- `Agent`: every worker belongs to one session and every session to one node
  (`AgentAssumption`);
- `Results`, `TaskImages`, `Persistence`: one job with a retry count, a name for
  every image, a bound on faults or failures, and values that stand for "none" and
  are none of the others (`ResultsAssumption`, `ImagesAssumption`,
  `PersistenceAssumption`).

| theorem | says | module |
| --- | --- | --- |
| `TypeCorrect` | `Spec => []TypeOK` | `JobStoreProofs` |
| `AttemptBudgetHolds` | a job starts at most `MaxRetries + 1` times | `JobStoreProofs` |
| `CancelHonouredHolds` | an accepted cancellation is final | `JobStoreProofs` |
| `HeldByRunnerHolds` | a token without lease belongs to the session that started the attempt | `JobStoreProofs` |
| `FinishedStaysFinishedHolds` | a finished job is only ever deleted | `JobStoreProofs` |
| `HoldsUntilReportedHolds` | a started job keeps node and GPUs in every step but the report of its own end, by the holder of its attempt | `JobStoreProofs` |
| `CleanupGateHolds` | a node that awaits cleanup is given no work and starts none | `JobStoreProofs` |
| `StoreImplementsLifecycle` | `Spec => ImplementsLifecycle`: the store refines the abstract life | `JobStoreProofs` |
| `OwnedOrFencedHolds` | an active job has an owner, or its node is fenced | `JobStoreOwnership` |
| `UsageCoherentHolds` | the cached Busy flag agrees with the jobs | `JobStoreOwnership` |
| `ExclusiveUseHolds` | no GPU is held by two jobs, no node shared that a job needs whole | `JobStoreOwnership` |
| `QueueQuotaHolds` | no project's queue exceeds its limit | `JobStoreOwnership` |
| `ActiveQuotaHolds` | nor do its active jobs or their GPUs | `JobStoreOwnership` |
| `GrowthLicensedHolds` | registered capacity grows only within the licence in force | `JobStoreOwnership` |
| `WorkConservingHolds` | a pass that ends leaves no job that it could still place | `JobStoreOwnership` |
| `LeaseIsProtected` | while an agent's lease lasts the node is its and not stale | `SessionLeaseProofs` |
| `SessionsNeverRevived` | a session that lost its node never gets it back | `SessionLeaseProofs` |
| `FairShareHolds` | no project receives more than one job beyond its share, up to the rounding of the other's charges | `FairSchedulerProofs` |
| `AgentTyped` | `AgentSpec => []AgentTypeOK` | `AgentProofs` |
| `AgentsUseStore` | `AgentSpec => Spec`: agents do to the store only what its operations do | `AgentProofs` |
| `ContainersAccountedHolds` | what computes is its job's current attempt on its node, and once | `AgentProofs` |
| `NamesFreeHolds` | a container's name is free when it is asked for | `AgentProofs` |
| `QuiescedHoldsNothingHolds` | a quiesced process has no work and no running container | `AgentProofs` |
| `ResultsTyped` | `ResultsSpec => []TypeOK` | `ResultsProofs` |
| `ReferencesReadableHolds` | a reference names a version that exists | `ResultsProofs` |
| `ServedByItsRunHolds` | what is served is a file of the current attempt | `ResultsProofs` |
| `SucceededIsServedHolds` | a succeeded job's log can be downloaded, and its bundle if it has one | `ResultsProofs` |
| `WorkspaceKeptHolds` | a workspace goes only when its results are published and the end accepted | `ResultsProofs` |
| `DeletedLeavesNothingHolds` | a deleted job leaves no object but those of unfinished uploads and failed discards | `ResultsProofs` |
| `RetriesComputationOnlyHolds` | a failed delivery never makes a run compute again | `ResultsProofs` |
| `PersistenceTyped` | `PersistentSpec => []PersistenceTypeOK` | `PersistenceProofs` |
| `AcknowledgedIsStoredHolds` | what was acknowledged is in the database, but for rows in doubt | `PersistenceProofs` |
| `SoundAfterFailuresHolds` | failures leave the store sound until rows in doubt are loaded | `PersistenceProofs` |
| `BuilderHasRecordHolds` | a build has its record | `TaskImagesProofs` |
| `OneRecordPerNameHolds` | a name is offered once | `TaskImagesProofs` |
| `DeletedStaysDeletedHolds` | a deleted image stays deleted, but for the late ones | `TaskImagesProofs` |

*Argument of `JobStoreProofs`.* First `TypeOK`, which is inductive, one lemma
per disjunct of `Next`. Then the store's actions are classified by what they do
to one job: `JobStep(j)` has twelve kinds (created, placed, claimed, begun,
taken over, reported, ...), and `EveryJobSteps` shows that every step of the
specification moves every job by one of them. Properties of one job are proved
against these twelve instead of against each action. `AttemptBudget`,
`CancelHonoured` and `HeldByRunner` are not inductive alone; `LifeInv` adds that
a recovery marker sits only on a canceling job, that a retry marker is there
only while retries are left (`MarkInv`), and that an assigned job's attempt lies
within the budget. Without the first, a cancellation accepted by a running job
could meet an old marker and send the job back to the queue. Of the
action properties, `FinishedStaysFinished` and `CleanupGate` need no more than the
kind of step and the types. `HoldsUntilReported` lets a job go only in the report of
its end by the holder of its attempt (`ReportsEnd`), so `StepsUnreported` shows that
no other step, of the same job or of another, makes the move `Reported(j)`, and that
the other kinds leave a started job its node and GPUs. For the refinement,
each of the twelve kinds maps to one of `JobLifecycle`'s moves or to a stutter. The
mapping needs more than `LifeInv`: a report that ends a canceling job as canceled
is a move only if the user asked for it, so `StopInv` says that a canceling job
without a recovery marker is one that its user canceled.

*Argument of `JobStoreOwnership`*, in four parts.

- *Ownership.* `OwnedOrFenced` and `UsageCoherent` relate jobs and nodes and need
  each other: a node may be deleted only when it is not busy, so it is the
  agreement of the cached flag that keeps an active job's node known, and it is
  the ownership that says which node a step on a job can disturb. Their
  conjunction with `TypeOK` is inductive (`OwnInv`). `CoherentAfter` says that a
  refresh of one node suffices when only jobs on that node changed, and
  `OwnedAfter` when an operation leaves owners alone; the actions are then
  instances of the two.
- *Sharing.* Only an assignment gives a job a node or GPUs: `StepsUnplaced` shows
  that every other step is one of the eleven kinds that place nothing, and those
  leave each active job where it is (`UnplacedStaysPut`). An assignment takes
  indexes that no active job of the node holds, or finds the node idle; the second
  case reads the Busy flag, so `UsageCoherent` carries it (`AssignedAlone`). What
  a node reports of its inventory does not occur in the argument: held indexes
  stay disjoint even when they exceed it.
- *Quotas.* Limits bound cardinalities, and `WithinUnion` is the one counting
  fact: a limit with room for S and for A holds every subset of their union.
  `QueueStep` lists the ways into the queue: one job for which the store has just
  found room, or a requeue, whose jobs are counted together by `FillsQueues`. An
  assignment adds one job and exactly the GPUs it asked for (`AssignedCharge`,
  which needs `AssignedAlone` again). A project created with limits has no jobs
  yet, since a job exists only in a known project (`Homed`). The licence is the
  same argument with nodes and their GPUs.
- *One walk is enough.* `WorkConserving` says what a pass leaves; the invariant is
  `PassedOver`, that no job before the cursor has a place. It survives an
  assignment because that only takes away: free GPUs and idle nodes
  (`AssignTakesCapacity`), room in quotas (`AssignKeepsQuota`), never the licence
  (`AssignKeepsLicensed`). A job that finds a place after an assignment would have
  found one before it, but perhaps on other GPUs: for that, the code's choice of
  the c lowest free indexes must have c members as soon as c are free
  (`LowestCount`). This would be an induction on sets; here it rests on a
  minimal and a maximal member instead, which finite sets have because strict
  inclusion among finite sets is well-founded (`MinimalMember`).

*Argument of `SessionLeaseProofs`.* `LeaseProtected` speaks of the deadline an
agent has; a heartbeat's answer on its way will give it another. The invariant
`LeaseInv` says of both that they protect no longer than the server's last
heartbeat allows while the server has the session, and are over once it does not
(`Held`). Only here is it needed that the agent's lease is the shorter one, in
the step that replaces or fences a stale session. `NeverRevived` rests on a
process registering once: `RevivalInv` adds that a registration still on its way
belongs to a session that the node was not taken from.

*Argument of `FairSchedulerProofs`.* `Backed` says that what a project received
beyond another is no more than the difference of their virtual runtimes plus what
it was due and the charges of the other that were rounded. A charge is no less than
what was received for it, and exceeds it by less than one (`Rounding`,
`ChargeOfJob`): the rounding of a project's own charges works against it, and that
of the other's is counted, so a round keeps `Backed`. A round goes to the project
with less virtual runtime, so before it the difference was not positive, and after
it exceeds the allowance by no more than the one job; `FairShare` then survives until
the next round.

*Argument of `AgentProofs`.* `StoreStep` shows that every step of the agents'
specification is a step of the store or leaves it alone, so `LifeInv` and every
other theorem about `JobStore` holds here. That a container computes the current
attempt is a chain, and the invariant `AgentInv` has a part for each link.
`BaseInv` has the types and `Watched`: what runs is watched by the worker that
launched it until its process stopped, which alone gives
`QuiescedHoldsNothing`. `SessionsInv`: a process whose lease lasts has its node.
`TokensInv`: the token of an attempt has one holder, and an attempt that was
started is executed by one worker and has one container. The delicate case is the
requeue, which refunds an attempt number: it refunds only attempts that were never
started, and containers are asked for only after a start was accepted
(`StartedBy`). `HostsInv`: what runs on a host is on the job's node there, and is
current as long as its session has the node; a successor that has cleaned up
finds nothing of another session running. The last is where the two halves of a
takeover meet, the fence of the store and the removal of containers by the new
process; it needs the one assumption about time, that a session is found stale
only after its process's lease has run out (`HeartbeatMissed`), which
`LeaseIsProtected` shows of `SessionLease`.

*Argument of `ResultsProofs`.* None of the properties is inductive. They speak of
the current attempt, and a placement that is returned makes the previous attempt
current again: `Numbered` ties attempts to the runs of the abstract life. They
speak of the references in memory, and a restart takes those of the database, which
an uncertain commit leaves different: `ReferencesInv` says `Shows(refs)` of both,
what the last run delivered, what a removed workspace stands on, what a success
shows. They speak of a job that is removed, whose objects are deleted while uploads
still go on: `DeletionInv` says that from the deletion's listing on every object is
listed, given up, or in the hands of a handler that will find the job gone.
`WorkersInv` ties a worker to the request whose answer it awaits.

*Argument of `PersistenceProofs`.* A restart makes the database the memory, and a
failed transaction the snapshot. `PersistenceInv` therefore says of the rows that
they are the snapshot's during an operation and the memory's otherwise, except for
rows in doubt (`Synced`), and of the snapshot what `JobStoreOwnership` and
`JobStoreProofs` show of the memory: `SoundIn` states these invariants of any
contents, and `SoundNow` that they are `JobStore`'s. A reload recomputes the Busy
flags, which a row does not hold reliably (`ReloadedSound`). A step of the store
keeps memory sound by the theorems' own lemmas (`NextOwn`, `NextLife`, `NextUse`).

*Argument of `TaskImagesProofs`.* The map is rebuilt from the rows at a restart,
so names must be unique there too, whichever statements failed (`OneRowPerName`:
a save replaces its namesake's row, or is not executed and changes nothing). A deletion forgets
a record it chose steps ago; `DeletionIsLast` says that once its row is gone nobody
is left who would save the record again, except for those in `late`, and
`DeletedUnpended` says the same after the deletion. `FreshUnknown` and
`DownHoldsNothing` cover a new id and a stopped control plane, which holds nothing
but builds it left to the daemon: completing one changes an image and no record
(`AbandonedKeeps`).

The inductive invariants were model-checked on the runs' instances before they
were proved.

## Limits

*Only model-checked.* The liveness properties `RunsEnd`, `InterruptedRecovered`
and `BuildsEnd`: liveness under fairness and ENABLED are out of the prover's
reach. Every other property of a passing run is a theorem. The two properties
that are violated, `CancelCompletes` and `RunsAlone`, have counterexamples only.

*Out of the prover's reach, too.* Statements about recursive definitions for
every input, because the provers cannot instantiate an induction theorem's
operator parameter; modules with RECURSIVE operators, of which there are none.

*Assumed between modules.* `Agent` takes from `SessionLease` that a session is
not found stale while its process's lease lasts, and `Results` takes from `Agent`
that a run begins when the worker of the last one has stopped. Both are theorems
where they are stated, but the modules are not composed into one.

*Not modelled.* In the job store: usage records, job output, CPU and memory
reservations (one more capacity, subtracted in the same functions), accelerator
vendors. In the agent: docker's arguments, log streaming, resource limits. In the
image builder: the Enterprise publisher, the live log, the check for active jobs,
which reads the job store before the deletion begins and is not repeated
(`images.go:267-277`). Migrations: whether a statement may be repeated after a
crash depends on its text. Explanations of the queue are read-only, and the log
of decisions is read by nobody.

*Not going to be modelled.* Parsing of probe output, HTTP framing, the client,
the command line, the web console, and the scripts around the program: they
keep no state that the system's correctness depends on.
