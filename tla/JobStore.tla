------------------------------- MODULE JobStore -------------------------------
(***************************************************************************)
(* The control plane's store of jobs, nodes and projects                   *)
(* (internal/store/store.go).  Every exported method of the store runs     *)
(* under one mutex, so each is one action here; the only loop whose        *)
(* intermediate states are kept apart is the scheduling pass, which holds  *)
(* the mutex (variable cursor) while it assigns one job after another.     *)
(*                                                                         *)
(* Time is reduced to the comparisons the code makes: a node's heartbeat   *)
(* is stale or not (the agent session TTL and Schedule's offlineAfter are  *)
(* both 30 seconds), a health report is fresh or not, a claim's lease has  *)
(* expired or not.  An attempt token is random: a request either carries   *)
(* the current one or is refused, so the store records only that one       *)
(* exists.                                                                 *)
(*                                                                         *)
(* Operators named Faulty... are plausible mistakes in the definition that *)
(* follows them.  No specification uses them; they show that a property    *)
(* notices when the code goes wrong.                                       *)
(***************************************************************************)
EXTENDS Integers, FiniteSets

CONSTANTS
  NumJobs,        (* job IDs, numbered in the order of their CreatedAt     *)
  NumNodes,       (* node IDs, numbered in the order of their names        *)
  Projects,
  DefaultProject, (* exists from the start and is never disabled           *)
  Sessions,       (* session epochs that agents generate                   *)
  NoSession,      (* SessionEpoch = ""                                     *)
  ProjectOf,      (* the project each job is created in                    *)
  GpuCount,       (* Requirements.GPUCount of each job                     *)
  MaxRetries,     (* MaxRetries of each job                                *)
  MaxGpus,        (* the largest inventory an agent reports                *)
  Inventories,    (* the inventories agents report                         *)
  Granular,       (* the GPU-granular scheduling feature                   *)
  NodeHealth,     (* the node health feature                               *)
  Quotas,         (* the quota records administrators choose               *)
  Licences,       (* the capacity limits a signed licence may carry        *)
  Drainable,      (* bound: nodes that administrators put in maintenance   *)
  Deletable       (* bound: jobs that users delete                         *)

Jobs  == 1..NumJobs
Nodes == 1..NumNodes

NoNode == 0

QuotaRecord   == [queued : Nat, concurrent : Nat, gpus : Nat]
LicenceRecord == [nodes : Nat, gpus : Nat, expired : BOOLEAN]

ASSUME SizesAssumption ==
  /\ NumJobs \in Nat
  /\ NumNodes \in Nat
  /\ MaxGpus \in Nat
  /\ Inventories \subseteq 0..MaxGpus

ASSUME JobAttributesAssumption ==
  /\ ProjectOf \in [Jobs -> Projects]
  /\ GpuCount \in [Jobs -> 0..MaxGpus]
  /\ MaxRetries \in [Jobs -> Nat]

ASSUME PolicyAssumption ==
  /\ DefaultProject \in Projects
  /\ NoSession \notin Sessions
  /\ Granular \in BOOLEAN
  /\ NodeHealth \in BOOLEAN
  /\ Quotas \subseteq QuotaRecord
  /\ Licences \subseteq LicenceRecord
  /\ Drainable \subseteq Nodes
  /\ Deletable \subseteq Jobs

VARIABLES
  job,         (* the job records                                          *)
  node,        (* the node records                                         *)
  project,     (* the project records                                      *)
  licence,     (* the limits of the current licence                        *)
  cursor,      (* 0, or the next job of the scheduling pass that holds mu  *)
  started,     (* history: how often each job entered RUNNING              *)
  cancelAsked, (* history: jobs whose cancellation a user obtained         *)
  runner       (* history: the session that started the current attempt    *)

vars == <<job, node, project, licence, cursor, started, cancelAsked, runner>>

history == <<started, cancelAsked, runner>>

----------------------------------------------------------------------------
(* Records.                                                                *)

ActiveStatus   == {"assigned", "running", "canceling"}
TerminalStatus == {"succeeded", "failed", "canceled", "deleting"}
JobStatus      == ActiveStatus \cup TerminalStatus
                    \cup {"absent", "queued", "removed"}

(* "live" and "expired" are a token whose LeaseExpiresAt lies ahead or     *)
(* behind; "held" is the token of a started attempt, which has no lease.   *)
Claim == {"none", "live", "expired", "held"}

(* The automatic disposition that a cleanup acknowledgement applies.       *)
Marker == {"none", "retry", "cleanup"}

JobRecord == [status : JobStatus, node : Nodes \cup {NoNode},
              session : Sessions \cup {NoSession}, claim : Claim,
              attempts : Nat, mark : Marker, gpus : SUBSET (0..MaxGpus - 1)]

NodeRecord == [known : BOOLEAN, session : Sessions \cup {NoSession},
               cleanup : BOOLEAN, stale : BOOLEAN, healthy : BOOLEAN,
               maintenance : BOOLEAN, gpus : 0..MaxGpus, busy : BOOLEAN]

ProjectRecord == [known : BOOLEAN, active : BOOLEAN, limit : QuotaRecord]

AbsentJob == [status |-> "absent", node |-> NoNode, session |-> NoSession,
              claim |-> "none", attempts |-> 0, mark |-> "none", gpus |-> {}]

UnknownNode == [known |-> FALSE, session |-> NoSession, cleanup |-> FALSE,
                stale |-> FALSE, healthy |-> FALSE, maintenance |-> FALSE,
                gpus |-> 0, busy |-> FALSE]

Unlimited == [queued |-> 0, concurrent |-> 0, gpus |-> 0]

(* clearJobAssignment.                                                     *)
Unassigned(r) == [r EXCEPT !.node = NoNode, !.session = NoSession,
                           !.claim = "none", !.gpus = {}]

(* A finished attempt gives up its lease but still names its node.         *)
Finished(r, s) == [r EXCEPT !.status = s, !.session = NoSession,
                            !.claim = "none", !.mark = "none"]

----------------------------------------------------------------------------
(* State functions.                                                        *)

ActiveOn(jobs, n) ==
  {j \in Jobs : jobs[j].status \in ActiveStatus /\ jobs[j].node = n}

(* Mistakes: requeueing whatever names the node, or all its active jobs.   *)
FaultyAssignedOnAny(n) == {j \in Jobs : job[j].node = n}

FaultyAssignedOnActive(n) == ActiveOn(job, n)

AssignedOn(n) == {j \in Jobs : job[j].status = "assigned" /\ job[j].node = n}

QueuedIn(p) == {j \in Jobs : ProjectOf[j] = p /\ job[j].status = "queued"}

ActiveIn(p) == {j \in Jobs : ProjectOf[j] = p /\ job[j].status \in ActiveStatus}

(* activeAllocatedGPUs: the GPUs an active job holds; a whole-node job has  *)
(* no indexes and is charged what it asked for.                            *)
ChargedGpus(j) ==
  IF job[j].gpus # {} THEN Cardinality(job[j].gpus) ELSE GpuCount[j]

(* One pair for each GPU charged to the project.                           *)
GpuUnitsIn(p) == {u \in Jobs \X (1..MaxGpus) :
                    u[1] \in ActiveIn(p) /\ u[2] <= ChargedGpus(u[1])}

(* A limit of zero is no limit.                                            *)
Within(limit, used) == limit = 0 \/ used <= limit

QueueHasRoom(p) ==
  Within(project[p].limit.queued, Cardinality(QueuedIn(p)) + 1)

(* Mistake: the job itself is not counted against the concurrency limit.   *)
FaultyCanSchedule(j) ==
  LET p == ProjectOf[j]
  IN  /\ project[p].known
      /\ project[p].active
      /\ Within(project[p].limit.concurrent, Cardinality(ActiveIn(p)))
      /\ Within(project[p].limit.gpus,
                Cardinality(GpuUnitsIn(p)) + GpuCount[j])

CanSchedule(j) ==
  LET p == ProjectOf[j]
  IN  /\ project[p].known
      /\ project[p].active
      /\ Within(project[p].limit.concurrent, Cardinality(ActiveIn(p)) + 1)
      /\ Within(project[p].limit.gpus,
                Cardinality(GpuUnitsIn(p)) + GpuCount[j])

KnownNodes == {n \in Nodes : node[n].known}

(* The GPUs of the nodes in S, one pair each.                              *)
GpuUnitsOf(S) == {u \in S \X (1..MaxGpus) : u[2] <= node[u[1]].gpus}

(* Nodes in ID order are licensed while both limits last; a node that does *)
(* not fit is skipped and the next one is tried.                           *)
LicensedNodes ==
  IF licence.expired
    THEN {}
    ELSE CHOOSE A \in SUBSET KnownNodes :
           \A n \in KnownNodes :
             LET earlier == {m \in A : m < n}
             IN  n \in A <=>
                   /\ Within(licence.nodes, Cardinality(earlier) + 1)
                   /\ Within(licence.gpus,
                        Cardinality(GpuUnitsOf(earlier)) + node[n].gpus)

(* Mistake: only a new node is checked, not one that reports more GPUs.    *)
FaultyAdmitted(n, g) ==
  LET others == KnownNodes \ {n}
  IN  node[n].known \/
        /\ ~licence.expired
        /\ Within(licence.nodes, Cardinality(others) + 1)
        /\ Within(licence.gpus, Cardinality(GpuUnitsOf(others)) + g)

(* validateAndAdmitNodeLocked for node n reporting g GPUs.                 *)
Admitted(n, g) ==
  LET others == KnownNodes \ {n}
      grows  == ~node[n].known \/ g > node[n].gpus
  IN  /\ grows => ~licence.expired
      /\ ~node[n].known => Within(licence.nodes, Cardinality(others) + 1)
      /\ grows => Within(licence.gpus, Cardinality(GpuUnitsOf(others)) + g)

(* A job without indexes, assigned before scheduling was granular, counts  *)
(* as holding the node's first ones.                                       *)
HeldGpus(j, n) ==
  IF job[j].gpus = {} /\ Granular
    THEN {g \in 0..node[n].gpus - 1 : g < GpuCount[j]}
    ELSE job[j].gpus

(* Mistake: the GPUs of a canceling job count as free before its cleanup.  *)
FaultyUsedGpus(n) ==
  UNION {HeldGpus(j, n) : j \in {i \in ActiveOn(job, n) :
                                   job[i].status # "canceling"}}

UsedGpus(n) == UNION {HeldGpus(j, n) : j \in ActiveOn(job, n)}

(* Mistake: indexes are numbered from one.                                 *)
FaultyFreeGpus(n) == (1..node[n].gpus) \ UsedGpus(n)

FreeGpus(n) == (0..node[n].gpus - 1) \ UsedGpus(n)

(* The c lowest free indexes.                                              *)
AvailableGpus(n, c) ==
  {g \in FreeGpus(n) : Cardinality({h \in FreeGpus(n) : h < g}) < c}

HasCapacity(j, n) ==
  IF Granular /\ GpuCount[j] > 0
    THEN /\ \A i \in ActiveOn(job, n) : GpuCount[i] > 0
         /\ Cardinality(AvailableGpus(n, GpuCount[j])) = GpuCount[j]
    ELSE ~node[n].busy

(* Mistake: the node's cleanup fence is not looked at.                     *)
FaultyEligible(j, n) ==
  /\ node[n].known
  /\ ~node[n].maintenance
  /\ node[n].session # NoSession
  /\ ~node[n].stale
  /\ node[n].healthy
  /\ GpuCount[j] <= node[n].gpus

Eligible(j, n) ==
  /\ node[n].known
  /\ ~node[n].maintenance
  /\ ~node[n].cleanup
  /\ node[n].session # NoSession
  /\ ~node[n].stale
  /\ node[n].healthy
  /\ GpuCount[j] <= node[n].gpus

Placeable(j, n) ==
  /\ job[j].status = "queued"
  /\ CanSchedule(j)
  /\ n \in LicensedNodes
  /\ HasCapacity(j, n)
  /\ Eligible(j, n)

(* validateAgentSessionLocked accepts the request of node n's agent.       *)
SessionValid(n) ==
  /\ node[n].known
  /\ node[n].session # NoSession
  /\ ~node[n].stale

SessionReady(n) == SessionValid(n) /\ ~node[n].cleanup

(* The request carries the session and the token of the current attempt.   *)
HoldsAttempt(j) ==
  /\ job[j].node # NoNode
  /\ SessionReady(job[j].node)
  /\ job[j].session = node[job[j].node].session
  /\ job[j].claim # "none"

MutexFree == cursor = 0

----------------------------------------------------------------------------
(* Steps shared by handlers.                                               *)

(* Mistake: usage is added but never taken back.                           *)
FaultyRefreshed(nodes, jobs, n) ==
  [nodes EXCEPT ![n].busy =
     nodes[n].known /\ (nodes[n].busy \/ ActiveOn(jobs, n) # {})]

(* Mistake: a job counts only from its start, not from its assignment.     *)
FaultyRefreshedLate(nodes, jobs, n) ==
  [nodes EXCEPT ![n].busy =
     nodes[n].known /\ \E j \in ActiveOn(jobs, n) : jobs[j].status # "assigned"]

(* refreshNodeUsageLocked: node n's cached usage in nodes, after jobs.     *)
Refreshed(nodes, jobs, n) ==
  [nodes EXCEPT ![n].busy = nodes[n].known /\ ActiveOn(jobs, n) # {}]

SetJob(j, r) ==
  /\ job' = [job EXCEPT ![j] = r]
  /\ node' = IF job[j].node = NoNode
               THEN node
               ELSE Refreshed(node, [job EXCEPT ![j] = r], job[j].node)

(* requeueAssignedJobsLocked: the jobs in back return to the queue with    *)
(* their attempt refunded, the others find their project's queue full.     *)
(* The code ranges over a map, so which ones come first is open.           *)
Requeued(r) ==
  Unassigned([r EXCEPT !.status = "queued",
                       !.attempts = IF r.attempts > 0 THEN r.attempts - 1 ELSE 0])

QueueFull(r) ==
  Unassigned([r EXCEPT !.status = "failed",
                       !.attempts = IF r.attempts > 0 THEN r.attempts - 1 ELSE 0])

WithRequeued(back, over) ==
  [j \in Jobs |-> CASE j \in back -> Requeued(job[j])
                    [] j \in over -> QueueFull(job[j])
                    [] OTHER      -> job[j]]

FillsQueues(back, over) ==
  \A p \in Projects :
    LET used  == Cardinality(QueuedIn(p))
                   + Cardinality({j \in back : ProjectOf[j] = p})
        limit == project[p].limit.queued
    IN  /\ (\E j \in back : ProjectOf[j] = p) => Within(limit, used)
        /\ (\E j \in over : ProjectOf[j] = p) => ~Within(limit, used + 1)

RequeueAssigned(n, nodes) ==
  \E back \in SUBSET AssignedOn(n) :
    LET over == AssignedOn(n) \ back
        jobs == WithRequeued(back, over)
    IN  /\ FillsQueues(back, over)
        /\ job' = jobs
        /\ node' = Refreshed(nodes, jobs, n)

(* Mistake: a retry enters the queue without asking for room.              *)
FaultyRetryOrFail(j) ==
  SetJob(j, Unassigned([job[j] EXCEPT !.status = "queued", !.mark = "none"]))

(* A job that goes back to the queue, or fails because the queue is full.  *)
RetryOrFail(j) ==
  SetJob(j, IF QueueHasRoom(ProjectOf[j])
              THEN Unassigned([job[j] EXCEPT !.status = "queued",
                                             !.mark = "none"])
              ELSE Finished(job[j], "failed"))

(* Mistake: off by one, a job with its retries used up gets another.       *)
FaultyBudgetLeft(j) == job[j].attempts <= MaxRetries[j] + 1

BudgetLeft(j) == job[j].attempts <= MaxRetries[j]

Ended(j) == runner' = [runner EXCEPT ![j] = NoSession]

----------------------------------------------------------------------------
(* Projects and licence.                                                   *)

CreateProject(p, q, active) ==
  /\ MutexFree
  /\ ~project[p].known
  /\ project' = [project EXCEPT ![p] =
                   [known |-> TRUE, active |-> active, limit |-> q]]
  /\ UNCHANGED <<job, node, licence, cursor, history>>

(* Limits cannot be lowered below current usage.                           *)
UpdateProject(p, q, active) ==
  /\ MutexFree
  /\ project[p].known
  /\ p = DefaultProject => active
  /\ Within(q.queued, Cardinality(QueuedIn(p)))
  /\ Within(q.concurrent, Cardinality(ActiveIn(p)))
  /\ Within(q.gpus, Cardinality(GpuUnitsIn(p)))
  /\ project' = [project EXCEPT ![p].active = active, ![p].limit = q]
  /\ UNCHANGED <<job, node, licence, cursor, history>>

SetLicence(l) ==
  /\ MutexFree
  /\ licence' = l
  /\ UNCHANGED <<job, node, project, cursor, history>>

----------------------------------------------------------------------------
(* Users' operations on jobs.                                              *)

(* A rerun is the creation of a new job with the original's attributes.    *)
CreateJob(j) ==
  LET p == ProjectOf[j]
  IN  /\ MutexFree
      /\ job[j].status = "absent"
      /\ \A i \in 1..j - 1 : job[i].status # "absent"
      /\ project[p].known
      /\ project[p].active
      /\ QueueHasRoom(p)
      /\ Within(project[p].limit.gpus, GpuCount[j])
      /\ job' = [job EXCEPT ![j].status = "queued"]
      /\ UNCHANGED <<node, project, licence, cursor, history>>

CancelJob(j) ==
  /\ MutexFree
  /\ \/ /\ job[j].status \in {"queued", "assigned"}
        /\ SetJob(j, Unassigned([job[j] EXCEPT !.status = "canceled"]))
     \/ /\ job[j].status = "running"
        /\ SetJob(j, [job[j] EXCEPT !.status = "canceling"])
     \/ /\ job[j].status = "canceling"
        /\ SetJob(j, [job[j] EXCEPT !.mark = "none"])
  /\ cancelAsked' = [cancelAsked EXCEPT ![j] = TRUE]
  /\ UNCHANGED <<project, licence, cursor, started, runner>>

BeginJobDeletion(j) ==
  /\ MutexFree
  /\ j \in Deletable
  /\ job[j].status \in TerminalStatus
  /\ job' = [job EXCEPT ![j].status = "deleting"]
  /\ UNCHANGED <<node, project, licence, cursor, history>>

DeleteJob(j) ==
  /\ MutexFree
  /\ j \in Deletable
  /\ job[j].status \in TerminalStatus
  /\ job' = [job EXCEPT ![j] = [AbsentJob EXCEPT !.status = "removed"]]
  /\ UNCHANGED <<node, project, licence, cursor, history>>

----------------------------------------------------------------------------
(* Agents' operations on nodes.                                            *)

(* A new session takes over the work of the node: what was assigned stays  *)
(* assigned, what was running must first be cleaned up by the new session. *)
(* Mistake: the marker that says how the interruption ends is forgotten.   *)
FaultyInterrupted(j, s) ==
  [job[j] EXCEPT !.session = s, !.claim = "none", !.status = "canceling"]

Interrupted(j, s) ==
  [job[j] EXCEPT !.session = s, !.claim = "none", !.status = "canceling",
                 !.mark = IF BudgetLeft(j) THEN "retry" ELSE "cleanup"]

(* Mistakes: only running jobs change hands; the interrupted attempt keeps *)
(* its token; a job the user is canceling gets a recovery marker as well.  *)
FaultyRecoveredOwner(j, s) ==
  IF job[j].status = "running" THEN Interrupted(j, s) ELSE job[j]

FaultyRecoveredToken(j, s) ==
  IF job[j].status = "running"
    THEN [Interrupted(j, s) EXCEPT !.claim = job[j].claim]
    ELSE [job[j] EXCEPT !.session = s]

FaultyRecoveredCancel(j, s) ==
  IF job[j].status # "assigned"
    THEN Interrupted(j, s)
    ELSE [job[j] EXCEPT !.session = s, !.claim = "none"]

Recovered(j, s) ==
  IF job[j].status = "running"
    THEN Interrupted(j, s)
    ELSE [job[j] EXCEPT !.session = s, !.claim = "none"]

(* A DEGRADED agent that reports no GPU keeps the inventory known so far.  *)
RegisteredGpus(n, healthy, g) ==
  IF NodeHealth /\ node[n].known /\ ~healthy /\ g = 0 THEN node[n].gpus ELSE g

RegisterNode(n, s, healthy, g) ==
  LET takeover == node[n].known /\ node[n].session # s
      jobs == [j \in Jobs |-> IF takeover /\ j \in ActiveOn(job, n)
                                THEN Recovered(j, s) ELSE job[j]]
      gpus == RegisteredGpus(n, healthy, g)
  IN  /\ MutexFree
      /\ ~(takeover /\ node[n].session # NoSession /\ ~node[n].stale)
      /\ Admitted(n, gpus)
      /\ job' = jobs
      /\ node' = Refreshed(
                   [node EXCEPT ![n] =
                      [known |-> TRUE, session |-> s, cleanup |-> TRUE,
                       stale |-> FALSE, healthy |-> healthy,
                       maintenance |-> node[n].maintenance,
                       gpus |-> gpus, busy |-> FALSE]], jobs, n)
      /\ UNCHANGED <<project, licence, cursor, history>>

ConfirmCleanup(n) ==
  /\ MutexFree
  /\ SessionValid(n)
  /\ node[n].cleanup
  /\ node' = [node EXCEPT ![n].cleanup = FALSE]
  /\ UNCHANGED <<job, project, licence, cursor, history>>

Fenced(n) == [node[n] EXCEPT !.session = NoSession, !.cleanup = TRUE]

(* Any request of an agent whose session missed its heartbeat deadline is  *)
(* refused, and the refusal fences the node.                               *)
FenceExpiredSession(n) ==
  /\ MutexFree
  /\ node[n].known
  /\ node[n].session # NoSession
  /\ node[n].stale
  /\ node' = [node EXCEPT ![n] = Fenced(n)]
  /\ UNCHANGED <<job, project, licence, cursor, history>>

(* hostChanged: some other capacity in the report differs.                 *)
UpdateNodeHealth(n, healthy, g, hostChanged) ==
  LET gpus    == IF healthy THEN g ELSE node[n].gpus
      updated == [node EXCEPT ![n].healthy = healthy, ![n].gpus = gpus]
  IN  /\ MutexFree
      /\ SessionReady(n)
      /\ healthy => Admitted(n, g)
      /\ IF ~healthy \/ gpus # node[n].gpus \/ hostChanged
           THEN RequeueAssigned(n, updated)
           ELSE /\ node' = Refreshed(updated, job, n)
                /\ UNCHANGED job
      /\ UNCHANGED <<project, licence, cursor, history>>

SetNodeMaintenance(n, enabled) ==
  /\ MutexFree
  /\ n \in Drainable
  /\ node[n].known
  /\ node' = [node EXCEPT ![n].maintenance = enabled]
  /\ UNCHANGED <<job, project, licence, cursor, history>>

DeleteNode(n) ==
  /\ MutexFree
  /\ node[n].known
  /\ ~node[n].busy
  /\ ~node[n].cleanup
  /\ ActiveOn(job, n) = {}
  /\ node' = [node EXCEPT ![n] = UnknownNode]
  /\ UNCHANGED <<job, project, licence, cursor, history>>

----------------------------------------------------------------------------
(* The FIFO scheduling pass.  It holds the mutex from Schedule to          *)
(* ScheduleEnd and considers the jobs in the order of their creation.      *)

(* A pass that neither fences nor assigns leaves the store as it was.      *)
Schedule ==
  LET offline == {n \in KnownNodes : /\ node[n].stale
                                     /\ ActiveOn(job, n) # {}
                                     /\ \/ node[n].session # NoSession
                                        \/ ~node[n].cleanup}
  IN  /\ MutexFree
      /\ \/ offline # {}
         \/ \E j \in Jobs, n \in Nodes : Placeable(j, n)
      /\ node' = [n \in Nodes |-> IF n \in offline THEN Fenced(n) ELSE node[n]]
      /\ cursor' = 1
      /\ UNCHANGED <<job, project, licence, history>>

(* Mistake: the walk stops at the first queued job that cannot be placed.  *)
FaultyPlaceableLater(j) ==
  /\ j >= cursor
  /\ \E n \in Nodes : Placeable(j, n)
  /\ \A i \in Jobs : cursor <= i /\ i < j => job[i].status # "queued"

PlaceableLater(j) ==
  j >= cursor /\ \E n \in Nodes : Placeable(j, n)

Assigned(r, j, n) ==
  [r EXCEPT !.status = "assigned", !.node = n, !.session = node[n].session,
            !.claim = "none", !.attempts = r.attempts + 1,
            !.gpus = IF Granular THEN AvailableGpus(n, GpuCount[j]) ELSE {}]

(* assignJobLocked for the next job in order that can be placed.  Which of *)
(* the capable nodes is best depends on price and memory: any of them.     *)
ScheduleAssign(j, n) ==
  /\ ~MutexFree
  /\ j >= cursor
  /\ Placeable(j, n)
  /\ \A i \in Jobs : i < j => ~PlaceableLater(i)
  /\ job' = [job EXCEPT ![j] = Assigned(job[j], j, n)]
  /\ node' = Refreshed(node, job', n)
  /\ cursor' = j + 1
  /\ UNCHANGED <<project, licence, history>>

ScheduleEnd ==
  /\ ~MutexFree
  /\ \A j \in Jobs : ~PlaceableLater(j)
  /\ cursor' = 0
  /\ UNCHANGED <<job, node, project, licence, history>>

----------------------------------------------------------------------------
(* Agents' operations on jobs.                                             *)

(* Work of the given status that the node's session may claim.             *)
Dispatchable(n, status) ==
  {j \in Jobs : /\ job[j].status = status
                /\ job[j].node = n
                /\ job[j].session = node[n].session
                /\ job[j].claim \in {"none", "expired"}}

ClaimOldest(S) ==
  /\ \E j \in S : /\ \A i \in S : j <= i
                  /\ job' = [job EXCEPT ![j].claim = "live"]
  /\ UNCHANGED node

Startable(n) == n \in LicensedNodes /\ node[n].healthy

(* Cleanup work is handed out first, and on any ready node; new work only  *)
(* on a licensed and healthy one.                                          *)
NextJob(n) ==
  LET cleanups == Dispatchable(n, "canceling")
      starts   == Dispatchable(n, "assigned")
  IN  /\ MutexFree
      /\ SessionReady(n)
      /\ \/ cleanups # {} /\ ClaimOldest(cleanups)
         \/ cleanups = {} /\ ~Startable(n) /\ RequeueAssigned(n, node)
         \/ cleanups = {} /\ Startable(n) /\ starts # {} /\ ClaimOldest(starts)
      /\ UNCHANGED <<project, licence, cursor, history>>

ReportRunning(j) ==
  LET n == job[j].node
  IN  /\ MutexFree
      /\ HoldsAttempt(j)
      /\ job[j].status = "assigned"
      /\ IF Startable(n)
           THEN /\ SetJob(j, [job[j] EXCEPT !.status = "running",
                                            !.claim = "held"])
                /\ started' = [started EXCEPT ![j] = started[j] + 1]
                /\ runner' = [runner EXCEPT ![j] = job[j].session]
           ELSE /\ RequeueAssigned(n, node)
                /\ UNCHANGED <<started, runner>>
      /\ UNCHANGED <<project, licence, cursor, cancelAsked>>

ReportSucceeded(j) ==
  /\ MutexFree
  /\ HoldsAttempt(j)
  /\ job[j].status = "running"
  /\ SetJob(j, Finished(job[j], "succeeded"))
  /\ Ended(j)
  /\ UNCHANGED <<project, licence, cursor, started, cancelAsked>>

ReportFailed(j, retryable) ==
  /\ MutexFree
  /\ HoldsAttempt(j)
  /\ job[j].status = "running"
  /\ IF BudgetLeft(j) /\ retryable
       THEN RetryOrFail(j)
       ELSE SetJob(j, Finished(job[j], "failed"))
  /\ Ended(j)
  /\ UNCHANGED <<project, licence, cursor, started, cancelAsked>>

ReportCanceled(j) ==
  /\ MutexFree
  /\ HoldsAttempt(j)
  /\ job[j].status = "canceling"
  /\ CASE job[j].mark = "retry"   -> RetryOrFail(j)
       [] job[j].mark = "cleanup" -> SetJob(j, Finished(job[j], "failed"))
       [] job[j].mark = "none"    -> SetJob(j, Finished(job[j], "canceled"))
  /\ Ended(j)
  /\ UNCHANGED <<project, licence, cursor, started, cancelAsked>>

----------------------------------------------------------------------------
(* The passing of time.  A heartbeat only postpones HeartbeatLapses.       *)

HeartbeatLapses(n) ==
  /\ MutexFree
  /\ node[n].known
  /\ node' = [node EXCEPT ![n].stale = TRUE]
  /\ UNCHANGED <<job, project, licence, cursor, history>>

(* Without the feature a node that registered stays healthy.               *)
HealthReportLapses(n) ==
  /\ MutexFree
  /\ NodeHealth
  /\ node[n].known
  /\ node' = [node EXCEPT ![n].healthy = FALSE]
  /\ UNCHANGED <<job, project, licence, cursor, history>>

LeaseExpires(j) ==
  /\ MutexFree
  /\ job[j].claim = "live"
  /\ job' = [job EXCEPT ![j].claim = "expired"]
  /\ UNCHANGED <<node, project, licence, cursor, history>>

----------------------------------------------------------------------------
Init ==
  /\ job = [j \in Jobs |-> AbsentJob]
  /\ node = [n \in Nodes |-> UnknownNode]
  /\ project = [p \in Projects |-> [known |-> p = DefaultProject,
                                    active |-> TRUE, limit |-> Unlimited]]
  /\ licence \in Licences
  /\ cursor = 0
  /\ started = [j \in Jobs |-> 0]
  /\ cancelAsked = [j \in Jobs |-> FALSE]
  /\ runner = [j \in Jobs |-> NoSession]

Administration ==
  \/ \E p \in Projects, q \in Quotas, active \in BOOLEAN :
       \/ CreateProject(p, q, active)
       \/ UpdateProject(p, q, active)
  \/ \E l \in Licences : SetLicence(l)
  \/ \E n \in Nodes, enabled \in BOOLEAN : SetNodeMaintenance(n, enabled)
  \/ \E n \in Nodes : DeleteNode(n)

UserOperation ==
  \E j \in Jobs : \/ CreateJob(j)
                  \/ CancelJob(j)
                  \/ BeginJobDeletion(j)
                  \/ DeleteJob(j)

(* Without the feature agents register without a health status, which the  *)
(* store takes for HEALTHY, and send no health reports.                    *)
RegisteredHealth == IF NodeHealth THEN BOOLEAN ELSE {TRUE}

ReportedHealth == IF NodeHealth THEN BOOLEAN ELSE {}

AgentNodeOperation ==
  \E n \in Nodes :
    \/ \E s \in Sessions, healthy \in RegisteredHealth, g \in Inventories :
         RegisterNode(n, s, healthy, g)
    \/ ConfirmCleanup(n)
    \/ FenceExpiredSession(n)
    \/ \E healthy \in ReportedHealth, g \in Inventories, hostChanged \in BOOLEAN :
         UpdateNodeHealth(n, healthy, g, hostChanged)

AgentJobOperation ==
  \/ \E n \in Nodes : NextJob(n)
  \/ \E j \in Jobs : \/ ReportRunning(j)
                     \/ ReportSucceeded(j)
                     \/ \E retryable \in BOOLEAN : ReportFailed(j, retryable)
                     \/ ReportCanceled(j)

SchedulingPass ==
  \/ Schedule
  \/ \E j \in Jobs, n \in Nodes : ScheduleAssign(j, n)
  \/ ScheduleEnd

Time ==
  \/ \E n \in Nodes : HeartbeatLapses(n) \/ HealthReportLapses(n)
  \/ \E j \in Jobs : LeaseExpires(j)

Next ==
  \/ Administration
  \/ UserOperation
  \/ AgentNodeOperation
  \/ AgentJobOperation
  \/ SchedulingPass
  \/ Time

Spec == Init /\ [][Next]_vars

----------------------------------------------------------------------------
(* Properties.                                                             *)

(* Every record has the fields and ranges of internal/model/types.go.      *)
TypeOK ==
  /\ job \in [Jobs -> JobRecord]
  /\ node \in [Nodes -> NodeRecord]
  /\ project \in [Projects -> ProjectRecord]
  /\ licence \in LicenceRecord
  /\ cursor \in 0..NumJobs + 1
  /\ started \in [Jobs -> Nat]
  /\ cancelAsked \in [Jobs -> BOOLEAN]
  /\ runner \in [Jobs -> Sessions \cup {NoSession}]

(* A project's queue never exceeds its limit, whichever way a job enters   *)
(* it: creation, retry after a failure, requeue of unstarted work, recovery *)
(* after a takeover, or a limit that is lowered.                           *)
QueueQuota ==
  \A p \in Projects :
    Within(project[p].limit.queued, Cardinality(QueuedIn(p)))

(* Nor do its concurrent jobs or the GPUs they hold, although one pass     *)
(* assigns several jobs and limits change between passes.                  *)
ActiveQuota ==
  \A p \in Projects :
    /\ Within(project[p].limit.concurrent, Cardinality(ActiveIn(p)))
    /\ Within(project[p].limit.gpus, Cardinality(GpuUnitsIn(p)))

(* Two jobs hold one node together only under granular scheduling, each on *)
(* the number of GPUs it asked for and never on the same one, whatever     *)
(* inventory the node has reported since; a CPU-only job has its node for  *)
(* itself.                                                                 *)
ExclusiveUse ==
  \A n \in Nodes : \A i, j \in ActiveOn(job, n) :
    /\ Granular => Cardinality(job[i].gpus) = GpuCount[i]
    /\ i # j => /\ Granular
                /\ GpuCount[i] > 0
                /\ job[i].gpus \cap job[j].gpus = {}

(* An active job is on a node that exists and belongs to that node's       *)
(* session; only a fence takes the session away, and then the node accepts *)
(* no work before it has been cleaned up.                                  *)
OwnedOrFenced ==
  \A j \in Jobs : job[j].status \in ActiveStatus =>
    /\ job[j].node \in Nodes
    /\ node[job[j].node].known
    /\ \/ node[job[j].node].session = job[j].session
       \/ /\ node[job[j].node].session = NoSession
          /\ node[job[j].node].cleanup

(* A token without a lease is never dispatched again, so it must belong to *)
(* the session that started the attempt: a token that survived a takeover  *)
(* would leave its job CANCELING for ever.                                 *)
HeldByRunner ==
  \A j \in Jobs :
    /\ job[j].status = "running" => job[j].claim = "held"
    /\ job[j].claim = "held" => /\ job[j].status \in {"running", "canceling"}
                                /\ job[j].session = runner[j]

(* A job is started at most MaxRetries + 1 times: attempts that never      *)
(* started are refunded, interrupted ones are not, and nothing enters the  *)
(* queue with its budget spent.                                            *)
AttemptBudget ==
  \A j \in Jobs :
    /\ started[j] <= MaxRetries[j] + 1
    /\ job[j].status = "queued" => /\ job[j].attempts = started[j]
                                   /\ job[j].attempts <= MaxRetries[j]
    /\ job[j].status = "assigned" => job[j].attempts = started[j] + 1
    /\ job[j].status \in {"running", "canceling"} =>
         job[j].attempts = started[j]

(* Once a user's cancellation was accepted the job only ever ends canceled: *)
(* no takeover, recovery marker or report brings it back to the queue.     *)
CancelHonoured ==
  \A j \in Jobs : cancelAsked[j] =>
    \/ job[j].status \in {"canceled", "deleting", "removed"}
    \/ job[j].status = "canceling" /\ job[j].mark = "none"

(* The cached Busy flag that placement and node deletion rely on agrees    *)
(* with the jobs after every operation that moves one.                     *)
UsageCoherent ==
  \A n \in Nodes : node[n].busy <=> ActiveOn(job, n) # {}

(* The report of the end of j by the holder of its current attempt, under  *)
(* the node's current, live and cleaned session.                           *)
ReportsEnd(j) ==
  /\ HoldsAttempt(j)
  /\ \/ ReportSucceeded(j)
     \/ \E retryable \in BOOLEAN : ReportFailed(j, retryable)
     \/ ReportCanceled(j)

(* Nothing but that report takes a started job's node and GPUs away: no    *)
(* health or licence change, smaller inventory, takeover, offline node,    *)
(* report of another job or step of a user.                                *)
HoldsUntilReported ==
  [][\A j \in Jobs :
       job[j].status \in {"running", "canceling"} =>
         \/ ReportsEnd(j)
         \/ /\ job'[j].status \in {"running", "canceling"}
            /\ job'[j].node = job[j].node
            /\ job'[j].gpus = job[j].gpus]_vars

(* Between a fence or takeover and the cleanup confirmation no job is      *)
(* assigned to the node and none starts on it.                             *)
CleanupGate ==
  [][\A n \in Nodes, j \in Jobs :
       /\ node[n].cleanup
       /\ job'[j].node = n
       /\ job'[j].status \in {"assigned", "running"}
       => job'[j].status = job[j].status /\ job[j].node = n]_vars

(* A finished job never becomes runnable or active again; it can only be   *)
(* deleted.                                                                *)
FinishedStaysFinished ==
  [][\A j \in Jobs : job[j].status \in TerminalStatus =>
       job'[j].status \in {job[j].status, "deleting", "removed"}]_vars

(* One walk over the queue is enough: when the pass ends, no queued job    *)
(* could still be placed, not even one it passed over early.               *)
WorkConserving ==
  [][cursor # 0 /\ cursor' = 0 =>
       \A j \in Jobs, n \in Nodes : ~Placeable(j, n)]_vars

(* Registered capacity grows only within the licence in force, whatever    *)
(* order registrations, health reports, deletions and renewals come in.    *)
GrowthLicensed ==
  [][/\ Cardinality(GpuUnitsOf(KnownNodes)') > Cardinality(GpuUnitsOf(KnownNodes))
        => /\ ~licence.expired
           /\ Within(licence.gpus, Cardinality(GpuUnitsOf(KnownNodes)'))
     /\ Cardinality(KnownNodes') > Cardinality(KnownNodes)
        => /\ ~licence.expired
           /\ Within(licence.nodes, Cardinality(KnownNodes'))]_vars

(* Each job lives the life JobLifecycle describes: whatever the order of   *)
(* requeues, takeovers, recovery markers and cancellations, a run ends as  *)
(* that specification says and no run begins without budget.               *)
Life == [j \in Jobs |-> [status |-> job[j].status, runs |-> started[j],
                         owned |-> job[j].claim = "held",
                         canceled |-> cancelAsked[j]]]

Lifecycle == INSTANCE JobLifecycle WITH life <- Life

ImplementsLifecycle == Lifecycle!Spec
=============================================================================
