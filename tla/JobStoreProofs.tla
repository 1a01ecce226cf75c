---------------------------- MODULE JobStoreProofs ----------------------------
(* Proofs about JobStore for every number of jobs, nodes and GPUs.         *)
EXTENDS JobStore, FiniteSetTheorems, TLAPS

----------------------------------------------------------------------------
(* Records that handlers write are records.                                *)

LEMMA JobFieldTypes ==
  ASSUME NEW r \in JobRecord
  PROVE  /\ Unassigned(r) \in JobRecord
         /\ Requeued(r) \in JobRecord
         /\ QueueFull(r) \in JobRecord
         /\ \A s \in JobStatus : /\ Finished(r, s) \in JobRecord
                                 /\ [r EXCEPT !.status = s] \in JobRecord
<1>1. /\ NoNode \in Nodes \cup {NoNode}
      /\ NoSession \in Sessions \cup {NoSession}
      /\ "none" \in Claim /\ "none" \in Marker
      /\ {} \in SUBSET (0..MaxGpus - 1)
  BY DEF Claim, Marker
<1>2. ASSUME NEW q \in JobRecord PROVE Unassigned(q) \in JobRecord
  BY <1>1, <1>2 DEF JobRecord, Unassigned
<1>3. ASSUME NEW s \in JobStatus, NEW a \in Nat
      PROVE  /\ [r EXCEPT !.status = s] \in JobRecord
             /\ [r EXCEPT !.status = s, !.attempts = a] \in JobRecord
             /\ Finished(r, s) \in JobRecord
  BY <1>1, <1>3 DEF JobRecord, Finished
<1>4. (IF r.attempts > 0 THEN r.attempts - 1 ELSE 0) \in Nat
  BY DEF JobRecord
<1>5. "queued" \in JobStatus /\ "failed" \in JobStatus
  BY DEF JobStatus, TerminalStatus
<1>6. Requeued(r) \in JobRecord /\ QueueFull(r) \in JobRecord
  BY <1>2, <1>3, <1>4, <1>5 DEF Requeued, QueueFull
<1> QED BY <1>2, <1>3, <1>6

LEMMA NodeFlagTypes ==
  ASSUME NEW r \in NodeRecord
  PROVE  /\ [r EXCEPT !.cleanup = FALSE] \in NodeRecord
         /\ [r EXCEPT !.stale = TRUE] \in NodeRecord
         /\ [r EXCEPT !.healthy = FALSE] \in NodeRecord
BY DEF NodeRecord

LEMMA NodeHealthType ==
  ASSUME NEW r \in NodeRecord, NEW b \in BOOLEAN, NEW g \in 0..MaxGpus
  PROVE  [r EXCEPT !.healthy = b, !.gpus = g] \in NodeRecord
BY DEF NodeRecord

LEMMA RefreshedType ==
  ASSUME NEW nodes \in [Nodes -> NodeRecord], NEW jobs, NEW n \in Nodes
  PROVE  Refreshed(nodes, jobs, n) \in [Nodes -> NodeRecord]
BY ZenonT(60) DEF Refreshed, NodeRecord

LEMMA SetJobType ==
  ASSUME TypeOK, NEW j \in Jobs, NEW r \in JobRecord, SetJob(j, r)
  PROVE  job' \in [Jobs -> JobRecord] /\ node' \in [Nodes -> NodeRecord]
<1>1. job' \in [Jobs -> JobRecord]
  BY DEF SetJob, TypeOK
<1>2. job[j].node \in Nodes \cup {NoNode}
  BY DEF TypeOK, JobRecord
<1>3. node' \in [Nodes -> NodeRecord]
  BY <1>2, RefreshedType DEF SetJob, TypeOK
<1> QED BY <1>1, <1>3

LEMMA RequeueAssignedType ==
  ASSUME TypeOK, NEW n \in Nodes, NEW nodes \in [Nodes -> NodeRecord],
         RequeueAssigned(n, nodes)
  PROVE  job' \in [Jobs -> JobRecord] /\ node' \in [Nodes -> NodeRecord]
<1>1. PICK back \in SUBSET AssignedOn(n) :
        /\ job' = WithRequeued(back, AssignedOn(n) \ back)
        /\ node' = Refreshed(nodes, job', n)
  BY DEF RequeueAssigned
<1>2. \A j \in Jobs : /\ job[j] \in JobRecord
                      /\ Requeued(job[j]) \in JobRecord
                      /\ QueueFull(job[j]) \in JobRecord
  BY JobFieldTypes DEF TypeOK
<1>3. job' \in [Jobs -> JobRecord]
  BY <1>1, <1>2 DEF WithRequeued
<1>4. node' \in [Nodes -> NodeRecord]
  BY <1>1, RefreshedType
<1> QED BY <1>3, <1>4

LEMMA AvailableGpusType ==
  ASSUME TypeOK, NEW n \in Nodes, NEW c
  PROVE  AvailableGpus(n, c) \in SUBSET (0..MaxGpus - 1)
BY SizesAssumption DEF TypeOK, NodeRecord, AvailableGpus, FreeGpus

LEMMA ClaimType ==
  ASSUME TypeOK, NEW j \in Jobs, NEW c \in Claim
  PROVE  [job EXCEPT ![j].claim = c] \in [Jobs -> JobRecord]
<1>1. [job[j] EXCEPT !.claim = c] \in JobRecord
  BY DEF TypeOK, JobRecord
<1> QED BY <1>1 DEF TypeOK

LEMMA RetryOrFailType ==
  ASSUME TypeOK, NEW j \in Jobs, RetryOrFail(j)
  PROVE  job' \in [Jobs -> JobRecord] /\ node' \in [Nodes -> NodeRecord]
<1>1. job[j] \in JobRecord /\ "queued" \in JobStatus /\ "failed" \in JobStatus
  BY DEF TypeOK, JobStatus, TerminalStatus
<1>2. [job[j] EXCEPT !.status = "queued", !.mark = "none"] \in JobRecord
  BY <1>1 DEF JobRecord, Marker
<1>3. /\ Unassigned([job[j] EXCEPT !.status = "queued", !.mark = "none"])
           \in JobRecord
      /\ Finished(job[j], "failed") \in JobRecord
  BY <1>1, <1>2, JobFieldTypes
<1> QED BY <1>3, SetJobType DEF RetryOrFail

LEMMA RecoveredType ==
  ASSUME TypeOK, NEW j \in Jobs, NEW s \in Sessions
  PROVE  Recovered(j, s) \in JobRecord
<1>1. job[j] \in JobRecord
  BY DEF TypeOK
<1>2. /\ "canceling" \in JobStatus /\ "none" \in Claim
      /\ (IF BudgetLeft(j) THEN "retry" ELSE "cleanup") \in Marker
  BY DEF JobStatus, ActiveStatus, Claim, Marker
<1>3. Interrupted(j, s) \in JobRecord
  BY <1>1, <1>2 DEF Interrupted, JobRecord
<1>4. [job[j] EXCEPT !.session = s, !.claim = "none"] \in JobRecord
  BY <1>1, <1>2 DEF JobRecord
<1> QED BY <1>3, <1>4 DEF Recovered

LEMMA AssignedType ==
  ASSUME TypeOK, NEW j \in Jobs, NEW n \in Nodes
  PROVE  Assigned(job[j], j, n) \in JobRecord
<1>1. AvailableGpus(n, GpuCount[j]) \in SUBSET (0..MaxGpus - 1)
  BY AvailableGpusType
<1>2. /\ node[n].session \in Sessions \cup {NoSession}
      /\ job[j] \in JobRecord
      /\ job[j].attempts + 1 \in Nat
  BY DEF TypeOK, NodeRecord, JobRecord
<1>3. "assigned" \in JobStatus /\ "none" \in Claim
  BY DEF JobStatus, ActiveStatus, Claim
<1> QED BY <1>1, <1>2, <1>3 DEF Assigned, JobRecord

LEMMA FencedType ==
  ASSUME TypeOK, NEW n \in Nodes
  PROVE  Fenced(n) \in NodeRecord
BY ZenonT(60) DEF TypeOK, Fenced, NodeRecord

LEMMA InitType == Init => TypeOK
<1> SUFFICES ASSUME Init PROVE TypeOK
  OBVIOUS
<1>1. AbsentJob \in JobRecord
  BY DEF AbsentJob, JobRecord, JobStatus, Claim, Marker
<1>2. UnknownNode \in NodeRecord
  BY SizesAssumption DEF UnknownNode, NodeRecord
<1>3. \A p \in Projects : [known |-> p = DefaultProject, active |-> TRUE,
                           limit |-> Unlimited] \in ProjectRecord
  BY DEF ProjectRecord, QuotaRecord, Unlimited
<1>4. licence \in LicenceRecord
  BY PolicyAssumption DEF Init
<1>5. cursor \in 0..NumJobs + 1
  BY SizesAssumption DEF Init
<1> QED BY <1>1, <1>2, <1>3, <1>4, <1>5 DEF Init, TypeOK

(* Every step keeps TypeOK: first the job and node records, action by      *)
(* action, then the other variables.                                       *)
LEMMA AdministrationType ==
  ASSUME TypeOK, Administration
  PROVE  TypeOK'
<1>1. ASSUME NEW p \in Projects, NEW q \in Quotas, NEW active \in BOOLEAN,
             CreateProject(p, q, active) \/ UpdateProject(p, q, active)
      PROVE  TypeOK'
  <2>1. q \in QuotaRecord
    BY PolicyAssumption
  <2>2. project' \in [Projects -> ProjectRecord]
    <3>1. [known |-> TRUE, active |-> active, limit |-> q] \in ProjectRecord
      BY <2>1 DEF ProjectRecord
    <3>2. [project[p] EXCEPT !.active = active, !.limit = q] \in ProjectRecord
      BY <2>1 DEF TypeOK, ProjectRecord
    <3> QED BY <1>1, <3>1, <3>2 DEF TypeOK, CreateProject, UpdateProject
  <2> QED BY <1>1, <2>2 DEF TypeOK, CreateProject, UpdateProject, history
<1>2. ASSUME NEW l \in Licences, SetLicence(l)
      PROVE  TypeOK'
  BY <1>2, PolicyAssumption DEF TypeOK, SetLicence, history
<1>3. ASSUME NEW n \in Nodes, NEW enabled \in BOOLEAN,
             SetNodeMaintenance(n, enabled)
      PROVE  TypeOK'
  <2>1. node' \in [Nodes -> NodeRecord]
    BY <1>3 DEF TypeOK, NodeRecord, SetNodeMaintenance
  <2> QED BY <1>3, <2>1 DEF TypeOK, SetNodeMaintenance, history
<1>4. ASSUME NEW n \in Nodes, DeleteNode(n)
      PROVE  TypeOK'
  <2>1. UnknownNode \in NodeRecord
    BY SizesAssumption DEF UnknownNode, NodeRecord
  <2> QED BY <1>4, <2>1 DEF TypeOK, DeleteNode, history
<1> QED BY <1>1, <1>2, <1>3, <1>4 DEF Administration

LEMMA UserOperationType ==
  ASSUME TypeOK, UserOperation
  PROVE  TypeOK'
<1>0. \A j \in Jobs : job[j] \in JobRecord
  BY DEF TypeOK
<1>1. ASSUME NEW j \in Jobs, CreateJob(j) \/ BeginJobDeletion(j) \/ DeleteJob(j)
      PROVE  TypeOK'
  <2>1. AbsentJob \in JobRecord
    BY DEF AbsentJob, JobRecord, JobStatus, Claim, Marker
  <2>2. /\ "queued" \in JobStatus /\ "deleting" \in JobStatus
        /\ "removed" \in JobStatus
    BY DEF JobStatus, TerminalStatus
  <2>3. /\ [job[j] EXCEPT !.status = "queued"] \in JobRecord
        /\ [job[j] EXCEPT !.status = "deleting"] \in JobRecord
        /\ [AbsentJob EXCEPT !.status = "removed"] \in JobRecord
    BY <1>0, <2>1, <2>2, JobFieldTypes
  <2>4. job' \in [Jobs -> JobRecord]
    BY <1>1, <2>3 DEF TypeOK, CreateJob, BeginJobDeletion, DeleteJob
  <2> QED BY <1>1, <2>4 DEF TypeOK, CreateJob, BeginJobDeletion, DeleteJob, history
<1>2. ASSUME NEW j \in Jobs, CancelJob(j)
      PROVE  TypeOK'
  <2>1. "canceled" \in JobStatus /\ "canceling" \in JobStatus
    BY DEF JobStatus, TerminalStatus, ActiveStatus
  <2>2. /\ Unassigned([job[j] EXCEPT !.status = "canceled"]) \in JobRecord
        /\ [job[j] EXCEPT !.status = "canceling"] \in JobRecord
    BY <1>0, <2>1, JobFieldTypes
  <2>3. [job[j] EXCEPT !.mark = "none"] \in JobRecord
    BY <1>0 DEF JobRecord, Marker
  <2>4. job' \in [Jobs -> JobRecord] /\ node' \in [Nodes -> NodeRecord]
    BY <1>2, <2>2, <2>3, SetJobType DEF CancelJob
  <2> QED BY <1>2, <2>4 DEF TypeOK, CancelJob
<1> QED BY <1>1, <1>2 DEF UserOperation

LEMMA AgentNodeOperationType ==
  ASSUME TypeOK, AgentNodeOperation
  PROVE  TypeOK'
<1>1. ASSUME NEW n \in Nodes, NEW s \in Sessions, NEW healthy \in BOOLEAN,
             NEW g \in Inventories, RegisterNode(n, s, healthy, g)
      PROVE  TypeOK'
  <2>1. RegisteredGpus(n, healthy, g) \in 0..MaxGpus
    BY SizesAssumption DEF RegisteredGpus, TypeOK, NodeRecord
  <2>2. job' \in [Jobs -> JobRecord]
    BY <1>1, RecoveredType DEF RegisterNode, TypeOK
  <2>3. [node EXCEPT ![n] =
           [known |-> TRUE, session |-> s, cleanup |-> TRUE,
            stale |-> FALSE, healthy |-> healthy,
            maintenance |-> node[n].maintenance,
            gpus |-> RegisteredGpus(n, healthy, g), busy |-> FALSE]]
          \in [Nodes -> NodeRecord]
    BY <2>1 DEF TypeOK, NodeRecord
  <2>4. node' \in [Nodes -> NodeRecord]
    BY <1>1, <2>3, RefreshedType DEF RegisterNode
  <2> QED BY <1>1, <2>2, <2>4 DEF RegisterNode, TypeOK, history
<1>2. ASSUME NEW n \in Nodes, ConfirmCleanup(n) \/ FenceExpiredSession(n)
      PROVE  TypeOK'
  <2>1. node' \in [Nodes -> NodeRecord]
    <3>1. [node[n] EXCEPT !.cleanup = FALSE] \in NodeRecord
      BY NodeFlagTypes DEF TypeOK
    <3> QED BY <1>2, <3>1, FencedType DEF TypeOK, ConfirmCleanup, FenceExpiredSession
  <2> QED BY <1>2, <2>1 DEF TypeOK, ConfirmCleanup, FenceExpiredSession, history
<1>3. ASSUME NEW n \in Nodes, NEW healthy \in BOOLEAN, NEW g \in Inventories,
             NEW hostChanged \in BOOLEAN,
             UpdateNodeHealth(n, healthy, g, hostChanged)
      PROVE  TypeOK'
  <2> DEFINE gpus == IF healthy THEN g ELSE node[n].gpus
             updated == [node EXCEPT ![n].healthy = healthy, ![n].gpus = gpus]
  <2>1. gpus \in 0..MaxGpus
    BY SizesAssumption DEF TypeOK, NodeRecord
  <2>2. updated \in [Nodes -> NodeRecord]
    <3>1. [node[n] EXCEPT !.healthy = healthy, !.gpus = gpus] \in NodeRecord
      BY <2>1, NodeHealthType DEF TypeOK
    <3> QED BY <3>1 DEF TypeOK
  <2> HIDE DEF updated
  <2>3. \/ RequeueAssigned(n, updated)
        \/ node' = Refreshed(updated, job, n) /\ UNCHANGED job
    BY <1>3 DEF UpdateNodeHealth, updated
  <2>4. job' \in [Jobs -> JobRecord] /\ node' \in [Nodes -> NodeRecord]
    BY <2>2, <2>3, RequeueAssignedType, RefreshedType DEF TypeOK
  <2> QED BY <1>3, <2>4 DEF TypeOK, UpdateNodeHealth, history
<1> QED
  BY <1>1, <1>2, <1>3 DEF AgentNodeOperation, RegisteredHealth, ReportedHealth

LEMMA AgentJobOperationType ==
  ASSUME TypeOK, AgentJobOperation
  PROVE  TypeOK'
<1>0. \A j \in Jobs : /\ job[j] \in JobRecord
                      /\ job[j].node # NoNode => job[j].node \in Nodes
  BY DEF TypeOK, JobRecord
<1>1. ASSUME NEW n \in Nodes, NextJob(n)
      PROVE  TypeOK'
  <2>1. ASSUME NEW S \in SUBSET Jobs, ClaimOldest(S)
        PROVE  job' \in [Jobs -> JobRecord] /\ node' \in [Nodes -> NodeRecord]
    <3>1. PICK j \in S : job' = [job EXCEPT ![j].claim = "live"]
      BY <2>1 DEF ClaimOldest
    <3>2. "live" \in Claim
      BY DEF Claim
    <3>3. job' \in [Jobs -> JobRecord]
      BY <3>1, <3>2, ClaimType
    <3> QED BY <2>1, <3>3 DEF ClaimOldest, TypeOK
  <2>2. \A status : Dispatchable(n, status) \in SUBSET Jobs
    BY DEF Dispatchable
  <2>3. job' \in [Jobs -> JobRecord] /\ node' \in [Nodes -> NodeRecord]
    BY <1>1, <2>1, <2>2, RequeueAssignedType DEF NextJob, TypeOK
  <2> QED BY <1>1, <2>3 DEF TypeOK, NextJob, history
<1>2. ASSUME NEW j \in Jobs, ReportRunning(j)
      PROVE  TypeOK'
  <2>1. job[j].node \in Nodes
    BY <1>0, <1>2 DEF ReportRunning, HoldsAttempt
  <2>2. [job[j] EXCEPT !.status = "running", !.claim = "held"] \in JobRecord
    BY <1>0 DEF JobRecord, JobStatus, ActiveStatus, Claim
  <2>3. job' \in [Jobs -> JobRecord] /\ node' \in [Nodes -> NodeRecord]
    BY <1>2, <2>1, <2>2, SetJobType, RequeueAssignedType DEF ReportRunning, TypeOK
  <2>4. job[j].session \in Sessions \cup {NoSession}
    BY <1>0 DEF JobRecord
  <2>5. \/ /\ started' = [started EXCEPT ![j] = started[j] + 1]
           /\ runner' = [runner EXCEPT ![j] = job[j].session]
        \/ started' = started /\ runner' = runner
    BY <1>2 DEF ReportRunning
  <2>6. /\ started \in [Jobs -> Nat]
        /\ runner \in [Jobs -> Sessions \cup {NoSession}]
    BY DEF TypeOK
  <2>7. /\ started' \in [Jobs -> Nat]
        /\ runner' \in [Jobs -> Sessions \cup {NoSession}]
    BY <2>4, <2>5, <2>6
  <2> QED BY <1>2, <2>3, <2>7 DEF TypeOK, ReportRunning
<1>3. ASSUME NEW j \in Jobs, NEW retryable \in BOOLEAN,
             ReportSucceeded(j) \/ ReportFailed(j, retryable) \/ ReportCanceled(j)
      PROVE  TypeOK'
  <2>1. /\ "succeeded" \in JobStatus /\ "failed" \in JobStatus
        /\ "canceled" \in JobStatus
    BY DEF JobStatus, TerminalStatus
  <2>2. \A s \in JobStatus : Finished(job[j], s) \in JobRecord
    BY <1>0, JobFieldTypes
  <2>3. job[j].mark \in {"none", "retry", "cleanup"}
    BY <1>0 DEF JobRecord, Marker
  <2>4. \/ SetJob(j, Finished(job[j], "succeeded"))
        \/ SetJob(j, Finished(job[j], "failed"))
        \/ SetJob(j, Finished(job[j], "canceled"))
        \/ RetryOrFail(j)
    BY <1>3, <2>3 DEF ReportSucceeded, ReportFailed, ReportCanceled
  <2>5. job' \in [Jobs -> JobRecord] /\ node' \in [Nodes -> NodeRecord]
    BY <2>1, <2>2, <2>4, SetJobType, RetryOrFailType
  <2>6. runner' \in [Jobs -> Sessions \cup {NoSession}]
    BY <1>3 DEF TypeOK, ReportSucceeded, ReportFailed, ReportCanceled, Ended
  <2> QED BY <1>3, <2>5, <2>6 DEF TypeOK, ReportSucceeded, ReportFailed, ReportCanceled
<1> QED BY <1>1, <1>2, <1>3 DEF AgentJobOperation

LEMMA SchedulingPassType ==
  ASSUME TypeOK, SchedulingPass
  PROVE  TypeOK'
<1>1. CASE Schedule
  <2>1. node' \in [Nodes -> NodeRecord]
    BY <1>1, FencedType DEF Schedule, TypeOK
  <2>2. cursor' \in 0..NumJobs + 1
    BY <1>1, SizesAssumption DEF Schedule
  <2> QED BY <1>1, <2>1, <2>2 DEF Schedule, TypeOK, history
<1>2. ASSUME NEW j \in Jobs, NEW n \in Nodes, ScheduleAssign(j, n)
      PROVE  TypeOK'
  <2>1. job' \in [Jobs -> JobRecord]
    BY <1>2, AssignedType DEF ScheduleAssign, TypeOK
  <2>2. node' \in [Nodes -> NodeRecord]
    BY <1>2, RefreshedType DEF ScheduleAssign, TypeOK
  <2>3. cursor' \in 0..NumJobs + 1
    BY <1>2, SizesAssumption DEF ScheduleAssign, Jobs
  <2> QED BY <1>2, <2>1, <2>2, <2>3 DEF ScheduleAssign, TypeOK, history
<1>3. CASE ScheduleEnd
  BY <1>3, SizesAssumption DEF ScheduleEnd, TypeOK, history
<1> QED BY <1>1, <1>2, <1>3 DEF SchedulingPass

LEMMA TimeType ==
  ASSUME TypeOK, Time
  PROVE  TypeOK'
<1>1. ASSUME NEW n \in Nodes, HeartbeatLapses(n) \/ HealthReportLapses(n)
      PROVE  TypeOK'
  <2>1. node' \in [Nodes -> NodeRecord]
    <3>1. /\ [node[n] EXCEPT !.stale = TRUE] \in NodeRecord
          /\ [node[n] EXCEPT !.healthy = FALSE] \in NodeRecord
      BY NodeFlagTypes DEF TypeOK
    <3> QED BY <1>1, <3>1 DEF HeartbeatLapses, HealthReportLapses, TypeOK
  <2> QED BY <1>1, <2>1 DEF HeartbeatLapses, HealthReportLapses, TypeOK, history
<1>2. ASSUME NEW j \in Jobs, LeaseExpires(j)
      PROVE  TypeOK'
  <2>1. job' \in [Jobs -> JobRecord]
    BY <1>2, ClaimType DEF LeaseExpires, Claim
  <2> QED BY <1>2, <2>1 DEF LeaseExpires, TypeOK, history
<1> QED BY <1>1, <1>2 DEF Time

LEMMA NextType ==
  ASSUME TypeOK, [Next]_vars
  PROVE  TypeOK'
<1>1. ASSUME UNCHANGED vars PROVE TypeOK'
  BY <1>1 DEF vars, TypeOK
<1> QED BY <1>1, AdministrationType, UserOperationType, AgentNodeOperationType,
           AgentJobOperationType, SchedulingPassType, TimeType DEF Next

(* The store's records keep their types.                                   *)
THEOREM TypeCorrect == Spec => []TypeOK
<1>1. TypeOK /\ [Next]_vars => TypeOK'
  BY NextType
<1> QED BY InitType, <1>1, PTL DEF Spec

----------------------------------------------------------------------------
(* What one step of the store may do to one job.  Every action moves each  *)
(* job by one of these, so an invariant that speaks of one job at a time   *)
(* is proved once against them instead of once per action.                 *)

Kept(j) ==
  /\ started'[j] = started[j]
  /\ cancelAsked'[j] = cancelAsked[j]
  /\ runner'[j] = runner[j]

Untouched(j) == job'[j] = job[j] /\ Kept(j)

Submitted(j) ==
  /\ project[ProjectOf[j]].known
  /\ job[j].status = "absent"
  /\ job'[j] = [job[j] EXCEPT !.status = "queued"]
  /\ Kept(j)

Withdrawn(j) ==
  /\ job[j].status \in {"queued", "assigned"}
  /\ job'[j] = Unassigned([job[j] EXCEPT !.status = "canceled"])
  /\ cancelAsked'[j] = TRUE
  /\ started'[j] = started[j] /\ runner'[j] = runner[j]

CancelRequested(j) ==
  /\ \/ /\ job[j].status = "running"
        /\ job'[j] = [job[j] EXCEPT !.status = "canceling"]
     \/ /\ job[j].status = "canceling"
        /\ job'[j] = [job[j] EXCEPT !.mark = "none"]
  /\ cancelAsked'[j] = TRUE
  /\ started'[j] = started[j] /\ runner'[j] = runner[j]

Deleted(j) ==
  /\ job[j].status \in TerminalStatus
  /\ \/ job'[j] = [job[j] EXCEPT !.status = "deleting"]
     \/ job'[j] = [AbsentJob EXCEPT !.status = "removed"]
  /\ Kept(j)

SentBack(j) ==
  /\ job[j].status = "assigned"
  /\ job'[j] \in {Requeued(job[j]), QueueFull(job[j])}
  /\ Kept(j)

TakenOver(j) ==
  /\ job[j].status \in ActiveStatus
  /\ \E s \in Sessions : job'[j] = Recovered(j, s)
  /\ Kept(j)

Placed(j) ==
  /\ job[j].status = "queued"
  /\ \E n \in Nodes : ~node[n].cleanup /\ job'[j] = Assigned(job[j], j, n)
  /\ Kept(j)

Claimed(j) ==
  /\ job[j].status \in {"assigned", "canceling"}
  /\ job[j].claim \in {"none", "expired"}
  /\ job'[j] = [job[j] EXCEPT !.claim = "live"]
  /\ Kept(j)

Lapsed(j) ==
  /\ job[j].claim = "live"
  /\ job'[j] = [job[j] EXCEPT !.claim = "expired"]
  /\ Kept(j)

Begun(j) ==
  /\ HoldsAttempt(j)
  /\ job[j].status = "assigned"
  /\ job'[j] = [job[j] EXCEPT !.status = "running", !.claim = "held"]
  /\ started'[j] = started[j] + 1
  /\ runner'[j] = job[j].session
  /\ cancelAsked'[j] = cancelAsked[j]

Retried(j) ==
  job'[j] = Unassigned([job[j] EXCEPT !.status = "queued", !.mark = "none"])

Reported(j) ==
  /\ HoldsAttempt(j)
  /\ \/ /\ job[j].status = "running"
        /\ \/ job'[j] = Finished(job[j], "succeeded")
           \/ job'[j] = Finished(job[j], "failed")
           \/ BudgetLeft(j) /\ Retried(j)
     \/ /\ job[j].status = "canceling"
        /\ \/ job[j].mark = "none" /\ job'[j] = Finished(job[j], "canceled")
           \/ job[j].mark # "none" /\ job'[j] = Finished(job[j], "failed")
           \/ job[j].mark = "retry" /\ Retried(j)
  /\ runner'[j] = NoSession
  /\ started'[j] = started[j] /\ cancelAsked'[j] = cancelAsked[j]

UnreportedStep(j) ==
  \/ Untouched(j)
  \/ Submitted(j)
  \/ Withdrawn(j)
  \/ CancelRequested(j)
  \/ Deleted(j)
  \/ SentBack(j)
  \/ TakenOver(j)
  \/ Claimed(j)
  \/ Lapsed(j)
  \/ Begun(j)

UnplacedStep(j) == UnreportedStep(j) \/ Reported(j)

JobStep(j) == UnplacedStep(j) \/ Placed(j)

LEMMA RequeueSteps ==
  ASSUME TypeOK, NEW n \in Nodes, NEW nodes, RequeueAssigned(n, nodes),
         UNCHANGED history
  PROVE  \A j \in Jobs : Untouched(j) \/ SentBack(j)
<1>1. PICK back \in SUBSET AssignedOn(n) :
        job' = WithRequeued(back, AssignedOn(n) \ back)
  BY DEF RequeueAssigned
<1>2. \A j \in Jobs : Kept(j)
  BY DEF Kept, history
<1>3. ASSUME NEW j \in Jobs PROVE Untouched(j) \/ SentBack(j)
  <2>1. CASE j \in AssignedOn(n)
    BY <1>1, <1>2, <2>1 DEF AssignedOn, WithRequeued, SentBack
  <2>2. CASE j \notin AssignedOn(n)
    BY <1>1, <1>2, <2>2 DEF WithRequeued, Untouched
  <2> QED BY <2>1, <2>2
<1> QED BY <1>3

LEMMA SetJobSteps ==
  ASSUME TypeOK, NEW j \in Jobs, NEW r, SetJob(j, r)
  PROVE  /\ job'[j] = r
         /\ \A i \in Jobs \ {j} : job'[i] = job[i]
BY DEF SetJob, TypeOK

LEMMA CreateJobSteps ==
  ASSUME TypeOK, NEW j \in Jobs, CreateJob(j)
  PROVE  \A i \in Jobs : Untouched(i) \/ Submitted(i)
<1>1. \A i \in Jobs : Kept(i)
  BY DEF Kept, history, CreateJob
<1>2. \A i \in Jobs \ {j} : Untouched(i)
  BY <1>1 DEF Untouched, TypeOK, CreateJob
<1>3. Submitted(j)
  BY <1>1 DEF Submitted, TypeOK, CreateJob
<1> QED BY <1>2, <1>3

LEMMA CancelJobSteps ==
  ASSUME TypeOK, NEW j \in Jobs, CancelJob(j)
  PROVE  \A i \in Jobs : Untouched(i) \/ Withdrawn(i) \/ CancelRequested(i)
<1>1. /\ cancelAsked'[j] = TRUE
      /\ \A i \in Jobs \ {j} : cancelAsked'[i] = cancelAsked[i]
      /\ UNCHANGED <<started, runner>>
  BY DEF CancelJob, TypeOK
<1>2. \A i \in Jobs \ {j} : Untouched(i)
  BY <1>1, SetJobSteps DEF CancelJob, Untouched, Kept
<1>3. CASE job[j].status \in {"queued", "assigned"}
  BY <1>1, <1>2, <1>3, SetJobSteps DEF CancelJob, Withdrawn
<1>4. CASE job[j].status \in {"running", "canceling"}
  BY <1>1, <1>2, <1>4, SetJobSteps DEF CancelJob, CancelRequested
<1> QED BY <1>3, <1>4 DEF CancelJob

LEMMA UserOperationSteps ==
  ASSUME TypeOK, UserOperation
  PROVE  \A j \in Jobs : UnreportedStep(j)
<1>1. ASSUME NEW j \in Jobs, BeginJobDeletion(j) \/ DeleteJob(j)
      PROVE  \A i \in Jobs : Untouched(i) \/ Deleted(i)
  <2>1. \A i \in Jobs : Kept(i)
    BY <1>1 DEF Kept, history, BeginJobDeletion, DeleteJob
  <2>2. \A i \in Jobs \ {j} : Untouched(i)
    BY <1>1, <2>1 DEF Untouched, TypeOK, BeginJobDeletion, DeleteJob
  <2>3. CASE BeginJobDeletion(j)
    BY <2>1, <2>2, <2>3 DEF Deleted, TypeOK, BeginJobDeletion
  <2>4. CASE DeleteJob(j)
    BY <2>1, <2>2, <2>4 DEF Deleted, TypeOK, DeleteJob
  <2> QED BY <1>1, <2>3, <2>4
<1> QED BY <1>1, CreateJobSteps, CancelJobSteps DEF UserOperation, UnreportedStep

LEMMA RegisterNodeSteps ==
  ASSUME TypeOK, NEW n \in Nodes, NEW s \in Sessions, NEW healthy, NEW g,
         RegisterNode(n, s, healthy, g)
  PROVE  \A j \in Jobs : \/ Untouched(j)
                        \/ /\ job[j].status \in ActiveStatus
                           /\ job[j].node = n
                           /\ job'[j] = Recovered(j, s)
                           /\ Kept(j)
<1>1. \A j \in Jobs : Kept(j)
  BY DEF RegisterNode, Kept, history
<1>2. \A j \in Jobs : \/ job'[j] = job[j]
                      \/ j \in ActiveOn(job, n) /\ job'[j] = Recovered(j, s)
  BY DEF RegisterNode
<1> QED BY <1>1, <1>2 DEF Untouched, ActiveOn

LEMMA UpdateNodeHealthSteps ==
  ASSUME TypeOK, NEW n \in Nodes, NEW healthy, NEW g, NEW hostChanged,
         UpdateNodeHealth(n, healthy, g, hostChanged)
  PROVE  \A j \in Jobs : Untouched(j) \/ SentBack(j)
<1>1. UNCHANGED history
  BY DEF UpdateNodeHealth
<1>2. UNCHANGED job \/ \E nodes : RequeueAssigned(n, nodes)
  BY DEF UpdateNodeHealth
<1>3. CASE UNCHANGED job
  BY <1>1, <1>3 DEF Untouched, Kept, history
<1> QED BY <1>1, <1>2, <1>3, RequeueSteps

LEMMA AgentNodeOperationSteps ==
  ASSUME TypeOK, AgentNodeOperation
  PROVE  \A j \in Jobs : UnreportedStep(j)
<1>1. ASSUME NEW n \in Nodes, ConfirmCleanup(n) \/ FenceExpiredSession(n)
      PROVE  \A j \in Jobs : Untouched(j)
  BY <1>1 DEF ConfirmCleanup, FenceExpiredSession, Untouched, Kept, history
<1>2. ASSUME NEW n \in Nodes, NEW s \in Sessions, NEW healthy, NEW g,
             RegisterNode(n, s, healthy, g)
      PROVE  \A j \in Jobs : Untouched(j) \/ TakenOver(j)
  BY <1>2, RegisterNodeSteps DEF TakenOver
<1> QED BY <1>1, <1>2, UpdateNodeHealthSteps
        DEF AgentNodeOperation, UnreportedStep

LEMMA NextJobSteps ==
  ASSUME TypeOK, NEW n \in Nodes, NextJob(n)
  PROVE  \A j \in Jobs : Untouched(j) \/ SentBack(j) \/ Claimed(j)
<1>1. UNCHANGED history
  BY DEF NextJob
<1>2. ASSUME NEW status \in {"assigned", "canceling"},
             ClaimOldest(Dispatchable(n, status))
      PROVE  \A j \in Jobs : Untouched(j) \/ Claimed(j)
  <2>1. PICK j \in Dispatchable(n, status) :
          job' = [job EXCEPT ![j].claim = "live"]
    BY <1>2 DEF ClaimOldest
  <2>2. Claimed(j)
    BY <1>1, <2>1 DEF Dispatchable, Claimed, Kept, history, TypeOK
  <2>3. \A i \in Jobs \ {j} : Untouched(i)
    BY <1>1, <2>1 DEF Dispatchable, Untouched, Kept, history, TypeOK
  <2> QED BY <2>2, <2>3
<1>3. CASE RequeueAssigned(n, node)
  BY <1>1, <1>3, RequeueSteps
<1> QED BY <1>2, <1>3 DEF NextJob

LEMMA ReportRunningSteps ==
  ASSUME TypeOK, NEW j \in Jobs, ReportRunning(j)
  PROVE  \/ Begun(j) /\ \A i \in Jobs \ {j} : Untouched(i)
         \/ \A i \in Jobs : Untouched(i) \/ SentBack(i)
<1>1. job[j].node \in Nodes
  BY DEF ReportRunning, HoldsAttempt, TypeOK, JobRecord
<1>2. CASE Startable(job[j].node)
  <2>1. /\ SetJob(j, [job[j] EXCEPT !.status = "running", !.claim = "held"])
        /\ started'[j] = started[j] + 1 /\ runner'[j] = job[j].session
        /\ \A i \in Jobs \ {j} : started'[i] = started[i] /\ runner'[i] = runner[i]
        /\ UNCHANGED cancelAsked
    BY <1>2 DEF ReportRunning, TypeOK
  <2>2. Begun(j)
    BY <2>1, SetJobSteps DEF Begun, ReportRunning
  <2>3. \A i \in Jobs \ {j} : Untouched(i)
    BY <2>1, SetJobSteps DEF Untouched, Kept
  <2> QED BY <2>2, <2>3
<1>3. CASE ~Startable(job[j].node)
  <2>1. RequeueAssigned(job[j].node, node) /\ UNCHANGED history
    BY <1>3 DEF ReportRunning, history
  <2> QED BY <1>1, <2>1, RequeueSteps
<1> QED BY <1>2, <1>3

LEMMA ReportEndSteps ==
  ASSUME TypeOK, NEW j \in Jobs, NEW retryable \in BOOLEAN,
         ReportSucceeded(j) \/ ReportFailed(j, retryable) \/ ReportCanceled(j)
  PROVE  Reported(j) /\ \A i \in Jobs \ {j} : Untouched(i)
<1>1. /\ HoldsAttempt(j)
      /\ runner'[j] = NoSession
      /\ \A i \in Jobs \ {j} : runner'[i] = runner[i]
      /\ UNCHANGED <<started, cancelAsked>>
  BY DEF ReportSucceeded, ReportFailed, ReportCanceled, Ended, TypeOK
<1>2. PICK r : SetJob(j, r)
  <2>1. job[j].mark \in {"none", "retry", "cleanup"}
    BY DEF TypeOK, JobRecord, Marker
  <2> QED BY <2>1 DEF ReportSucceeded, ReportFailed, ReportCanceled, RetryOrFail
<1>3. \A i \in Jobs \ {j} : Untouched(i)
  BY <1>1, <1>2, SetJobSteps DEF Untouched, Kept
<1>4. RetryOrFail(j) => Retried(j) \/ job'[j] = Finished(job[j], "failed")
  BY SetJobSteps DEF RetryOrFail, Retried
<1>5. CASE ReportSucceeded(j)
  BY <1>1, <1>3, <1>5, SetJobSteps DEF ReportSucceeded, Reported
<1>6. CASE ReportFailed(j, retryable)
  BY <1>1, <1>3, <1>4, <1>6, SetJobSteps DEF ReportFailed, Reported
<1>7. CASE ReportCanceled(j)
  <2>1. job[j].status = "canceling"
    BY <1>7 DEF ReportCanceled
  <2>2. CASE job[j].mark = "retry"
    BY <1>1, <1>3, <1>4, <1>7, <2>1, <2>2 DEF ReportCanceled, Reported
  <2>3. CASE job[j].mark = "cleanup"
    BY <1>1, <1>3, <1>7, <2>1, <2>3, SetJobSteps DEF ReportCanceled, Reported
  <2>4. CASE job[j].mark = "none"
    BY <1>1, <1>3, <1>7, <2>1, <2>4, SetJobSteps DEF ReportCanceled, Reported
  <2> QED BY <2>2, <2>3, <2>4 DEF TypeOK, JobRecord, Marker
<1> QED BY <1>5, <1>6, <1>7

LEMMA AssignSteps ==
  ASSUME TypeOK, NEW j \in Jobs, NEW n \in Nodes, ScheduleAssign(j, n)
  PROVE  \A i \in Jobs : Untouched(i) \/ Placed(i)
<1>1. Placed(j)
  BY DEF ScheduleAssign, Placeable, Eligible, Placed, Kept, history, TypeOK
<1>2. \A i \in Jobs \ {j} : Untouched(i)
  BY DEF ScheduleAssign, Untouched, Kept, history, TypeOK
<1> QED BY <1>1, <1>2

LEMMA OtherSteps ==
  ASSUME TypeOK, \/ Administration \/ Schedule \/ ScheduleEnd \/ Time
                 \/ UNCHANGED vars
  PROVE  \A j \in Jobs : Untouched(j) \/ Lapsed(j)
<1>1. CASE Administration \/ UNCHANGED vars
  <2>1. UNCHANGED <<job, history>>
    BY <1>1 DEF Administration, CreateProject, UpdateProject, SetLicence,
                SetNodeMaintenance, DeleteNode, vars, history
  <2> QED BY <2>1 DEF Untouched, Kept, history
<1>2. CASE Schedule \/ ScheduleEnd
  BY <1>2 DEF Schedule, ScheduleEnd, Untouched, Kept, history
<1>3. ASSUME NEW n \in Nodes, HeartbeatLapses(n) \/ HealthReportLapses(n)
      PROVE  \A j \in Jobs : Untouched(j)
  BY <1>3 DEF HeartbeatLapses, HealthReportLapses, Untouched, Kept, history
<1>4. ASSUME NEW j \in Jobs, LeaseExpires(j)
      PROVE  \A i \in Jobs : Untouched(i) \/ Lapsed(i)
  <2>1. Lapsed(j)
    BY <1>4 DEF LeaseExpires, Lapsed, Kept, history, TypeOK
  <2>2. \A i \in Jobs \ {j} : Untouched(i)
    BY <1>4 DEF LeaseExpires, Untouched, Kept, history, TypeOK
  <2> QED BY <2>1, <2>2
<1> QED BY <1>1, <1>2, <1>3, <1>4 DEF Time

(* Only the scheduling pass places a job, and it places one in a step.     *)
LEMMA StepsUnplaced ==
  ASSUME TypeOK, [Next]_vars,
         ~\E j \in Jobs, n \in Nodes : ScheduleAssign(j, n)
  PROVE  \A j \in Jobs : UnplacedStep(j)
<1>1. CASE AgentJobOperation
  BY <1>1, NextJobSteps, ReportRunningSteps, ReportEndSteps
     DEF AgentJobOperation, UnplacedStep, UnreportedStep
<1> QED BY <1>1, UserOperationSteps, AgentNodeOperationSteps, OtherSteps
        DEF Next, SchedulingPass, UnplacedStep, UnreportedStep

(* Only the report of its own end is a report to a job.                    *)
LEMMA StepsUnreported ==
  ASSUME TypeOK, [Next]_vars, NEW j \in Jobs, ~ReportsEnd(j)
  PROVE  UnreportedStep(j) \/ Placed(j)
<1>1. ASSUME NEW i \in Jobs, ReportsEnd(i)
      PROVE  Untouched(j)
  BY <1>1, ReportEndSteps DEF ReportsEnd
<1>2. ASSUME NEW n \in Nodes, NextJob(n)
      PROVE  UnreportedStep(j)
  BY <1>2, NextJobSteps DEF UnreportedStep
<1>3. ASSUME NEW i \in Jobs, ReportRunning(i)
      PROVE  UnreportedStep(j)
  BY <1>3, ReportRunningSteps DEF UnreportedStep
<1>4. CASE AgentJobOperation
  <2>1. ASSUME NEW i \in Jobs,
               \/ ReportSucceeded(i) \/ ReportCanceled(i)
               \/ \E retryable \in BOOLEAN : ReportFailed(i, retryable)
        PROVE  ReportsEnd(i)
    BY <2>1 DEF ReportsEnd, ReportSucceeded, ReportFailed, ReportCanceled
  <2> QED
    BY <1>1, <1>2, <1>3, <1>4, <2>1 DEF AgentJobOperation, UnreportedStep
<1>5. CASE UserOperation \/ AgentNodeOperation
  BY <1>5, UserOperationSteps, AgentNodeOperationSteps
<1>6. CASE Administration \/ Schedule \/ ScheduleEnd \/ Time \/ UNCHANGED vars
  BY <1>6, OtherSteps DEF UnreportedStep
<1>7. CASE \E i \in Jobs, n \in Nodes : ScheduleAssign(i, n)
  BY <1>7, AssignSteps DEF UnreportedStep
<1> QED BY <1>4, <1>5, <1>6, <1>7 DEF Next, SchedulingPass

LEMMA EveryJobSteps ==
  ASSUME TypeOK, [Next]_vars
  PROVE  \A j \in Jobs : JobStep(j)
BY StepsUnplaced, AssignSteps DEF JobStep, UnplacedStep, UnreportedStep

----------------------------------------------------------------------------
(* The life of one job.  AttemptBudget, CancelHonoured and HeldByRunner    *)
(* are not inductive alone: they need to know that a recovery marker sits  *)
(* only on a job being cleaned up, a retry marker only while retries are   *)
(* left, and that an assigned job's attempt was within its budget.         *)

MarkInv(j) ==
  /\ job[j].mark # "none" => job[j].status = "canceling"
  /\ job[j].mark = "retry" => job[j].attempts <= MaxRetries[j]

BudgetInv(j) ==
  /\ started[j] <= MaxRetries[j] + 1
  /\ job[j].status = "absent" => job[j].attempts = 0 /\ started[j] = 0
  /\ job[j].status = "queued" => /\ job[j].attempts = started[j]
                                 /\ job[j].attempts <= MaxRetries[j]
  /\ job[j].status = "assigned" => /\ job[j].attempts = started[j] + 1
                                   /\ job[j].attempts <= MaxRetries[j] + 1
  /\ job[j].status \in {"running", "canceling"} => job[j].attempts = started[j]

CancelInv(j) ==
  cancelAsked[j] => \/ job[j].status \in {"canceled", "deleting", "removed"}
                    \/ job[j].status = "canceling" /\ job[j].mark = "none"

HeldInv(j) ==
  /\ job[j].status = "running" => job[j].claim = "held"
  /\ job[j].claim = "held" => /\ job[j].status \in {"running", "canceling"}
                              /\ job[j].session = runner[j]

JobInv(j) == MarkInv(j) /\ BudgetInv(j) /\ CancelInv(j) /\ HeldInv(j)

LifeInv == TypeOK /\ \A j \in Jobs : JobInv(j)

LEMMA InitLife == Init => \A j \in Jobs : JobInv(j)
BY JobAttributesAssumption
   DEF Init, AbsentJob, JobInv, MarkInv, BudgetInv, CancelInv, HeldInv

(* What a requeue leaves of a record: the attempt is refunded.             *)
LEMMA RefundedFields ==
  ASSUME NEW r \in JobRecord, r.attempts > 0
  PROVE  /\ Requeued(r).status = "queued" /\ QueueFull(r).status = "failed"
         /\ Requeued(r).attempts = r.attempts - 1
         /\ QueueFull(r).attempts = r.attempts - 1
         /\ Requeued(r).mark = r.mark /\ QueueFull(r).mark = r.mark
         /\ Requeued(r).claim = "none" /\ QueueFull(r).claim = "none"
BY DEF JobRecord, Requeued, QueueFull, Unassigned

(* One step per kind of JobStep, one fact per part of the invariant.       *)
LEMMA JobInvStep ==
  ASSUME TypeOK, TypeOK', NEW j \in Jobs, JobInv(j), JobStep(j)
  PROVE  JobInv(j)'
<1> USE DEF JobInv, MarkInv, BudgetInv, CancelInv, HeldInv
<1>0. /\ job[j] \in JobRecord /\ started[j] \in Nat /\ MaxRetries[j] \in Nat
      /\ job[j].attempts \in Nat
  BY JobAttributesAssumption DEF TypeOK, JobRecord
<1>1. CASE Untouched(j)
  BY <1>1 DEF Untouched, Kept
<1>2. CASE Submitted(j)
  BY <1>0, <1>2 DEF Submitted, Kept, JobRecord
<1>3. CASE Withdrawn(j)
  BY <1>0, <1>3 DEF Withdrawn, Unassigned, JobRecord
<1>4. CASE CancelRequested(j)
  BY <1>0, <1>4 DEF CancelRequested, JobRecord
<1>5. CASE Deleted(j)
  BY <1>0, <1>5 DEF Deleted, Kept, AbsentJob, TerminalStatus, JobRecord
<1>6. CASE SentBack(j)
  <2>1. /\ job[j].status = "assigned" /\ job[j].mark = "none"
        /\ job[j].attempts = started[j] + 1 /\ ~cancelAsked[j]
    BY <1>0, <1>6 DEF SentBack, JobRecord, Marker
  <2>2. started'[j] = started[j] /\ ~cancelAsked'[j] /\ runner'[j] = runner[j]
    BY <1>6, <2>1 DEF SentBack, Kept
  <2>3. /\ job'[j].status \in {"queued", "failed"}
        /\ job'[j].attempts = started[j] /\ job'[j].mark = "none"
        /\ job'[j].claim = "none"
    <3>1. job'[j] = Requeued(job[j]) \/ job'[j] = QueueFull(job[j])
      BY <1>6 DEF SentBack
    <3> QED BY <1>0, <2>1, <3>1, RefundedFields
  <2>4. MarkInv(j)'
    BY <2>3
  <2>7. HeldInv(j)'
    BY <2>3
  <2>5. BudgetInv(j)'
    BY <1>0, <2>1, <2>2, <2>3
  <2>6. CancelInv(j)'
    BY <2>2
  <2> QED BY <2>4, <2>5, <2>6, <2>7
<1>7. CASE TakenOver(j)
  <2>1. PICK s \in Sessions : job'[j] = Recovered(j, s)
    BY <1>7 DEF TakenOver
  <2>2. CASE job[j].status = "running"
    BY <1>0, <1>7, <2>1, <2>2
       DEF TakenOver, Kept, Recovered, Interrupted, BudgetLeft, JobRecord
  <2>3. CASE job[j].status # "running"
    BY <1>0, <1>7, <2>1, <2>3 DEF TakenOver, Kept, Recovered, JobRecord
  <2> QED BY <2>2, <2>3
<1>8. CASE Placed(j)
  BY <1>0, <1>8 DEF Placed, Kept, Assigned, JobRecord
<1>9. CASE Claimed(j)
  BY <1>0, <1>9 DEF Claimed, Kept, JobRecord
<1>10. CASE Lapsed(j)
  BY <1>0, <1>10 DEF Lapsed, Kept, JobRecord
<1>11. CASE Begun(j)
  BY <1>0, <1>11 DEF Begun, JobRecord
<1>12. CASE Reported(j)
  BY <1>0, <1>12, ZenonT(60)
     DEF Reported, Retried, Finished, Unassigned, BudgetLeft, JobRecord
<1> QED BY <1>1, <1>2, <1>3, <1>4, <1>5, <1>6, <1>7, <1>8, <1>9, <1>10, <1>11,
           <1>12 DEF JobStep, UnplacedStep, UnreportedStep

LEMMA NextLife ==
  ASSUME LifeInv, [Next]_vars
  PROVE  LifeInv'
BY NextType, EveryJobSteps, JobInvStep DEF LifeInv

LEMMA LifeInvariant == Spec => []LifeInv
<1>1. Init => LifeInv
  BY InitType, InitLife DEF LifeInv
<1>2. LifeInv /\ [Next]_vars => LifeInv'
  BY NextLife
<1> QED BY <1>1, <1>2, PTL DEF Spec

(* A job is started at most MaxRetries + 1 times, however often it is      *)
(* requeued, interrupted by takeovers and retried.                         *)
THEOREM AttemptBudgetHolds == Spec => []AttemptBudget
<1>1. LifeInv => AttemptBudget
  BY DEF LifeInv, JobInv, BudgetInv, AttemptBudget
<1> QED BY <1>1, LifeInvariant, PTL

(* A job whose cancellation was accepted only ever ends canceled.          *)
THEOREM CancelHonouredHolds == Spec => []CancelHonoured
<1>1. LifeInv => CancelHonoured
  BY DEF LifeInv, JobInv, CancelInv, CancelHonoured
<1> QED BY <1>1, LifeInvariant, PTL

(* A token without a lease belongs to the session that started the job.    *)
THEOREM HeldByRunnerHolds == Spec => []HeldByRunner
<1>1. LifeInv => HeldByRunner
  BY DEF LifeInv, JobInv, HeldInv, HeldByRunner
<1> QED BY <1>1, LifeInvariant, PTL
----------------------------------------------------------------------------
(* What a step may never do to one job follows from the kind of step alone. *)

LEMMA FinishedStep ==
  ASSUME TypeOK, NEW j \in Jobs, JobStep(j), job[j].status \in TerminalStatus
  PROVE  job'[j].status \in {job[j].status, "deleting", "removed"}
<1>0. job[j] \in JobRecord
  BY DEF TypeOK
<1>1. CASE Untouched(j)
  BY <1>1 DEF Untouched
<1>2. CASE Deleted(j)
  BY <1>0, <1>2 DEF Deleted, AbsentJob, JobRecord
<1>3. CASE Lapsed(j)
  BY <1>0, <1>3 DEF Lapsed, JobRecord
<1> QED BY <1>1, <1>2, <1>3
       DEF JobStep, UnplacedStep, UnreportedStep, TerminalStatus, ActiveStatus, Submitted,
           Withdrawn, CancelRequested, SentBack, TakenOver, Placed, Claimed,
           Begun, Reported

LEMMA HoldingStep ==
  ASSUME TypeOK, NEW j \in Jobs, UnreportedStep(j) \/ Placed(j),
         job[j].status \in {"running", "canceling"}
  PROVE  /\ job'[j].status \in {"running", "canceling"}
         /\ job'[j].node = job[j].node
         /\ job'[j].gpus = job[j].gpus
<1>0. job[j] \in JobRecord
  BY DEF TypeOK
<1>1. CASE Untouched(j)
  BY <1>1 DEF Untouched
<1>2. CASE CancelRequested(j)
  BY <1>0, <1>2 DEF CancelRequested, JobRecord
<1>3. CASE TakenOver(j)
  BY <1>0, <1>3 DEF TakenOver, Recovered, Interrupted, JobRecord
<1>4. CASE Claimed(j) \/ Lapsed(j)
  BY <1>0, <1>4 DEF Claimed, Lapsed, JobRecord
<1> QED BY <1>1, <1>2, <1>3, <1>4
       DEF UnreportedStep, TerminalStatus, Submitted, Withdrawn, Deleted,
           SentBack, Placed, Begun

(* Records that are neither assigned nor running.                          *)
LEMMA IdleStatus ==
  ASSUME NEW r \in JobRecord
  PROVE  /\ Requeued(r).status = "queued"
         /\ QueueFull(r).status = "failed"
         /\ \A s \in JobStatus : Finished(r, s).status = s
         /\ Unassigned([r EXCEPT !.status = "canceled"]).status = "canceled"
         /\ Unassigned([r EXCEPT !.status = "queued", !.mark = "none"]).status
              = "queued"
<1>1. Requeued(r).status = "queued"
  BY DEF JobRecord, Requeued, Unassigned
<1>2. QueueFull(r).status = "failed"
  BY DEF JobRecord, QueueFull, Unassigned
<1>3. \A s \in JobStatus : Finished(r, s).status = s
  BY DEF JobRecord, Finished
<1>4. Unassigned([r EXCEPT !.status = "canceled"]).status = "canceled"
  BY DEF JobRecord, Unassigned
<1>5. Unassigned([r EXCEPT !.status = "queued", !.mark = "none"]).status = "queued"
  BY DEF JobRecord, Unassigned
<1> QED BY <1>1, <1>2, <1>3, <1>4, <1>5

(* The statuses in which a report leaves a job, and why it may wait again. *)
LEMMA ReportedStatus ==
  ASSUME TypeOK, NEW j \in Jobs, Reported(j)
  PROVE  \/ /\ job[j].status = "running"
            /\ \/ job'[j].status \in {"succeeded", "failed"}
               \/ job'[j].status = "queued" /\ BudgetLeft(j)
         \/ /\ job[j].status = "canceling"
            /\ \/ job[j].mark = "none" /\ job'[j].status = "canceled"
               \/ job[j].mark # "none" /\ job'[j].status = "failed"
               \/ job[j].mark = "retry" /\ job'[j].status = "queued"
<1>1. job[j] \in JobRecord
  BY DEF TypeOK
<1>3. ASSUME NEW st, job'[j] = Finished(job[j], st)
      PROVE  job'[j].status = st
  BY <1>1, <1>3 DEF JobRecord, Finished
<1>2. Retried(j) => job'[j].status = "queued"
  <2>1. SUFFICES ASSUME Retried(j) PROVE job'[j].status = "queued"
    OBVIOUS
  <2>2. job'[j] = Unassigned([job[j] EXCEPT !.status = "queued", !.mark = "none"])
    BY <2>1 DEF Retried
  <2>3. Unassigned([job[j] EXCEPT !.status = "queued", !.mark = "none"]).status
          = "queued"
    BY <1>1, IdleStatus, Zenon
  <2> QED BY <2>2, <2>3
<1> QED BY <1>2, <1>3 DEF Reported

LEMMA WithdrawnStatus ==
  ASSUME TypeOK, NEW j \in Jobs, Withdrawn(j)
  PROVE  job'[j].status = "canceled"
<1>1. job'[j] = Unassigned([job[j] EXCEPT !.status = "canceled"])
  BY DEF Withdrawn
<1>2. Unassigned([job[j] EXCEPT !.status = "canceled"]).status = "canceled"
  BY IdleStatus, Zenon DEF TypeOK
<1> QED BY <1>1, <1>2

LEMMA SentBackStatus ==
  ASSUME TypeOK, NEW j \in Jobs, SentBack(j)
  PROVE  job'[j].status \in {"queued", "failed"}
<1>1. job'[j] = Requeued(job[j]) \/ job'[j] = QueueFull(job[j])
  BY DEF SentBack
<1>2. Requeued(job[j]).status = "queued" /\ QueueFull(job[j]).status = "failed"
  BY IdleStatus, Zenon DEF TypeOK
<1> QED BY <1>1, <1>2

LEMMA GateStep ==
  ASSUME TypeOK, NEW j \in Jobs, JobStep(j), NEW n \in Nodes, node[n].cleanup,
         job'[j].node = n, job'[j].status \in {"assigned", "running"}
  PROVE  job'[j].status = job[j].status /\ job[j].node = n
<1>0. job[j] \in JobRecord
  BY DEF TypeOK
<1>1. CASE Untouched(j)
  BY <1>1 DEF Untouched
<1>2. CASE TakenOver(j)
  BY <1>0, <1>2 DEF TakenOver, Recovered, Interrupted, JobRecord
<1>3. CASE Claimed(j) \/ Lapsed(j)
  BY <1>0, <1>3 DEF Claimed, Lapsed, JobRecord
<1>4. CASE Placed(j)
  <2>1. job'[j].node # n
    BY <1>0, <1>4 DEF Placed, Assigned, JobRecord
  <2> QED BY <2>1
<1>5. CASE Begun(j)
  <2>1. job[j].node = n
    BY <1>0, <1>5 DEF Begun, JobRecord
  <2> QED BY <1>5, <2>1 DEF Begun, HoldsAttempt, SessionReady
<1>6. CASE CancelRequested(j)
  BY <1>0, <1>6 DEF CancelRequested, JobRecord
<1>7. CASE Submitted(j)
  BY <1>0, <1>7 DEF Submitted, JobRecord
<1>8. CASE Withdrawn(j)
  <2>1. job'[j].status = "canceled"
    BY <1>0, <1>8, IdleStatus DEF Withdrawn
  <2> QED BY <2>1
<1>9. CASE Deleted(j)
  BY <1>0, <1>9 DEF Deleted, AbsentJob, JobRecord
<1>10. CASE SentBack(j)
  <2>1. job'[j] = Requeued(job[j]) \/ job'[j] = QueueFull(job[j])
    BY <1>10 DEF SentBack
  <2> QED BY <1>0, <2>1, IdleStatus
<1>11. CASE Reported(j)
  <2>1. \/ job'[j] = Finished(job[j], "succeeded")
        \/ job'[j] = Finished(job[j], "failed")
        \/ job'[j] = Finished(job[j], "canceled")
        \/ Retried(j)
    BY <1>11 DEF Reported
  <2>2. /\ "succeeded" \in JobStatus /\ "failed" \in JobStatus
        /\ "canceled" \in JobStatus
    BY DEF JobStatus, TerminalStatus
  <2>3. job'[j].status \in {"succeeded", "failed", "canceled", "queued"}
    BY <1>0, <2>1, <2>2, IdleStatus DEF Retried
  <2> QED BY <2>3
<1> QED BY <1>1, <1>2, <1>3, <1>4, <1>5, <1>6, <1>7, <1>8,
           <1>9, <1>10, <1>11 DEF JobStep, UnplacedStep, UnreportedStep

(* A finished job is only ever deleted.                                    *)
THEOREM FinishedStaysFinishedHolds == Spec => FinishedStaysFinished
<1>1. TypeOK /\ [Next]_vars =>
        [\A j \in Jobs : job[j].status \in TerminalStatus =>
           job'[j].status \in {job[j].status, "deleting", "removed"}]_vars
  BY EveryJobSteps, FinishedStep
<1> QED BY <1>1, TypeCorrect, PTL DEF Spec, FinishedStaysFinished

(* A started job keeps its node and GPUs in every step but the report of   *)
(* its own end by the holder of its attempt.                               *)
THEOREM HoldsUntilReportedHolds == Spec => HoldsUntilReported
<1>1. TypeOK /\ [Next]_vars =>
        [\A j \in Jobs :
           job[j].status \in {"running", "canceling"} =>
             \/ ReportsEnd(j)
             \/ /\ job'[j].status \in {"running", "canceling"}
                /\ job'[j].node = job[j].node
                /\ job'[j].gpus = job[j].gpus]_vars
  BY StepsUnreported, HoldingStep
<1> QED BY <1>1, TypeCorrect, PTL DEF Spec, HoldsUntilReported

(* Nothing is assigned to a node that awaits cleanup, or starts on it.     *)
THEOREM CleanupGateHolds == Spec => CleanupGate
<1>1. TypeOK /\ [Next]_vars =>
        [\A n \in Nodes, j \in Jobs :
           /\ node[n].cleanup
           /\ job'[j].node = n
           /\ job'[j].status \in {"assigned", "running"}
           => job'[j].status = job[j].status /\ job[j].node = n]_vars
  BY EveryJobSteps, GateStep
<1> QED BY <1>1, TypeCorrect, PTL DEF Spec, CleanupGate

----------------------------------------------------------------------------
(* The job store implements JobLifecycle: each kind of step is one of its  *)
(* actions, or a stutter.                                                  *)

(* A job that is stopped without a recovery marker is stopped because its  *)
(* user asked for it; a report that it stopped then ends it as canceled.   *)
StopInv(j) ==
  job[j].status = "canceling" /\ job[j].mark = "none" => cancelAsked[j]

RefineInv == LifeInv /\ \A j \in Jobs : StopInv(j)

LEMMA InitStop == Init => \A j \in Jobs : StopInv(j)
BY DEF Init, AbsentJob, StopInv

LEMMA StopStep ==
  ASSUME TypeOK, NEW j \in Jobs, StopInv(j), JobStep(j)
  PROVE  StopInv(j)'
<1>0. job[j] \in JobRecord /\ cancelAsked[j] \in BOOLEAN
  BY DEF TypeOK
<1>1. CASE Untouched(j)
  BY <1>1 DEF Untouched, Kept, StopInv
<1>2. CASE Withdrawn(j) \/ CancelRequested(j)
  BY <1>2 DEF Withdrawn, CancelRequested, StopInv
<1>3. CASE TakenOver(j)
  <2>1. PICK s \in Sessions : job'[j] = Recovered(j, s)
    BY <1>3 DEF TakenOver
  <2>2. CASE job[j].status = "running"
    <3>1. job'[j].mark # "none"
      BY <1>0, <2>1, <2>2 DEF Recovered, Interrupted, JobRecord
    <3> QED BY <3>1 DEF StopInv
  <2>3. CASE job[j].status # "running"
    BY <1>0, <1>3, <2>1, <2>3 DEF TakenOver, Kept, Recovered, JobRecord, StopInv
  <2> QED BY <2>2, <2>3
<1>4. CASE Claimed(j) \/ Lapsed(j)
  BY <1>0, <1>4 DEF Claimed, Lapsed, Kept, JobRecord, StopInv
<1>5. CASE Submitted(j) \/ Deleted(j) \/ Placed(j) \/ Begun(j)
  <2>1. job'[j].status # "canceling"
    <3>1. CASE Submitted(j) \/ Begun(j)
      BY <1>0, <3>1 DEF Submitted, Begun, JobRecord
    <3>2. CASE Deleted(j)
      BY <1>0, <3>2 DEF Deleted, AbsentJob, JobRecord
    <3>3. CASE Placed(j)
      BY <1>0, <3>3 DEF Placed, Assigned, JobRecord
    <3> QED BY <1>5, <3>1, <3>2, <3>3
  <2> QED BY <2>1 DEF StopInv
<1>6. CASE Reported(j) \/ SentBack(j)
  BY <1>6, ReportedStatus, SentBackStatus DEF StopInv
<1> QED BY <1>1, <1>2, <1>3, <1>4, <1>5, <1>6 DEF JobStep, UnplacedStep, UnreportedStep

LEMMA RefineInvariant == Spec => []RefineInv
<1>1. Init => \A j \in Jobs : StopInv(j)
  BY InitStop
<1>2. LifeInv /\ (\A j \in Jobs : StopInv(j)) /\ [Next]_vars
        => (\A j \in Jobs : StopInv(j))'
  BY EveryJobSteps, StopStep DEF LifeInv
<1>3. LifeInv /\ (\A j \in Jobs : StopInv(j)) => RefineInv
  BY DEF RefineInv
<1> QED BY <1>1, <1>2, <1>3, LifeInvariant, PTL DEF Spec

----------------------------------------------------------------------------
LEMMA LifeFields ==
  ASSUME NEW j \in Jobs
  PROVE  /\ Life[j].status = job[j].status
         /\ Life[j].runs = started[j]
         /\ Life[j].owned = (job[j].claim = "held")
         /\ Life[j].canceled = cancelAsked[j]
BY DEF Life

LEMMA LifeFieldsNext ==
  ASSUME NEW j \in Jobs
  PROVE  /\ (Life')[j].status = job'[j].status
         /\ (Life')[j].runs = started'[j]
         /\ (Life')[j].owned = (job'[j].claim = "held")
         /\ (Life')[j].canceled = cancelAsked'[j]
BY DEF Life

(* A step that leaves the four facts alone is a stutter of the life.       *)
LEMMA SameLife ==
  ASSUME NEW j \in Jobs, Kept(j), job'[j].status = job[j].status,
         (job'[j].claim = "held") = (job[j].claim = "held")
  PROVE  (Life')[j] = Life[j]
BY DEF Kept, Life

LEMMA StepRefines ==
  ASSUME TypeOK, NEW j \in Jobs, JobInv(j), StopInv(j), JobInv(j)', JobStep(j)
  PROVE  Lifecycle!JobMoves(j) \/ (Life')[j] = Life[j]
<1> USE LifeFields, LifeFieldsNext
<1> USE DEF Lifecycle!JobMoves, Lifecycle!Moves, Lifecycle!Keeps,
            Lifecycle!Disowned, Lifecycle!CanRun
<1>0. /\ job[j] \in JobRecord /\ started[j] \in Nat /\ MaxRetries[j] \in Nat
      /\ job[j].attempts \in Nat /\ cancelAsked[j] \in BOOLEAN
  BY JobAttributesAssumption DEF TypeOK, JobRecord
<1>1. job'[j].claim = "held" => job'[j].status \in {"running", "canceling"}
  BY DEF JobInv, HeldInv
<1>2. CASE Untouched(j)
  BY <1>2, SameLife DEF Untouched
<1>3. CASE Submitted(j)
  <2>1. job'[j].status = "queued"
    BY <1>0, <1>3 DEF Submitted, JobRecord
  <2>2. Lifecycle!Submit(j)
    BY <1>1, <1>3, <2>1 DEF Submitted, Kept, Lifecycle!Submit
  <2> QED BY <2>2
<1>4. CASE Withdrawn(j)
  <2>1. job'[j].status = "canceled"
    BY <1>4, WithdrawnStatus
  <2>2. Lifecycle!Cancel(j)
    BY <1>1, <1>4, <2>1 DEF Withdrawn, Lifecycle!Cancel
  <2> QED BY <2>2
<1>5. CASE CancelRequested(j)
  <2>1. job'[j].status = "canceling" /\ job'[j].claim = job[j].claim
    BY <1>0, <1>5 DEF CancelRequested, JobRecord
  <2>2. Lifecycle!Cancel(j)
    BY <1>5, <2>1 DEF CancelRequested, Lifecycle!Cancel
  <2> QED BY <2>2
<1>6. CASE Deleted(j)
  <2>1. job'[j].status \in {"deleting", "removed"}
    BY <1>0, <1>6 DEF Deleted, AbsentJob, JobRecord
  <2>2. Lifecycle!Delete(j)
    BY <1>1, <1>6, <2>1 DEF Deleted, Kept, TerminalStatus, Lifecycle!Delete
  <2> QED BY <2>2
<1>7. CASE SentBack(j)
  <2>1. job'[j].status \in {"queued", "failed"}
    BY <1>7, SentBackStatus
  <2>2. Lifecycle!Return(j)
    BY <1>1, <1>7, <2>1 DEF SentBack, Kept, Lifecycle!Return
  <2> QED BY <2>2
<1>8. CASE TakenOver(j)
  <2>1. PICK s \in Sessions : job'[j] = Recovered(j, s)
    BY <1>8 DEF TakenOver
  <2>2. /\ job'[j].claim = "none"
        /\ job'[j].status = IF job[j].status = "running" THEN "canceling"
                                                         ELSE job[j].status
    BY <1>0, <2>1 DEF Recovered, Interrupted, JobRecord
  <2>3. CASE job[j].status = "assigned"
    <3>1. job[j].claim # "held"
      BY <2>3 DEF JobInv, HeldInv
    <3> QED BY <1>8, <2>2, <2>3, <3>1, SameLife DEF TakenOver
  <2>4. CASE job[j].status \in {"running", "canceling"}
    <3>1. Lifecycle!TakeOver(j)
      BY <1>8, <2>2, <2>4 DEF TakenOver, Kept, Lifecycle!TakeOver
    <3> QED BY <3>1
  <2> QED BY <1>8, <2>3, <2>4 DEF TakenOver, ActiveStatus
<1>9. CASE Placed(j)
  <2>1. job'[j].status = "assigned"
    BY <1>0, <1>9 DEF Placed, Assigned, JobRecord
  <2>2. started[j] <= MaxRetries[j]
    BY <1>9 DEF Placed, JobInv, BudgetInv
  <2>3. Lifecycle!Place(j)
    BY <1>1, <1>9, <2>1, <2>2 DEF Placed, Kept, Lifecycle!Place
  <2> QED BY <2>3
<1>10. CASE Claimed(j)
  <2>1. job'[j].claim = "live" /\ job'[j].status = job[j].status
    BY <1>0, <1>10 DEF Claimed, JobRecord
  <2>2. CASE job[j].claim = "held"
    <3>1. job[j].status = "canceling"
      BY <1>10, <2>2 DEF Claimed, JobInv, HeldInv
    <3>2. Lifecycle!TakeOver(j)
      BY <1>10, <2>1, <3>1 DEF Claimed, Kept, Lifecycle!TakeOver
    <3> QED BY <3>2
  <2>3. CASE job[j].claim # "held"
    BY <1>10, <2>1, <2>3, SameLife DEF Claimed
  <2> QED BY <2>2, <2>3
<1>11. CASE Lapsed(j)
  <2>1. job'[j].claim = "expired" /\ job'[j].status = job[j].status
    BY <1>0, <1>11 DEF Lapsed, JobRecord
  <2> QED BY <1>11, <2>1, SameLife DEF Lapsed
<1>12. CASE Begun(j)
  <2>1. job'[j].status = "running" /\ job'[j].claim = "held"
    BY <1>0, <1>12 DEF Begun, JobRecord
  <2>2. started[j] <= MaxRetries[j]
    BY <1>0, <1>12 DEF Begun, JobInv, BudgetInv
  <2>3. Lifecycle!Begin(j)
    BY <1>12, <2>1, <2>2 DEF Begun, Lifecycle!Begin
  <2> QED BY <2>3
<1>13. CASE Reported(j)
  <2>2. Lifecycle!Keeps(j)
    BY <1>13 DEF Reported
  <2>3. CASE job[j].status = "running"
    <3>1. /\ job'[j].status \in {"succeeded", "failed", "queued"}
          /\ job'[j].status = "queued" => BudgetLeft(j)
      BY <1>13, <2>3, ReportedStatus
    <3>2. job'[j].status = "queued" => started[j] <= MaxRetries[j]
      BY <2>3, <3>1 DEF BudgetLeft, JobInv, BudgetInv
    <3>3. Lifecycle!Complete(j)
      BY <1>1, <2>2, <2>3, <3>1, <3>2 DEF Lifecycle!Complete
    <3> QED BY <3>3
  <2>4. CASE job[j].status = "canceling"
    <3>1. cancelAsked[j] <=> job[j].mark = "none"
      BY <2>4 DEF JobInv, CancelInv, StopInv
    <3>2. /\ job'[j].status \in {"canceled", "failed", "queued"}
          /\ job'[j].status = "canceled" <=> job[j].mark = "none"
          /\ job'[j].status = "queued" => job[j].mark = "retry"
      BY <1>13, <2>4, ReportedStatus
    <3>3. job[j].mark = "retry" => started[j] <= MaxRetries[j]
      BY <2>4 DEF JobInv, MarkInv, BudgetInv
    <3>4. Lifecycle!CleanUp(j)
      BY <1>1, <2>2, <2>4, <3>1, <3>2, <3>3 DEF Lifecycle!CleanUp
    <3> QED BY <3>4
  <2> QED BY <1>13, <2>3, <2>4 DEF Reported
<1> QED BY <1>2, <1>3, <1>4, <1>5, <1>6, <1>7, <1>8, <1>9, <1>10, <1>11,
           <1>12, <1>13 DEF JobStep, UnplacedStep, UnreportedStep

(* Whatever the order of requeues, takeovers, recovery markers and         *)
(* cancellations (store.go: registerNode, updateJobLocked,                 *)
(* CancelJobForScope), every job lives the life JobLifecycle describes.    *)
THEOREM StoreImplementsLifecycle == Spec => ImplementsLifecycle
<1>1. Init => Lifecycle!Init
  <2>1. SUFFICES ASSUME Init PROVE Life = [j \in Jobs |-> Lifecycle!Unborn]
    BY DEF Lifecycle!Init
  <2>2. ASSUME NEW j \in Jobs
        PROVE  /\ job[j].status = "absent" /\ started[j] = 0
               /\ (job[j].claim = "held") = FALSE
               /\ cancelAsked[j] = FALSE
    BY <2>1 DEF Init, AbsentJob
  <2> QED BY <2>2 DEF Life, Lifecycle!Unborn
<1>2. RefineInv /\ RefineInv' /\ [Next]_vars => Lifecycle!Next
  BY EveryJobSteps, StepRefines DEF RefineInv, LifeInv, Lifecycle!Next
<1>3. RefineInv /\ RefineInv' /\ [Next]_vars => [Lifecycle!Next]_Life
  BY <1>2
<1> QED BY <1>1, <1>3, RefineInvariant, PTL
       DEF Spec, ImplementsLifecycle, Lifecycle!Spec
=============================================================================
