-------------------------- MODULE JobStoreOwnership --------------------------
(***************************************************************************)
(* Proofs that relate JobStore's jobs to its nodes and projects: an active *)
(* job belongs to the session of a node that exists, a node's cached usage *)
(* agrees with the jobs on it, no GPU is given to two jobs, no project     *)
(* exceeds its quotas and no inventory the licence.                        *)
(***************************************************************************)
EXTENDS JobStoreProofs

----------------------------------------------------------------------------
(* How a step may leave jobs and nodes without disturbing ownership.       *)

(* The step makes no job active and moves no active one.                   *)
Stays(j) ==
  job'[j].status \in ActiveStatus =>
    /\ job[j].status \in ActiveStatus
    /\ job'[j].node = job[j].node
    /\ job'[j].session = job[j].session

(* What the ownership of jobs depends on in a node.                        *)
SameIdentity(r, q) ==
  r.known = q.known /\ r.session = q.session /\ r.cleanup = q.cleanup

(* The jobs the step changes are on node n, before and after.              *)
OnlyOn(n) ==
  \A i \in Jobs :
    \/ job'[i] = job[i]
    \/ /\ job[i].status \in ActiveStatus => job[i].node = n
       /\ job'[i].status \in ActiveStatus => job'[i].node = n

LEMMA RefreshedFields ==
  ASSUME NEW nodes \in [Nodes -> NodeRecord], NEW jobs, NEW n \in Nodes
  PROVE  \A m \in Nodes :
           /\ SameIdentity(Refreshed(nodes, jobs, n)[m], nodes[m])
           /\ m # n => Refreshed(nodes, jobs, n)[m] = nodes[m]
BY DEF Refreshed, NodeRecord, SameIdentity

LEMMA RefreshedBusy ==
  ASSUME NEW nodes \in [Nodes -> NodeRecord], NEW jobs, NEW n \in Nodes
  PROVE  Refreshed(nodes, jobs, n)[n].busy
           = (nodes[n].known /\ ActiveOn(jobs, n) # {})
BY DEF Refreshed, NodeRecord

(* Refreshing the one node whose jobs changed restores coherence.          *)
LEMMA CoherentAfter ==
  ASSUME UsageCoherent, NEW n \in Nodes, NEW nodes \in [Nodes -> NodeRecord],
         node' = Refreshed(nodes, job', n),
         \A m \in Nodes \ {n} : nodes[m].busy = node[m].busy,
         ActiveOn(job', n) # {} => nodes[n].known,
         OnlyOn(n)
  PROVE  UsageCoherent'
<1>1. node'[n].busy <=> ActiveOn(job', n) # {}
  BY RefreshedBusy
<1>2. ASSUME NEW m \in Nodes \ {n} PROVE node'[m].busy <=> ActiveOn(job', m) # {}
  <2>1. node'[m].busy = node[m].busy
    BY <1>2, RefreshedFields
  <2>2. ActiveOn(job', m) = ActiveOn(job, m)
    BY <1>2 DEF OnlyOn, ActiveOn
  <2>3. node[m].busy <=> ActiveOn(job, m) # {}
    BY <1>2 DEF UsageCoherent
  <2> QED BY <2>1, <2>2, <2>3
<1>3. \A m \in Nodes : node'[m].busy <=> ActiveOn(job', m) # {}
  BY <1>1, <1>2
<1> QED BY <1>3 DEF UsageCoherent, ActiveOn

(* Ownership survives a step that moves no active job and keeps the        *)
(* identity of every node.                                                 *)
LEMMA OwnedAfter ==
  ASSUME OwnedOrFenced, \A j \in Jobs : Stays(j),
         \A m \in Nodes : SameIdentity(node'[m], node[m])
  PROVE  OwnedOrFenced'
BY DEF OwnedOrFenced, Stays, SameIdentity
----------------------------------------------------------------------------
(* The two shared steps.                                                   *)

OwnInv == TypeOK /\ OwnedOrFenced /\ UsageCoherent

LEMMA SetJobOwned ==
  ASSUME OwnInv, NEW j \in Jobs, NEW r, SetJob(j, r),
         r.status \in ActiveStatus => /\ job[j].status \in ActiveStatus
                                      /\ r.node = job[j].node
                                      /\ r.session = job[j].session
  PROVE  OwnedOrFenced' /\ UsageCoherent'
<1>0. TypeOK /\ OwnedOrFenced /\ UsageCoherent /\ node \in [Nodes -> NodeRecord]
  BY DEF OwnInv, TypeOK
<1>1. job'[j] = r /\ \A i \in Jobs \ {j} : job'[i] = job[i]
  BY <1>0, SetJobSteps
<1>2. \A i \in Jobs : Stays(i)
  BY <1>1 DEF Stays
<1>3. CASE job[j].node = NoNode
  <2>1. UNCHANGED node
    BY <1>3 DEF SetJob
  <2>2. job[j].status \notin ActiveStatus /\ r.status \notin ActiveStatus
    BY <1>0, <1>3 DEF OwnedOrFenced, NoNode, Nodes
  <2>3. \A m \in Nodes : ActiveOn(job', m) = ActiveOn(job, m)
    BY <1>1, <2>2 DEF ActiveOn
  <2>4. UsageCoherent'
    BY <1>0, <2>1, <2>3 DEF UsageCoherent, ActiveOn
  <2> QED BY <1>0, <1>2, <2>1, <2>4, OwnedAfter DEF SameIdentity
<1>4. CASE job[j].node # NoNode
  <2> DEFINE n == job[j].node
  <2>1. n \in Nodes
    BY <1>0, <1>4 DEF TypeOK, JobRecord
  <2>2. node' = Refreshed(node, job', n)
    BY <1>4 DEF SetJob
  <2>3. \A m \in Nodes : SameIdentity(node'[m], node[m])
    BY <1>0, <2>1, <2>2, RefreshedFields
  <2>4. OnlyOn(n)
    BY <1>1 DEF OnlyOn
  <2>5. ActiveOn(job', n) # {} => node[n].known
    BY <1>0, <1>2, <2>1 DEF ActiveOn, Stays, OwnedOrFenced
  <2> HIDE DEF n
  <2>6. UsageCoherent'
    BY <1>0, <2>1, <2>2, <2>4, <2>5, CoherentAfter
  <2> QED BY <1>0, <1>2, <2>3, <2>6, OwnedAfter
<1> QED BY <1>3, <1>4

LEMMA RequeueOwned ==
  ASSUME OwnInv, NEW n \in Nodes, NEW nodes \in [Nodes -> NodeRecord],
         RequeueAssigned(n, nodes),
         \A m \in Nodes : /\ SameIdentity(nodes[m], node[m])
                          /\ m # n => nodes[m] = node[m]
  PROVE  OwnedOrFenced' /\ UsageCoherent'
<1>0. TypeOK /\ OwnedOrFenced /\ UsageCoherent /\ node \in [Nodes -> NodeRecord]
  BY DEF OwnInv, TypeOK
<1>1. PICK back \in SUBSET AssignedOn(n) :
        /\ job' = WithRequeued(back, AssignedOn(n) \ back)
        /\ node' = Refreshed(nodes, job', n)
  BY DEF RequeueAssigned
<1>2. \A j \in Jobs : \/ job'[j] = job[j]
                      \/ /\ j \in AssignedOn(n)
                         /\ job'[j].status \in {"queued", "failed"}
  <2>1. ASSUME NEW j \in Jobs
        PROVE  /\ Requeued(job[j]).status = "queued"
               /\ QueueFull(job[j]).status = "failed"
    BY <1>0, <2>1 DEF TypeOK, JobRecord, Requeued, QueueFull, Unassigned
  <2> QED BY <1>1, <2>1 DEF WithRequeued
<1>3. \A j \in Jobs : Stays(j)
  BY <1>2 DEF Stays, ActiveStatus
<1>4. OnlyOn(n)
  BY <1>2 DEF OnlyOn, AssignedOn, ActiveStatus
<1>5. \A m \in Nodes : SameIdentity(node'[m], node[m])
  BY <1>1, RefreshedFields DEF SameIdentity
<1>6. ActiveOn(job', n) # {} => nodes[n].known
  <2>1. ActiveOn(job', n) # {} => node[n].known
    BY <1>0, <1>3 DEF ActiveOn, Stays, OwnedOrFenced
  <2> QED BY <2>1 DEF SameIdentity
<1>7. UsageCoherent'
  BY <1>0, <1>1, <1>4, <1>6, CoherentAfter
<1> QED BY <1>0, <1>3, <1>5, <1>7, OwnedAfter

(* A step that changes no job, and of the nodes neither usage nor identity *)
(* nor, for a node with active jobs, the session they belong to.           *)
LEMMA NodesOwned ==
  ASSUME OwnInv, UNCHANGED job,
         \A m \in Nodes : /\ node'[m].known = node[m].known
                          /\ node'[m].busy = node[m].busy
                          /\ \/ SameIdentity(node'[m], node[m])
                             \/ /\ node'[m].session = NoSession
                                /\ node'[m].cleanup
                             \/ /\ node'[m].session = node[m].session
                                /\ node[m].session # NoSession
  PROVE  OwnedOrFenced' /\ UsageCoherent'
<1>1. OwnedOrFenced'
  BY DEF OwnInv, OwnedOrFenced, SameIdentity
<1>2. UsageCoherent'
  BY DEF OwnInv, UsageCoherent, ActiveOn
<1> QED BY <1>1, <1>2
----------------------------------------------------------------------------
(* Every operation of the store keeps OwnInv.                              *)

LEMMA InitOwned == Init => OwnedOrFenced /\ UsageCoherent
BY DEF Init, OwnedOrFenced, UsageCoherent, ActiveOn, AbsentJob, UnknownNode,
       ActiveStatus

LEMMA AdministrationOwned ==
  ASSUME OwnInv, Administration
  PROVE  OwnedOrFenced' /\ UsageCoherent'
<1>0. TypeOK /\ OwnedOrFenced /\ UsageCoherent /\ node \in [Nodes -> NodeRecord]
  BY DEF OwnInv, TypeOK
<1>1. ASSUME UNCHANGED <<job, node>> PROVE OwnedOrFenced' /\ UsageCoherent'
  BY <1>0, <1>1, NodesOwned DEF SameIdentity
<1>2. ASSUME NEW n \in Nodes, NEW enabled \in BOOLEAN,
             SetNodeMaintenance(n, enabled)
      PROVE  OwnedOrFenced' /\ UsageCoherent'
  <2>1. UNCHANGED job /\ \A m \in Nodes : /\ SameIdentity(node'[m], node[m])
                                          /\ node'[m].busy = node[m].busy
    BY <1>0, <1>2 DEF SetNodeMaintenance, SameIdentity, NodeRecord
  <2> QED BY <2>1, NodesOwned DEF SameIdentity
<1>3. ASSUME NEW n \in Nodes, DeleteNode(n)
      PROVE  OwnedOrFenced' /\ UsageCoherent'
  <2>1. /\ UNCHANGED job /\ ActiveOn(job, n) = {}
        /\ node'[n] = UnknownNode
        /\ \A m \in Nodes \ {n} : node'[m] = node[m]
    BY <1>0, <1>3 DEF DeleteNode
  <2>2. OwnedOrFenced'
    BY <1>0, <2>1 DEF OwnedOrFenced, ActiveOn
  <2>3. UsageCoherent'
    BY <1>0, <2>1 DEF UsageCoherent, ActiveOn, UnknownNode
  <2> QED BY <2>2, <2>3
<1> QED BY <1>1, <1>2, <1>3
       DEF Administration, CreateProject, UpdateProject, SetLicence

LEMMA UserOperationOwned ==
  ASSUME OwnInv, UserOperation
  PROVE  OwnedOrFenced' /\ UsageCoherent'
<1>0. TypeOK /\ OwnedOrFenced /\ UsageCoherent
  BY DEF OwnInv
<1>1. ASSUME NEW j \in Jobs, CreateJob(j) \/ BeginJobDeletion(j) \/ DeleteJob(j)
      PROVE  OwnedOrFenced' /\ UsageCoherent'
  <2>1. /\ UNCHANGED node
        /\ \A i \in Jobs \ {j} : job'[i] = job[i]
        /\ job[j].status \notin ActiveStatus /\ job'[j].status \notin ActiveStatus
    BY <1>0, <1>1 DEF CreateJob, BeginJobDeletion, DeleteJob, TypeOK, JobRecord,
                      AbsentJob, ActiveStatus, TerminalStatus
  <2>2. \A i \in Jobs : Stays(i)
    BY <2>1 DEF Stays
  <2>3. OwnedOrFenced'
    BY <1>0, <2>1, <2>2, OwnedAfter DEF SameIdentity
  <2>4. \A m \in Nodes : ActiveOn(job', m) = ActiveOn(job, m)
    BY <2>1 DEF ActiveOn
  <2>5. UsageCoherent'
    BY <1>0, <2>1, <2>4 DEF UsageCoherent, ActiveOn
  <2> QED BY <2>3, <2>5
<1>2. ASSUME NEW j \in Jobs, CancelJob(j)
      PROVE  OwnedOrFenced' /\ UsageCoherent'
  <2>0. job[j] \in JobRecord
    BY <1>0 DEF TypeOK
  <2>1. CASE SetJob(j, Unassigned([job[j] EXCEPT !.status = "canceled"]))
    <3>1. Unassigned([job[j] EXCEPT !.status = "canceled"]).status = "canceled"
      BY <2>0 DEF Unassigned, JobRecord
    <3> QED BY <2>1, <3>1, SetJobOwned DEF ActiveStatus
  <2>2. CASE /\ job[j].status = "running"
             /\ SetJob(j, [job[j] EXCEPT !.status = "canceling"])
    <3>1. /\ [job[j] EXCEPT !.status = "canceling"].node = job[j].node
          /\ [job[j] EXCEPT !.status = "canceling"].session = job[j].session
      BY <2>0 DEF JobRecord
    <3> QED BY <2>2, <3>1, SetJobOwned DEF ActiveStatus
  <2>3. CASE /\ job[j].status = "canceling"
             /\ SetJob(j, [job[j] EXCEPT !.mark = "none"])
    <3>1. /\ [job[j] EXCEPT !.mark = "none"].node = job[j].node
          /\ [job[j] EXCEPT !.mark = "none"].session = job[j].session
      BY <2>0 DEF JobRecord
    <3> QED BY <2>3, <3>1, SetJobOwned DEF ActiveStatus
  <2> QED BY <1>2, <2>1, <2>2, <2>3 DEF CancelJob
<1> QED BY <1>1, <1>2 DEF UserOperation
(* A registration gives the node's active jobs to the session it installs. *)
LEMMA RegisterOwned ==
  ASSUME OwnInv, TypeOK', NEW n \in Nodes, NEW s \in Sessions,
         NEW healthy \in BOOLEAN, NEW g \in Inventories,
         RegisterNode(n, s, healthy, g)
  PROVE  OwnedOrFenced' /\ UsageCoherent'
<1>0. TypeOK /\ OwnedOrFenced /\ UsageCoherent
  BY DEF OwnInv
<1> DEFINE takeover == node[n].known /\ node[n].session # s
           fresh == [known |-> TRUE, session |-> s, cleanup |-> TRUE,
                     stale |-> FALSE, healthy |-> healthy,
                     maintenance |-> node[n].maintenance,
                     gpus |-> RegisteredGpus(n, healthy, g), busy |-> FALSE]
           nodes == [node EXCEPT ![n] = fresh]
<1>1. /\ job' = [j \in Jobs |-> IF takeover /\ j \in ActiveOn(job, n)
                                  THEN Recovered(j, s) ELSE job[j]]
      /\ node' = Refreshed(nodes, job', n)
  BY DEF RegisterNode
<1>2. RegisteredGpus(n, healthy, g) \in 0..MaxGpus
  BY <1>0, SizesAssumption DEF RegisteredGpus, TypeOK, NodeRecord
<1>3. /\ fresh \in NodeRecord /\ fresh.known = TRUE /\ fresh.session = s
  BY <1>0, <1>2 DEF TypeOK, NodeRecord
<1> HIDE DEF fresh
<1>4. /\ nodes \in [Nodes -> NodeRecord] /\ nodes[n] = fresh
      /\ \A m \in Nodes \ {n} : nodes[m] = node[m]
  BY <1>0, <1>3 DEF TypeOK
<1> HIDE DEF nodes
<1>5. \A j \in Jobs :
        \/ job'[j] = job[j]
        \/ /\ j \in ActiveOn(job, n) /\ job'[j].node = n /\ job'[j].session = s
           /\ job'[j].status \in ActiveStatus
  <2>1. ASSUME NEW j \in ActiveOn(job, n)
        PROVE  /\ Recovered(j, s).node = n /\ Recovered(j, s).session = s
               /\ Recovered(j, s).status \in ActiveStatus
    BY <1>0, <2>1 DEF ActiveOn, TypeOK, JobRecord, Recovered, Interrupted,
                      ActiveStatus
  <2> QED BY <1>1, <2>1
<1>6. \A j \in ActiveOn(job, n) : job'[j].session = s
  <2>1. CASE takeover
    <3>1. ASSUME NEW j \in ActiveOn(job, n) PROVE Recovered(j, s).session = s
      BY <1>0, <3>1 DEF ActiveOn, TypeOK, JobRecord, Recovered, Interrupted
    <3> QED BY <1>1, <2>1, <3>1 DEF ActiveOn
  <2>2. CASE ~takeover
    <3>1. \A j \in ActiveOn(job, n) : node[n].known /\ node[n].session = s
      BY <1>0, <2>2 DEF ActiveOn, OwnedOrFenced
    <3>2. \A j \in ActiveOn(job, n) : job[j].session = s
      BY <1>0, <3>1, PolicyAssumption DEF ActiveOn, OwnedOrFenced
    <3> QED BY <1>1, <2>2, <3>2 DEF ActiveOn
  <2> QED BY <2>1, <2>2
<1>7. /\ \A m \in Nodes : SameIdentity(node'[m], nodes[m])
  BY <1>1, <1>4, RefreshedFields
<1>8. OwnedOrFenced'
  <2>1. ASSUME NEW j \in Jobs, job'[j].status \in ActiveStatus
        PROVE  /\ job'[j].node \in Nodes
               /\ node'[job'[j].node].known
               /\ \/ node'[job'[j].node].session = job'[j].session
                  \/ /\ node'[job'[j].node].session = NoSession
                     /\ node'[job'[j].node].cleanup
    <3>1. CASE job'[j].node = n
      <4>1. j \in ActiveOn(job, n)
        BY <1>5, <2>1, <3>1 DEF ActiveOn
      <4> QED BY <1>3, <1>4, <1>6, <1>7, <3>1, <4>1 DEF SameIdentity
    <3>2. CASE job'[j].node # n
      <4>1. job'[j] = job[j]
        BY <1>5, <2>1, <3>2
      <4> QED BY <1>0, <1>4, <1>7, <2>1, <3>2, <4>1
              DEF OwnedOrFenced, SameIdentity
    <3> QED BY <3>1, <3>2
  <2> QED BY <2>1 DEF OwnedOrFenced
<1>9. OnlyOn(n)
  BY <1>5 DEF OnlyOn, ActiveOn
<1>10. UsageCoherent'
  BY <1>0, <1>1, <1>3, <1>4, <1>9, CoherentAfter
<1> QED BY <1>8, <1>10

LEMMA AgentNodeOperationOwned ==
  ASSUME OwnInv, TypeOK', AgentNodeOperation
  PROVE  OwnedOrFenced' /\ UsageCoherent'
<1>0. TypeOK /\ OwnedOrFenced /\ UsageCoherent /\ node \in [Nodes -> NodeRecord]
  BY DEF OwnInv, TypeOK
<1>1. ASSUME NEW n \in Nodes, ConfirmCleanup(n)
      PROVE  OwnedOrFenced' /\ UsageCoherent'
  <2>1. node[n].session # NoSession
    BY <1>1 DEF ConfirmCleanup, SessionValid
  <2>2. UNCHANGED job /\ \A m \in Nodes : /\ node'[m].known = node[m].known
                                          /\ node'[m].busy = node[m].busy
                                          /\ node'[m].session = node[m].session
                                          /\ m # n => node'[m] = node[m]
    BY <1>0, <1>1 DEF ConfirmCleanup, NodeRecord
  <2> QED BY <2>1, <2>2, NodesOwned DEF SameIdentity
<1>2. ASSUME NEW n \in Nodes, FenceExpiredSession(n)
      PROVE  OwnedOrFenced' /\ UsageCoherent'
  <2>1. /\ UNCHANGED job /\ node'[n] = Fenced(n)
        /\ \A m \in Nodes \ {n} : node'[m] = node[m]
    BY <1>0, <1>2 DEF FenceExpiredSession
  <2>2. /\ Fenced(n).session = NoSession /\ Fenced(n).cleanup = TRUE
        /\ Fenced(n).known = node[n].known /\ Fenced(n).busy = node[n].busy
    BY <1>0 DEF Fenced, NodeRecord
  <2> QED BY <2>1, <2>2, NodesOwned DEF SameIdentity
<1>3. ASSUME NEW n \in Nodes, NEW healthy \in BOOLEAN, NEW g \in Inventories,
             NEW hostChanged \in BOOLEAN,
             UpdateNodeHealth(n, healthy, g, hostChanged)
      PROVE  OwnedOrFenced' /\ UsageCoherent'
  <2> DEFINE gpus == IF healthy THEN g ELSE node[n].gpus
             updated == [node EXCEPT ![n].healthy = healthy, ![n].gpus = gpus]
  <2>1. gpus \in 0..MaxGpus
    BY <1>0, SizesAssumption DEF NodeRecord
  <2>2. updated \in [Nodes -> NodeRecord]
    <3>1. [node[n] EXCEPT !.healthy = healthy, !.gpus = gpus] \in NodeRecord
      BY <1>0, <2>1, NodeHealthType
    <3> QED BY <1>0, <3>1
  <2>3. \A m \in Nodes : /\ SameIdentity(updated[m], node[m])
                         /\ updated[m].busy = node[m].busy
                         /\ m # n => updated[m] = node[m]
    BY <1>0 DEF SameIdentity, NodeRecord
  <2>4. \/ RequeueAssigned(n, updated)
        \/ UNCHANGED job /\ node' = Refreshed(updated, job, n)
    BY <1>3 DEF UpdateNodeHealth
  <2> HIDE DEF updated
  <2>5. CASE RequeueAssigned(n, updated)
    BY <2>2, <2>3, <2>5, RequeueOwned
  <2>6. CASE UNCHANGED job /\ node' = Refreshed(updated, job, n)
    <3>1. node' = Refreshed(updated, job', n) /\ OnlyOn(n)
      BY <2>6 DEF OnlyOn
    <3>2. ActiveOn(job', n) # {} => updated[n].known
      BY <1>0, <2>3, <2>6 DEF ActiveOn, OwnedOrFenced, SameIdentity
    <3>3. UsageCoherent'
      BY <1>0, <2>2, <2>3, <3>1, <3>2, CoherentAfter
    <3>4. \A m \in Nodes : SameIdentity(node'[m], node[m])
      BY <2>2, <2>3, <3>1, RefreshedFields DEF SameIdentity
    <3> QED BY <1>0, <2>6, <3>3, <3>4, OwnedAfter DEF Stays
  <2> QED BY <2>4, <2>5, <2>6
<1> QED
  BY <1>1, <1>2, <1>3, RegisterOwned
     DEF AgentNodeOperation, RegisteredHealth, ReportedHealth
LEMMA AgentJobOperationOwned ==
  ASSUME OwnInv, AgentJobOperation
  PROVE  OwnedOrFenced' /\ UsageCoherent'
<1>0. TypeOK /\ OwnedOrFenced /\ UsageCoherent /\ node \in [Nodes -> NodeRecord]
  BY DEF OwnInv, TypeOK
<1>1. ASSUME NEW n \in Nodes, RequeueAssigned(n, node)
      PROVE  OwnedOrFenced' /\ UsageCoherent'
  BY <1>0, <1>1, RequeueOwned DEF SameIdentity
<1>2. ASSUME NEW S \in SUBSET Jobs, ClaimOldest(S)
      PROVE  OwnedOrFenced' /\ UsageCoherent'
  <2>1. /\ UNCHANGED node
        /\ \A i \in Jobs : /\ job'[i].status = job[i].status
                           /\ job'[i].node = job[i].node
                           /\ job'[i].session = job[i].session
    BY <1>0, <1>2 DEF ClaimOldest, TypeOK, JobRecord
  <2>2. OwnedOrFenced'
    BY <1>0, <2>1 DEF OwnedOrFenced
  <2>3. \A m \in Nodes : ActiveOn(job', m) = ActiveOn(job, m)
    BY <2>1 DEF ActiveOn
  <2>4. UsageCoherent'
    BY <1>0, <2>1, <2>3 DEF UsageCoherent, ActiveOn
  <2> QED BY <2>2, <2>4
<1>3. ASSUME NEW n \in Nodes, NextJob(n)
      PROVE  OwnedOrFenced' /\ UsageCoherent'
  BY <1>1, <1>2, <1>3 DEF NextJob, Dispatchable
<1>4. ASSUME NEW j \in Jobs, ReportRunning(j)
      PROVE  OwnedOrFenced' /\ UsageCoherent'
  <2>1. job[j].node \in Nodes /\ job[j] \in JobRecord
    BY <1>0, <1>4 DEF ReportRunning, HoldsAttempt, TypeOK, JobRecord
  <2>2. CASE Startable(job[j].node)
    <3> DEFINE r == [job[j] EXCEPT !.status = "running", !.claim = "held"]
    <3>1. SetJob(j, r) /\ job[j].status \in ActiveStatus
      BY <1>4, <2>2 DEF ReportRunning, ActiveStatus
    <3>2. r.node = job[j].node /\ r.session = job[j].session
      BY <2>1 DEF JobRecord
    <3> QED BY <3>1, <3>2, SetJobOwned
  <2>3. CASE ~Startable(job[j].node)
    BY <1>1, <1>4, <2>1, <2>3 DEF ReportRunning
  <2> QED BY <2>2, <2>3
<1>5. ASSUME NEW j \in Jobs, NEW retryable \in BOOLEAN,
             ReportSucceeded(j) \/ ReportFailed(j, retryable) \/ ReportCanceled(j)
      PROVE  OwnedOrFenced' /\ UsageCoherent'
  <2>1. job[j] \in JobRecord /\ job[j].mark \in {"none", "retry", "cleanup"}
    BY <1>0 DEF TypeOK, JobRecord, Marker
  <2> DEFINE requeued == Unassigned([job[j] EXCEPT !.status = "queued",
                                                   !.mark = "none"])
  <2>2. \/ SetJob(j, requeued)
        \/ \E s \in {"succeeded", "failed", "canceled"} :
             SetJob(j, Finished(job[j], s))
    BY <1>5, <2>1
       DEF ReportSucceeded, ReportFailed, ReportCanceled, RetryOrFail
  <2>3. requeued.status = "queued"
    BY <2>1 DEF Unassigned, JobRecord
  <2>4. \A s \in {"succeeded", "failed", "canceled"} :
          Finished(job[j], s).status = s
    BY <2>1 DEF Finished, JobRecord
  <2> HIDE DEF requeued
  <2>5. CASE SetJob(j, requeued)
    BY <2>3, <2>5, SetJobOwned DEF ActiveStatus
  <2>6. ASSUME NEW s \in {"succeeded", "failed", "canceled"},
               SetJob(j, Finished(job[j], s))
        PROVE  OwnedOrFenced' /\ UsageCoherent'
    BY <2>4, <2>6, SetJobOwned DEF ActiveStatus
  <2> QED BY <2>2, <2>5, <2>6
<1> QED BY <1>3, <1>4, <1>5 DEF AgentJobOperation

LEMMA SchedulingPassOwned ==
  ASSUME OwnInv, SchedulingPass
  PROVE  OwnedOrFenced' /\ UsageCoherent'
<1>0. TypeOK /\ OwnedOrFenced /\ UsageCoherent /\ node \in [Nodes -> NodeRecord]
  BY DEF OwnInv, TypeOK
<1>1. CASE Schedule
  <2>1. UNCHANGED job /\ \A m \in Nodes : \/ node'[m] = node[m]
                                          \/ node'[m] = Fenced(m)
    BY <1>1 DEF Schedule
  <2>2. \A m \in Nodes :
          /\ Fenced(m).session = NoSession /\ Fenced(m).cleanup = TRUE
          /\ Fenced(m).known = node[m].known /\ Fenced(m).busy = node[m].busy
    BY <1>0 DEF Fenced, NodeRecord
  <2> QED BY <2>1, <2>2, NodesOwned DEF SameIdentity
<1>2. ASSUME NEW j \in Jobs, NEW n \in Nodes, ScheduleAssign(j, n)
      PROVE  OwnedOrFenced' /\ UsageCoherent'
  <2>1. /\ job'[j] = Assigned(job[j], j, n)
        /\ \A i \in Jobs \ {j} : job'[i] = job[i]
        /\ node' = Refreshed(node, job', n)
        /\ job[j].status = "queued" /\ node[n].known
    BY <1>0, <1>2 DEF ScheduleAssign, Placeable, Eligible, TypeOK
  <2>2. /\ Assigned(job[j], j, n).node = n
        /\ Assigned(job[j], j, n).session = node[n].session
    BY <1>0 DEF Assigned, TypeOK, JobRecord
  <2>3. \A m \in Nodes : SameIdentity(node'[m], node[m])
    BY <1>0, <2>1, RefreshedFields
  <2>4. OwnedOrFenced'
    BY <1>0, <2>1, <2>2, <2>3 DEF OwnedOrFenced, SameIdentity
  <2>5. OnlyOn(n)
    BY <2>1, <2>2 DEF OnlyOn, ActiveStatus
  <2>6. UsageCoherent'
    BY <1>0, <2>1, <2>5, CoherentAfter
  <2> QED BY <2>4, <2>6
<1>3. CASE ScheduleEnd
  BY <1>0, <1>3, NodesOwned DEF ScheduleEnd, SameIdentity
<1> QED BY <1>1, <1>2, <1>3 DEF SchedulingPass

LEMMA TimeOwned ==
  ASSUME OwnInv, Time \/ UNCHANGED vars
  PROVE  OwnedOrFenced' /\ UsageCoherent'
<1>0. TypeOK /\ OwnedOrFenced /\ UsageCoherent /\ node \in [Nodes -> NodeRecord]
  BY DEF OwnInv, TypeOK
<1>1. ASSUME NEW n \in Nodes, HeartbeatLapses(n) \/ HealthReportLapses(n)
      PROVE  OwnedOrFenced' /\ UsageCoherent'
  <2>1. UNCHANGED job /\ \A m \in Nodes : /\ SameIdentity(node'[m], node[m])
                                          /\ node'[m].busy = node[m].busy
    BY <1>0, <1>1 DEF HeartbeatLapses, HealthReportLapses, SameIdentity, NodeRecord
  <2> QED BY <2>1, NodesOwned DEF SameIdentity
<1>2. ASSUME NEW j \in Jobs, LeaseExpires(j)
      PROVE  OwnedOrFenced' /\ UsageCoherent'
  <2>1. /\ UNCHANGED node
        /\ \A i \in Jobs : /\ job'[i].status = job[i].status
                           /\ job'[i].node = job[i].node
                           /\ job'[i].session = job[i].session
    BY <1>0, <1>2 DEF LeaseExpires, TypeOK, JobRecord
  <2>2. \A m \in Nodes : ActiveOn(job', m) = ActiveOn(job, m)
    BY <2>1 DEF ActiveOn
  <2>3. OwnedOrFenced'
    BY <1>0, <2>1 DEF OwnedOrFenced
  <2>4. UsageCoherent'
    BY <1>0, <2>1, <2>2 DEF UsageCoherent, ActiveOn
  <2> QED BY <2>3, <2>4
<1>3. CASE UNCHANGED vars
  BY <1>0, <1>3, NodesOwned DEF vars, SameIdentity
<1> QED BY <1>1, <1>2, <1>3 DEF Time

LEMMA NextOwn ==
  ASSUME OwnInv, [Next]_vars
  PROVE  OwnInv'
BY NextType, AdministrationOwned, UserOperationOwned, AgentNodeOperationOwned,
   AgentJobOperationOwned, SchedulingPassOwned, TimeOwned DEF Next, OwnInv

LEMMA OwnInvariant == Spec => []OwnInv
<1>1. Init => OwnInv
  BY InitType, InitOwned DEF OwnInv
<1>2. OwnInv /\ [Next]_vars => OwnInv'
  BY NextOwn
<1> QED BY <1>1, <1>2, PTL DEF Spec

(* An active job is on a known node and belongs to its session, or the     *)
(* node is fenced until a new session has cleaned it up.                   *)
THEOREM OwnedOrFencedHolds == Spec => []OwnedOrFenced
<1>1. OwnInv => OwnedOrFenced
  BY DEF OwnInv
<1> QED BY <1>1, OwnInvariant, PTL

(* Busy never disagrees with the jobs on the node.                         *)
THEOREM UsageCoherentHolds == Spec => []UsageCoherent
<1>1. OwnInv => UsageCoherent
  BY DEF OwnInv
<1> QED BY <1>1, OwnInvariant, PTL

----------------------------------------------------------------------------
(* No GPU is given to two jobs.  A step of the store either leaves every   *)
(* active job where it is, with the GPUs it has, or is one assignment;     *)
(* and an assignment takes free GPUs of a node that the new job may share, *)
(* or a node that its cached usage shows, correctly, to be idle.           *)

(* The step makes no job active and takes no GPU from or to an active one. *)
StaysPut(j) ==
  job'[j].status \in ActiveStatus =>
    /\ job[j].status \in ActiveStatus
    /\ job'[j].node = job[j].node
    /\ job'[j].gpus = job[j].gpus

LEMMA UnplacedStaysPut ==
  ASSUME TypeOK, NEW j \in Jobs, UnplacedStep(j)
  PROVE  StaysPut(j)
<1>1. job[j] \in JobRecord
  BY DEF TypeOK
<1>2. CASE Untouched(j)
  BY <1>2 DEF Untouched, StaysPut
<1>3. CASE CancelRequested(j)
  BY <1>1, <1>3 DEF CancelRequested, JobRecord, StaysPut, ActiveStatus
<1>4. CASE Claimed(j) \/ Lapsed(j)
  BY <1>1, <1>4 DEF Claimed, Lapsed, JobRecord, StaysPut, ActiveStatus
<1>5. CASE Begun(j)
  BY <1>1, <1>5 DEF Begun, JobRecord, StaysPut, ActiveStatus
<1>6. CASE TakenOver(j)
  BY <1>1, <1>6 DEF TakenOver, Recovered, Interrupted, JobRecord, StaysPut,
                    ActiveStatus
<1>7. CASE Submitted(j)
  BY <1>1, <1>7 DEF Submitted, JobRecord, StaysPut, ActiveStatus
<1>8. CASE Deleted(j)
  BY <1>1, <1>8 DEF Deleted, AbsentJob, JobRecord, StaysPut, ActiveStatus
<1>9. CASE Withdrawn(j)
  BY <1>9, WithdrawnStatus DEF StaysPut, ActiveStatus
<1>10. CASE SentBack(j)
  BY <1>10, SentBackStatus DEF StaysPut, ActiveStatus
<1>11. CASE Reported(j)
  BY <1>11, ReportedStatus DEF StaysPut, ActiveStatus
<1> QED BY <1>2, <1>3, <1>4, <1>5, <1>6, <1>7, <1>8, <1>9, <1>10, <1>11
        DEF UnplacedStep, UnreportedStep

LEMMA PutKeepsUse ==
  ASSUME ExclusiveUse, \A j \in Jobs : StaysPut(j)
  PROVE  ExclusiveUse'
<1>1. ASSUME NEW n \in Nodes, NEW i \in ActiveOn(job', n)
      PROVE  i \in ActiveOn(job, n) /\ job'[i].gpus = job[i].gpus
  BY <1>1 DEF ActiveOn, StaysPut
<1>2. \A n \in Nodes : ActiveOn(job, n)' = ActiveOn(job', n)
  BY DEF ActiveOn
<1> QED
  BY <1>1, <1>2 DEF ExclusiveUse

----------------------------------------------------------------------------
(* An assignment.                                                          *)

LEMMA FreeGpusFinite ==
  ASSUME TypeOK, NEW n \in Nodes
  PROVE  IsFiniteSet(FreeGpus(n))
<1>1. node[n].gpus - 1 \in Int
  BY SizesAssumption DEF TypeOK, NodeRecord
<1>2. IsFiniteSet(0..node[n].gpus - 1)
  BY <1>1, FS_Interval
<1> QED
  BY <1>2, FS_Subset DEF FreeGpus

(* A job that needs no GPU is given none.                                  *)
LEMMA NoGpusForNone ==
  ASSUME TypeOK, NEW n \in Nodes
  PROVE  Cardinality(AvailableGpus(n, 0)) = 0
<1>1. ASSUME NEW g \in FreeGpus(n)
      PROVE  Cardinality({h \in FreeGpus(n) : h < g}) \in Nat
  BY FreeGpusFinite, FS_Subset, FS_CardinalityType
<1>2. AvailableGpus(n, 0) = {}
  BY <1>1 DEF AvailableGpus
<1> QED
  BY <1>2, FS_EmptySet

LEMMA AssignedAlone ==
  ASSUME OwnInv, NEW j \in Jobs, NEW n \in Nodes, Placeable(j, n)
  PROVE  /\ Granular => Cardinality(AvailableGpus(n, GpuCount[j])) = GpuCount[j]
         /\ \A i \in ActiveOn(job, n) :
              /\ Granular /\ GpuCount[i] > 0 /\ GpuCount[j] > 0
              /\ job[i].gpus \cap AvailableGpus(n, GpuCount[j]) = {}
<1>0. TypeOK /\ UsageCoherent /\ HasCapacity(j, n) /\ node[n].known
  BY DEF OwnInv, Placeable, Eligible
<1>1. CASE Granular /\ GpuCount[j] > 0
  <2>1. /\ \A i \in ActiveOn(job, n) : GpuCount[i] > 0
        /\ Cardinality(AvailableGpus(n, GpuCount[j])) = GpuCount[j]
    BY <1>0, <1>1 DEF HasCapacity
  <2>2. ASSUME NEW i \in ActiveOn(job, n)
        PROVE  job[i].gpus \cap AvailableGpus(n, GpuCount[j]) = {}
    <3>1. job[i].gpus \subseteq HeldGpus(i, n)
      BY DEF HeldGpus
    <3> QED
      BY <2>2, <3>1 DEF AvailableGpus, FreeGpus, UsedGpus
  <2> QED
    BY <1>1, <2>1, <2>2
<1>2. CASE ~(Granular /\ GpuCount[j] > 0)
  <2>1. ~node[n].busy
    BY <1>0, <1>2 DEF HasCapacity
  <2>2. ActiveOn(job, n) = {}
    BY <1>0, <2>1 DEF UsageCoherent
  <2>3. GpuCount[j] = 0 \/ ~Granular
    BY <1>2, JobAttributesAssumption
  <2>4. Granular => Cardinality(AvailableGpus(n, GpuCount[j])) = GpuCount[j]
    BY <1>0, <2>3, NoGpusForNone
  <2> QED
    BY <2>2, <2>4
<1> QED
  BY <1>1, <1>2

LEMMA AssignKeepsUse ==
  ASSUME OwnInv, ExclusiveUse, NEW j \in Jobs, NEW n \in Nodes,
         ScheduleAssign(j, n)
  PROVE  ExclusiveUse'
<1> DEFINE taken == AvailableGpus(n, GpuCount[j])
<1>0. TypeOK /\ Placeable(j, n) /\ job[j].status = "queued"
  BY DEF OwnInv, ScheduleAssign, Placeable
<1>1. /\ job'[j] = Assigned(job[j], j, n)
      /\ \A i \in Jobs \ {j} : job'[i] = job[i]
  BY <1>0 DEF ScheduleAssign, TypeOK
<1>2. /\ job'[j].node = n
      /\ Granular => job'[j].gpus = taken
  BY <1>0, <1>1 DEF Assigned, TypeOK, JobRecord
<1>3. ASSUME NEW m \in Nodes, NEW i \in ActiveOn(job', m)
      PROVE  \/ i \in ActiveOn(job, m) /\ i # j /\ job'[i] = job[i]
             \/ i = j /\ m = n
  BY <1>0, <1>1, <1>2, <1>3 DEF ActiveOn, ActiveStatus
<1>4. /\ Granular => Cardinality(taken) = GpuCount[j]
      /\ \A i \in ActiveOn(job, n) :
           /\ Granular /\ GpuCount[i] > 0 /\ GpuCount[j] > 0
           /\ job[i].gpus \cap taken = {}
  BY <1>0, AssignedAlone
<1> HIDE DEF taken
<1>5. ASSUME NEW m \in Nodes, NEW i \in ActiveOn(job', m)
      PROVE  Granular => Cardinality(job'[i].gpus) = GpuCount[i]
  BY <1>2, <1>3, <1>4, <1>5 DEF ExclusiveUse
<1>6. ASSUME NEW m \in Nodes, NEW i \in ActiveOn(job', m),
             NEW k \in ActiveOn(job', m), i # k
      PROVE  Granular /\ GpuCount[i] > 0 /\ job'[i].gpus \cap job'[k].gpus = {}
  <2>1. CASE i # j /\ k # j
    BY <1>3, <1>6, <2>1 DEF ExclusiveUse
  <2>2. CASE i = j
    BY <1>2, <1>3, <1>4, <1>6, <2>2
  <2>3. CASE k = j
    BY <1>2, <1>3, <1>4, <1>6, <2>3
  <2> QED
    BY <2>1, <2>2, <2>3
<1>7. \A m \in Nodes : ActiveOn(job, m)' = ActiveOn(job', m)
  BY DEF ActiveOn
<1> QED
  BY <1>5, <1>6, <1>7 DEF ExclusiveUse

LEMMA NextUse ==
  ASSUME OwnInv, ExclusiveUse, [Next]_vars
  PROVE  ExclusiveUse'
<1>1. CASE \E j \in Jobs, n \in Nodes : ScheduleAssign(j, n)
  BY <1>1, AssignKeepsUse
<1>2. CASE ~\E j \in Jobs, n \in Nodes : ScheduleAssign(j, n)
  BY <1>2, StepsUnplaced, UnplacedStaysPut, PutKeepsUse DEF OwnInv
<1> QED BY <1>1, <1>2

(* Two jobs hold one node together only with disjoint sets of GPUs         *)
(* (store.go: assignJobLocked, availableGPUsLocked), whatever inventory    *)
(* the node reports meanwhile.                                             *)
THEOREM ExclusiveUseHolds == Spec => []ExclusiveUse
<1>1. Init => ExclusiveUse
  BY DEF Init, AbsentJob, ActiveOn, ActiveStatus, ExclusiveUse
<1>2. OwnInv /\ ExclusiveUse /\ [Next]_vars => ExclusiveUse'
  BY NextUse
<1> QED BY <1>1, <1>2, OwnInvariant, PTL DEF Spec

----------------------------------------------------------------------------
(* No project exceeds its quotas, and registered capacity grows only       *)
(* within the licence.  The limits hold numbers of queued jobs, of active  *)
(* jobs, of GPUs charged to them, of nodes and of their GPUs: these are    *)
(* cardinalities, and a step adds to them at most what the store has just  *)
(* found room for.                                                         *)

(* A job exists only in a project that exists, so that a new project is    *)
(* empty whatever its limits.                                              *)
Homed == \A j \in Jobs : job[j].status # "absent" => project[ProjectOf[j]].known

LEMMA HomedStep ==
  ASSUME TypeOK, NEW j \in Jobs, JobStep(j), job[j].status = "absent",
         ~project[ProjectOf[j]].known
  PROVE  job'[j].status = "absent"
<1>0. job[j] \in JobRecord
  BY DEF TypeOK
<1>1. CASE Untouched(j)
  BY <1>1 DEF Untouched
<1>2. CASE Lapsed(j)
  BY <1>0, <1>2 DEF Lapsed, JobRecord
<1> QED BY <1>1, <1>2
        DEF JobStep, UnplacedStep, UnreportedStep, Submitted, Withdrawn, CancelRequested, Deleted,
            SentBack, TakenOver, Placed, Claimed, Begun, Reported,
            TerminalStatus, ActiveStatus

(* Only administrators change a project, and then no job.                  *)
LEMMA ProjectSteps ==
  ASSUME TypeOK, [Next]_vars
  PROVE  \/ UNCHANGED project
         \/ /\ UNCHANGED job
            /\ \E p \in Projects, q \in Quotas, active \in BOOLEAN :
                 CreateProject(p, q, active) \/ UpdateProject(p, q, active)
<1>1. CASE Administration
  BY <1>1 DEF Administration, CreateProject, UpdateProject, SetLicence,
              SetNodeMaintenance, DeleteNode
<1>2. CASE UserOperation
  BY <1>2 DEF UserOperation, CreateJob, CancelJob, BeginJobDeletion, DeleteJob
<1>3. CASE AgentNodeOperation
  BY <1>3 DEF AgentNodeOperation, RegisterNode, ConfirmCleanup,
              FenceExpiredSession, UpdateNodeHealth
<1>4. CASE AgentJobOperation
  BY <1>4 DEF AgentJobOperation, NextJob, ReportRunning, ReportSucceeded,
              ReportFailed, ReportCanceled
<1>5. CASE SchedulingPass
  BY <1>5 DEF SchedulingPass, Schedule, ScheduleAssign, ScheduleEnd
<1>6. CASE Time
  BY <1>6 DEF Time, HeartbeatLapses, HealthReportLapses, LeaseExpires
<1>7. CASE UNCHANGED vars
  BY <1>7 DEF vars
<1> QED BY <1>1, <1>2, <1>3, <1>4, <1>5, <1>6, <1>7 DEF Next

LEMMA HomedAfter ==
  ASSUME TypeOK, Homed, [Next]_vars
  PROVE  Homed'
<1>1. \A p \in Projects : project[p].known => project'[p].known
  <2>1. ASSUME NEW p \in Projects, NEW q \in Quotas, NEW active \in BOOLEAN,
               CreateProject(p, q, active) \/ UpdateProject(p, q, active)
        PROVE  \A r \in Projects : project[r].known => project'[r].known
    <3>1. \A r \in Projects \ {p} : project'[r] = project[r]
      BY <2>1 DEF CreateProject, UpdateProject, TypeOK
    <3>2. project[p].known => project'[p].known
      BY <2>1 DEF CreateProject, UpdateProject, TypeOK, ProjectRecord
    <3> QED BY <3>1, <3>2
  <2> QED BY <2>1, ProjectSteps
<1>2. \A j \in Jobs : ProjectOf[j] \in Projects
  BY JobAttributesAssumption
<1> QED BY <1>1, <1>2, EveryJobSteps, HomedStep DEF Homed

----------------------------------------------------------------------------
(* Counting.                                                               *)

LEMMA JobsFinite == IsFiniteSet(Jobs) /\ IsFiniteSet(Jobs \X (1..MaxGpus))
<1>1. IsFiniteSet(Jobs) /\ IsFiniteSet(1..MaxGpus)
  BY SizesAssumption, FS_Interval DEF Jobs
<1> QED BY <1>1, FS_Product

LEMMA LimitType ==
  ASSUME TypeOK, NEW p \in Projects
  PROVE  /\ project[p].limit.queued \in Nat
         /\ project[p].limit.concurrent \in Nat
         /\ project[p].limit.gpus \in Nat
BY DEF TypeOK, ProjectRecord, QuotaRecord

(* A limit that holds a set holds every smaller one.                       *)
LEMMA WithinSubset ==
  ASSUME NEW limit \in Nat, NEW S, IsFiniteSet(S), NEW T \in SUBSET S,
         Within(limit, Cardinality(S))
  PROVE  Within(limit, Cardinality(T))
<1>1. Cardinality(T) <= Cardinality(S)
  BY FS_Subset
<1>2. Cardinality(T) \in Nat /\ Cardinality(S) \in Nat
  BY FS_Subset, FS_CardinalityType
<1> QED BY <1>1, <1>2 DEF Within

(* A limit that has room for m more elements holds S with m more.          *)
LEMMA WithinUnion ==
  ASSUME NEW limit \in Nat, NEW S, IsFiniteSet(S), NEW A, IsFiniteSet(A),
         NEW T \in SUBSET (S \cup A),
         Within(limit, Cardinality(S) + Cardinality(A))
  PROVE  Within(limit, Cardinality(T))
<1>1. /\ IsFiniteSet(S \cup A)
      /\ Cardinality(S \cup A)
           = Cardinality(S) + Cardinality(A) - Cardinality(S \cap A)
  BY FS_Union
<1>2. IsFiniteSet(S \cap A)
  BY FS_Intersection
<1>3. /\ Cardinality(S) \in Nat /\ Cardinality(A) \in Nat
      /\ Cardinality(S \cap A) \in Nat /\ Cardinality(S \cup A) \in Nat
  BY <1>1, <1>2, FS_CardinalityType
<1>4. Within(limit, Cardinality(S \cup A))
  BY <1>1, <1>3 DEF Within
<1> QED BY <1>1, <1>4, WithinSubset

LEMMA WithinNone ==
  ASSUME NEW limit \in Nat
  PROVE  Within(limit, Cardinality({}))
BY FS_EmptySet DEF Within

----------------------------------------------------------------------------
(* Active jobs and their GPUs.                                             *)

LEMMA ActiveFinite ==
  ASSUME NEW p \in Projects
  PROVE  /\ ActiveIn(p) \subseteq Jobs /\ IsFiniteSet(ActiveIn(p))
         /\ GpuUnitsIn(p) \subseteq Jobs \X (1..MaxGpus)
         /\ IsFiniteSet(GpuUnitsIn(p))
<1>1. ActiveIn(p) \subseteq Jobs /\ GpuUnitsIn(p) \subseteq Jobs \X (1..MaxGpus)
  BY DEF ActiveIn, GpuUnitsIn
<1> QED BY <1>1, JobsFinite, FS_Subset

(* Jobs that stay put charge their project no more than before.            *)
LEMMA PutChargesNoMore ==
  ASSUME \A j \in Jobs : StaysPut(j), NEW p \in Projects
  PROVE  /\ ActiveIn(p)' \subseteq ActiveIn(p)
         /\ GpuUnitsIn(p)' \subseteq GpuUnitsIn(p)
<1>1. ASSUME NEW j \in ActiveIn(p)'
      PROVE  j \in ActiveIn(p) /\ ChargedGpus(j)' = ChargedGpus(j)
  BY <1>1 DEF ActiveIn, StaysPut, ChargedGpus
<1>2. ASSUME NEW u \in GpuUnitsIn(p)' PROVE u \in GpuUnitsIn(p)
  BY <1>1, <1>2 DEF GpuUnitsIn
<1> QED BY <1>1, <1>2

LEMMA PutKeepsActiveQuota ==
  ASSUME TypeOK, ActiveQuota, UNCHANGED project, \A j \in Jobs : StaysPut(j)
  PROVE  ActiveQuota'
<1>1. ASSUME NEW p \in Projects
      PROVE  /\ Within(project[p].limit.concurrent, Cardinality(ActiveIn(p)'))
             /\ Within(project[p].limit.gpus, Cardinality(GpuUnitsIn(p)'))
  <2>1. /\ Within(project[p].limit.concurrent, Cardinality(ActiveIn(p)))
        /\ Within(project[p].limit.gpus, Cardinality(GpuUnitsIn(p)))
    BY DEF ActiveQuota
  <2> QED BY <2>1, LimitType, ActiveFinite, PutChargesNoMore, WithinSubset
<1> QED BY <1>1 DEF ActiveQuota, Within

(* An administrator sets limits that the project's jobs respect already.   *)
LEMMA ProjectKeepsQuotas ==
  ASSUME TypeOK, Homed, ActiveQuota, QueueQuota, UNCHANGED job,
         NEW p \in Projects, NEW q \in Quotas, NEW active \in BOOLEAN,
         CreateProject(p, q, active) \/ UpdateProject(p, q, active)
  PROVE  ActiveQuota' /\ QueueQuota'
<1>1. /\ \A r \in Projects \ {p} : project'[r] = project[r]
      /\ project'[p].limit = q
  BY DEF CreateProject, UpdateProject, TypeOK, ProjectRecord
<1>2. /\ \A r \in Projects : /\ ActiveIn(r)' = ActiveIn(r)
                             /\ QueuedIn(r)' = QueuedIn(r)
                             /\ GpuUnitsIn(r)' = GpuUnitsIn(r)
  BY DEF ActiveIn, QueuedIn, GpuUnitsIn, ChargedGpus
<1>3. /\ Within(q.queued, Cardinality(QueuedIn(p)))
      /\ Within(q.concurrent, Cardinality(ActiveIn(p)))
      /\ Within(q.gpus, Cardinality(GpuUnitsIn(p)))
  <2>1. CASE UpdateProject(p, q, active)
    BY <2>1 DEF UpdateProject
  <2>2. CASE CreateProject(p, q, active)
    <3>1. \A j \in Jobs : ProjectOf[j] = p => job[j].status = "absent"
      BY <2>2 DEF CreateProject, Homed
    <3>2. ActiveIn(p) = {} /\ QueuedIn(p) = {}
      BY <3>1 DEF ActiveIn, QueuedIn, ActiveStatus
    <3>3. GpuUnitsIn(p) = {}
      BY <3>2 DEF GpuUnitsIn
    <3>4. q.queued \in Nat /\ q.concurrent \in Nat /\ q.gpus \in Nat
      BY PolicyAssumption DEF QuotaRecord
    <3> QED BY <3>2, <3>3, <3>4, WithinNone
  <2> QED BY <2>1, <2>2
<1>4. ActiveQuota'
  BY <1>1, <1>2, <1>3 DEF ActiveQuota, Within
<1>5. QueueQuota'
  BY <1>1, <1>2, <1>3 DEF QueueQuota, Within
<1> QED BY <1>4, <1>5

(* An assigned job is charged the GPUs it asked for.                       *)
LEMMA AssignedCharge ==
  ASSUME OwnInv, NEW j \in Jobs, NEW n \in Nodes, ScheduleAssign(j, n)
  PROVE  ChargedGpus(j)' = GpuCount[j]
<1>1. TypeOK /\ Placeable(j, n)
  BY DEF OwnInv, ScheduleAssign
<1>2. job'[j] = Assigned(job[j], j, n)
  BY <1>1 DEF ScheduleAssign, TypeOK
<1>3. job'[j].gpus = IF Granular THEN AvailableGpus(n, GpuCount[j]) ELSE {}
  BY <1>1, <1>2 DEF Assigned, TypeOK, JobRecord
<1>4. Granular => Cardinality(AvailableGpus(n, GpuCount[j])) = GpuCount[j]
  BY <1>1, AssignedAlone
<1> QED BY <1>3, <1>4 DEF ChargedGpus

LEMMA AssignKeepsActiveQuota ==
  ASSUME OwnInv, ActiveQuota, NEW j \in Jobs, NEW n \in Nodes,
         ScheduleAssign(j, n)
  PROVE  ActiveQuota'
<1> DEFINE p == ProjectOf[j]
           units == {j} \X (1..GpuCount[j])
<1>0. TypeOK /\ CanSchedule(j) /\ job[j].status = "queued" /\ p \in Projects
  BY JobAttributesAssumption DEF OwnInv, ScheduleAssign, Placeable
<1>1. /\ \A i \in Jobs \ {j} : job'[i] = job[i]
      /\ UNCHANGED project
  BY <1>0 DEF ScheduleAssign, TypeOK
<1>2. ASSUME NEW r \in Projects
      PROVE  ActiveIn(r)' \subseteq ActiveIn(r) \cup (IF r = p THEN {j} ELSE {})
  BY <1>1, <1>2 DEF ActiveIn
<1>3. \A i \in Jobs \ {j} : ChargedGpus(i)' = ChargedGpus(i)
  BY <1>1 DEF ChargedGpus
<1>4. ChargedGpus(j)' = GpuCount[j]
  BY AssignedCharge
<1>5. ASSUME NEW r \in Projects
      PROVE  GpuUnitsIn(r)'
               \subseteq GpuUnitsIn(r) \cup (IF r = p THEN units ELSE {})
  <2>1. ASSUME NEW u \in GpuUnitsIn(r)', u[1] # j PROVE u \in GpuUnitsIn(r)
    BY <1>2, <1>3, <2>1 DEF GpuUnitsIn
  <2>2. ASSUME NEW u \in GpuUnitsIn(r)', u[1] = j PROVE r = p /\ u \in units
    <3>1. r = p
      BY <2>2 DEF GpuUnitsIn, ActiveIn
    <3>2. u = <<j, u[2]>> /\ u[2] \in 1..MaxGpus /\ u[2] <= GpuCount[j]
      BY <1>4, <2>2 DEF GpuUnitsIn
    <3>3. GpuCount[j] \in Nat
      BY JobAttributesAssumption, SizesAssumption
    <3>4. u[2] \in 1..GpuCount[j]
      BY <3>2, <3>3
    <3> QED BY <3>1, <3>2, <3>4
  <2> QED BY <2>1, <2>2
<1>6. IsFiniteSet(units) /\ Cardinality(units) = GpuCount[j]
  <2>1. GpuCount[j] \in Nat
    BY JobAttributesAssumption, SizesAssumption
  <2>2. IsFiniteSet(1..GpuCount[j])
    BY <2>1, FS_Interval
  <2>3. Cardinality(1..GpuCount[j]) = GpuCount[j]
    <3>1. Cardinality(1..GpuCount[j])
            = IF 1 > GpuCount[j] THEN 0 ELSE GpuCount[j] - 1 + 1
      BY <2>1, FS_Interval
    <3> QED BY <2>1, <3>1
  <2>4. IsFiniteSet({j}) /\ Cardinality({j}) = 1
    BY FS_Singleton
  <2>5. IsFiniteSet(units) /\ Cardinality(units) = 1 * GpuCount[j]
    BY <2>2, <2>3, <2>4, FS_Product
  <2> QED BY <2>1, <2>5
<1>7. IsFiniteSet({j}) /\ Cardinality({j}) = 1
  BY FS_Singleton
<1> HIDE DEF units
<1>8. ASSUME NEW r \in Projects
      PROVE  /\ Within(project[r].limit.concurrent, Cardinality(ActiveIn(r)'))
             /\ Within(project[r].limit.gpus, Cardinality(GpuUnitsIn(r)'))
  <2>1. CASE r = p
    <3>1. /\ Within(project[r].limit.concurrent, Cardinality(ActiveIn(r)) + 1)
          /\ Within(project[r].limit.gpus,
                    Cardinality(GpuUnitsIn(r)) + GpuCount[j])
      BY <1>0, <2>1 DEF CanSchedule
    <3>2. Within(project[r].limit.concurrent, Cardinality(ActiveIn(r)'))
      BY <1>0, <1>2, <1>7, <2>1, <3>1, LimitType, ActiveFinite, WithinUnion
    <3>3. Within(project[r].limit.gpus, Cardinality(GpuUnitsIn(r)'))
      BY <1>0, <1>5, <1>6, <2>1, <3>1, LimitType, ActiveFinite, WithinUnion
    <3> QED BY <3>2, <3>3
  <2>2. CASE r # p
    <3>1. /\ Within(project[r].limit.concurrent, Cardinality(ActiveIn(r)))
          /\ Within(project[r].limit.gpus, Cardinality(GpuUnitsIn(r)))
      BY DEF ActiveQuota
    <3> QED BY <1>0, <1>2, <1>5, <2>2, <3>1, LimitType, ActiveFinite,
               WithinSubset
  <2> QED BY <2>1, <2>2
<1> QED BY <1>1, <1>8 DEF ActiveQuota, Within

----------------------------------------------------------------------------
(* Queued jobs.                                                            *)

Waits(i) == job'[i].status = "queued" => job[i].status = "queued"

(* The step queues job j, for which its project's queue has room.          *)
Enqueues(j) ==
  QueueHasRoom(ProjectOf[j]) /\ \A i \in Jobs \ {j} : Waits(i)

LEMMA QueuedFinite ==
  ASSUME NEW p \in Projects
  PROVE  IsFiniteSet(QueuedIn(p))
<1>1. QueuedIn(p) \subseteq Jobs
  BY DEF QueuedIn
<1> QED BY <1>1, JobsFinite, FS_Subset

LEMMA WaitKeepsQueueQuota ==
  ASSUME TypeOK, QueueQuota, UNCHANGED project, \A i \in Jobs : Waits(i)
  PROVE  QueueQuota'
<1>1. ASSUME NEW p \in Projects
      PROVE  Within(project[p].limit.queued, Cardinality(QueuedIn(p)'))
  <2>1. QueuedIn(p)' \subseteq QueuedIn(p)
    BY DEF QueuedIn, Waits
  <2>2. Within(project[p].limit.queued, Cardinality(QueuedIn(p)))
    BY DEF QueueQuota
  <2> QED BY <2>1, <2>2, LimitType, QueuedFinite, WithinSubset
<1> QED BY <1>1 DEF QueueQuota, Within

LEMMA EnqueueKeepsQueueQuota ==
  ASSUME TypeOK, QueueQuota, UNCHANGED project, NEW j \in Jobs, Enqueues(j)
  PROVE  QueueQuota'
<1>1. ASSUME NEW p \in Projects
      PROVE  Within(project[p].limit.queued, Cardinality(QueuedIn(p)'))
  <2>1. CASE p = ProjectOf[j]
    <3>1. QueuedIn(p)' \subseteq QueuedIn(p) \cup {j}
      BY DEF QueuedIn, Enqueues, Waits
    <3>2. IsFiniteSet({j}) /\ Cardinality({j}) = 1
      BY FS_Singleton
    <3>3. Within(project[p].limit.queued, Cardinality(QueuedIn(p)) + 1)
      BY <2>1 DEF Enqueues, QueueHasRoom
    <3> QED BY <3>1, <3>2, <3>3, LimitType, QueuedFinite, WithinUnion
  <2>2. CASE p # ProjectOf[j]
    <3>1. QueuedIn(p)' \subseteq QueuedIn(p)
      BY <2>2 DEF QueuedIn, Enqueues, Waits
    <3>2. Within(project[p].limit.queued, Cardinality(QueuedIn(p)))
      BY DEF QueueQuota
    <3> QED BY <3>1, <3>2, LimitType, QueuedFinite, WithinSubset
  <2> QED BY <2>1, <2>2
<1> QED BY <1>1 DEF QueueQuota, Within

(* However many jobs a requeue sends back, those that find their queue     *)
(* full fail instead.                                                      *)
LEMMA RequeueKeepsQueueQuota ==
  ASSUME TypeOK, QueueQuota, UNCHANGED project, NEW n \in Nodes, NEW nodes,
         RequeueAssigned(n, nodes)
  PROVE  QueueQuota'
<1>1. PICK back \in SUBSET AssignedOn(n) :
        /\ job' = WithRequeued(back, AssignedOn(n) \ back)
        /\ FillsQueues(back, AssignedOn(n) \ back)
  BY DEF RequeueAssigned
<1>2. \A i \in Jobs \ back : Waits(i)
  <2>1. ASSUME NEW i \in AssignedOn(n) \ back PROVE job'[i].status = "failed"
    <3>1. job'[i] = QueueFull(job[i]) /\ job[i] \in JobRecord
      BY <1>1, <2>1 DEF WithRequeued, AssignedOn, TypeOK
    <3> QED BY <3>1, IdleStatus
  <2>2. ASSUME NEW i \in Jobs \ AssignedOn(n) PROVE job'[i] = job[i]
    BY <1>1, <2>2 DEF WithRequeued
  <2> QED BY <2>1, <2>2 DEF Waits
<1>3. ASSUME NEW p \in Projects
      PROVE  Within(project[p].limit.queued, Cardinality(QueuedIn(p)'))
  <2> DEFINE sent == {j \in back : ProjectOf[j] = p}
  <2>1. QueuedIn(p)' \subseteq QueuedIn(p) \cup sent
    BY <1>2 DEF QueuedIn, Waits
  <2>2. IsFiniteSet(sent)
    <3>1. sent \subseteq Jobs
      BY DEF AssignedOn
    <3> QED BY <3>1, JobsFinite, FS_Subset
  <2>3. CASE sent = {}
    <3>1. Within(project[p].limit.queued, Cardinality(QueuedIn(p)))
      BY DEF QueueQuota
    <3> QED BY <2>1, <2>3, <3>1, LimitType, QueuedFinite, WithinSubset
  <2>4. CASE sent # {}
    <3>1. Within(project[p].limit.queued,
                 Cardinality(QueuedIn(p)) + Cardinality(sent))
      BY <1>1, <2>4 DEF FillsQueues
    <3> QED BY <2>1, <2>2, <3>1, LimitType, QueuedFinite, WithinUnion
  <2> QED BY <2>3, <2>4
<1> QED BY <1>3 DEF QueueQuota, Within

----------------------------------------------------------------------------
(* Which steps put a job in the queue.                                     *)

QueueStep ==
  \/ \A i \in Jobs : Waits(i)
  \/ \E j \in Jobs : Enqueues(j)
  \/ \E n \in Nodes : \E nodes : RequeueAssigned(n, nodes)

LEMMA SameJobsWait ==
  ASSUME UNCHANGED job
  PROVE  QueueStep
BY DEF QueueStep, Waits

LEMMA UserOperationQueue ==
  ASSUME TypeOK, UserOperation
  PROVE  QueueStep
<1>1. ASSUME NEW j \in Jobs, CreateJob(j) PROVE Enqueues(j)
  BY <1>1 DEF CreateJob, Enqueues, Waits, TypeOK
<1>2. ASSUME NEW j \in Jobs, BeginJobDeletion(j) \/ DeleteJob(j)
      PROVE  \A i \in Jobs : Waits(i)
  <2>1. job'[j].status \in {"deleting", "removed"}
    BY <1>2 DEF BeginJobDeletion, DeleteJob, AbsentJob, TypeOK, JobRecord
  <2>2. \A i \in Jobs \ {j} : job'[i] = job[i]
    BY <1>2 DEF BeginJobDeletion, DeleteJob, TypeOK
  <2> QED BY <2>1, <2>2 DEF Waits
<1>3. ASSUME NEW j \in Jobs, CancelJob(j) PROVE \A i \in Jobs : Waits(i)
  <2>0. job[j] \in JobRecord
    BY DEF TypeOK
  <2>1. \A i \in Jobs \ {j} : job'[i] = job[i]
    BY <1>3, SetJobSteps DEF CancelJob
  <2>2. \/ job'[j] = Unassigned([job[j] EXCEPT !.status = "canceled"])
        \/ job'[j] = [job[j] EXCEPT !.status = "canceling"]
        \/ job'[j] = [job[j] EXCEPT !.mark = "none"]
    BY <1>3, SetJobSteps DEF CancelJob
  <2>3. Unassigned([job[j] EXCEPT !.status = "canceled"]).status = "canceled"
    BY <2>0, IdleStatus, Zenon
  <2>4. /\ [job[j] EXCEPT !.status = "canceling"].status = "canceling"
        /\ [job[j] EXCEPT !.mark = "none"].status = job[j].status
    BY <2>0 DEF JobRecord
  <2>5. Waits(j)
    BY <2>2, <2>3, <2>4 DEF Waits
  <2> QED BY <2>1, <2>5 DEF Waits
<1> QED BY <1>1, <1>2, <1>3 DEF UserOperation, QueueStep

LEMMA AgentNodeOperationQueue ==
  ASSUME TypeOK, AgentNodeOperation
  PROVE  QueueStep
<1>1. ASSUME NEW n \in Nodes, NEW s \in Sessions, NEW healthy \in BOOLEAN,
             NEW g \in Inventories, RegisterNode(n, s, healthy, g)
      PROVE  \A j \in Jobs : Waits(j)
  <2>1. ASSUME NEW j \in Jobs
        PROVE  job'[j] = job[j] \/ job'[j] = Recovered(j, s)
    BY <1>1, <2>1 DEF RegisterNode
  <2>2. ASSUME NEW j \in Jobs
        PROVE  Recovered(j, s).status \in {"canceling", job[j].status}
    BY <2>2 DEF Recovered, Interrupted, TypeOK, JobRecord
  <2> QED BY <2>1, <2>2 DEF Waits
<1>2. ASSUME NEW n \in Nodes, NEW healthy \in BOOLEAN, NEW g \in Inventories,
             NEW hostChanged \in BOOLEAN,
             UpdateNodeHealth(n, healthy, g, hostChanged)
      PROVE  QueueStep
  <2>1. UNCHANGED job \/ \E nodes : RequeueAssigned(n, nodes)
    BY <1>2 DEF UpdateNodeHealth
  <2> QED BY <2>1, SameJobsWait DEF QueueStep
<1>3. ASSUME NEW n \in Nodes, ConfirmCleanup(n) \/ FenceExpiredSession(n)
      PROVE  QueueStep
  BY <1>3, SameJobsWait DEF ConfirmCleanup, FenceExpiredSession
<1> QED
  BY <1>1, <1>2, <1>3
     DEF AgentNodeOperation, QueueStep, RegisteredHealth, ReportedHealth

LEMMA AgentJobOperationQueue ==
  ASSUME TypeOK, AgentJobOperation
  PROVE  QueueStep
<1>1. ASSUME NEW n \in Nodes, NextJob(n) PROVE QueueStep
  <2>1. ASSUME NEW S \in SUBSET Jobs, ClaimOldest(S)
        PROVE  \A i \in Jobs : Waits(i)
    <3>1. PICK j \in S : job' = [job EXCEPT ![j].claim = "live"]
      BY <2>1 DEF ClaimOldest
    <3> QED BY <3>1 DEF TypeOK, JobRecord, Waits
  <2>2. \A status : Dispatchable(n, status) \in SUBSET Jobs
    BY DEF Dispatchable
  <2> QED BY <1>1, <2>1, <2>2 DEF NextJob, QueueStep
<1>2. ASSUME NEW j \in Jobs, ReportRunning(j) PROVE QueueStep
  <2>1. CASE SetJob(j, [job[j] EXCEPT !.status = "running", !.claim = "held"])
    <3>1. [job[j] EXCEPT !.status = "running", !.claim = "held"].status
            = "running"
      BY DEF TypeOK, JobRecord
    <3>2. \A i \in Jobs : Waits(i)
      BY <2>1, <3>1, SetJobSteps DEF Waits
    <3> QED BY <3>2 DEF QueueStep
  <2>2. CASE RequeueAssigned(job[j].node, node)
    <3>1. job[j].node \in Nodes
      BY <1>2 DEF ReportRunning, HoldsAttempt, TypeOK, JobRecord
    <3> QED BY <2>2, <3>1 DEF QueueStep
  <2> QED BY <1>2, <2>1, <2>2 DEF ReportRunning
<1>3. ASSUME NEW j \in Jobs, NEW retryable \in BOOLEAN,
             \/ ReportSucceeded(j)
             \/ ReportFailed(j, retryable)
             \/ ReportCanceled(j)
      PROVE  QueueStep
  <2>0. job[j] \in JobRecord
    BY DEF TypeOK
  <2>1. ASSUME NEW st \in {"succeeded", "failed", "canceled"},
               SetJob(j, Finished(job[j], st))
        PROVE  QueueStep
    <3>1. Finished(job[j], st).status = st
      BY <2>0 DEF JobRecord, Finished
    <3>2. \A i \in Jobs : Waits(i)
      BY <2>1, <3>1, SetJobSteps DEF Waits
    <3> QED BY <3>2 DEF QueueStep
  <2>2. ASSUME RetryOrFail(j) PROVE QueueStep
    <3>1. CASE QueueHasRoom(ProjectOf[j])
      <4>1. \A i \in Jobs \ {j} : job'[i] = job[i]
        BY <2>2, SetJobSteps DEF RetryOrFail
      <4>2. Enqueues(j)
        BY <3>1, <4>1 DEF Enqueues, Waits
      <4> QED BY <4>2 DEF QueueStep
    <3>2. CASE ~QueueHasRoom(ProjectOf[j])
      BY <2>1, <2>2, <3>2 DEF RetryOrFail
    <3> QED BY <3>1, <3>2
  <2>3. CASE ReportSucceeded(j)
    BY <2>1, <2>3 DEF ReportSucceeded
  <2>4. CASE ReportFailed(j, retryable)
    BY <2>1, <2>2, <2>4 DEF ReportFailed
  <2>5. CASE ReportCanceled(j)
    <3>1. job[j].mark \in {"none", "retry", "cleanup"}
      BY <2>0 DEF JobRecord, Marker
    <3> QED BY <2>1, <2>2, <2>5, <3>1 DEF ReportCanceled
  <2> QED BY <1>3, <2>3, <2>4, <2>5
<1> QED BY <1>1, <1>2, <1>3 DEF AgentJobOperation

LEMMA EveryQueueStep ==
  ASSUME TypeOK, [Next]_vars
  PROVE  QueueStep
<1>1. CASE Administration \/ UNCHANGED vars
  BY <1>1, SameJobsWait
     DEF Administration, CreateProject, UpdateProject, SetLicence,
         SetNodeMaintenance, DeleteNode, vars
<1>2. CASE SchedulingPass
  <2>1. ASSUME NEW j \in Jobs, NEW n \in Nodes, ScheduleAssign(j, n)
        PROVE  \A i \in Jobs : Waits(i)
    BY <2>1 DEF ScheduleAssign, Placeable, Waits, TypeOK
  <2>2. CASE Schedule \/ ScheduleEnd
    BY <2>2, SameJobsWait DEF Schedule, ScheduleEnd
  <2> QED BY <1>2, <2>1, <2>2 DEF SchedulingPass, QueueStep
<1>3. CASE Time
  <2>1. ASSUME NEW j \in Jobs, LeaseExpires(j) PROVE \A i \in Jobs : Waits(i)
    BY <2>1 DEF LeaseExpires, Waits, TypeOK, JobRecord
  <2>2. ASSUME NEW n \in Nodes, HeartbeatLapses(n) \/ HealthReportLapses(n)
        PROVE  QueueStep
    BY <2>2, SameJobsWait DEF HeartbeatLapses, HealthReportLapses
  <2> QED BY <1>3, <2>1, <2>2 DEF Time, QueueStep
<1> QED BY <1>1, <1>2, <1>3, UserOperationQueue, AgentNodeOperationQueue,
           AgentJobOperationQueue DEF Next

----------------------------------------------------------------------------
QuotaInv == OwnInv /\ Homed /\ ActiveQuota /\ QueueQuota

LEMMA InitQuota == Init => Homed /\ ActiveQuota /\ QueueQuota
<1> SUFFICES ASSUME Init PROVE Homed /\ ActiveQuota /\ QueueQuota
  OBVIOUS
<1>1. \A j \in Jobs : job[j].status = "absent"
  BY DEF Init, AbsentJob
<1>2. \A p \in Projects : project[p].limit = Unlimited
  BY DEF Init
<1>3. Homed
  BY <1>1 DEF Homed
<1>4. ActiveQuota
  BY <1>2 DEF ActiveQuota, Within, Unlimited
<1>5. QueueQuota
  BY <1>2 DEF QueueQuota, Within, Unlimited
<1> QED BY <1>3, <1>4, <1>5

LEMMA QuotaStep ==
  ASSUME QuotaInv, [Next]_vars
  PROVE  Homed' /\ ActiveQuota' /\ QueueQuota'
<1>0. TypeOK /\ OwnInv /\ Homed /\ ActiveQuota /\ QueueQuota
  BY DEF QuotaInv, OwnInv
<1>1. Homed'
  BY <1>0, HomedAfter
<1>2. CASE UNCHANGED project
  <2>1. ActiveQuota'
    <3>1. CASE \E j \in Jobs, n \in Nodes : ScheduleAssign(j, n)
      BY <1>0, <3>1, AssignKeepsActiveQuota
    <3>2. CASE ~\E j \in Jobs, n \in Nodes : ScheduleAssign(j, n)
      BY <1>0, <1>2, <3>2, StepsUnplaced, UnplacedStaysPut, PutKeepsActiveQuota
    <3> QED BY <3>1, <3>2
  <2>2. QueueQuota'
    BY <1>0, <1>2, EveryQueueStep, WaitKeepsQueueQuota, EnqueueKeepsQueueQuota,
       RequeueKeepsQueueQuota DEF QueueStep
  <2> QED BY <1>1, <2>1, <2>2
<1>3. CASE ~UNCHANGED project
  BY <1>0, <1>1, <1>3, ProjectSteps, ProjectKeepsQuotas
<1> QED BY <1>2, <1>3

LEMMA QuotaInvariant == Spec => []QuotaInv
<1>1. Homed /\ ActiveQuota /\ QueueQuota /\ OwnInv => QuotaInv
  BY DEF QuotaInv
<1>2. Init => Homed /\ ActiveQuota /\ QueueQuota
  BY InitQuota
<1>3. OwnInv /\ Homed /\ ActiveQuota /\ QueueQuota /\ [Next]_vars
        => Homed' /\ ActiveQuota' /\ QueueQuota'
  BY QuotaStep DEF QuotaInv
<1> QED BY <1>1, <1>2, <1>3, OwnInvariant, PTL DEF Spec

(* A project's queue never exceeds its limit: whether a job is created,    *)
(* retried, sent back by a requeue or recovered after a takeover, it is    *)
(* counted first (store.go: ensureProjectQueueCapacityLocked).             *)
THEOREM QueueQuotaHolds == Spec => []QueueQuota
<1>1. QuotaInv => QueueQuota
  BY DEF QuotaInv
<1> QED BY <1>1, QuotaInvariant, PTL

(* Nor do its active jobs or the GPUs they are charged, however many jobs  *)
(* one scheduling pass assigns (store.go: ensureProjectCanScheduleLocked). *)
THEOREM ActiveQuotaHolds == Spec => []ActiveQuota
<1>1. QuotaInv => ActiveQuota
  BY DEF QuotaInv
<1> QED BY <1>1, QuotaInvariant, PTL

----------------------------------------------------------------------------
(* Licensed capacity: the nodes and GPUs of a licence bound registrations  *)
(* as a project's limits bound its jobs.                                   *)

(* The step changes the inventory of no node that stays.                   *)
CapacityKept ==
  \A m \in Nodes : node'[m].known => /\ node[m].known
                                     /\ node'[m].gpus = node[m].gpus

(* The step admits node n with g GPUs and leaves the other nodes alone.    *)
CapacityAdmitted(n, g) ==
  /\ Admitted(n, g)
  /\ node'[n].known /\ node'[n].gpus = g
  /\ \A m \in Nodes \ {n} : /\ node'[m].known = node[m].known
                            /\ node'[m].gpus = node[m].gpus

LEMMA RefreshedInventory ==
  ASSUME NEW nodes \in [Nodes -> NodeRecord], NEW jobs, NEW n \in Nodes
  PROVE  \A m \in Nodes :
           /\ Refreshed(nodes, jobs, n)[m].known = nodes[m].known
           /\ Refreshed(nodes, jobs, n)[m].gpus = nodes[m].gpus
BY DEF Refreshed, NodeRecord

LEMMA SetJobCapacity ==
  ASSUME TypeOK, NEW j \in Jobs, NEW r, SetJob(j, r)
  PROVE  CapacityKept
<1>1. CASE job[j].node = NoNode
  BY <1>1 DEF SetJob, CapacityKept
<1>2. CASE job[j].node # NoNode
  <2>1. job[j].node \in Nodes /\ node \in [Nodes -> NodeRecord]
    BY <1>2 DEF TypeOK, JobRecord
  <2>2. node' = Refreshed(node, [job EXCEPT ![j] = r], job[j].node)
    BY <1>2 DEF SetJob
  <2> QED BY <2>1, <2>2, RefreshedInventory DEF CapacityKept
<1> QED BY <1>1, <1>2

LEMMA RequeueCapacity ==
  ASSUME TypeOK, NEW n \in Nodes, RequeueAssigned(n, node)
  PROVE  CapacityKept
BY RefreshedInventory DEF RequeueAssigned, CapacityKept, TypeOK

LEMMA AgentNodeOperationCapacity ==
  ASSUME TypeOK, AgentNodeOperation
  PROVE  \/ CapacityKept
         \/ \E n \in Nodes, g \in 0..MaxGpus : CapacityAdmitted(n, g)
<1>0. node \in [Nodes -> NodeRecord]
  BY DEF TypeOK
<1>1. ASSUME NEW n \in Nodes, NEW s \in Sessions, NEW healthy \in BOOLEAN,
             NEW g \in Inventories, RegisterNode(n, s, healthy, g)
      PROVE  \E k \in 0..MaxGpus : CapacityAdmitted(n, k)
  <2> DEFINE k == RegisteredGpus(n, healthy, g)
             fresh == [known |-> TRUE, session |-> s, cleanup |-> TRUE,
                       stale |-> FALSE, healthy |-> healthy,
                       maintenance |-> node[n].maintenance,
                       gpus |-> k, busy |-> FALSE]
             nodes == [node EXCEPT ![n] = fresh]
  <2>1. k \in 0..MaxGpus
    BY <1>0, SizesAssumption DEF RegisteredGpus, NodeRecord
  <2>2. Admitted(n, k) /\ node' = Refreshed(nodes, job', n)
    BY <1>1 DEF RegisterNode
  <2>3. fresh \in NodeRecord /\ fresh.known = TRUE /\ fresh.gpus = k
    BY <1>0, <2>1 DEF NodeRecord
  <2> HIDE DEF fresh, k
  <2>4. /\ nodes \in [Nodes -> NodeRecord] /\ nodes[n] = fresh
        /\ \A m \in Nodes \ {n} : nodes[m] = node[m]
    BY <1>0, <2>3
  <2> HIDE DEF nodes
  <2>5. CapacityAdmitted(n, k)
    BY <2>2, <2>3, <2>4, RefreshedInventory DEF CapacityAdmitted
  <2> QED BY <2>1, <2>5
<1>2. ASSUME NEW n \in Nodes, ConfirmCleanup(n) \/ FenceExpiredSession(n)
      PROVE  CapacityKept
  <2>1. CASE ConfirmCleanup(n)
    <3>1. \A m \in Nodes : /\ node'[m].known = node[m].known
                           /\ node'[m].gpus = node[m].gpus
      BY <1>0, <2>1 DEF ConfirmCleanup, NodeRecord
    <3> QED BY <3>1 DEF CapacityKept
  <2>2. CASE FenceExpiredSession(n)
    <3>1. Fenced(n).known = node[n].known /\ Fenced(n).gpus = node[n].gpus
      BY <1>0 DEF Fenced, NodeRecord
    <3> QED BY <1>0, <2>2, <3>1 DEF FenceExpiredSession, CapacityKept
  <2> QED BY <1>2, <2>1, <2>2
<1>3. ASSUME NEW n \in Nodes, NEW healthy \in BOOLEAN, NEW g \in Inventories,
             NEW hostChanged \in BOOLEAN,
             UpdateNodeHealth(n, healthy, g, hostChanged)
      PROVE  CapacityKept \/ \E k \in 0..MaxGpus : CapacityAdmitted(n, k)
  <2> DEFINE k == IF healthy THEN g ELSE node[n].gpus
             nodes == [node EXCEPT ![n].healthy = healthy, ![n].gpus = k]
  <2>1. k \in 0..MaxGpus
    BY <1>0, SizesAssumption DEF NodeRecord
  <2>2. /\ nodes \in [Nodes -> NodeRecord]
        /\ nodes[n].known = node[n].known /\ nodes[n].gpus = k
        /\ \A m \in Nodes \ {n} : nodes[m] = node[m]
    BY <1>0, <2>1 DEF NodeRecord
  <2>3. node' = Refreshed(nodes, job', n) \/ node' = Refreshed(nodes, job, n)
    BY <1>3 DEF UpdateNodeHealth, RequeueAssigned
  <2>4. node[n].known /\ (healthy => Admitted(n, g))
    BY <1>3 DEF UpdateNodeHealth, SessionReady, SessionValid
  <2> HIDE DEF nodes
  <2>5. /\ node'[n].known = node[n].known /\ node'[n].gpus = k
        /\ \A m \in Nodes \ {n} : /\ node'[m].known = node[m].known
                                  /\ node'[m].gpus = node[m].gpus
    BY <2>2, <2>3, RefreshedInventory
  <2>6. CASE healthy
    <3>1. CapacityAdmitted(n, g)
      BY <2>4, <2>5, <2>6 DEF CapacityAdmitted
    <3> QED BY <2>1, <2>6, <3>1
  <2>7. CASE ~healthy
    BY <2>4, <2>5, <2>7 DEF CapacityKept
  <2> QED BY <2>6, <2>7
<1> QED
  BY <1>1, <1>2, <1>3 DEF AgentNodeOperation, RegisteredHealth, ReportedHealth

LEMMA AgentJobOperationCapacity ==
  ASSUME TypeOK, AgentJobOperation
  PROVE  CapacityKept
<1>1. ASSUME NEW n \in Nodes, NextJob(n) PROVE CapacityKept
  <2>1. UNCHANGED node \/ RequeueAssigned(n, node)
    BY <1>1 DEF NextJob, ClaimOldest
  <2> QED BY <2>1, RequeueCapacity DEF CapacityKept
<1>2. ASSUME NEW j \in Jobs, ReportRunning(j) PROVE CapacityKept
  <2>1. job[j].node \in Nodes
    BY <1>2 DEF ReportRunning, HoldsAttempt, TypeOK, JobRecord
  <2>2. \/ SetJob(j, [job[j] EXCEPT !.status = "running", !.claim = "held"])
        \/ RequeueAssigned(job[j].node, node)
    BY <1>2 DEF ReportRunning
  <2> QED BY <2>1, <2>2, SetJobCapacity, RequeueCapacity
<1>3. ASSUME NEW j \in Jobs, NEW retryable \in BOOLEAN,
             \/ ReportSucceeded(j)
             \/ ReportFailed(j, retryable)
             \/ ReportCanceled(j)
      PROVE  CapacityKept
  <2>1. job[j].mark \in {"none", "retry", "cleanup"}
    BY DEF TypeOK, JobRecord, Marker
  <2>2. PICK r : SetJob(j, r)
    BY <1>3, <2>1 DEF ReportSucceeded, ReportFailed, ReportCanceled, RetryOrFail
  <2> QED BY <2>2, SetJobCapacity
<1> QED BY <1>1, <1>2, <1>3 DEF AgentJobOperation

LEMMA EveryCapacityStep ==
  ASSUME TypeOK, [Next]_vars
  PROVE  \/ CapacityKept
         \/ \E n \in Nodes, g \in 0..MaxGpus : CapacityAdmitted(n, g)
<1>0. node \in [Nodes -> NodeRecord]
  BY DEF TypeOK
<1>1. ASSUME UNCHANGED node PROVE CapacityKept
  BY <1>1 DEF CapacityKept
<1>2. CASE Administration
  <2>1. ASSUME NEW n \in Nodes, NEW enabled \in BOOLEAN,
               SetNodeMaintenance(n, enabled)
        PROVE  CapacityKept
    BY <1>0, <2>1 DEF SetNodeMaintenance, CapacityKept, NodeRecord
  <2>2. ASSUME NEW n \in Nodes, DeleteNode(n) PROVE CapacityKept
    BY <1>0, <2>2 DEF DeleteNode, CapacityKept, UnknownNode
  <2> QED BY <1>1, <1>2, <2>1, <2>2
          DEF Administration, CreateProject, UpdateProject, SetLicence
<1>3. CASE UserOperation
  <2>1. ASSUME NEW j \in Jobs, CancelJob(j) PROVE CapacityKept
    BY <2>1, SetJobCapacity DEF CancelJob
  <2> QED BY <1>1, <1>3, <2>1
          DEF UserOperation, CreateJob, BeginJobDeletion, DeleteJob
<1>4. CASE SchedulingPass
  <2>1. ASSUME NEW j \in Jobs, NEW n \in Nodes, ScheduleAssign(j, n)
        PROVE  CapacityKept
    BY <1>0, <2>1, RefreshedInventory DEF ScheduleAssign, CapacityKept
  <2>2. CASE Schedule
    BY <1>0, <2>2 DEF Schedule, Fenced, CapacityKept, NodeRecord
  <2> QED BY <1>1, <1>4, <2>1, <2>2 DEF SchedulingPass, ScheduleEnd
<1>5. CASE Time
  <2>1. ASSUME NEW n \in Nodes, HeartbeatLapses(n) \/ HealthReportLapses(n)
        PROVE  CapacityKept
    BY <1>0, <2>1
       DEF HeartbeatLapses, HealthReportLapses, CapacityKept, NodeRecord
  <2> QED BY <1>1, <1>5, <2>1 DEF Time, LeaseExpires
<1> QED BY <1>1, <1>2, <1>3, <1>4, <1>5, AgentNodeOperationCapacity,
           AgentJobOperationCapacity DEF Next, vars

----------------------------------------------------------------------------
Growth ==
  /\ Cardinality(GpuUnitsOf(KnownNodes)') > Cardinality(GpuUnitsOf(KnownNodes))
       => /\ ~licence.expired
          /\ Within(licence.gpus, Cardinality(GpuUnitsOf(KnownNodes)'))
  /\ Cardinality(KnownNodes') > Cardinality(KnownNodes)
       => /\ ~licence.expired
          /\ Within(licence.nodes, Cardinality(KnownNodes'))

LEMMA CapacityFinite ==
  ASSUME NEW S \in SUBSET Nodes
  PROVE  IsFiniteSet(S) /\ IsFiniteSet(GpuUnitsOf(S))
<1>1. IsFiniteSet(Nodes) /\ IsFiniteSet(1..MaxGpus)
  BY SizesAssumption, FS_Interval DEF Nodes
<1>2. IsFiniteSet(S)
  BY <1>1, FS_Subset
<1>3. IsFiniteSet(S \X (1..MaxGpus))
  BY <1>1, <1>2, FS_Product
<1>4. GpuUnitsOf(S) \subseteq S \X (1..MaxGpus)
  BY DEF GpuUnitsOf
<1> QED BY <1>2, <1>3, <1>4, FS_Subset

(* A smaller set of a finite one is no larger.                             *)
LEMMA NoGrowth ==
  ASSUME NEW S, IsFiniteSet(S), NEW T \in SUBSET S
  PROVE  ~(Cardinality(T) > Cardinality(S))
<1>1. Cardinality(T) <= Cardinality(S)
  BY FS_Subset
<1>2. Cardinality(T) \in Nat /\ Cardinality(S) \in Nat
  BY FS_Subset, FS_CardinalityType
<1> QED BY <1>1, <1>2

LEMMA KeptNoGrowth ==
  ASSUME CapacityKept
  PROVE  Growth
<1>1. KnownNodes' \subseteq KnownNodes /\ KnownNodes \in SUBSET Nodes
  BY DEF CapacityKept, KnownNodes
<1>2. GpuUnitsOf(KnownNodes)' \subseteq GpuUnitsOf(KnownNodes)
  BY DEF CapacityKept, KnownNodes, GpuUnitsOf
<1> QED BY <1>1, <1>2, CapacityFinite, NoGrowth DEF Growth

LEMMA AdmittedGrowth ==
  ASSUME TypeOK, NEW n \in Nodes, NEW g \in 0..MaxGpus, CapacityAdmitted(n, g)
  PROVE  Growth
<1> DEFINE others == KnownNodes \ {n}
           units == {n} \X (1..g)
<1>0. /\ licence.gpus \in Nat /\ licence.nodes \in Nat /\ g \in Nat
      /\ KnownNodes \in SUBSET Nodes /\ others \in SUBSET Nodes
  BY SizesAssumption DEF TypeOK, LicenceRecord, KnownNodes
<1>1. KnownNodes' = others \cup {n}
  BY DEF CapacityAdmitted, KnownNodes
<1>2. GpuUnitsOf(KnownNodes)' \subseteq GpuUnitsOf(others) \cup units
  <2>1. ASSUME NEW u \in GpuUnitsOf(KnownNodes)', u[1] # n
        PROVE  u \in GpuUnitsOf(others)
    BY <1>1, <2>1 DEF GpuUnitsOf, KnownNodes, CapacityAdmitted
  <2>2. ASSUME NEW u \in GpuUnitsOf(KnownNodes)', u[1] = n PROVE u \in units
    <3>1. u = <<n, u[2]>> /\ u[2] \in 1..MaxGpus /\ u[2] <= g
      BY <2>2 DEF GpuUnitsOf, CapacityAdmitted
    <3>2. u[2] \in 1..g
      BY <1>0, <3>1
    <3> QED BY <3>1, <3>2
  <2> QED BY <2>1, <2>2
<1>3. IsFiniteSet(units) /\ Cardinality(units) = g
  <2>1. IsFiniteSet(1..g)
    BY <1>0, FS_Interval
  <2>2. Cardinality(1..g) = g
    <3>1. Cardinality(1..g) = IF 1 > g THEN 0 ELSE g - 1 + 1
      BY <1>0, FS_Interval
    <3> QED BY <1>0, <3>1
  <2>3. IsFiniteSet({n}) /\ Cardinality({n}) = 1
    BY FS_Singleton
  <2>4. IsFiniteSet(units) /\ Cardinality(units) = 1 * g
    BY <2>1, <2>2, <2>3, FS_Product
  <2> QED BY <1>0, <2>4
<1> HIDE DEF units
<1>4. CASE node[n].known /\ ~(g > node[n].gpus)
  <2>1. KnownNodes' \subseteq KnownNodes
    BY <1>1, <1>4 DEF KnownNodes
  <2>2. node[n].gpus \in Nat
    BY SizesAssumption DEF TypeOK, NodeRecord
  <2>3. GpuUnitsOf(KnownNodes)' \subseteq GpuUnitsOf(KnownNodes)
    BY <1>0, <1>4, <2>2 DEF CapacityAdmitted, KnownNodes, GpuUnitsOf
  <2> QED BY <1>0, <2>1, <2>3, CapacityFinite, NoGrowth DEF Growth
<1>5. CASE ~(node[n].known /\ ~(g > node[n].gpus))
  <2>1. /\ ~licence.expired
        /\ Within(licence.gpus, Cardinality(GpuUnitsOf(others)) + g)
    BY <1>5 DEF CapacityAdmitted, Admitted
  <2>2. Within(licence.gpus, Cardinality(GpuUnitsOf(KnownNodes)'))
    BY <1>0, <1>2, <1>3, <2>1, CapacityFinite, WithinUnion
  <2>3. CASE node[n].known
    <3>1. KnownNodes' \subseteq KnownNodes
      BY <1>1, <2>3 DEF KnownNodes
    <3> QED BY <1>0, <2>1, <2>2, <3>1, CapacityFinite, NoGrowth DEF Growth
  <2>4. CASE ~node[n].known
    <3>1. Within(licence.nodes, Cardinality(others) + 1)
      BY <2>4 DEF CapacityAdmitted, Admitted
    <3>2. IsFiniteSet({n}) /\ Cardinality({n}) = 1
      BY FS_Singleton
    <3>3. Within(licence.nodes, Cardinality(KnownNodes'))
      BY <1>0, <1>1, <3>1, <3>2, CapacityFinite, WithinUnion
    <3> QED BY <2>1, <2>2, <3>3 DEF Growth
  <2> QED BY <2>3, <2>4
<1> QED BY <1>4, <1>5

(* Registered capacity grows only within the licence in force (store.go:   *)
(* validateAndAdmitNodeLocked).                                            *)
THEOREM GrowthLicensedHolds == Spec => GrowthLicensed
<1>1. TypeOK /\ [Next]_vars => Growth
  BY EveryCapacityStep, KeptNoGrowth, AdmittedGrowth
<1>2. Growth =>
        [/\ Cardinality(GpuUnitsOf(KnownNodes)')
              > Cardinality(GpuUnitsOf(KnownNodes))
            => /\ ~licence.expired
               /\ Within(licence.gpus, Cardinality(GpuUnitsOf(KnownNodes)'))
         /\ Cardinality(KnownNodes') > Cardinality(KnownNodes)
            => /\ ~licence.expired
               /\ Within(licence.nodes, Cardinality(KnownNodes'))]_vars
  BY DEF Growth
<1> QED BY <1>1, <1>2, TypeCorrect, PTL DEF Spec, GrowthLicensed

----------------------------------------------------------------------------
(* One walk over the queue is enough: an assignment only takes capacity    *)
(* and quota away, so that what was passed over stays without a place.     *)

(* A finite set of naturals has a minimal member in any order.             *)
LEMMA MinimalMember ==
  ASSUME NEW F, IsFiniteSet(F), NEW R,
         \A x \in F : <<x, x>> \notin R,
         \A x, y, z \in F : <<x, y>> \in R /\ <<y, z>> \in R => <<x, z>> \in R,
         NEW S \in SUBSET F, S # {}
  PROVE  \E g \in S : \A h \in S : <<h, g>> \notin R
<1> DEFINE below(g) == {h \in F : <<h, g>> \in R}
           family   == {below(g) : g \in S}
<1>1. family \subseteq FiniteSubsetsOf(F) /\ family # {}
  <2>1. \A g \in S : below(g) \in SUBSET F
    OBVIOUS
  <2>2. \A g \in S : IsFiniteSet(below(g))
    BY <2>1, FS_Subset
  <2> HIDE DEF below
  <2>3. QED
    BY <2>1, <2>2 DEF FiniteSubsetsOf
<1>2. PICK B \in family : \A C \in family : <<C, B>> \notin StrictSubsetOrdering(F)
  <2> HIDE DEF family
  <2>1. QED
    BY <1>1, FS_StrictSubsetOrderingWellFounded, WFMin
<1>3. PICK g \in S : B = below(g)
  OBVIOUS
<1>4. ASSUME NEW h \in S, <<h, g>> \in R
      PROVE  FALSE
  <2>1. below(h) \in family /\ below(h) \in SUBSET F /\ below(g) \in SUBSET F
    OBVIOUS
  <2>2. below(h) \subseteq below(g) /\ h \in below(g) /\ h \notin below(h)
    BY <1>4
  <2>3. <<below(h), below(g)>> \in StrictSubsetOrdering(F)
    BY <2>1, <2>2 DEF StrictSubsetOrdering
  <2>4. QED
    BY <1>2, <1>3, <2>1, <2>3
<1>5. QED
  BY <1>4

(* The members of F that have less than c members below them.              *)
Lowest(F, c) == {g \in F : Cardinality({h \in F : h < g}) < c}

(* There are c of them as soon as F has c members: no more, because of the *)
(* greatest of them, and no less, because of the least that is left out.   *)
LEMMA LowestCount ==
  ASSUME NEW F \in SUBSET Nat, IsFiniteSet(F), NEW c \in Nat,
         c <= Cardinality(F)
  PROVE  Cardinality(Lowest(F, c)) = c
<1> DEFINE A == Lowest(F, c)
           less(g) == {h \in F : h < g}
<1>1. A \in SUBSET F /\ \A g \in F : g \in A <=> Cardinality(less(g)) < c
  BY DEF Lowest
<1>2. /\ IsFiniteSet(A) /\ Cardinality(A) \in Nat
      /\ \A g \in F : less(g) \in SUBSET F
      /\ \A g \in F : IsFiniteSet(less(g)) /\ Cardinality(less(g)) \in Nat
  <2>1. \A g \in F : less(g) \in SUBSET F
    OBVIOUS
  <2>2. QED
    BY <1>1, <2>1, FS_Subset, FS_CardinalityType
<1>3. Cardinality(A) <= c
  <2>1. CASE A = {}
    BY <2>1, FS_EmptySet
  <2>2. CASE A # {}
    <3> DEFINE R == {p \in Nat \X Nat : p[2] < p[1]}
    <3>1. \A x, y \in F : <<x, y>> \in R <=> y < x
      OBVIOUS
    <3>2. PICK g \in A : \A h \in A : <<h, g>> \notin R
      <4>1. \A x \in F : <<x, x>> \notin R
        BY <3>1
      <4>2. \A x, y, z \in F : <<x, y>> \in R /\ <<y, z>> \in R => <<x, z>> \in R
        BY <3>1
      <4> HIDE DEF A, R, less
      <4>3. QED
        BY <1>1, <2>2, <4>1, <4>2, MinimalMember
    <3>3. ASSUME NEW h \in A
          PROVE  h \in less(g) \cup {g}
      <4>1. h \in F /\ g \in F /\ h \in Nat /\ g \in Nat /\ ~(g < h)
        BY <1>1, <3>1, <3>2
      <4>2. QED
        BY <4>1
    <3>4. /\ IsFiniteSet(less(g)) /\ Cardinality(less(g)) \in Nat
          /\ Cardinality(less(g)) < c
      BY <1>1, <1>2
    <3>5. A \in SUBSET (less(g) \cup {g})
      BY <3>3
    <3> HIDE DEF A, less
    <3>6. /\ IsFiniteSet(less(g) \cup {g})
          /\ Cardinality(less(g) \cup {g}) \in Nat
          /\ Cardinality(less(g) \cup {g}) <= Cardinality(less(g)) + 1
      <4>1. /\ IsFiniteSet(less(g) \cup {g})
            /\ Cardinality(less(g) \cup {g})
                 = IF g \in less(g) THEN Cardinality(less(g))
                                    ELSE Cardinality(less(g)) + 1
        BY <3>4, FS_AddElement
      <4>2. QED
        BY <3>4, <4>1, FS_CardinalityType
    <3>7. Cardinality(A) <= Cardinality(less(g) \cup {g})
      BY <3>5, <3>6, FS_Subset
    <3>8. QED
      BY <1>2, <3>4, <3>6, <3>7
  <2>3. QED
    BY <2>1, <2>2
<1>4. Cardinality(A) >= c
  <2>1. CASE A = F
    BY <2>1
  <2>2. CASE A # F
    <3> DEFINE R == {p \in Nat \X Nat : p[1] < p[2]}
    <3>1. \A x, y \in F : <<x, y>> \in R <=> x < y
      OBVIOUS
    <3> DEFINE out == F \ A
    <3>2. PICK g \in out : \A h \in out : <<h, g>> \notin R
      <4>1. \A x \in F : <<x, x>> \notin R
        BY <3>1
      <4>2. \A x, y, z \in F : <<x, y>> \in R /\ <<y, z>> \in R => <<x, z>> \in R
        BY <3>1
      <4>3. out \in SUBSET F /\ out # {}
        BY <1>1, <2>2
      <4> HIDE DEF out, R, A, less
      <4>4. \A S \in SUBSET F :
              S # {} => \E g \in S : \A h \in S : <<h, g>> \notin R
        BY <4>1, <4>2, MinimalMember
      <4>5. QED
        BY <4>3, <4>4
    <3>3. less(g) \in SUBSET A
      BY <3>1, <3>2
    <3>4. Cardinality(less(g)) <= Cardinality(A)
      BY <1>2, <3>3, FS_Subset
    <3>5. ~(Cardinality(less(g)) < c) /\ Cardinality(less(g)) \in Nat
      BY <1>1, <1>2, <3>2
    <3> HIDE DEF A, less
    <3>6. QED
      BY <1>2, <3>4, <3>5
  <2>3. QED
    BY <2>1, <2>2
<1>5. QED
  BY <1>2, <1>3, <1>4

(* Whoever else finds GPUs on a node found them among more that were free. *)
LEMMA AvailableBefore ==
  ASSUME NEW F \in SUBSET Nat, IsFiniteSet(F), NEW G \in SUBSET F, NEW c \in Nat,
         Cardinality(Lowest(G, c)) = c
  PROVE  Cardinality(Lowest(F, c)) = c
<1>1. Lowest(G, c) \in SUBSET G
  BY DEF Lowest
<1>2. /\ IsFiniteSet(G) /\ Cardinality(G) \in Nat
      /\ Cardinality(F) \in Nat /\ Cardinality(G) <= Cardinality(F)
  BY FS_Subset, FS_CardinalityType
<1>3. Cardinality(Lowest(G, c)) <= Cardinality(G)
  BY <1>1, <1>2, FS_Subset
<1>4. c <= Cardinality(F)
  BY <1>2, <1>3
<1>5. QED
  BY <1>4, LowestCount

LEMMA WithinLess ==
  ASSUME NEW limit \in Nat, NEW more \in Nat, NEW less \in Nat, less <= more,
         Within(limit, more)
  PROVE  Within(limit, less)
BY DEF Within

(* What an assignment changes.                                             *)
LEMMA AssignFields ==
  ASSUME TypeOK, NEW j \in Jobs, NEW n \in Nodes, ScheduleAssign(j, n)
  PROVE  /\ \A i \in Jobs \ {j} : job'[i] = job[i]
         /\ job[j].status = "queued"
         /\ job'[j].status = "assigned" /\ job'[j].node = n
         /\ \A m \in Nodes :
              /\ node'[m].known = node[m].known
              /\ node'[m].session = node[m].session
              /\ node'[m].cleanup = node[m].cleanup
              /\ node'[m].stale = node[m].stale
              /\ node'[m].healthy = node[m].healthy
              /\ node'[m].maintenance = node[m].maintenance
              /\ node'[m].gpus = node[m].gpus
         /\ \A m \in Nodes \ {n} : node'[m] = node[m]
         /\ node'[n].busy
         /\ UNCHANGED <<project, licence>>
<1>1. /\ node \in [Nodes -> NodeRecord] /\ job[j] \in JobRecord
      /\ Placeable(j, n) /\ node[n].known
      /\ job' = [job EXCEPT ![j] = Assigned(job[j], j, n)]
      /\ node' = Refreshed(node, job', n)
      /\ UNCHANGED <<project, licence>>
  BY DEF TypeOK, ScheduleAssign, Placeable, Eligible
<1>2. /\ job'[j] = Assigned(job[j], j, n)
      /\ \A i \in Jobs \ {j} : job'[i] = job[i]
  BY <1>1 DEF TypeOK
<1>3. job'[j].status = "assigned" /\ job'[j].node = n
  BY <1>1, <1>2 DEF Assigned, TypeOK, JobRecord
<1>4. j \in ActiveOn(job', n)
  BY <1>3 DEF ActiveOn, ActiveStatus
<1>5. node'[n].busy
  BY <1>1, <1>4, RefreshedBusy
<1>6. ASSUME NEW m \in Nodes
      PROVE  /\ node'[m].known = node[m].known
             /\ node'[m].session = node[m].session
             /\ node'[m].cleanup = node[m].cleanup
             /\ node'[m].stale = node[m].stale
             /\ node'[m].healthy = node[m].healthy
             /\ node'[m].maintenance = node[m].maintenance
             /\ node'[m].gpus = node[m].gpus
             /\ m # n => node'[m] = node[m]
  BY <1>1 DEF Refreshed, NodeRecord
<1>7. QED
  BY <1>1, <1>2, <1>3, <1>5, <1>6 DEF Placeable

(* The rule that chooses the licensed nodes looks at no more of the nodes. *)
LicenceRule(A) ==
  \A n \in KnownNodes :
    LET earlier == {m \in A : m < n}
    IN  n \in A <=> /\ Within(licence.nodes, Cardinality(earlier) + 1)
                    /\ Within(licence.gpus,
                         Cardinality(GpuUnitsOf(earlier)) + node[n].gpus)

LEMMA SameLicensed ==
  ASSUME UNCHANGED licence,
         \A m \in Nodes : /\ node'[m].known = node[m].known
                          /\ node'[m].gpus = node[m].gpus
  PROVE  LicensedNodes' = LicensedNodes
<1>1. KnownNodes' = KnownNodes /\ KnownNodes \subseteq Nodes
  BY DEF KnownNodes
<1>2. \A S \in SUBSET Nodes : GpuUnitsOf(S)' = GpuUnitsOf(S)
  BY DEF GpuUnitsOf
<1>3. ASSUME NEW A \in SUBSET KnownNodes
      PROVE  LicenceRule(A)' <=> LicenceRule(A)
  <2>1. ASSUME NEW n \in KnownNodes
        PROVE  /\ GpuUnitsOf({m \in A : m < n})' = GpuUnitsOf({m \in A : m < n})
               /\ node'[n].gpus = node[n].gpus
    BY <1>1, <1>2
  <2>2. QED
    BY <1>1, <2>1 DEF LicenceRule
<1> DEFINE old == CHOOSE A \in SUBSET KnownNodes : LicenceRule(A)
           new == CHOOSE A \in SUBSET KnownNodes : LicenceRule(A)'
<1>4. LicensedNodes = IF licence.expired THEN {} ELSE old
  BY DEF LicensedNodes, LicenceRule
<1>5. LicensedNodes' = IF licence.expired THEN {} ELSE new
  BY <1>1 DEF LicensedNodes, LicenceRule
<1>6. new = old
  <2>1. \A A : A \in SUBSET KnownNodes /\ LicenceRule(A)'
                <=> A \in SUBSET KnownNodes /\ LicenceRule(A)
    BY <1>3
  <2>2. QED
    BY <2>1, Zenon
<1> HIDE DEF old, new
<1>7. QED
  BY <1>4, <1>5, <1>6

LEMMA AssignKeepsLicensed ==
  ASSUME TypeOK, NEW j \in Jobs, NEW n \in Nodes, ScheduleAssign(j, n)
  PROVE  LicensedNodes' = LicensedNodes
BY AssignFields, SameLicensed

LEMMA AssignKeepsQuota ==
  ASSUME TypeOK, NEW j \in Jobs, NEW n \in Nodes, ScheduleAssign(j, n),
         NEW i \in Jobs, CanSchedule(i)'
  PROVE  CanSchedule(i)
<1> DEFINE p == ProjectOf[i]
<1>1. /\ p \in Projects /\ GpuCount[i] \in Nat
      /\ project[p].limit.concurrent \in Nat /\ project[p].limit.gpus \in Nat
  BY JobAttributesAssumption, LimitType
<1>2. /\ \A k \in Jobs \ {j} : job'[k] = job[k]
      /\ job[j].status \notin ActiveStatus /\ UNCHANGED project
  BY AssignFields DEF ActiveStatus
<1>3. ActiveIn(p) \subseteq ActiveIn(p)' /\ j \notin ActiveIn(p)
  BY <1>2 DEF ActiveIn
<1>4. GpuUnitsIn(p) \subseteq GpuUnitsIn(p)'
  <2>1. \A k \in ActiveIn(p) : ChargedGpus(k)' = ChargedGpus(k)
    BY <1>2, <1>3 DEF ChargedGpus, ActiveIn
  <2>2. QED
    BY <1>3, <2>1 DEF GpuUnitsIn
<1>5. IsFiniteSet(ActiveIn(p)') /\ IsFiniteSet(GpuUnitsIn(p)')
  <2>1. ActiveIn(p)' \subseteq Jobs /\ GpuUnitsIn(p)' \subseteq Jobs \X (1..MaxGpus)
    BY DEF ActiveIn, GpuUnitsIn
  <2>2. QED
    BY <2>1, JobsFinite, FS_Subset
<1>6. /\ Cardinality(ActiveIn(p)) \in Nat /\ Cardinality(ActiveIn(p)') \in Nat
      /\ Cardinality(ActiveIn(p)) <= Cardinality(ActiveIn(p)')
      /\ Cardinality(GpuUnitsIn(p)) \in Nat /\ Cardinality(GpuUnitsIn(p)') \in Nat
      /\ Cardinality(GpuUnitsIn(p)) <= Cardinality(GpuUnitsIn(p)')
  BY <1>1, <1>3, <1>4, <1>5, ActiveFinite, FS_Subset, FS_CardinalityType
<1>7. /\ project[p].known /\ project[p].active
      /\ Within(project[p].limit.concurrent, Cardinality(ActiveIn(p)') + 1)
      /\ Within(project[p].limit.gpus,
                Cardinality(GpuUnitsIn(p)') + GpuCount[i])
  BY <1>2 DEF CanSchedule
<1>8. /\ Within(project[p].limit.concurrent, Cardinality(ActiveIn(p)) + 1)
      /\ Within(project[p].limit.gpus, Cardinality(GpuUnitsIn(p)) + GpuCount[i])
  <2> HIDE DEF p
  <2>1. QED
    BY <1>1, <1>6, <1>7 DEF Within
<1>9. QED
  BY <1>7, <1>8 DEF CanSchedule

LEMMA AssignTakesCapacity ==
  ASSUME TypeOK, NEW j \in Jobs, NEW n \in Nodes, ScheduleAssign(j, n),
         NEW i \in Jobs, NEW m \in Nodes, HasCapacity(i, m)'
  PROVE  HasCapacity(i, m)
<1>1. /\ \A k \in Jobs \ {j} : job'[k] = job[k]
      /\ job[j].status \notin ActiveStatus
      /\ node'[m].gpus = node[m].gpus
      /\ \A l \in Nodes \ {n} : node'[l] = node[l]
      /\ node'[n].busy
  BY AssignFields DEF ActiveStatus
<1>2. /\ ActiveOn(job, m) \subseteq ActiveOn(job', m)
      /\ \A k \in ActiveOn(job, m) : job'[k].gpus = job[k].gpus
  BY <1>1 DEF ActiveOn
<1>3. CASE Granular /\ GpuCount[i] > 0
  <2>1. /\ \A k \in ActiveOn(job', m) : GpuCount[k] > 0
        /\ Cardinality(AvailableGpus(m, GpuCount[i])') = GpuCount[i]
    BY <1>3 DEF HasCapacity, ActiveOn
  <2>2. FreeGpus(m)' \subseteq FreeGpus(m)
    <3>1. UsedGpus(m) \subseteq UsedGpus(m)'
      BY <1>1, <1>2 DEF UsedGpus, HeldGpus, ActiveOn
    <3>2. QED
      BY <1>1, <3>1 DEF FreeGpus
  <2>3. FreeGpus(m) \in SUBSET Nat
    BY DEF FreeGpus
  <2>4. /\ AvailableGpus(m, GpuCount[i]) = Lowest(FreeGpus(m), GpuCount[i])
        /\ AvailableGpus(m, GpuCount[i])' = Lowest(FreeGpus(m)', GpuCount[i])
    BY DEF AvailableGpus, Lowest
  <2>5. Cardinality(AvailableGpus(m, GpuCount[i])) = GpuCount[i]
    BY <2>1, <2>2, <2>3, <2>4, FreeGpusFinite, AvailableBefore,
       JobAttributesAssumption
  <2>6. QED
    BY <1>2, <1>3, <2>1, <2>5 DEF HasCapacity
<1>4. CASE ~(Granular /\ GpuCount[i] > 0)
  BY <1>1, <1>4 DEF HasCapacity
<1>5. QED
  BY <1>3, <1>4

LEMMA AssignPlacesNoOther ==
  ASSUME TypeOK, NEW j \in Jobs, NEW n \in Nodes, ScheduleAssign(j, n),
         NEW i \in Jobs, NEW m \in Nodes, Placeable(i, m)'
  PROVE  i # j /\ Placeable(i, m)
<1>1. job'[j].status = "assigned" /\ \A k \in Jobs \ {j} : job'[k] = job[k]
  BY AssignFields
<1>2. i # j /\ job[i].status = "queued"
  BY <1>1 DEF Placeable
<1>3. CanSchedule(i)' /\ HasCapacity(i, m)' /\ Eligible(i, m)'
      /\ m \in LicensedNodes'
  BY DEF Placeable
<1>4. CanSchedule(i) /\ HasCapacity(i, m) /\ m \in LicensedNodes
  BY <1>3, AssignKeepsQuota, AssignTakesCapacity, AssignKeepsLicensed
<1>5. Eligible(i, m)
  BY <1>3, AssignFields DEF Eligible
<1>6. QED
  BY <1>2, <1>4, <1>5 DEF Placeable

(* No job that the walk left behind has a place.                           *)
PassedOver ==
  \A i \in Jobs, m \in Nodes : i < cursor => ~Placeable(i, m)

(* The pass holds the mutex: nothing else happens before it ends.          *)
LEMMA PassSteps ==
  ASSUME TypeOK, [Next]_vars
  PROVE  \/ cursor = 0 /\ cursor' \in {0, 1}
         \/ UNCHANGED vars
         \/ \E j \in Jobs, n \in Nodes : ScheduleAssign(j, n)
         \/ ScheduleEnd
<1>1. CASE Administration
  BY <1>1 DEF Administration, CreateProject, UpdateProject, SetLicence,
              SetNodeMaintenance, DeleteNode, MutexFree
<1>2. CASE UserOperation
  BY <1>2 DEF UserOperation, CreateJob, CancelJob, BeginJobDeletion, DeleteJob,
              MutexFree
<1>3. CASE AgentNodeOperation
  <2>1. ASSUME NEW n \in Nodes, NEW s \in Sessions, NEW healthy \in BOOLEAN,
               NEW g \in Inventories, RegisterNode(n, s, healthy, g)
        PROVE  cursor = 0 /\ cursor' = 0
    BY <2>1 DEF RegisterNode, MutexFree
  <2>2. ASSUME NEW n \in Nodes, ConfirmCleanup(n) \/ FenceExpiredSession(n)
        PROVE  cursor = 0 /\ cursor' = 0
    BY <2>2 DEF ConfirmCleanup, FenceExpiredSession, MutexFree
  <2>3. ASSUME NEW n \in Nodes, NEW healthy \in BOOLEAN, NEW g \in Inventories,
               NEW hostChanged \in BOOLEAN,
               UpdateNodeHealth(n, healthy, g, hostChanged)
        PROVE  cursor = 0 /\ cursor' = 0
    BY <2>3 DEF UpdateNodeHealth, MutexFree
  <2>4. QED
    BY <1>3, <2>1, <2>2, <2>3
       DEF AgentNodeOperation, RegisteredHealth, ReportedHealth
<1>4. CASE AgentJobOperation
  BY <1>4 DEF AgentJobOperation, NextJob, ReportRunning, ReportSucceeded,
              ReportFailed, ReportCanceled, MutexFree
<1>5. CASE SchedulingPass
  BY <1>5 DEF SchedulingPass, Schedule, MutexFree
<1>6. CASE Time
  BY <1>6 DEF Time, HeartbeatLapses, HealthReportLapses, LeaseExpires, MutexFree
<1>7. QED
  BY <1>1, <1>2, <1>3, <1>4, <1>5, <1>6 DEF Next

LEMMA AssignPasses ==
  ASSUME TypeOK, PassedOver, NEW j \in Jobs, NEW n \in Nodes,
         ScheduleAssign(j, n)
  PROVE  PassedOver'
<1>1. /\ cursor' = j + 1 /\ cursor \in Nat
      /\ \A i \in Jobs : i < j => ~PlaceableLater(i)
  BY DEF ScheduleAssign, TypeOK
<1>2. ASSUME NEW i \in Jobs, NEW m \in Nodes, i < cursor', Placeable(i, m)'
      PROVE  FALSE
  <2>1. i # j /\ Placeable(i, m)
    BY <1>2, AssignPlacesNoOther
  <2>2. i \in Int /\ j \in Int
    BY SizesAssumption DEF Jobs
  <2>3. i < j
    BY <1>1, <1>2, <2>1, <2>2
  <2>4. CASE i < cursor
    BY <2>1, <2>4 DEF PassedOver
  <2>5. CASE i >= cursor
    BY <1>1, <2>1, <2>3, <2>5 DEF PlaceableLater
  <2>6. QED
    BY <1>1, <2>2, <2>4, <2>5
<1>3. QED
  BY <1>2 DEF PassedOver

LEMMA NextPasses ==
  ASSUME TypeOK, PassedOver, [Next]_vars
  PROVE  PassedOver'
<1>1. CASE cursor' \in {0, 1}
  BY <1>1, SizesAssumption DEF PassedOver, Jobs
<1>2. CASE UNCHANGED vars
  <2>1. LicensedNodes' = LicensedNodes
    BY <1>2, SameLicensed DEF vars
  <2>2. \A i \in Jobs, m \in Nodes : Placeable(i, m)' => Placeable(i, m)
    BY <1>2, <2>1
       DEF vars, Placeable, CanSchedule, ActiveIn, GpuUnitsIn, ChargedGpus,
           HasCapacity, ActiveOn, AvailableGpus, FreeGpus, UsedGpus,
           HeldGpus, Eligible
  <2>3. QED
    BY <1>2, <2>2 DEF PassedOver, vars
<1>3. CASE ScheduleEnd
  BY <1>1, <1>3 DEF ScheduleEnd
<1>4. QED
  BY <1>1, <1>2, <1>3, PassSteps, AssignPasses

(* When the scheduling pass ends, no queued job could still be placed      *)
(* (store.go: Schedule walks the queue once, in the order of creation).    *)
THEOREM WorkConservingHolds == Spec => WorkConserving
<1>1. Init => PassedOver
  BY SizesAssumption DEF Init, PassedOver, Jobs
<1>2. TypeOK /\ PassedOver /\ [Next]_vars => PassedOver'
  BY NextPasses
<1>3. TypeOK /\ PassedOver /\ [Next]_vars =>
        [cursor # 0 /\ cursor' = 0 =>
           \A j \in Jobs, n \in Nodes : ~Placeable(j, n)]_vars
  <2> SUFFICES ASSUME TypeOK, PassedOver, [Next]_vars, cursor # 0, cursor' = 0,
                      NEW j \in Jobs, NEW n \in Nodes, Placeable(j, n)
               PROVE  FALSE
    OBVIOUS
  <2>1. j \in Nat /\ cursor \in Nat
    BY SizesAssumption DEF TypeOK, Jobs
  <2>2. ~\E k \in Jobs, m \in Nodes : ScheduleAssign(k, m)
    BY SizesAssumption DEF ScheduleAssign, Jobs
  <2>3. ScheduleEnd
    BY <2>2, PassSteps DEF vars
  <2>4. j < cursor
    BY <2>1, <2>3 DEF ScheduleEnd, PlaceableLater
  <2>5. QED
    BY <2>4 DEF PassedOver
<1>4. QED
  BY <1>1, <1>2, <1>3, TypeCorrect, PTL DEF Spec, WorkConserving
=============================================================================
