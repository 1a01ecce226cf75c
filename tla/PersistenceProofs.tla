--------------------------- MODULE PersistenceProofs ---------------------------
(***************************************************************************)
(* Proofs about Persistence: what failed transactions and restarts leave   *)
(* of the store's memory, for every number of jobs, nodes and failures.    *)
(*                                                                         *)
(* A restart takes the database for the memory, and a failed transaction   *)
(* the snapshot.  So the invariant relates the database to the snapshot    *)
(* while an operation is under way and to the memory otherwise, and says   *)
(* of the snapshot, too, that it is sound.                                 *)
(***************************************************************************)
EXTENDS Persistence, JobStoreOwnership

(* What makes JobStore's invariants of a memory with these contents.       *)
OwnedIn(jobs, nodes) ==
  \A j \in Jobs : jobs[j].status \in ActiveStatus =>
    /\ jobs[j].node \in Nodes
    /\ nodes[jobs[j].node].known
    /\ \/ nodes[jobs[j].node].session = jobs[j].session
       \/ /\ nodes[jobs[j].node].session = NoSession
          /\ nodes[jobs[j].node].cleanup

CoherentIn(jobs, nodes) ==
  \A n \in Nodes : nodes[n].busy <=> ActiveOn(jobs, n) # {}

ExclusiveIn(jobs) ==
  \A n \in Nodes : \A i, j \in ActiveOn(jobs, n) :
    /\ Granular => Cardinality(jobs[i].gpus) = GpuCount[i]
    /\ i # j => /\ Granular
                /\ GpuCount[i] > 0
                /\ jobs[i].gpus \cap jobs[j].gpus = {}

(* Record r of a job that has this budget of retries, was started so often *)
(* and last by that session.                                               *)
LivesWell(r, budget, starts, asked, session) ==
  /\ r.mark # "none" => r.status = "canceling"
  /\ r.mark = "retry" => r.attempts <= budget
  /\ starts <= budget + 1
  /\ r.status = "absent" => r.attempts = 0 /\ starts = 0
  /\ r.status = "queued" => r.attempts = starts /\ r.attempts <= budget
  /\ r.status = "assigned" => /\ r.attempts = starts + 1
                              /\ r.attempts <= budget + 1
  /\ r.status \in {"running", "canceling"} => r.attempts = starts
  /\ asked => \/ r.status \in {"canceled", "deleting", "removed"}
              \/ r.status = "canceling" /\ r.mark = "none"
  /\ r.status = "running" => r.claim = "held"
  /\ r.claim = "held" => /\ r.status \in {"running", "canceling"}
                         /\ r.session = session

SoundIn(jobs, nodes, starts, asks, runs) ==
  /\ OwnedIn(jobs, nodes)
  /\ CoherentIn(jobs, nodes)
  /\ ExclusiveIn(jobs)
  /\ \A j \in Jobs :
       LivesWell(jobs[j], MaxRetries[j], starts[j], asks[j], runs[j])

(* The rows that acknowledged operations have made.                        *)
Acknowledged == IF before = NoSnapshot THEN Rows ELSE before.rows

SameNode(r, q) == [r EXCEPT !.busy = q.busy] = q

Synced ==
  /\ \A j \in Jobs \ doubt.job : disk.job[j] = Acknowledged.job[j]
  /\ \A n \in Nodes \ doubt.node : SameNode(disk.node[n], Acknowledged.node[n])
  /\ \A p \in Projects \ doubt.project :
       disk.project[p] = Acknowledged.project[p]

SoundMemory == SoundIn(job, node, started, cancelAsked, runner)

SoundSnapshot ==
  SoundIn(before.rows.job, before.rows.node, before.started,
          before.cancelAsked, before.runner)

PersistenceInv ==
  /\ PersistenceTypeOK
  /\ before = NoSnapshot => MutexFree
  /\ Synced
  /\ ~tainted => SoundMemory
  /\ ~tainted /\ before # NoSnapshot => SoundSnapshot

----------------------------------------------------------------------------
(* What soundness is.                                                      *)

LEMMA SoundNow ==
  SoundMemory <=> /\ OwnedOrFenced /\ UsageCoherent /\ ExclusiveUse
                  /\ \A j \in Jobs : JobInv(j)
<1>1. ASSUME NEW j \in Jobs
      PROVE  JobInv(j) <=> LivesWell(job[j], MaxRetries[j], started[j],
                                    cancelAsked[j], runner[j])
  BY DEF LivesWell, JobInv, MarkInv, BudgetInv, CancelInv, HeldInv
<1>2. OwnedOrFenced <=> OwnedIn(job, node)
  BY DEF OwnedOrFenced, OwnedIn
<1>3. UsageCoherent <=> CoherentIn(job, node)
  BY DEF UsageCoherent, CoherentIn, ActiveOn
<1>4. ExclusiveUse <=> ExclusiveIn(job)
  BY DEF ExclusiveUse, ExclusiveIn, ActiveOn
<1>5. QED
  BY <1>1, <1>2, <1>3, <1>4 DEF SoundMemory, SoundIn

LEMMA SoundNext ==
  SoundMemory' <=> /\ OwnedOrFenced' /\ UsageCoherent' /\ ExclusiveUse'
                   /\ \A j \in Jobs : JobInv(j)'
<1>1. ASSUME NEW j \in Jobs
      PROVE  JobInv(j)' <=> LivesWell(job[j], MaxRetries[j], started[j],
                                     cancelAsked[j], runner[j])'
  BY DEF LivesWell, JobInv, MarkInv, BudgetInv, CancelInv, HeldInv
<1>2. OwnedOrFenced' <=> OwnedIn(job', node')
  BY DEF OwnedOrFenced, OwnedIn
<1>3. UsageCoherent' <=> CoherentIn(job', node')
  BY DEF UsageCoherent, CoherentIn, ActiveOn
<1>4. ExclusiveUse' <=> ExclusiveIn(job')
  BY DEF ExclusiveUse, ExclusiveIn, ActiveOn
<1>5. QED
  BY <1>1, <1>2, <1>3, <1>4 DEF SoundMemory, SoundIn, LivesWell

(* The store's own steps keep it sound.                                    *)
LEMMA StoreStepSound ==
  ASSUME TypeOK, SoundMemory, [Next]_vars
  PROVE  SoundMemory'
<1>1. OwnInv /\ LifeInv /\ ExclusiveUse
  BY SoundNow DEF OwnInv, LifeInv
<1>2. OwnInv' /\ LifeInv' /\ ExclusiveUse'
  BY <1>1, NextOwn, NextLife, NextUse
<1>3. QED
  BY <1>2, SoundNext DEF OwnInv, LifeInv

(* Reloaded nodes are sound again with the usage that their jobs make.     *)
LEMMA ReloadedSound ==
  ASSUME NEW jobs, NEW nodes, NEW starts, NEW asks, NEW runs,
         SoundIn(jobs, nodes, starts, asks, runs),
         NEW rows \in [Nodes -> NodeRecord], NEW loaded,
         \A n \in Nodes : SameNode(rows[n], nodes[n]),
         nodes \in [Nodes -> NodeRecord],
         loaded = [n \in Nodes |-> Refreshed(rows, jobs, n)[n]]
  PROVE  SoundIn(jobs, loaded, starts, asks, runs)
<1>1. ASSUME NEW n \in Nodes
      PROVE  /\ loaded[n].known = nodes[n].known
             /\ loaded[n].session = nodes[n].session
             /\ loaded[n].cleanup = nodes[n].cleanup
             /\ loaded[n].busy = (nodes[n].known /\ ActiveOn(jobs, n) # {})
  <2>1. /\ rows[n].known = nodes[n].known
        /\ rows[n].session = nodes[n].session
        /\ rows[n].cleanup = nodes[n].cleanup
    BY DEF SameNode, NodeRecord
  <2>2. /\ loaded[n].known = rows[n].known
        /\ loaded[n].session = rows[n].session
        /\ loaded[n].cleanup = rows[n].cleanup
    BY RefreshedFields DEF SameIdentity
  <2>3. loaded[n].busy = (rows[n].known /\ ActiveOn(jobs, n) # {})
    BY RefreshedBusy
  <2>4. QED
    BY <2>1, <2>2, <2>3
<1>2. OwnedIn(jobs, loaded)
  BY <1>1 DEF SoundIn, OwnedIn
<1>3. CoherentIn(jobs, loaded)
  <2>1. \A n \in Nodes : ActiveOn(jobs, n) # {} => nodes[n].known
    BY DEF ActiveOn, SoundIn, OwnedIn
  <2>2. QED
    BY <1>1, <2>1 DEF CoherentIn
<1>4. QED
  BY <1>2, <1>3 DEF SoundIn

----------------------------------------------------------------------------
(* What the steps of a transaction do to the rows.                         *)

LEMMA RowFields ==
  ASSUME NEW rows \in RowRecord
  PROVE  /\ rows.job \in [Jobs -> JobRecord]
         /\ rows.node \in [Nodes -> NodeRecord]
         /\ rows.project \in [Projects -> ProjectRecord]
BY DEF RowRecord

LEMMA SnapshotFields ==
  ASSUME NEW taken \in SnapshotRecord
  PROVE  /\ taken # NoSnapshot
         /\ taken.rows \in RowRecord
         /\ taken.started \in [Jobs -> Nat]
         /\ taken.cancelAsked \in [Jobs -> BOOLEAN]
         /\ taken.runner \in [Jobs -> Sessions \cup {NoSession}]
BY PersistenceAssumption DEF SnapshotRecord

LEMMA DoubtFields ==
  ASSUME PersistenceTypeOK
  PROVE  /\ DOMAIN doubt = {"job", "node", "project"}
         /\ doubt.job \subseteq Jobs /\ doubt.node \subseteq Nodes
         /\ doubt.project \subseteq Projects
BY DEF PersistenceTypeOK, RowIds

(* An operation under way began from sound rows that the database agrees   *)
(* with; the memory it changes is sound as well.                           *)
LEMMA SnapshotTaken ==
  ASSUME TypeOK
  PROVE  /\ Snapshot \in SnapshotRecord
         /\ Snapshot.rows = Rows /\ Rows \in RowRecord
         /\ Snapshot.started = started /\ Snapshot.runner = runner
         /\ Snapshot.cancelAsked = cancelAsked
         /\ Rows.job = job /\ Rows.node = node /\ Rows.project = project
<1>1. Rows \in RowRecord /\ Rows.job = job /\ Rows.node = node
      /\ Rows.project = project
  BY DEF Rows, RowRecord, TypeOK
<1>2. QED
  BY <1>1 DEF Snapshot, SnapshotRecord, TypeOK

LEMMA ChangedFields ==
  /\ Changed.job = {j \in Jobs : job[j] # before.rows.job[j]}
  /\ Changed.node = {n \in Nodes : node[n] # before.rows.node[n]}
  /\ Changed.project = {p \in Projects : project[p] # before.rows.project[p]}
BY DEF Changed

LEMMA WrittenFields ==
  ASSUME PersistenceTypeOK
  PROVE  /\ Written \in RowRecord
         /\ \A j \in Jobs :
              Written.job[j] = IF j \in Changed.job THEN job[j]
                                                   ELSE disk.job[j]
         /\ \A n \in Nodes :
              Written.node[n] = IF n \in Changed.node THEN node[n]
                                                     ELSE disk.node[n]
         /\ \A p \in Projects :
              Written.project[p] = IF p \in Changed.project THEN project[p]
                                                   ELSE disk.project[p]
<1>1. /\ disk.job \in [Jobs -> JobRecord]
      /\ disk.node \in [Nodes -> NodeRecord]
      /\ disk.project \in [Projects -> ProjectRecord]
      /\ job \in [Jobs -> JobRecord] /\ node \in [Nodes -> NodeRecord]
      /\ project \in [Projects -> ProjectRecord]
  BY RowFields DEF PersistenceTypeOK, TypeOK
<1> DEFINE jobs == [j \in Jobs |-> IF j \in Changed.job THEN job[j]
                                                        ELSE disk.job[j]]
           nodes == [n \in Nodes |-> IF n \in Changed.node THEN node[n]
                                                           ELSE disk.node[n]]
           projects == [p \in Projects |-> IF p \in Changed.project
                                             THEN project[p]
                                             ELSE disk.project[p]]
<1>2. /\ Written.job = jobs /\ Written.node = nodes
      /\ Written.project = projects
      /\ Written = [job |-> jobs, node |-> nodes, project |-> projects]
  BY DEF Written
<1>3. jobs \in [Jobs -> JobRecord] /\ nodes \in [Nodes -> NodeRecord]
      /\ projects \in [Projects -> ProjectRecord]
  BY <1>1
<1>4. Written \in RowRecord
  <2> HIDE DEF jobs, nodes, projects
  <2>1. QED
    BY <1>2, <1>3 DEF RowRecord
<1>5. QED
  BY <1>2, <1>4

(* Where the database agreed with the snapshot, the rows it is given agree *)
(* with the memory, and with what had changed nothing is in doubt.         *)
LEMMA WrittenAgrees ==
  ASSUME PersistenceTypeOK, Synced, before # NoSnapshot
  PROVE  /\ \A j \in Jobs : j \notin doubt.job \ Changed.job =>
              Written.job[j] = job[j]
         /\ \A n \in Nodes : n \notin doubt.node \ Changed.node =>
              SameNode(Written.node[n], node[n])
         /\ \A p \in Projects : p \notin doubt.project \ Changed.project =>
              Written.project[p] = project[p]
<1>1. Acknowledged = before.rows
  BY DEF Acknowledged
<1>2. \A j \in Jobs : j \notin doubt.job \ Changed.job =>
        Written.job[j] = job[j]
  BY <1>1, WrittenFields, ChangedFields DEF Synced
<1>3. ASSUME NEW n \in Nodes, n \notin doubt.node \ Changed.node
      PROVE  SameNode(Written.node[n], node[n])
  <2>1. CASE n \in Changed.node
    <3>1. Written.node[n] = node[n] /\ node[n] \in NodeRecord
      BY <2>1, WrittenFields DEF PersistenceTypeOK, TypeOK
    <3>2. QED
      BY <3>1 DEF SameNode, NodeRecord
  <2>2. CASE n \notin Changed.node
    <3>1. Written.node[n] = disk.node[n] /\ node[n] = before.rows.node[n]
      BY <2>2, WrittenFields, ChangedFields
    <3>2. n \notin doubt.node
      BY <1>3, <2>2
    <3>3. QED
      BY <1>1, <3>1, <3>2 DEF Synced
  <2>3. QED
    BY <2>1, <2>2
<1>4. \A p \in Projects : p \notin doubt.project \ Changed.project =>
        Written.project[p] = project[p]
  BY <1>1, WrittenFields, ChangedFields DEF Synced
<1>5. QED
  BY <1>2, <1>3, <1>4

LEMMA WithoutFields ==
  ASSUME PersistenceTypeOK
  PROVE  /\ Without(doubt, Changed) \in RowIds
         /\ Without(doubt, Changed).job = doubt.job \ Changed.job
         /\ Without(doubt, Changed).node = doubt.node \ Changed.node
         /\ Without(doubt, Changed).project = doubt.project \ Changed.project
<1> DEFINE rest == [job |-> doubt.job \ Changed.job,
                    node |-> doubt.node \ Changed.node,
                    project |-> doubt.project \ Changed.project]
<1>1. Without(doubt, Changed) = rest
  BY DoubtFields DEF Without
<1>2. rest \in RowIds
  BY DoubtFields DEF RowIds
<1>3. QED
  BY <1>1, <1>2

----------------------------------------------------------------------------
(* The store's own steps.                                                  *)

LEMMA StoreStep ==
  ASSUME PersistenceInv, [Next]_vars
  PROVE  TypeOK' /\ (~tainted => SoundMemory')
BY NextType, StoreStepSound DEF PersistenceInv, PersistenceTypeOK

LEMMA OperateKeeps ==
  ASSUME PersistenceInv, Operate
  PROVE  PersistenceInv'
<1>1. /\ before = NoSnapshot /\ before' = Snapshot
      /\ UNCHANGED <<disk, doubt, tainted, failures>>
  BY DEF Operate
<1>2. [Next]_vars
  BY DEF Operate, Operation, Next, Administration, SchedulingPass
<1>3. TypeOK' /\ (~tainted => SoundMemory')
  BY <1>2, StoreStep
<1>4. TypeOK
  BY DEF PersistenceInv, PersistenceTypeOK
<1>5. /\ before' \in SnapshotRecord /\ before' # NoSnapshot
      /\ before'.rows = Rows /\ before'.started = started
      /\ before'.cancelAsked = cancelAsked /\ before'.runner = runner
      /\ Rows.job = job /\ Rows.node = node /\ Rows.project = project
  BY <1>1, <1>4, SnapshotTaken, SnapshotFields
<1>6. PersistenceTypeOK'
  BY <1>1, <1>3, <1>5 DEF PersistenceInv, PersistenceTypeOK
<1>7. Acknowledged' = Acknowledged
  BY <1>1, <1>5 DEF Acknowledged
<1>8. Synced'
  BY <1>1, <1>7 DEF PersistenceInv, Synced
<1>9. ~tainted => SoundSnapshot'
  BY <1>5 DEF PersistenceInv, SoundMemory, SoundSnapshot
<1>10. QED
  BY <1>1, <1>3, <1>5, <1>6, <1>8, <1>9 DEF PersistenceInv

LEMMA GoOnSchedulingKeeps ==
  ASSUME PersistenceInv, GoOnScheduling
  PROVE  PersistenceInv'
<1>1. /\ [Next]_vars /\ ~MutexFree
      /\ UNCHANGED <<disk, before, doubt, tainted, failures>>
  BY DEF GoOnScheduling, storage, Next, SchedulingPass, ScheduleAssign,
         ScheduleEnd
<1>2. TypeOK' /\ (~tainted => SoundMemory')
  BY <1>1, StoreStep
<1>3. before # NoSnapshot
  BY <1>1 DEF PersistenceInv
<1>4. PersistenceTypeOK'
  BY <1>1, <1>2 DEF PersistenceInv, PersistenceTypeOK
<1>5. Acknowledged' = Acknowledged
  BY <1>1, <1>3 DEF Acknowledged
<1>6. QED
  BY <1>1, <1>2, <1>3, <1>4, <1>5 DEF PersistenceInv, Synced, SoundSnapshot

LEMMA ReplaceLicenceKeeps ==
  ASSUME PersistenceInv, ReplaceLicence
  PROVE  PersistenceInv'
<1>1. /\ [Next]_vars /\ before = NoSnapshot
      /\ UNCHANGED <<job, node, project, cursor>>
      /\ UNCHANGED <<disk, before, doubt, tainted, failures>>
  BY DEF ReplaceLicence, storage, Next, Administration, SetLicence
<1>2. TypeOK' /\ (~tainted => SoundMemory')
  BY <1>1, StoreStep
<1>3. PersistenceTypeOK'
  BY <1>1, <1>2 DEF PersistenceInv, PersistenceTypeOK
<1>4. Acknowledged' = Acknowledged
  BY <1>1 DEF Acknowledged, Rows
<1>5. QED
  BY <1>1, <1>2, <1>3, <1>4 DEF PersistenceInv, Synced, MutexFree

LEMMA NodeAges ==
  ASSUME NEW rows \in RowRecord, NEW n \in Nodes, NEW fresh \in NodeRecord,
         NEW aged, aged = [rows EXCEPT !.node[n] = fresh]
  PROVE  /\ aged \in RowRecord
         /\ aged.job = rows.job /\ aged.project = rows.project
         /\ aged.node[n] = fresh
         /\ \A m \in Nodes \ {n} : aged.node[m] = rows.node[m]
<1> DEFINE nodes == [rows.node EXCEPT ![n] = fresh]
<1>1. /\ nodes \in [Nodes -> NodeRecord] /\ nodes[n] = fresh
      /\ \A m \in Nodes \ {n} : nodes[m] = rows.node[m]
  BY RowFields
<1>2. aged = [rows EXCEPT !.node = nodes]
  OBVIOUS
<1>3. QED
  <2> HIDE DEF nodes
  <2>1. QED
    BY <1>1, <1>2 DEF RowRecord

LEMMA JobAges ==
  ASSUME NEW rows \in RowRecord, NEW j \in Jobs, NEW fresh \in JobRecord,
         NEW aged, aged = [rows EXCEPT !.job[j] = fresh]
  PROVE  /\ aged \in RowRecord
         /\ aged.node = rows.node /\ aged.project = rows.project
         /\ aged.job[j] = fresh
         /\ \A i \in Jobs \ {j} : aged.job[i] = rows.job[i]
<1> DEFINE jobs == [rows.job EXCEPT ![j] = fresh]
<1>1. /\ jobs \in [Jobs -> JobRecord] /\ jobs[j] = fresh
      /\ \A i \in Jobs \ {j} : jobs[i] = rows.job[i]
  BY RowFields
<1>2. aged = [rows EXCEPT !.job = jobs]
  OBVIOUS
<1>3. QED
  <2> HIDE DEF jobs
  <2>1. QED
    BY <1>1, <1>2 DEF RowRecord

(* Time ages the rows that agree alike.                                    *)
LEMMA TimePassesKeeps ==
  ASSUME PersistenceInv, TimePasses
  PROVE  PersistenceInv'
<1>1. /\ [Next]_vars /\ before = NoSnapshot
      /\ UNCHANGED <<project, cursor, before, doubt, tainted, failures>>
  BY DEF TimePasses, Next, Time, HeartbeatLapses, HealthReportLapses,
         LeaseExpires
<1>2. TypeOK' /\ (~tainted => SoundMemory')
  BY <1>1, StoreStep
<1>3. /\ disk \in RowRecord
      /\ disk.job \in [Jobs -> JobRecord]
      /\ disk.node \in [Nodes -> NodeRecord]
      /\ job \in [Jobs -> JobRecord] /\ node \in [Nodes -> NodeRecord]
  BY RowFields DEF PersistenceInv, PersistenceTypeOK, TypeOK
<1>4. /\ \A j \in Jobs \ doubt.job : disk.job[j] = job[j]
      /\ \A n \in Nodes \ doubt.node : SameNode(disk.node[n], node[n])
      /\ \A p \in Projects \ doubt.project : disk.project[p] = project[p]
  BY <1>1, SnapshotTaken
  DEF PersistenceInv, Synced, Acknowledged, PersistenceTypeOK
<1>5. /\ disk' \in RowRecord
      /\ \A j \in Jobs \ doubt.job : disk'.job[j] = job'[j]
      /\ \A n \in Nodes \ doubt.node : SameNode(disk'.node[n], node'[n])
      /\ \A p \in Projects \ doubt.project : disk'.project[p] = project'[p]
  <2>1. ASSUME NEW n \in Nodes, HeartbeatLapses(n),
               disk' = [disk EXCEPT !.node[n].stale = @ \/ disk.node[n].known]
        PROVE  <1>5!1 /\ <1>5!2 /\ <1>5!3 /\ <1>5!4
    <3> DEFINE r == disk.node[n]
               fresh == [r EXCEPT !.stale = r.stale \/ r.known]
    <3>1. fresh \in NodeRecord
      <4>1. r \in NodeRecord
        BY <1>3
      <4>2. (r.stale \/ r.known) \in BOOLEAN
        OBVIOUS
      <4>3. [r EXCEPT !.stale = TRUE] \in NodeRecord
        BY <4>1, NodeFlagTypes
      <4>4. r.stale = FALSE /\ r.known = FALSE => fresh = r
        BY <4>1 DEF NodeRecord
      <4>5. QED
        BY <4>1, <4>2, <4>3, <4>4 DEF NodeRecord
    <3>2. disk' = [disk EXCEPT !.node[n] = fresh]
      BY <2>1
    <3>3. SameNode(r, node[n]) => SameNode(fresh, node'[n])
      BY <1>3, <2>1 DEF SameNode, HeartbeatLapses, NodeRecord
    <3>4. /\ UNCHANGED <<job, project>>
          /\ \A m \in Nodes \ {n} : node'[m] = node[m]
      BY <1>3, <2>1 DEF HeartbeatLapses
    <3> HIDE DEF fresh
    <3>5. QED
      BY <1>3, <1>4, <3>1, <3>2, <3>3, <3>4, NodeAges
  <2>2. ASSUME NEW n \in Nodes, HealthReportLapses(n),
               disk' = [disk EXCEPT !.node[n].healthy = FALSE]
        PROVE  <1>5!1 /\ <1>5!2 /\ <1>5!3 /\ <1>5!4
    <3> DEFINE r == disk.node[n]
               fresh == [r EXCEPT !.healthy = FALSE]
    <3>1. fresh \in NodeRecord
      BY <1>3, NodeFlagTypes
    <3>2. disk' = [disk EXCEPT !.node[n] = fresh]
      BY <2>2
    <3>3. SameNode(r, node[n]) => SameNode(fresh, node'[n])
      BY <1>3, <2>2 DEF SameNode, HealthReportLapses, NodeRecord
    <3>4. /\ UNCHANGED <<job, project>>
          /\ \A m \in Nodes \ {n} : node'[m] = node[m]
      BY <1>3, <2>2 DEF HealthReportLapses
    <3> HIDE DEF fresh
    <3>5. QED
      BY <1>3, <1>4, <3>1, <3>2, <3>3, <3>4, NodeAges
  <2>3. ASSUME NEW j \in Jobs, LeaseExpires(j),
               disk' = [disk EXCEPT !.job[j].claim =
                          IF @ = "live" THEN "expired" ELSE @]
        PROVE  <1>5!1 /\ <1>5!2 /\ <1>5!3 /\ <1>5!4
    <3> DEFINE r == disk.job[j]
               fresh == [r EXCEPT !.claim =
                           IF r.claim = "live" THEN "expired" ELSE r.claim]
    <3>1. fresh \in JobRecord
      BY <1>3 DEF JobRecord, Claim
    <3>2. disk' = [disk EXCEPT !.job[j] = fresh]
      BY <2>3
    <3>3. r = job[j] => fresh = job'[j]
      BY <1>3, <2>3 DEF LeaseExpires
    <3>4. UNCHANGED <<node, project>> /\ \A i \in Jobs \ {j} : job'[i] = job[i]
      BY <1>3, <2>3 DEF LeaseExpires
    <3> HIDE DEF fresh
    <3>5. QED
      BY <1>3, <1>4, <3>1, <3>2, <3>3, <3>4, JobAges
  <2>4. QED
    BY <2>1, <2>2, <2>3 DEF TimePasses
<1>6. PersistenceTypeOK'
  BY <1>1, <1>2, <1>5 DEF PersistenceInv, PersistenceTypeOK
<1>7. Synced'
  <2>1. /\ Acknowledged'.job = job' /\ Acknowledged'.node = node'
        /\ Acknowledged'.project = project'
    BY <1>1 DEF Acknowledged, Rows
  <2>2. QED
    BY <1>1, <1>5, <2>1 DEF Synced
<1>8. QED
  BY <1>1, <1>2, <1>6, <1>7 DEF PersistenceInv, MutexFree

----------------------------------------------------------------------------
(* The end of a transaction, and restarts.                                 *)

(* Once the rows are written, the database agrees with the memory.         *)
LEMMA CommitSucceedsKeeps ==
  ASSUME PersistenceInv, CommitSucceeds
  PROVE  PersistenceInv'
<1>1. /\ before # NoSnapshot /\ MutexFree
      /\ disk' = Written /\ before' = NoSnapshot
      /\ doubt' = Without(doubt, Changed)
      /\ UNCHANGED <<vars, tainted, failures>>
  BY DEF CommitSucceeds, Committing
<1>2. PersistenceTypeOK /\ Synced
  BY DEF PersistenceInv
<1>3. PersistenceTypeOK'
  <2>1. TypeOK'
    BY <1>1, <1>2 DEF PersistenceTypeOK, TypeOK, vars
  <2>2. QED
    BY <1>1, <1>2, <2>1, WrittenFields, WithoutFields DEF PersistenceTypeOK
<1>4. Synced'
  <2>1. /\ Acknowledged'.job = job /\ Acknowledged'.node = node
        /\ Acknowledged'.project = project
    BY <1>1 DEF Acknowledged, Rows, vars
  <2>2. QED
    BY <1>1, <1>2, <2>1, WrittenAgrees, WithoutFields DEF Synced
<1>5. SoundMemory' <=> SoundMemory
  BY <1>1 DEF vars, SoundMemory
<1>6. QED
  BY <1>1, <1>3, <1>4, <1>5 DEF PersistenceInv, MutexFree, vars

(* The memory is the snapshot again, and the rows that the transaction may *)
(* have written are in doubt.                                              *)
LEMMA CommitFailsKeeps ==
  ASSUME PersistenceInv, CommitFails
  PROVE  PersistenceInv'
<1>1. /\ before # NoSnapshot /\ MutexFree /\ before' = NoSnapshot
      /\ failures < MaxFailures /\ failures' = failures + 1
      /\ job' = before.rows.job /\ node' = before.rows.node
      /\ project' = before.rows.project
      /\ started' = before.started /\ cancelAsked' = before.cancelAsked
      /\ runner' = before.runner
      /\ UNCHANGED <<licence, cursor, tainted>>
  BY DEF CommitFails, Committing, Failure, TakesBack, TakesRows, TakesHistory
<1>2. PersistenceTypeOK /\ Synced /\ before \in SnapshotRecord
  BY <1>1 DEF PersistenceInv, PersistenceTypeOK
<1>3. TypeOK'
  <2>1. /\ before.rows.job \in [Jobs -> JobRecord]
        /\ before.rows.node \in [Nodes -> NodeRecord]
        /\ before.rows.project \in [Projects -> ProjectRecord]
    BY <1>2, SnapshotFields, RowFields
  <2>2. QED
    BY <1>1, <1>2, <2>1, SnapshotFields DEF PersistenceTypeOK, TypeOK
<1>4. failures' \in 0..MaxFailures
  BY <1>1, <1>2, PersistenceAssumption DEF PersistenceTypeOK
<1>5. /\ disk' \in RowRecord /\ doubt' \in RowIds
      /\ \A j \in Jobs \ doubt'.job : disk'.job[j] = before.rows.job[j]
      /\ \A n \in Nodes \ doubt'.node :
           SameNode(disk'.node[n], before.rows.node[n])
      /\ \A p \in Projects \ doubt'.project :
           disk'.project[p] = before.rows.project[p]
  <2>1. Acknowledged = before.rows
    BY <1>1 DEF Acknowledged
  <2>2. CASE UNCHANGED <<disk, doubt>>
    BY <1>2, <2>1, <2>2 DEF PersistenceTypeOK, Synced
  <2>3. CASE /\ disk' = Written
             /\ doubt' = [t \in DOMAIN doubt |-> doubt[t] \cup Changed[t]]
    <3>1. doubt' = [job |-> doubt.job \cup Changed.job,
                    node |-> doubt.node \cup Changed.node,
                    project |-> doubt.project \cup Changed.project]
      BY <1>2, <2>3, DoubtFields
    <3>2. doubt' \in RowIds
      BY <1>2, <3>1, DoubtFields, ChangedFields DEF RowIds
    <3>3. /\ doubt'.job = doubt.job \cup Changed.job
          /\ doubt'.node = doubt.node \cup Changed.node
          /\ doubt'.project = doubt.project \cup Changed.project
      BY <3>1
    <3>4. QED
      BY <1>2, <2>1, <2>3, <3>2, <3>3, WrittenFields DEF Synced
  <2>4. QED
    BY <2>2, <2>3 DEF CommitFails
<1>6. PersistenceTypeOK'
  BY <1>1, <1>2, <1>3, <1>4, <1>5 DEF PersistenceTypeOK
<1>7. Synced'
  <2>1. /\ Acknowledged'.job = before.rows.job
        /\ Acknowledged'.node = before.rows.node
        /\ Acknowledged'.project = before.rows.project
    BY <1>1 DEF Acknowledged, Rows
  <2>2. QED
    BY <1>5, <2>1 DEF Synced
<1>8. ~tainted => SoundMemory'
  BY <1>1 DEF PersistenceInv, SoundSnapshot, SoundMemory
<1>9. QED
  BY <1>1, <1>6, <1>7, <1>8 DEF PersistenceInv, MutexFree

(* A restart that loads these rows leaves the database and the memory in   *)
(* agreement; and if the rows are those of a sound memory, a sound memory. *)
LEMMA LoadedRows ==
  ASSUME NEW rows \in RowRecord, Loads(rows)
  PROVE  /\ job' = rows.job /\ project' = rows.project
         /\ node' = [n \in Nodes |-> Refreshed(rows.node, rows.job, n)[n]]
         /\ job' \in [Jobs -> JobRecord]
         /\ node' \in [Nodes -> NodeRecord]
         /\ project' \in [Projects -> ProjectRecord]
         /\ \A n \in Nodes : SameNode(rows.node[n], node'[n])
<1> DEFINE nodes == [n \in Nodes |-> Refreshed(rows.node, rows.job, n)[n]]
<1>1. /\ rows.job \in [Jobs -> JobRecord]
      /\ rows.node \in [Nodes -> NodeRecord]
      /\ rows.project \in [Projects -> ProjectRecord]
  BY RowFields
<1>2. job' = rows.job /\ project' = rows.project /\ node' = nodes
  BY DEF Loads, TakesRows, RowRecord
<1>3. ASSUME NEW n \in Nodes
      PROVE  nodes[n] \in NodeRecord /\ SameNode(rows.node[n], nodes[n])
  <2>1. nodes[n] = Refreshed(rows.node, rows.job, n)[n]
    OBVIOUS
  <2>2. nodes[n] = [rows.node[n] EXCEPT
                      !.busy = rows.node[n].known /\ ActiveOn(rows.job, n) # {}]
    BY <1>1, <2>1 DEF Refreshed
  <2>3. nodes[n] \in NodeRecord
    BY <1>1, <2>1, RefreshedType
  <2>4. rows.node[n] \in NodeRecord
    BY <1>1
  <2> HIDE DEF nodes
  <2>5. QED
    BY <2>2, <2>3, <2>4 DEF SameNode, NodeRecord
<1>4. nodes \in [Nodes -> NodeRecord]
  BY <1>3
<1>5. QED
  BY <1>1, <1>2, <1>3, <1>4

LEMMA LoadedSound ==
  ASSUME NEW rows \in RowRecord, Loads(rows),
         NEW jobs \in [Jobs -> JobRecord],
         NEW nodes \in [Nodes -> NodeRecord],
         SoundIn(jobs, nodes, started', cancelAsked', runner'),
         \A j \in Jobs : rows.job[j] = jobs[j],
         \A n \in Nodes : SameNode(rows.node[n], nodes[n])
  PROVE  SoundMemory'
<1>1. rows.job = jobs
  BY RowFields
<1>2. SoundIn(jobs, node', started', cancelAsked', runner')
  BY <1>1, LoadedRows, RowFields, ReloadedSound
<1>3. QED
  BY <1>1, <1>2, LoadedRows DEF SoundMemory

LEMMA RestartKeeps ==
  ASSUME PersistenceInv, Restart
  PROVE  PersistenceInv'
<1>1. /\ failures < MaxFailures /\ failures' = failures + 1
      /\ before' = NoSnapshot /\ doubt' = NoRow /\ cursor' = 0
      /\ UNCHANGED licence
  BY DEF Restart, Failure
<1>2. PersistenceTypeOK /\ Synced /\ TypeOK
      /\ disk \in RowRecord /\ Written \in RowRecord
  BY WrittenFields DEF PersistenceInv, PersistenceTypeOK
<1>3. failures' \in 0..MaxFailures
  BY <1>1, <1>2, PersistenceAssumption DEF PersistenceTypeOK
<1>4. NoRow \in RowIds /\ NoRow.job = {} /\ NoRow.node = {}
      /\ NoRow.project = {}
  BY DEF NoRow, RowIds
<1>5. ASSUME NEW rows \in RowRecord, Loads(rows), disk' = rows,
             started' \in [Jobs -> Nat], cancelAsked' \in [Jobs -> BOOLEAN],
             runner' \in [Jobs -> Sessions \cup {NoSession}],
             tainted' \in BOOLEAN, ~tainted' => SoundMemory'
      PROVE  PersistenceInv'
  <2>1. TypeOK'
    <3>1. cursor' \in 0..NumJobs + 1
      BY <1>1, SizesAssumption
    <3>2. QED
      BY <1>1, <1>2, <1>5, <3>1, LoadedRows DEF TypeOK
  <2>2. PersistenceTypeOK'
    BY <1>1, <1>3, <1>4, <1>5, <2>1 DEF PersistenceTypeOK
  <2>3. /\ Acknowledged'.job = job' /\ Acknowledged'.node = node'
        /\ Acknowledged'.project = project'
    BY <1>1 DEF Acknowledged, Rows
  <2>4. Synced'
    BY <1>5, <2>3, LoadedRows DEF Synced
  <2>5. QED
    BY <1>1, <1>5, <2>2, <2>4 DEF PersistenceInv, MutexFree
<1>6. CASE /\ before = NoSnapshot
           /\ Loads(disk)
           /\ UNCHANGED <<disk, history>>
           /\ tainted' = (tainted \/ doubt # NoRow)
  <2>1. UNCHANGED <<started, cancelAsked, runner>>
    BY <1>6 DEF history
  <2>2. ASSUME ~tainted'
        PROVE  SoundMemory'
    <3>1. ~tainted /\ doubt = NoRow
      BY <1>6, <2>2
    <3>2. SoundMemory
      BY <3>1 DEF PersistenceInv
    <3>3. Acknowledged.job = job /\ Acknowledged.node = node
      BY <1>2, <1>6, SnapshotTaken DEF Acknowledged
    <3>4. /\ \A j \in Jobs : disk.job[j] = job[j]
          /\ \A n \in Nodes : SameNode(disk.node[n], node[n])
      BY <1>2, <1>4, <3>1, <3>3 DEF Synced
    <3>5. SoundIn(job, node, started', cancelAsked', runner')
      BY <2>1, <3>2 DEF SoundMemory
    <3>6. job \in [Jobs -> JobRecord] /\ node \in [Nodes -> NodeRecord]
      BY <1>2 DEF TypeOK
    <3>7. QED
      BY <1>2, <1>6, <3>4, <3>5, <3>6, LoadedSound
  <2>3. /\ started' \in [Jobs -> Nat] /\ cancelAsked' \in [Jobs -> BOOLEAN]
        /\ runner' \in [Jobs -> Sessions \cup {NoSession}]
    BY <1>2, <2>1 DEF TypeOK
  <2>4. QED
    BY <1>2, <1>5, <1>6, <2>2, <2>3
<1>7. CASE /\ before # NoSnapshot
           /\ Loads(disk)
           /\ UNCHANGED disk
           /\ TakesHistory(before)
           /\ tainted' = (tainted \/ doubt # NoRow)
  <2>1. /\ started' = before.started /\ cancelAsked' = before.cancelAsked
        /\ runner' = before.runner
    BY <1>7 DEF TakesHistory
  <2>2. before \in SnapshotRecord
    BY <1>2, <1>7 DEF PersistenceTypeOK
  <2>3. ASSUME ~tainted'
        PROVE  SoundMemory'
    <3>1. ~tainted /\ doubt = NoRow
      BY <1>7, <2>3
    <3>2. SoundSnapshot
      BY <1>7, <3>1 DEF PersistenceInv
    <3>3. Acknowledged = before.rows
      BY <1>7 DEF Acknowledged
    <3>4. /\ \A j \in Jobs : disk.job[j] = before.rows.job[j]
          /\ \A n \in Nodes : SameNode(disk.node[n], before.rows.node[n])
      BY <1>2, <1>4, <3>1, <3>3 DEF Synced
    <3>5. SoundIn(before.rows.job, before.rows.node, started', cancelAsked',
                  runner')
      BY <2>1, <3>2 DEF SoundSnapshot
    <3>6. /\ before.rows.job \in [Jobs -> JobRecord]
          /\ before.rows.node \in [Nodes -> NodeRecord]
      BY <2>2, SnapshotFields, RowFields
    <3>7. QED
      BY <1>2, <1>7, <3>4, <3>5, <3>6, LoadedSound
  <2>4. /\ started' \in [Jobs -> Nat] /\ cancelAsked' \in [Jobs -> BOOLEAN]
        /\ runner' \in [Jobs -> Sessions \cup {NoSession}]
    BY <2>1, <2>2, SnapshotFields
  <2>5. QED
    BY <1>2, <1>5, <1>7, <2>3, <2>4
<1>8. CASE /\ Committing
           /\ disk' = Written
           /\ Loads(Written)
           /\ UNCHANGED history
           /\ tainted' = (tainted \/ Without(doubt, Changed) # NoRow)
  <2>1. UNCHANGED <<started, cancelAsked, runner>> /\ before # NoSnapshot
    BY <1>8 DEF history, Committing
  <2>2. ASSUME ~tainted'
        PROVE  SoundMemory'
    <3>1. ~tainted /\ Without(doubt, Changed) = NoRow
      BY <1>8, <2>2
    <3>2. SoundMemory
      BY <3>1 DEF PersistenceInv
    <3>3. doubt.job \ Changed.job = {} /\ doubt.node \ Changed.node = {}
      BY <1>2, <1>4, <3>1, WithoutFields
    <3>4. /\ \A j \in Jobs : Written.job[j] = job[j]
          /\ \A n \in Nodes : SameNode(Written.node[n], node[n])
      BY <1>2, <2>1, <3>3, WrittenAgrees
    <3>5. SoundIn(job, node, started', cancelAsked', runner')
      BY <2>1, <3>2 DEF SoundMemory
    <3>6. job \in [Jobs -> JobRecord] /\ node \in [Nodes -> NodeRecord]
      BY <1>2 DEF TypeOK
    <3>7. QED
      BY <1>2, <1>8, <3>4, <3>5, <3>6, LoadedSound
  <2>3. /\ started' \in [Jobs -> Nat] /\ cancelAsked' \in [Jobs -> BOOLEAN]
        /\ runner' \in [Jobs -> Sessions \cup {NoSession}]
    BY <1>2, <2>1 DEF TypeOK
  <2>4. QED
    BY <1>2, <1>5, <1>8, <2>2, <2>3
<1>9. QED
  BY <1>6, <1>7, <1>8 DEF Restart

----------------------------------------------------------------------------
(* The invariant, and the properties it gives.                             *)

LEMMA PersistentInitInv == PersistentInit => PersistenceInv
<1> SUFFICES ASSUME PersistentInit PROVE PersistenceInv
  OBVIOUS
<1>1. /\ Init /\ disk = Rows /\ before = NoSnapshot /\ doubt = NoRow
      /\ tainted = FALSE /\ failures = 0
  BY DEF PersistentInit
<1>2. TypeOK
  BY <1>1, InitType
<1>3. NoRow \in RowIds
  BY DEF NoRow, RowIds
<1>4. PersistenceTypeOK
  <2>1. disk \in RowRecord /\ failures \in 0..MaxFailures
    BY <1>1, <1>2, SnapshotTaken, PersistenceAssumption
  <2>2. tainted \in BOOLEAN
    BY <1>1, Zenon
  <2>3. QED
    BY <1>1, <1>2, <1>3, <2>1, <2>2 DEF PersistenceTypeOK
<1>5. Synced
  <2>1. Acknowledged = Rows /\ disk = Rows
    BY <1>1 DEF Acknowledged
  <2>2. \A n \in Nodes : SameNode(Rows.node[n], Rows.node[n])
    BY <1>2, SnapshotTaken, RowFields DEF SameNode, NodeRecord
  <2>3. QED
    BY <2>1, <2>2 DEF Synced
<1>6. SoundMemory
  <2>1. ExclusiveUse
    BY <1>1 DEF Init, AbsentJob, ActiveOn, ActiveStatus, ExclusiveUse
  <2>2. QED
    BY <1>1, <2>1, SoundNow, InitOwned, InitLife
<1>7. QED
  BY <1>1, <1>4, <1>5, <1>6 DEF PersistenceInv, MutexFree, Init

LEMMA PersistentNextKeeps ==
  ASSUME PersistenceInv, [PersistentNext]_persistentVars
  PROVE  PersistenceInv'
<1>1. CASE UNCHANGED persistentVars
  BY <1>1
  DEF persistentVars, vars, storage, PersistenceInv, PersistenceTypeOK, TypeOK,
      MutexFree, Synced, Acknowledged, Rows, SoundMemory, SoundSnapshot
<1>2. QED
  BY <1>1, OperateKeeps, GoOnSchedulingKeeps, ReplaceLicenceKeeps,
     TimePassesKeeps, CommitSucceedsKeeps, CommitFailsKeeps, RestartKeeps
  DEF PersistentNext

(* The database agrees with what was acknowledged, and the memory and the  *)
(* snapshot are sound, after every operation, failure and restart.         *)
THEOREM PersistenceInvariant == PersistentSpec => []PersistenceInv
<1>1. PersistentInit => PersistenceInv
  BY PersistentInitInv
<1>2. PersistenceInv /\ [PersistentNext]_persistentVars => PersistenceInv'
  BY PersistentNextKeeps
<1>3. QED
  BY <1>1, <1>2, PTL DEF PersistentSpec

(* The memory, the rows of the database and the snapshot that an operation *)
(* takes have the records of internal/model/types.go, whatever fails.      *)
THEOREM PersistenceTyped == PersistentSpec => []PersistenceTypeOK
<1>1. PersistenceInv => PersistenceTypeOK
  BY DEF PersistenceInv
<1>2. QED
  BY <1>1, PersistenceInvariant, PTL

(* What an operation has acknowledged, saveMySQLChangesLocked has stored   *)
(* (internal/store/store.go 274-333): between operations the database has  *)
(* the rows of the memory, apart from those that a transaction whose       *)
(* commit failed may have written and none has written since.              *)
THEOREM AcknowledgedIsStoredHolds ==
  PersistentSpec => []AcknowledgedIsStored
<1>1. ASSUME PersistenceInv
      PROVE  AcknowledgedIsStored
  <2> SUFFICES ASSUME before = NoSnapshot
               PROVE  /\ \A j \in Jobs \ doubt.job : disk.job[j] = job[j]
                      /\ \A n \in Nodes \ doubt.node :
                           SameNode(disk.node[n], node[n])
                      /\ \A p \in Projects \ doubt.project :
                           disk.project[p] = project[p]
    BY DEF AcknowledgedIsStored, SameNode
  <2>1. Acknowledged = Rows
    BY DEF Acknowledged
  <2>2. QED
    BY <1>1, <2>1, SnapshotTaken DEF PersistenceInv, PersistenceTypeOK, Synced
<1>2. QED
  BY <1>1, PersistenceInvariant, PTL

(* A failed transaction puts a sound snapshot back and a restart loads     *)
(* sound rows (internal/store/mysql_state.go, loadMySQL): ownership,       *)
(* exclusive use, cached usage, budget and cancellations agree whenever no *)
(* operation is under way, unless a restart has loaded rows in doubt.      *)
THEOREM SoundAfterFailuresHolds ==
  PersistentSpec => []SoundAfterFailures
<1>1. ASSUME PersistenceInv
      PROVE  SoundAfterFailures
  <2> SUFFICES ASSUME ~tainted
               PROVE  /\ OwnedOrFenced /\ ExclusiveUse /\ UsageCoherent
                      /\ HeldByRunner /\ AttemptBudget /\ CancelHonoured
    BY DEF SoundAfterFailures
  <2>1. /\ OwnedOrFenced /\ UsageCoherent /\ ExclusiveUse
        /\ \A j \in Jobs : JobInv(j)
    BY <1>1, SoundNow DEF PersistenceInv
  <2>2. HeldByRunner /\ AttemptBudget /\ CancelHonoured
    BY <2>1 DEF JobInv, BudgetInv, CancelInv, HeldInv, HeldByRunner,
                AttemptBudget, CancelHonoured
  <2>3. QED
    BY <2>1, <2>2
<1>2. QED
  BY <1>1, PersistenceInvariant, PTL
=============================================================================
