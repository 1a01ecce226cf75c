----------------------------- MODULE Persistence -----------------------------
(***************************************************************************)
(* The store of JobStore in front of its database (internal/store/store.go *)
(* 274-333, internal/store/mysql_state.go).  An operation takes a snapshot,*)
(* changes the memory and writes what differs in one transaction, all      *)
(* under the mutex.  A failed transaction puts the snapshot back, although *)
(* the database may have committed it; a restart reloads every row.        *)
(*                                                                         *)
(* Rows hold times, not the flags that age: time passes for both copies.   *)
(***************************************************************************)
EXTENDS JobStore

CONSTANTS
  NoSnapshot,
  MaxFailures   (* bound: failed transactions and restarts                 *)

RowRecord == [job : [Jobs -> JobRecord], node : [Nodes -> NodeRecord],
              project : [Projects -> ProjectRecord]]

SnapshotRecord == [rows : RowRecord, started : [Jobs -> Nat],
                   cancelAsked : [Jobs -> BOOLEAN],
                   runner : [Jobs -> Sessions \cup {NoSession}]]

ASSUME PersistenceAssumption ==
  /\ NoSnapshot \notin SnapshotRecord
  /\ MaxFailures \in Nat

VARIABLES
  disk,       (* the rows of the database                                  *)
  before,     (* the snapshot of the operation under way                   *)
  doubt,      (* history: rows a failed transaction may have written, and  *)
              (* none has written since                                    *)
  tainted,    (* history: rows in doubt were loaded by a restart           *)
  failures    (* how many transactions failed and restarts occurred        *)

storage == <<disk, before, doubt, tainted, failures>>

persistentVars == <<vars, storage>>

Rows == [job |-> job, node |-> node, project |-> project]

(* What an operation that fails takes back, the history it made included.  *)
Snapshot == [rows |-> Rows, started |-> started, cancelAsked |-> cancelAsked,
             runner |-> runner]

RowIds == [job : SUBSET Jobs, node : SUBSET Nodes, project : SUBSET Projects]

NoRow == [job |-> {}, node |-> {}, project |-> {}]

TakesRows(rows) ==
  /\ job' = rows.job
  /\ node' = rows.node
  /\ project' = rows.project

TakesHistory(snapshot) ==
  /\ started' = snapshot.started
  /\ cancelAsked' = snapshot.cancelAsked
  /\ runner' = snapshot.runner

Committing == before # NoSnapshot /\ MutexFree

Failure == failures < MaxFailures /\ failures' = failures + 1

----------------------------------------------------------------------------
(* Operations.                                                             *)

Operation ==
  \/ \E p \in Projects, q \in Quotas, active \in BOOLEAN :
       CreateProject(p, q, active) \/ UpdateProject(p, q, active)
  \/ \E n \in Nodes, enabled \in BOOLEAN : SetNodeMaintenance(n, enabled)
  \/ \E n \in Nodes : DeleteNode(n)
  \/ UserOperation
  \/ AgentNodeOperation
  \/ AgentJobOperation

(* Mistake: the pass takes its snapshot after it has fenced the nodes that *)
(* are offline.                                                            *)
FaultyOperate ==
  /\ before = NoSnapshot
  /\ Operation \/ Schedule
  /\ before' = IF cursor' = 0 THEN Snapshot ELSE
                 [Snapshot EXCEPT !.rows.node = node']
  /\ UNCHANGED <<disk, doubt, tainted, failures>>

Operate ==
  /\ before = NoSnapshot
  /\ Operation \/ Schedule
  /\ before' = Snapshot
  /\ UNCHANGED <<disk, doubt, tainted, failures>>

(* The pass goes on under the snapshot it began with.                      *)
GoOnScheduling ==
  /\ \/ \E j \in Jobs, n \in Nodes : ScheduleAssign(j, n)
     \/ ScheduleEnd
  /\ UNCHANGED storage

(* The licence is no row: it is verified again at every start.             *)
ReplaceLicence ==
  /\ before = NoSnapshot
  /\ \E l \in Licences : SetLicence(l)
  /\ UNCHANGED storage

(* What has aged in memory has aged in the database.                       *)
TimePasses ==
  /\ before = NoSnapshot
  /\ \/ \E n \in Nodes :
          \/ /\ HeartbeatLapses(n)
             /\ disk' = [disk EXCEPT !.node[n].stale = @ \/ disk.node[n].known]
          \/ /\ HealthReportLapses(n)
             /\ disk' = [disk EXCEPT !.node[n].healthy = FALSE]
     \/ \E j \in Jobs :
          /\ LeaseExpires(j)
          /\ disk' = [disk EXCEPT !.job[j].claim =
                        IF @ = "live" THEN "expired" ELSE @]
  /\ UNCHANGED <<before, doubt, tainted, failures>>

----------------------------------------------------------------------------
(* The transaction.                                                        *)

(* saveMySQLChangesLocked writes the rows that differ from the snapshot.   *)
Changed ==
  [job     |-> {j \in Jobs : job[j] # before.rows.job[j]},
   node    |-> {n \in Nodes : node[n] # before.rows.node[n]},
   project |-> {p \in Projects : project[p] # before.rows.project[p]}]

Written ==
  [job     |-> [j \in Jobs |-> IF j \in Changed.job THEN job[j] ELSE disk.job[j]],
   node    |-> [n \in Nodes |-> IF n \in Changed.node THEN node[n]
                                                      ELSE disk.node[n]],
   project |-> [p \in Projects |-> IF p \in Changed.project THEN project[p]
                                                    ELSE disk.project[p]]]

Without(rows, gone) == [t \in DOMAIN rows |-> rows[t] \ gone[t]]

CommitSucceeds ==
  /\ Committing
  /\ disk' = Written
  /\ before' = NoSnapshot
  /\ doubt' = Without(doubt, Changed)
  /\ UNCHANGED <<vars, tainted, failures>>

(* Mistake: the nodes of the snapshot are the live ones, not copies.       *)
FaultyTakesBack ==
  /\ job' = before.rows.job
  /\ project' = before.rows.project
  /\ TakesHistory(before)
  /\ UNCHANGED node

TakesBack ==
  /\ TakesRows(before.rows)
  /\ TakesHistory(before)

(* The caller is told of a failure and the memory is what it was.  When    *)
(* the failure came with the answer to the commit, the rows are written.   *)
CommitFails ==
  /\ Committing
  /\ Failure
  /\ TakesBack
  /\ before' = NoSnapshot
  /\ \/ UNCHANGED <<disk, doubt>>
     \/ /\ disk' = Written
        /\ doubt' = [t \in DOMAIN doubt |-> doubt[t] \cup Changed[t]]
  /\ UNCHANGED <<licence, cursor, tainted>>

(* loadMySQL takes every row as it is; only the cached usage is recomputed.*)
Loads(rows) ==
  TakesRows([rows EXCEPT !.node =
    [n \in Nodes |-> Refreshed(rows.node, rows.job, n)[n]]])

(* The process is replaced between two operations, or during one, whose    *)
(* transaction is then committed or not.                                   *)
Restart ==
  /\ Failure
  /\ \/ /\ before = NoSnapshot
        /\ Loads(disk)
        /\ UNCHANGED <<disk, history>>
        /\ tainted' = (tainted \/ doubt # NoRow)
     \/ /\ before # NoSnapshot
        /\ Loads(disk)
        /\ UNCHANGED disk
        /\ TakesHistory(before)
        /\ tainted' = (tainted \/ doubt # NoRow)
     \/ /\ Committing
        /\ disk' = Written
        /\ Loads(Written)
        /\ UNCHANGED history
        /\ tainted' = (tainted \/ Without(doubt, Changed) # NoRow)
  /\ before' = NoSnapshot
  /\ doubt' = NoRow
  /\ cursor' = 0
  /\ UNCHANGED licence

PersistentInit ==
  /\ Init
  /\ disk = Rows
  /\ before = NoSnapshot
  /\ doubt = NoRow
  /\ tainted = FALSE
  /\ failures = 0

PersistentNext ==
  \/ Operate
  \/ GoOnScheduling
  \/ ReplaceLicence
  \/ TimePasses
  \/ CommitSucceeds
  \/ CommitFails
  \/ Restart

PersistentSpec == PersistentInit /\ [][PersistentNext]_persistentVars

----------------------------------------------------------------------------
(* Properties.                                                             *)

PersistenceTypeOK ==
  /\ TypeOK
  /\ disk \in RowRecord
  /\ before \in SnapshotRecord \cup {NoSnapshot}
  /\ doubt \in RowIds
  /\ tainted \in BOOLEAN
  /\ failures \in 0..MaxFailures

(* Whenever no operation is under way, a restart would find what the       *)
(* clients were told: only rows that a failed transaction may have written *)
(* can differ, until they are written again (README.md:434).               *)
AcknowledgedIsStored ==
  before = NoSnapshot =>
    /\ \A j \in Jobs \ doubt.job : disk.job[j] = job[j]
    /\ \A n \in Nodes \ doubt.node :
         [disk.node[n] EXCEPT !.busy = node[n].busy] = node[n]
    /\ \A p \in Projects \ doubt.project : disk.project[p] = project[p]

(* Failed transactions and restarts leave the store as sound as it was, as *)
(* long as no restart loads rows in doubt: ownership, exclusive use, the   *)
(* budget, cancellations and the cached usage agree again at once.         *)
SoundAfterFailures ==
  before = NoSnapshot /\ ~tainted =>
    /\ OwnedOrFenced
    /\ ExclusiveUse
    /\ UsageCoherent
    /\ HeldByRunner
    /\ AttemptBudget
    /\ CancelHonoured

(* One job runs on a node at a time (README.md:32).                        *)
RunsAlone ==
  \A i, j \in Jobs :
    /\ i # j
    /\ job[i].status = "running"
    /\ job[j].status = "running"
    => job[i].node # job[j].node
=============================================================================
