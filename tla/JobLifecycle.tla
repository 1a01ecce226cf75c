---------------------------- MODULE JobLifecycle ----------------------------
(***************************************************************************)
(* What the control plane promises about the life of each job, without     *)
(* nodes, sessions, tokens, queues or projects.  The statuses are those of *)
(* internal/model/types.go.  JobStore implements this specification.       *)
(*                                                                         *)
(* A run is an accepted start of the job's container.  The worker that     *)
(* started a run owns it until it reports or another session takes over.   *)
(***************************************************************************)
EXTENDS Naturals

CONSTANTS Jobs, MaxRetries

VARIABLE life

Status == {"absent", "queued", "assigned", "running", "canceling",
           "succeeded", "failed", "canceled", "deleting", "removed"}

LifeRecord(j) == [status : Status, runs : 0..MaxRetries[j] + 1,
                  owned : BOOLEAN, canceled : BOOLEAN]

Unborn == [status |-> "absent", runs |-> 0, owned |-> FALSE, canceled |-> FALSE]

Moves(j, from, to) ==
  /\ life[j].status \in from
  /\ life'[j].status \in to

Keeps(j) ==
  /\ life'[j].runs = life[j].runs
  /\ life'[j].canceled = life[j].canceled

Disowned(j) == ~life'[j].owned

(* Runs are limited by the retry budget; only a job with budget waits.     *)
CanRun(j) == life[j].runs <= MaxRetries[j]

Submit(j) == Moves(j, {"absent"}, {"queued"}) /\ Keeps(j) /\ Disowned(j)

Place(j) ==
  Moves(j, {"queued"}, {"assigned"}) /\ CanRun(j) /\ Keeps(j) /\ Disowned(j)

(* Placed work that was not started goes back, or finds the queue full.    *)
Return(j) ==
  Moves(j, {"assigned"}, {"queued", "failed"}) /\ Keeps(j) /\ Disowned(j)

Begin(j) ==
  /\ Moves(j, {"assigned"}, {"running"})
  /\ CanRun(j)
  /\ life'[j].runs = life[j].runs + 1
  /\ life'[j].owned
  /\ life'[j].canceled = life[j].canceled

(* A user's cancellation is final for work that is not running, and a      *)
(* request to stop for work that is.                                       *)
Cancel(j) ==
  /\ \/ Moves(j, {"queued", "assigned"}, {"canceled"}) /\ Disowned(j)
     \/ /\ Moves(j, {"running", "canceling"}, {"canceling"})
        /\ life'[j].owned = life[j].owned
  /\ life'[j].canceled
  /\ life'[j].runs = life[j].runs

(* Another session takes the run away from its owner.                      *)
TakeOver(j) ==
  Moves(j, {"running", "canceling"}, {"canceling"}) /\ Keeps(j) /\ Disowned(j)

Complete(j) ==
  /\ Moves(j, {"running"}, {"succeeded", "failed", "queued"})
  /\ life'[j].status = "queued" => CanRun(j)
  /\ Keeps(j)
  /\ Disowned(j)

(* A stopped run was canceled by its user, or interrupted and then retried *)
(* while there is budget.                                                  *)
CleanUp(j) ==
  /\ \/ life[j].canceled /\ Moves(j, {"canceling"}, {"canceled"})
     \/ ~life[j].canceled /\ Moves(j, {"canceling"}, {"failed"})
     \/ ~life[j].canceled /\ Moves(j, {"canceling"}, {"queued"}) /\ CanRun(j)
  /\ Keeps(j)
  /\ Disowned(j)

Delete(j) ==
  /\ Moves(j, {"succeeded", "failed", "canceled", "deleting"},
              {"deleting", "removed"})
  /\ Keeps(j)
  /\ Disowned(j)

JobMoves(j) ==
  \/ Submit(j) \/ Place(j) \/ Return(j) \/ Begin(j) \/ Cancel(j)
  \/ TakeOver(j) \/ Complete(j) \/ CleanUp(j) \/ Delete(j)

Init == life = [j \in Jobs |-> Unborn]

(* One step of the store may move several jobs.                            *)
Next == \A j \in Jobs : JobMoves(j) \/ life'[j] = life[j]

Spec == Init /\ [][Next]_life
=============================================================================
