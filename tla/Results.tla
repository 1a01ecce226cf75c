------------------------------- MODULE Results -------------------------------
(***************************************************************************)
(* How the results of a job's runs reach its users: the agent's delivery   *)
(* (internal/agent/result_delivery.go), the upload handler and the         *)
(* deletion of the control plane (internal/api/server.go), the published   *)
(* references (internal/store/artifacts.go) and the objects of the         *)
(* artifact store (internal/artifact/store.go).                            *)
(*                                                                         *)
(* One job is enough: versions, references and workspaces of different     *)
(* jobs never meet.  Its life is JobLifecycle's, which the store was shown *)
(* to implement, so that whatever the store may do to the job between two  *)
(* steps of a delivery can happen here.                                    *)
(***************************************************************************)
EXTENDS JobLifecycle, FiniteSets

CONSTANTS
  Job,          (* the job                                                 *)
  Uploads,      (* the upload requests, each with a storage id of its own  *)
  NoUpload,
  Bundles,      (* the runs that produce files besides the log             *)
  MaxFaults     (* bound: restarts of the control plane and failures of    *)
                (* the object store and the database                       *)

ASSUME ResultsAssumption ==
  /\ Jobs = {Job}
  /\ MaxRetries \in [Jobs -> Nat]
  /\ NoUpload \notin Uploads
  /\ MaxFaults \in Nat

VARIABLES
  attempts,   (* the job's attempt number                                  *)
  ref,        (* the published reference to each file, in memory           *)
  stored,     (* the references as the database has them                   *)
  upload,     (* the upload handlers of the control plane                  *)
  objects,    (* the object store                                          *)
  lost,       (* history: objects whose discard failed once deletion began *)
  deletion,   (* the deletion handler                                      *)
  run,        (* the agents' side of each run                              *)
  faults      (* how many faults occurred                                  *)

server == <<upload, objects, lost, deletion, ref, stored>>
vars   == <<life, attempts, server, run, faults>>

Runs == 1..MaxRetries[Job] + 1

File == {"log", "bundle"}

NoReference == [upload |-> NoUpload, attempt |-> 0]

Reference == [upload : Uploads \cup {NoUpload}, attempt : Runs \cup {0}]

(* A handler answers when it has published or failed, then discards what   *)
(* it staged.                                                              *)
UploadStep == {"none", "staging", "checked", "committed", "discarding",
               "over"}

UploadRecord == [step : UploadStep, run : Runs \cup {0}, file : File]

NoHandler == [step |-> "none", run |-> 0, file |-> "log"]

Objects == Uploads \X {"staged", "version"}

DeletionRecord == [step : {"none", "removing", "finishing"}, cleans : BOOLEAN,
                   todo : SUBSET Objects]

NoDeletion == [step |-> "none", cleans |-> FALSE, todo |-> {}]

(* Where a worker is in tick, finishResult, failResultDelivery and         *)
(* updateJobStatusUntilAccepted.                                           *)
At == {"none", "executing", "sending", "awaiting", "failing", "reporting",
       "rereading", "confirming", "gone"}

(* How execute ended; unlogged: before it created the log file.            *)
Exit == {"none", "unstarted", "unlogged", "error", "ok"}

RunRecord ==
  [at : At, exit : Exit, file : File, awaits : Uploads \cup {NoUpload},
   verdict : {"none", "succeeded", "failed", "canceled"},
   post : {"none", "succeeded", "failed", "canceled"}, retryable : BOOLEAN,
   delivered : BOOLEAN, workspace : {"none", "kept", "removed"}]

NoRun == [at |-> "none", exit |-> "none", file |-> "log",
          awaits |-> NoUpload, verdict |-> "none", post |-> "none",
          retryable |-> TRUE, delivered |-> FALSE, workspace |-> "none"]

TypeOK ==
  /\ life \in [Jobs -> LifeRecord(Job)]
  /\ attempts \in Runs \cup {0}
  /\ ref \in [File -> Reference] /\ stored \in [File -> Reference]
  /\ upload \in [Uploads -> UploadRecord]
  /\ objects \subseteq Objects /\ lost \subseteq Objects
  /\ deletion \in DeletionRecord
  /\ run \in [Runs -> RunRecord]
  /\ faults \in 0..MaxFaults

ResultsInit ==
  /\ Init
  /\ attempts = 0
  /\ ref = [f \in File |-> NoReference] /\ stored = ref
  /\ upload = [u \in Uploads |-> NoHandler]
  /\ objects = {} /\ lost = {}
  /\ deletion = NoDeletion
  /\ run = [r \in Runs |-> NoRun]
  /\ faults = 0

status == life[Job].status

(* A write of the job writes all of its row, the references included.      *)
Goes(st, owned) ==
  /\ life' = [life EXCEPT ![Job].status = st, ![Job].owned = owned]
  /\ stored' = ref

Fault == faults < MaxFaults /\ faults' = faults + 1

(* The worker of run r holds the attempt: its token is the job's.          *)
Owner(r) == life[Job].owned /\ life[Job].runs = r

(* validateJobAttemptLocked.                                               *)
ValidAttempt(r) == Owner(r) /\ status \in {"running", "canceling"}

----------------------------------------------------------------------------
(* The rest of the control plane: the life of the job.                     *)

(* A session is taken over when its own lease is over, so that its workers *)
(* have stopped (SessionLease); what they sent may still be under way.     *)
Stopped(r) == r \in Runs /\ run[r].at = "gone"

Unowned == <<upload, objects, lost, deletion, ref, run, faults>>

Advance ==
  /\ \E st \in Status : Goes(st, FALSE)
  /\ \/ Submit(Job) /\ attempts' = attempts
     \/ Place(Job) /\ attempts' = attempts + 1
     \/ Return(Job) /\ attempts' = attempts - 1
     \/ Stopped(life[Job].runs) /\ TakeOver(Job) /\ attempts' = attempts
     \/ ~life[Job].owned /\ CleanUp(Job) /\ attempts' = attempts
  /\ UNCHANGED Unowned

RequestCancel ==
  /\ \E st \in {"canceled", "canceling"} :
       life' = [life EXCEPT ![Job].status = st, ![Job].canceled = TRUE]
  /\ Cancel(Job)
  /\ stored' = ref
  /\ UNCHANGED <<attempts, Unowned>>

----------------------------------------------------------------------------
(* The agent.                                                              *)

(* Of a run that is over only its workspace and verdict matter.            *)
Gone(r, workspace) ==
  [NoRun EXCEPT !.at = "gone", !.workspace = workspace,
                !.verdict = IF workspace = "removed" THEN run[r].verdict ELSE @]

Leaves(r) == run' = [run EXCEPT ![r] = Gone(r, run[r].workspace)]

Step(r, to) ==
  run' = [run EXCEPT ![r] = IF to = "gone" THEN Gone(r, @.workspace)
                                           ELSE [@ EXCEPT !.at = to]]

(* The control plane accepts RUNNING.  Without a workspace the run is      *)
(* reported failed before anything was executed.                           *)
BeginRun ==
  LET r == life[Job].runs + 1
  IN  /\ life' = [life EXCEPT ![Job].status = "running", ![Job].runs = r,
                              ![Job].owned = TRUE]
      /\ Begin(Job)
      /\ stored' = ref
      /\ \/ run' = [run EXCEPT ![r].at = "executing", ![r].workspace = "kept"]
         \/ run' = [run EXCEPT ![r].at = "reporting", ![r].exit = "unstarted",
                               ![r].post = "failed"]
      /\ UNCHANGED <<attempts, upload, objects, lost, deletion, ref, faults>>

Canceled(r) == [NoRun EXCEPT !.at = "reporting", !.workspace = "kept",
                             !.post = "canceled"]

(* Of a failed delivery only whether there was an execution matters.       *)
Failing(r) ==
  [NoRun EXCEPT !.at = "failing", !.workspace = "kept",
                !.exit = IF run[r].exit = "unlogged" THEN "unlogged"
                                                       ELSE "error"]

(* execute returns.  A run that saw its cancellation keeps its workspace   *)
(* and acknowledges; a log that was not captured fails the delivery.       *)
FinishExecution(r) ==
  /\ run[r].at = "executing"
  /\ \/ \E exit \in {"unlogged", "error", "ok"} :
          run' = [run EXCEPT ![r].at = "sending", ![r].exit = exit]
     \/ run' = [run EXCEPT ![r] = Failing(r)]
     \/ /\ status \in {"canceling", "canceled"}
        /\ run' = [run EXCEPT ![r] = Canceled(r)]
  /\ UNCHANGED <<life, attempts, server, faults>>

SendUpload(r, u) ==
  /\ run[r].at = "sending"
  /\ run[r].exit # "unlogged"
  /\ ValidAttempt(r)
  /\ upload[u] = NoHandler
  /\ upload' = [upload EXCEPT ![u] =
                  [step |-> "staging", run |-> r, file |-> run[r].file]]
  /\ run' = [run EXCEPT ![r].at = "awaiting", ![r].awaits = u]
  /\ UNCHANGED <<life, attempts, objects, lost, deletion, ref, stored, faults>>

(* No log to open, no bundle to archive, the attempt refused by the first  *)
(* check, the window used up or the cancellation seen by the monitor.      *)
UploadEnds(r) ==
  /\ run[r].at \in {"sending", "awaiting"}
  /\ run' = [run EXCEPT ![r] = Failing(r)]
  /\ UNCHANGED <<life, attempts, server, faults>>

(* The connection breaks: the handler goes on, the worker tries again.     *)
UploadRetried(r) ==
  /\ run[r].at = "awaiting"
  /\ run' = [run EXCEPT ![r].at = "sending", ![r].awaits = NoUpload]
  /\ UNCHANGED <<life, attempts, server, faults>>

(* Mistake: the bundle is forgotten when the log was delivered.            *)
FaultyDelivers(r) ==
  LET v == IF run[r].exit = "ok" THEN "succeeded" ELSE "failed"
  IN  [run[r] EXCEPT !.at = "reporting", !.awaits = NoUpload,
                     !.verdict = v, !.post = v, !.delivered = TRUE]

(* Results are complete with the log and, where files were produced, the   *)
(* bundle.                                                                 *)
Delivers(r) ==
  IF run[r].file = "log" /\ r \in Bundles
    THEN [run[r] EXCEPT !.at = "sending", !.file = "bundle", !.awaits = NoUpload]
    ELSE LET v == IF run[r].exit = "ok" THEN "succeeded" ELSE "failed"
         IN  [run[r] EXCEPT !.at = "reporting", !.awaits = NoUpload,
                            !.verdict = v, !.post = v, !.delivered = TRUE]

(* Mistake: a failed delivery is reported like a failed computation.       *)
FaultyUndelivered(r) == [run[r] EXCEPT !.at = "reporting", !.post = "failed"]

Undelivered(r) ==
  [run[r] EXCEPT !.at = "reporting", !.post = "failed", !.retryable = FALSE]

(* failResultDelivery reports, unless it reads that the job does not run.  *)
FailDelivery(r) ==
  /\ run[r].at = "failing"
  /\ \/ run' = [run EXCEPT ![r] = Undelivered(r)]
     \/ /\ attempts = r /\ status \in {"canceling", "canceled"}
        /\ run' = [run EXCEPT ![r] = Canceled(r)]
     \/ /\ \/ attempts # r
           \/ status \notin {"running", "canceling", "canceled", "removed"}
        /\ Leaves(r)
  /\ UNCHANGED <<life, attempts, server, faults>>

(* What a status report makes of the job, if the attempt is still held.  A *)
(* retry finds the project's queue full at times.                          *)
Accepted(r, st) ==
  /\ Owner(r)
  /\ CASE run[r].post = "succeeded" -> status = "running" /\ st = "succeeded"
       [] run[r].post = "failed" ->
            /\ status = "running"
            /\ \/ st = "failed"
               \/ st = "queued" /\ run[r].retryable /\ CanRun(Job)
       [] run[r].post = "canceled" -> status = "canceling" /\ st = "canceled"

(* Only a delivery compares what became of the job with its own verdict.   *)
AfterReport(r) == IF run[r].verdict # "none" THEN "confirming" ELSE "gone"

Report(r) ==
  /\ run[r].at = "reporting"
  /\ Step(r, AfterReport(r)) \/ Step(r, "rereading")
  /\ \E st \in Status : Accepted(r, st) /\ Goes(st, FALSE)
  /\ Complete(Job) \/ CleanUp(Job)
  /\ UNCHANGED <<attempts, upload, objects, lost, deletion, ref, faults>>

(* The report is lost or refused.                                          *)
ReportFails(r) ==
  /\ run[r].at = "reporting"
  /\ Step(r, "rereading")
  /\ UNCHANGED <<life, attempts, server, faults>>

StatusAccepted(post, st) ==
  CASE post = "succeeded" -> st = "succeeded"
    [] post = "canceled"  -> st = "canceled"
    [] post = "failed"    -> st \in {"failed", "queued", "assigned"}

(* An unanswered report is repeated until the job shows that it was        *)
(* accepted, or that another transition came first.                        *)
Reread(r) ==
  /\ run[r].at = "rereading"
  /\ status \notin {"absent", "removed"}
  /\ \/ /\ \/ StatusAccepted(run[r].post, status)
           \/ status \notin {"running", "canceling"}
        /\ Step(r, AfterReport(r))
     \/ /\ status = "canceling"
        /\ run' = [run EXCEPT ![r].at = "reporting", ![r].post = "canceled"]
     \/ /\ status = "running"
        /\ Step(r, "reporting")
  /\ UNCHANGED <<life, attempts, server, faults>>

(* Mistake: any accepted report is taken for one's own.                    *)
FaultyConfirmed(r) == attempts = r

Confirmed(r) == attempts = r /\ status = run[r].verdict

Confirm(r) ==
  /\ run[r].at = "confirming"
  /\ run' = [run EXCEPT ![r] = Gone(r, IF Confirmed(r) THEN "removed" ELSE "kept")]
  /\ UNCHANGED <<life, attempts, server, faults>>

(* The agent stops: its lease is over, a deadline passed, the host crashed.*)
Dies(r) ==
  /\ run[r].at \notin {"none", "gone"}
  /\ Leaves(r)
  /\ UNCHANGED <<life, attempts, server, faults>>

Agent(r) ==
  \/ FinishExecution(r)
  \/ \E u \in Uploads : SendUpload(r, u)
  \/ UploadEnds(r)
  \/ UploadRetried(r)
  \/ FailDelivery(r)
  \/ Report(r)
  \/ ReportFails(r)
  \/ Reread(r)
  \/ Confirm(r)
  \/ Dies(r)

----------------------------------------------------------------------------
(* The upload handler.                                                     *)

Handler(u, from, to) ==
  /\ upload[u].step = from
  /\ upload' = [upload EXCEPT ![u].step = to]

(* The worker that still waits for this request gets the answer.           *)
Answer(u, kind) ==
  LET r == upload[u].run
  IN  run' = IF run[r].awaits # u
               THEN run
               ELSE [run EXCEPT ![r] =
                      CASE kind = "created"   -> Delivers(r)
                        [] kind = "transient" -> [@ EXCEPT !.at = "sending",
                                                           !.awaits = NoUpload]
                        [] kind = "final"     -> Failing(r)]

(* What could not be discarded is lost when no later listing finds it.     *)
Losing(set) ==
  lost' = IF status \in {"deleting", "removed"} THEN lost \cup set ELSE lost

(* Mistake: a version that may not be published stays.                     *)
FaultyDiscardVersion(u) == UNCHANGED <<objects, lost, faults>>

(* Discarding an object succeeds, or is logged and given up.               *)
DiscardVersion(u) ==
  \/ objects' = objects \ {<<u, "version">>} /\ UNCHANGED <<lost, faults>>
  \/ Fault /\ Losing({<<u, "version">>} \cap objects) /\ UNCHANGED objects

(* The body is stored under a name nobody reads; before it is copied to    *)
(* its version the attempt is checked again.                               *)
Stage(u) ==
  /\ \/ /\ ValidAttempt(upload[u].run)
        /\ Handler(u, "staging", "checked")
        /\ UNCHANGED run
     \/ /\ ~ValidAttempt(upload[u].run)
        /\ Handler(u, "staging", "discarding")
        /\ Answer(u, "final")
  /\ objects' = objects \cup {<<u, "staged">>}
  /\ UNCHANGED <<life, attempts, lost, deletion, ref, stored, faults>>

(* A broken body, a refused size or a failing object store.                *)
StageFails(u) ==
  /\ Handler(u, "staging", "discarding")
  /\ \E kind \in {"transient", "final"} : Answer(u, kind)
  /\ Fault
  /\ UNCHANGED <<life, attempts, objects, lost, deletion, ref, stored>>

(* The copy takes its time, and the job may have moved on when it is done. *)
Commit(u) ==
  /\ Handler(u, "checked", "committed")
  /\ objects' = objects \cup {<<u, "version">>}
  /\ UNCHANGED <<life, attempts, run, lost, deletion, ref, stored, faults>>

(* The outcome of a failed copy is unknown, so its target is deleted.      *)
CommitFails(u) ==
  /\ Handler(u, "checked", "discarding")
  /\ Answer(u, "transient")
  /\ Fault
  /\ \/ UNCHANGED <<objects, lost>>
     \/ /\ objects' = objects \cup {<<u, "version">>}
        /\ Losing({<<u, "version">>})
  /\ UNCHANGED <<life, attempts, deletion, ref, stored>>

(* Mistake: off by one, the file is attributed to the attempt that follows. *)
FaultyPublished(u) ==
  [ref EXCEPT ![upload[u].file] = [upload |-> u, attempt |-> attempts + 1]]

Published(u) ==
  [ref EXCEPT ![upload[u].file] = [upload |-> u, attempt |-> attempts]]

(* Mistake: the attempt checked before the copy is trusted at publication. *)
FaultyMayPublish(u) == status \in {"running", "canceling"}

MayPublish(u) == ValidAttempt(upload[u].run)

Publish(u) ==
  /\ MayPublish(u)
  /\ Handler(u, "committed", "discarding")
  /\ ref' = Published(u)
  /\ stored' = Published(u)
  /\ Answer(u, "created")
  /\ UNCHANGED <<life, attempts, objects, lost, deletion, faults>>

PublishRefused(u) ==
  /\ ~MayPublish(u)
  /\ Handler(u, "committed", "discarding")
  /\ DiscardVersion(u)
  /\ Answer(u, "final")
  /\ UNCHANGED <<life, attempts, deletion, ref, stored>>

(* Mistake: after any failed publication the version is discarded.         *)
FaultyKeepUncertain(u) ==
  objects' = objects \ {<<u, "version">>}

KeepUncertain(u) == UNCHANGED objects

(* The database fails the transaction: memory keeps the old reference, the *)
(* transaction may have been committed.                                    *)
PublishUncertain(u) ==
  /\ MayPublish(u)
  /\ Handler(u, "committed", "discarding")
  /\ Fault
  /\ KeepUncertain(u)
  /\ stored' \in {stored, Published(u)}
  /\ Answer(u, "transient")
  /\ UNCHANGED <<life, attempts, lost, deletion, ref>>

Referenced(u) == \E f \in File : u \in {ref[f].upload, stored[f].upload}

(* The staged copy goes.  A storage id that left nothing behind stands for *)
(* the id of a later upload.                                               *)
Discard(u) ==
  /\ upload[u].step = "discarding"
  /\ \/ objects' = objects \ {<<u, "staged">>} /\ UNCHANGED <<lost, faults>>
     \/ Fault /\ Losing({<<u, "staged">>} \cap objects) /\ UNCHANGED objects
  /\ upload' = [upload EXCEPT ![u] =
                  IF Referenced(u) \/ \E o \in objects' : o[1] = u
                    THEN [@ EXCEPT !.step = "over"] ELSE NoHandler]
  /\ UNCHANGED <<life, attempts, run, deletion, ref, stored>>

HandleUpload(u) ==
  \/ Stage(u) \/ StageFails(u)
  \/ Commit(u) \/ CommitFails(u)
  \/ Publish(u) \/ PublishRefused(u) \/ PublishUncertain(u) \/ Discard(u)

----------------------------------------------------------------------------
(* Deleting the job: mark it, remove what is listed under its prefix,      *)
(* forget it.  Each part may fail, and the whole may be asked for again.   *)

BeginDeletion(cleans) ==
  /\ deletion.step = "none"
  /\ Goes("deleting", FALSE) /\ Delete(Job)
  /\ deletion' = [step |-> IF cleans THEN "removing" ELSE "finishing",
                  cleans |-> cleans, todo |-> IF cleans THEN objects ELSE {}]
  /\ UNCHANGED <<attempts, upload, objects, lost, ref, run, faults>>

RemoveObjects ==
  /\ deletion.step = "removing"
  /\ objects' = objects \ deletion.todo
  /\ lost' = lost \ deletion.todo
  /\ deletion' = [deletion EXCEPT !.step = "finishing", !.todo = {}]
  /\ UNCHANGED <<life, attempts, upload, ref, stored, run, faults>>

RemovalFails ==
  /\ deletion.step = "removing"
  /\ Fault
  /\ \E some \in SUBSET deletion.todo :
       objects' = objects \ some /\ lost' = lost \ some
  /\ deletion' = NoDeletion
  /\ UNCHANGED <<life, attempts, upload, ref, stored, run>>

(* The job's row and references go together.                               *)
FinishDeletion ==
  /\ deletion.step = "finishing"
  /\ life' = [life EXCEPT ![Job].status = "removed"] /\ Delete(Job)
  /\ deletion' = [deletion EXCEPT !.step = "none"]
  /\ ref' = [f \in File |-> NoReference]
  /\ stored' = [f \in File |-> NoReference]
  /\ UNCHANGED <<attempts, upload, objects, lost, run, faults>>

(* A restart ends the handlers and reloads the references.                 *)
Restart ==
  /\ Fault
  /\ ref' = stored
  /\ upload' = [u \in Uploads |->
                  IF upload[u].step = "none" THEN NoHandler
                                             ELSE [upload[u] EXCEPT !.step = "over"]]
  /\ Losing({o \in objects : upload[o[1]].step # "over" /\ ~Referenced(o[1])})
  /\ deletion' = [deletion EXCEPT !.step = "none"]
  /\ UNCHANGED <<life, attempts, objects, stored, run>>

ControlPlane ==
  \/ Advance \/ RequestCancel \/ BeginRun
  \/ \E cleans \in BOOLEAN : BeginDeletion(cleans)
  \/ RemoveObjects \/ RemovalFails \/ FinishDeletion
  \/ Restart

ResultsNext ==
  \/ ControlPlane
  \/ \E r \in Runs : Agent(r)
  \/ \E u \in Uploads : HandleUpload(u)

ResultsSpec == ResultsInit /\ [][ResultsNext]_vars

----------------------------------------------------------------------------
(* What the list and the downloads return: a file of the current attempt.  *)
Served(f) == ref[f] # NoReference /\ ref[f].attempt = attempts

HasVersion(u) == <<u, "version">> \in objects

Kept == status \notin {"deleting", "removed"}

(* Whatever failed on the way and whenever the control plane restarts, a   *)
(* published reference can be read (server.go:180-188, README.md:436).     *)
ReferencesReadable ==
  Kept => \A f \in File : \A c \in {ref[f], stored[f]} :
            c # NoReference => HasVersion(c.upload)

(* What is served was produced by the run it is attributed to, however     *)
(* late a superseded upload arrives (artifacts.go:22-25, README.md:438).   *)
ServedByItsRun ==
  \A f \in File : Served(f) => /\ upload[ref[f].upload].run = attempts
                               /\ upload[ref[f].upload].file = f

(* A job succeeds only when its log, and its files where it produced any,  *)
(* are served (RESULT-RELIABILITY.md:14).                                  *)
SucceededIsServed ==
  status = "succeeded" =>
    /\ Served("log")
    /\ attempts \in Bundles => Served("bundle")

(* Local results go only when they are served and the job ended as the run *)
(* reported; canceled, superseded and unconfirmed runs keep theirs         *)
(* (RESULT-RELIABILITY.md:14).                                             *)
WorkspaceKept ==
  \A r \in Runs :
    run[r].workspace = "removed" /\ Kept =>
      /\ attempts = r
      /\ status = run[r].verdict
      /\ Served("log")
      /\ r \in Bundles => Served("bundle")

(* A running job is computed again only if the computation failed, never   *)
(* because its results could not be delivered (RESULT-RELIABILITY.md:14).  *)
RetriesComputationOnly ==
  [][status = "running" /\ status' = "queued" =>
       LET r == life[Job].runs
       IN  \/ run[r].exit = "unstarted"
           \/ run[r].exit = "error" /\ run[r].delivered]_vars

(* Deleting a job with its artifacts leaves nothing behind but what a live *)
(* handler still holds or a failed discard gave up (README.md:436).        *)
DeletedLeavesNothing ==
  status = "removed" /\ deletion.cleans =>
    \A o \in objects : o \in lost \/ upload[o[1]].step # "over"
=============================================================================
