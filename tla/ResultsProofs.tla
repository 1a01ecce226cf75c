---------------------------- MODULE ResultsProofs ----------------------------
(***************************************************************************)
(* Proofs about Results: for any number of retries, uploads and faults,    *)
(* what a job's references show, what a success means, when a workspace    *)
(* goes, what is computed again and what a deletion leaves.                *)
(*                                                                         *)
(* None of the properties is inductive: they speak of the current attempt, *)
(* and a placement that is returned makes the previous one current again;  *)
(* of memory, and a restart fills it from the database; of a removed job,  *)
(* and the objects are removed while uploads are still going on.  The      *)
(* invariant below has four parts.  Numbered is about the job's life and   *)
(* attempts, WorkersInv about workers and the requests they await,         *)
(* ReferencesInv about references, of memory and database alike, and       *)
(* DeletionInv about a deletion from its listing on.                       *)
(***************************************************************************)
EXTENDS Results, TLAPS

(* The attempt in progress is the run in progress; between an assignment   *)
(* and its run it is one ahead.                                            *)
Numbered ==
  /\ attempts \in {life[Job].runs, life[Job].runs + 1}
  /\ status \in {"absent", "queued", "running", "canceling", "succeeded",
                 "failed"} => attempts = life[Job].runs
  /\ status = "absent" => life[Job].runs = 0
  /\ status = "assigned" => attempts = life[Job].runs + 1
  /\ status \in {"queued", "assigned"} => CanRun(Job)
  /\ life[Job].owned => status \in {"running", "canceling"}

(* What a worker remembers: only a delivered run has a verdict to report   *)
(* or confirm, and a workspace goes last.                                  *)
Sound(rec) ==
  /\ rec \in RunRecord
  /\ rec.awaits # NoUpload <=> rec.at = "awaiting"
  /\ rec.at \in {"executing", "sending", "awaiting"} =>
       rec.post = "none" /\ rec.verdict = "none" /\ ~rec.delivered
  /\ rec.at = "sending" => rec.exit \in {"unlogged", "error", "ok"}
  /\ rec.at = "awaiting" => rec.exit \in {"error", "ok"}
  /\ rec.at \in {"reporting", "rereading"} => rec.post # "none"
  /\ rec.at = "confirming" => rec.delivered
  /\ rec.at # "gone" /\ rec.verdict # "none" => rec.delivered
  /\ rec.verdict # "canceled"
  /\ rec.workspace = "removed" => rec.at = "gone"
  /\ rec.post = "succeeded" => rec.delivered
  /\ rec.post = "failed" /\ rec.retryable =>
       \/ rec.exit = "unstarted"
       \/ rec.exit = "error" /\ rec.delivered

(* A worker waits for its own request, which has not been answered.        *)
Awaited(r) ==
  run[r].at = "awaiting" => /\ upload[run[r].awaits].run = r
                            /\ upload[run[r].awaits].file = run[r].file
                            /\ upload[run[r].awaits].step # "discarding"

WorkersInv ==
  /\ \A u \in Uploads : upload[u].step # "none" => upload[u].run \in Runs
  /\ \A u \in Uploads : upload[u].step = "none" => upload[u] = NoHandler
  /\ \A r \in Runs : Sound(run[r]) /\ Awaited(r)
  /\ \A r \in Runs : r > life[Job].runs => run[r] = NoRun

(* A reference names an upload of the run it is attributed to, whose       *)
(* version is there as long as the job is.                                 *)
Attributed(refs) ==
  \A f \in File :
    refs[f] # NoReference =>
      /\ refs[f].upload \in Uploads
      /\ upload[refs[f].upload].run = refs[f].attempt
      /\ upload[refs[f].upload].file = f
      /\ upload[refs[f].upload].step \in {"discarding", "over"}
      /\ Kept => HasVersion(refs[f].upload)

Whole(refs, r) ==
  /\ refs["log"].attempt = r
  /\ r \in Bundles => refs["bundle"].attempt = r

(* What the last run delivered is referred to.                             *)
LastRunShown(refs) ==
  \A r \in Runs :
    r = life[Job].runs /\ Kept =>
      /\ run[r].file = "bundle" => refs["log"].attempt = r
      /\ run[r].delivered => Whole(refs, r)

(* What a removed workspace stands on, and what a success does.            *)
RemovedShown(refs) ==
  \A r \in Runs :
    run[r].workspace = "removed" /\ Kept =>
      /\ attempts = r
      /\ status = run[r].verdict
      /\ status \in {"succeeded", "failed"}
      /\ Whole(refs, r)

SuccessShown(refs) ==
  status = "succeeded" => attempts \in Runs /\ Whole(refs, attempts)

(* A job that is gone is referred to no longer.                            *)
Forgotten(refs) ==
  status = "removed" => \A f \in File : refs[f] = NoReference

Shows(refs) ==
  /\ Attributed(refs)
  /\ LastRunShown(refs)
  /\ RemovedShown(refs)
  /\ SuccessShown(refs)
  /\ Forgotten(refs)

(* A version waits for its publication.                                    *)
CommittedStored ==
  \A u \in Uploads : upload[u].step = "committed" /\ Kept => HasVersion(u)

(* Memory and database may differ, and both show what they must: a restart *)
(* makes one out of the other.                                             *)
ReferencesInv ==
  /\ \A refs \in {ref, stored} : Shows(refs)
  /\ CommittedStored

(* A deletion with artifacts, from its listing until the job is forgotten: *)
(* an object that no handler holds is listed or was given up.              *)
Cleaning == deletion.cleans /\ (deletion.step # "none" \/ status = "removed")

Doomed == lost \cup (IF deletion.step = "removing" THEN deletion.todo ELSE {})

(* Storage ids are unique: a request starts with nothing of its own.       *)
Uncopied ==
  \A u \in Uploads :
    upload[u].step \in {"none", "staging", "checked"} => ~HasVersion(u)

DeletionInv ==
  /\ Uncopied
  /\ deletion.step # "none" => status = "deleting"
  /\ Cleaning => \A o \in objects : o \in Doomed \/ upload[o[1]].step # "over"
  /\ Cleaning =>
       \A u \in Uploads : upload[u].step = "discarding" /\ HasVersion(u) =>
         <<u, "version">> \in Doomed

ResultsInv ==
  TypeOK /\ Numbered /\ WorkersInv /\ ReferencesInv /\ DeletionInv

----------------------------------------------------------------------------
(* The life of the job.                                                    *)

LEMMA OneJob ==
  /\ Job \in Jobs /\ Jobs = {Job}
  /\ MaxRetries[Job] \in Nat
  /\ NoUpload \notin Uploads
BY ResultsAssumption

(* A write of the job's status and owner leaves its counters alone.        *)
LEMMA Writes ==
  ASSUME TypeOK, NEW st \in Status, NEW owned \in BOOLEAN, Goes(st, owned)
  PROVE  /\ life' \in [Jobs -> LifeRecord(Job)]
         /\ life'[Job].status = st /\ life'[Job].owned = owned
         /\ life'[Job].runs = life[Job].runs
         /\ life'[Job].canceled = life[Job].canceled
BY OneJob DEF Goes, TypeOK, LifeRecord

(* Placements and returns, takeovers and clean-ups: the number of runs     *)
(* stays, and neither success nor deletion comes about.                    *)
LEMMA AdvanceLife ==
  ASSUME TypeOK, Numbered, Advance
  PROVE  /\ life' \in [Jobs -> LifeRecord(Job)] /\ attempts' \in Runs \cup {0}
         /\ Numbered'
         /\ life'[Job].runs = life[Job].runs
         /\ status \notin {"succeeded", "failed", "deleting", "removed"}
         /\ status' \notin {"succeeded", "deleting", "removed"}
         /\ status' = "queued" => status # "running"
         /\ stored' = ref
<1>1. PICK st \in Status : Goes(st, FALSE)
  BY DEF Advance
<1>2. /\ life' \in [Jobs -> LifeRecord(Job)]
      /\ life'[Job].status = st /\ life'[Job].owned = FALSE
      /\ life'[Job].runs = life[Job].runs
      /\ life'[Job].canceled = life[Job].canceled
      /\ stored' = ref
  BY <1>1, Writes DEF Goes
<1>3. /\ life[Job].runs \in Nat /\ attempts \in Nat
      /\ life[Job].runs <= MaxRetries[Job] + 1
      /\ MaxRetries[Job] \in Nat
  BY OneJob DEF TypeOK, LifeRecord, Runs
<1>4. CASE Submit(Job) /\ attempts' = attempts
  BY <1>2, <1>3, <1>4
  DEF Submit, Moves, Numbered, status, CanRun, TypeOK
<1>5. CASE Place(Job) /\ attempts' = attempts + 1
  BY <1>2, <1>3, <1>5
  DEF Place, Moves, Numbered, status, CanRun, Runs
<1>6. CASE Return(Job) /\ attempts' = attempts - 1
  BY <1>2, <1>3, <1>6
  DEF Return, Moves, Numbered, status, CanRun, Runs
<1>7. CASE TakeOver(Job) /\ attempts' = attempts
  BY <1>2, <1>3, <1>7
  DEF TakeOver, Moves, Numbered, status, CanRun, TypeOK
<1>8. CASE CleanUp(Job) /\ attempts' = attempts
  BY <1>2, <1>3, <1>8
  DEF CleanUp, Moves, Numbered, status, CanRun, TypeOK
<1>9. QED
  BY <1>1, <1>4, <1>5, <1>6, <1>7, <1>8 DEF Advance, Goes

LEMMA RequestCancelLife ==
  ASSUME TypeOK, Numbered, RequestCancel
  PROVE  /\ life' \in [Jobs -> LifeRecord(Job)] /\ attempts' = attempts
         /\ Numbered'
         /\ life'[Job].runs = life[Job].runs
         /\ status \notin {"succeeded", "failed", "deleting", "removed"}
         /\ status' \in {"canceled", "canceling"}
         /\ stored' = ref
<1>1. PICK st \in {"canceled", "canceling"} :
        life' = [life EXCEPT ![Job].status = st, ![Job].canceled = TRUE]
  BY DEF RequestCancel
<1>2. /\ life' \in [Jobs -> LifeRecord(Job)]
      /\ life'[Job].status = st
      /\ life'[Job].owned = life[Job].owned
      /\ life'[Job].runs = life[Job].runs
  BY <1>1, OneJob DEF TypeOK, LifeRecord, Status
<1>3. /\ attempts' = attempts /\ stored' = ref /\ Cancel(Job)
  BY DEF RequestCancel
<1>4. /\ status \in {"queued", "assigned", "running", "canceling"}
      /\ status \in {"running", "canceling"} => status' = "canceling"
      /\ status \in {"queued", "assigned"} => ~life'[Job].owned
  BY <1>2, <1>3 DEF Cancel, Moves, Disowned, status
<1>5. CASE status \in {"queued", "assigned"}
  <2>1. status' \in {"canceled", "canceling"} /\ ~life'[Job].owned
    BY <1>2, <1>4, <1>5 DEF status
  <2>2. status' = "canceled"
    BY <1>3, <1>4, <1>5, <2>1 DEF Cancel, Moves, status
  <2>3. Numbered'
    BY <1>2, <1>3, <2>1, <2>2 DEF Numbered
  <2>4. QED
    BY <1>2, <1>3, <1>5, <2>2, <2>3 DEF status
<1>6. CASE status \in {"running", "canceling"}
  <2>1. Numbered'
    BY <1>2, <1>3, <1>4, <1>6 DEF Numbered
  <2>2. QED
    BY <1>2, <1>3, <1>4, <1>6, <2>1 DEF status
<1>7. QED
  BY <1>4, <1>5, <1>6

LEMMA BeginRunLife ==
  ASSUME TypeOK, Numbered, BeginRun
  PROVE  /\ life' \in [Jobs -> LifeRecord(Job)] /\ attempts' = attempts
         /\ Numbered'
         /\ life[Job].runs + 1 \in Runs
         /\ life'[Job].runs = life[Job].runs + 1
         /\ status = "assigned" /\ status' = "running"
         /\ stored' = ref
<1> DEFINE r == life[Job].runs + 1
<1>1. /\ life' = [life EXCEPT ![Job].status = "running", ![Job].runs = r,
                              ![Job].owned = TRUE]
      /\ Begin(Job) /\ attempts' = attempts /\ stored' = ref
  BY DEF BeginRun
<1>2. life[Job].runs \in Nat /\ life[Job].runs <= MaxRetries[Job]
  BY <1>1, OneJob DEF Begin, CanRun, TypeOK, LifeRecord
<1>3. r \in Runs /\ r \in 0..MaxRetries[Job] + 1
  BY <1>2, OneJob DEF Runs
<1> HIDE DEF r
<1>4. /\ life' \in [Jobs -> LifeRecord(Job)]
      /\ life'[Job].status = "running" /\ life'[Job].runs = r
  BY <1>1, <1>3, OneJob DEF TypeOK, LifeRecord, Status
<1>5. status = "assigned" /\ attempts = r
  BY <1>1 DEF Begin, Moves, Numbered, status, r
<1>6. Numbered'
  BY <1>1, <1>4, <1>5 DEF Numbered, status
<1>7. QED
  BY <1>1, <1>3, <1>4, <1>5, <1>6 DEF status, r

(* A report ends the run of the worker that owns it.                       *)
LEMMA ReportLife ==
  ASSUME TypeOK, Numbered, NEW r \in Runs, Sound(run[r]), Report(r)
  PROVE  /\ life' \in [Jobs -> LifeRecord(Job)] /\ attempts' = attempts
         /\ Numbered'
         /\ life'[Job].runs = life[Job].runs
         /\ r = life[Job].runs /\ r = attempts
         /\ status \in {"running", "canceling"}
         /\ status' \in {"succeeded", "failed", "queued", "canceled"}
         /\ status' = "succeeded" => run[r].post = "succeeded"
         /\ status' = "queued" /\ status = "running" =>
              run[r].post = "failed" /\ run[r].retryable
         /\ stored' = ref
<1>1. PICK st \in Status : Accepted(r, st) /\ Goes(st, FALSE)
  BY DEF Report
<1>2. /\ life' \in [Jobs -> LifeRecord(Job)]
      /\ life'[Job].status = st /\ life'[Job].owned = FALSE
      /\ life'[Job].runs = life[Job].runs
      /\ stored' = ref
  BY <1>1, Writes DEF Goes
<1>3. /\ Complete(Job) \/ CleanUp(Job)
      /\ attempts' = attempts
  BY DEF Report
<1>4. Owner(r) /\ r = life[Job].runs
  BY <1>1 DEF Accepted, Owner
<1>5. status \in {"running", "canceling"} /\ attempts = r
  BY <1>4 DEF Owner, Numbered
<1>6. CASE Complete(Job)
  <2>1. /\ status = "running" /\ st \in {"succeeded", "failed", "queued"}
        /\ st = "queued" => CanRun(Job)
    BY <1>2, <1>6 DEF Complete, Moves, status
  <2>2. /\ st = "succeeded" => run[r].post = "succeeded"
        /\ st = "queued" => run[r].post = "failed" /\ run[r].retryable
    <3>1. run[r].post \in {"succeeded", "failed", "canceled"}
      BY DEF Report, Sound, RunRecord
    <3>2. CASE run[r].post = "succeeded"
      <4>1. st = "succeeded"
        BY <1>1, <3>2, Zenon DEF Accepted
      <4>2. QED
        BY <3>2, <4>1
    <3>3. CASE run[r].post = "failed"
      <4>1. st = "failed" \/ (st = "queued" /\ run[r].retryable)
        BY <1>1, <3>3, Zenon DEF Accepted
      <4>2. QED
        BY <3>3, <4>1
    <3>4. CASE run[r].post = "canceled"
      <4>1. st = "canceled"
        BY <1>1, <3>4, Zenon DEF Accepted
      <4>2. QED
        BY <4>1
    <3>5. QED
      BY <3>1, <3>2, <3>3, <3>4
  <2>3. QED
    BY <1>2, <1>3, <1>4, <1>5, <2>1, <2>2 DEF Numbered, status, CanRun
<1>7. CASE CleanUp(Job)
  <2>1. /\ status = "canceling" /\ st \in {"canceled", "failed", "queued"}
        /\ st = "queued" => CanRun(Job)
    BY <1>2, <1>7 DEF CleanUp, Moves, status
  <2>2. QED
    BY <1>2, <1>3, <1>4, <1>5, <2>1 DEF Numbered, status, CanRun
<1>8. QED
  BY <1>3, <1>6, <1>7

(* A deletion begins for a job that is over, and ends for one that is being *)
(* deleted; nothing returns from there.                                    *)
LEMMA DeletionLife ==
  ASSUME TypeOK, Numbered, DeletionInv,
         (\E cleans \in BOOLEAN : BeginDeletion(cleans)) \/ FinishDeletion
  PROVE  /\ life' \in [Jobs -> LifeRecord(Job)] /\ attempts' = attempts
         /\ Numbered'
         /\ life'[Job].runs = life[Job].runs
         /\ ~life'[Job].owned
         /\ \/ /\ status \in {"succeeded", "failed", "canceled", "deleting"}
               /\ status' = "deleting" /\ stored' = ref
            \/ FinishDeletion /\ status = "deleting" /\ status' = "removed"
<1>1. CASE \E cleans \in BOOLEAN : BeginDeletion(cleans)
  <2>1. Goes("deleting", FALSE) /\ Delete(Job) /\ attempts' = attempts
    BY <1>1 DEF BeginDeletion
  <2>2. /\ life' \in [Jobs -> LifeRecord(Job)]
        /\ life'[Job].status = "deleting" /\ life'[Job].owned = FALSE
        /\ life'[Job].runs = life[Job].runs
        /\ stored' = ref
    BY <2>1, Writes DEF Goes, Status
  <2>3. status \in {"succeeded", "failed", "canceled", "deleting"}
    BY <2>1 DEF Delete, Moves, status
  <2>4. QED
    BY <2>1, <2>2, <2>3 DEF Numbered, status
<1>2. CASE FinishDeletion
  <2>1. /\ life' = [life EXCEPT ![Job].status = "removed"] /\ Delete(Job)
        /\ deletion.step = "finishing" /\ attempts' = attempts
    BY <1>2 DEF FinishDeletion
  <2>2. /\ life' \in [Jobs -> LifeRecord(Job)]
        /\ life'[Job].status = "removed"
        /\ life'[Job].owned = life[Job].owned
        /\ life'[Job].runs = life[Job].runs
    BY <2>1, OneJob DEF TypeOK, LifeRecord, Status
  <2>3. status = "deleting" /\ ~life'[Job].owned
    BY <2>1 DEF Delete, Disowned, DeletionInv
  <2>4. QED
    BY <1>2, <2>1, <2>2, <2>3 DEF Numbered, status
<1>3. QED
  BY <1>1, <1>2

----------------------------------------------------------------------------
(* Workers: every record a step makes is sound.                            *)

LEMMA NoRunSound == Sound(NoRun)
BY OneJob
DEF Sound, NoRun, RunRecord, At, Exit, File

LEMMA GoneSound ==
  ASSUME TypeOK, NEW r \in Runs, Sound(run[r]),
         NEW w \in {"none", "kept", "removed"}
  PROVE  /\ Sound(Gone(r, w))
         /\ Gone(r, w).at = "gone" /\ ~Gone(r, w).delivered
         /\ Gone(r, w).file = "log" /\ Gone(r, w).workspace = w
         /\ w = "removed" => Gone(r, w).verdict = run[r].verdict
<1> DEFINE g == Gone(r, w)
<1>1. /\ g = [NoRun EXCEPT !.at = "gone", !.workspace = w,
                           !.verdict = g.verdict]
      /\ g.verdict \in {"none", run[r].verdict}
      /\ w = "removed" => g.verdict = run[r].verdict
  BY DEF Gone, NoRun
<1> HIDE DEF g
<1>2. run[r].verdict \in {"none", "succeeded", "failed"}
  BY DEF Sound, RunRecord
<1>3. /\ g.at = "gone" /\ g.exit = "none" /\ g.file = "log"
      /\ g.awaits = NoUpload /\ g.post = "none" /\ g.retryable = TRUE
      /\ g.delivered = FALSE /\ g.workspace = w
  BY <1>1 DEF NoRun
<1>4. g \in RunRecord
  BY <1>1, <1>2 DEF NoRun, RunRecord, At, Exit, File
<1>5. Sound(g)
  BY <1>2, <1>3, <1>4, <1>1 DEF Sound
<1>6. QED
  BY <1>1, <1>3, <1>5 DEF g

LEMMA FailingSound ==
  ASSUME NEW r \in Runs
  PROVE  /\ Sound(Failing(r)) /\ Failing(r).at = "failing"
         /\ ~Failing(r).delivered /\ Failing(r).file = "log"
         /\ Failing(r).workspace = "kept"
<1> DEFINE g == Failing(r)
<1>1. /\ g = [NoRun EXCEPT !.at = "failing", !.workspace = "kept",
                           !.exit = g.exit]
      /\ g.exit \in {"unlogged", "error"}
  BY DEF Failing, NoRun
<1> HIDE DEF g
<1>2. /\ g.at = "failing" /\ g.file = "log" /\ g.awaits = NoUpload
      /\ g.verdict = "none" /\ g.post = "none" /\ g.retryable = TRUE
      /\ g.delivered = FALSE /\ g.workspace = "kept"
  BY <1>1 DEF NoRun
<1>3. g \in RunRecord
  BY <1>1 DEF NoRun, RunRecord, At, Exit, File
<1>4. Sound(g)
  BY <1>1, <1>2, <1>3 DEF Sound
<1>5. QED
  BY <1>2, <1>4 DEF g

LEMMA CanceledSound ==
  ASSUME NEW r \in Runs
  PROVE  /\ Sound(Canceled(r)) /\ Canceled(r).at = "reporting"
         /\ ~Canceled(r).delivered /\ Canceled(r).file = "log"
         /\ Canceled(r).workspace = "kept"
<1> DEFINE g == Canceled(r)
<1>1. g = [NoRun EXCEPT !.at = "reporting", !.workspace = "kept",
                        !.post = "canceled"]
  BY DEF Canceled
<1> HIDE DEF g
<1>2. /\ g.at = "reporting" /\ g.file = "log" /\ g.awaits = NoUpload
      /\ g.verdict = "none" /\ g.post = "canceled" /\ g.retryable = TRUE
      /\ g.delivered = FALSE /\ g.workspace = "kept"
  BY <1>1 DEF NoRun
<1>3. g \in RunRecord
  BY <1>1 DEF NoRun, RunRecord, At, Exit, File
<1>4. Sound(g)
  BY <1>2, <1>3 DEF Sound
<1>5. QED
  BY <1>2, <1>4 DEF g

LEMMA UndeliveredSound ==
  ASSUME NEW r \in Runs, Sound(run[r]), run[r].at = "failing"
  PROVE  /\ Sound(Undelivered(r)) /\ Undelivered(r).at = "reporting"
         /\ Undelivered(r).delivered => run[r].delivered
         /\ Undelivered(r).file = run[r].file
         /\ Undelivered(r).workspace = run[r].workspace
<1> DEFINE g == Undelivered(r)
<1>1. g = [run[r] EXCEPT !.at = "reporting", !.post = "failed",
                         !.retryable = FALSE]
  BY DEF Undelivered
<1> HIDE DEF g
<1>2. run[r] \in RunRecord
  BY DEF Sound
<1>3. /\ g.at = "reporting" /\ g.file = run[r].file
      /\ g.awaits = run[r].awaits /\ g.verdict = run[r].verdict
      /\ g.post = "failed" /\ g.retryable = FALSE
      /\ g.delivered = run[r].delivered /\ g.workspace = run[r].workspace
  BY <1>1, <1>2 DEF RunRecord
<1>4. g \in RunRecord
  BY <1>1, <1>2 DEF RunRecord, At
<1>5. Sound(g)
  BY <1>3, <1>4 DEF Sound
<1>6. QED
  BY <1>3, <1>5 DEF g

(* The next step of a worker that goes on to report or to confirm.         *)
LEMMA StepSound ==
  ASSUME TypeOK, NEW r \in Runs, Sound(run[r]),
         run[r].at \notin {"awaiting", "gone"},
         NEW to \in {"reporting", "rereading", "confirming", "gone"},
         Step(r, to),
         to = "confirming" => run[r].delivered,
         to \in {"reporting", "rereading"} => run[r].post # "none"
  PROVE  /\ Sound(run'[r]) /\ run'[r].at = to
         /\ run'[r].delivered => run[r].delivered
         /\ run'[r].file = "bundle" => run[r].file = "bundle"
         /\ run'[r].workspace = run[r].workspace
         /\ run[r].workspace # "removed"
         /\ \A k \in Runs \ {r} : run'[k] = run[k]
<1>1. run[r] \in RunRecord /\ run \in [Runs -> RunRecord]
  BY DEF Sound, TypeOK
<1>2. run[r].workspace \in {"none", "kept", "removed"}
  BY <1>1 DEF RunRecord
<1>3. /\ \A k \in Runs \ {r} : run'[k] = run[k]
      /\ run[r].workspace # "removed"
  BY <1>1 DEF Step, Sound
<1>4. CASE to = "gone"
  <2>1. run'[r] = Gone(r, run[r].workspace)
    BY <1>1, <1>4 DEF Step
  <2>2. QED
    <3>1. /\ Sound(Gone(r, run[r].workspace))
          /\ Gone(r, run[r].workspace).at = "gone"
          /\ ~Gone(r, run[r].workspace).delivered
          /\ Gone(r, run[r].workspace).file = "log"
          /\ Gone(r, run[r].workspace).workspace = run[r].workspace
      BY <1>2, GoneSound, Zenon
    <3>2. QED
      BY <1>3, <1>4, <2>1, <3>1
<1>5. CASE to # "gone"
  <2> DEFINE g == run'[r]
  <2>1. g = [run[r] EXCEPT !.at = to]
    BY <1>1, <1>5 DEF Step
  <2> HIDE DEF g
  <2>2. /\ g.at = to /\ g.exit = run[r].exit /\ g.file = run[r].file
        /\ g.awaits = run[r].awaits /\ g.verdict = run[r].verdict
        /\ g.post = run[r].post /\ g.retryable = run[r].retryable
        /\ g.delivered = run[r].delivered /\ g.workspace = run[r].workspace
    BY <1>1, <2>1 DEF RunRecord
  <2>3. g \in RunRecord
    BY <1>1, <2>1 DEF RunRecord, At
  <2>4. Sound(g)
    BY <1>3, <1>5, <2>2, <2>3 DEF Sound
  <2>5. QED
    BY <1>3, <2>2, <2>4 DEF g
<1>6. QED
  BY <1>4, <1>5

(* A worker moves on without a new delivery: it stops waiting, and its     *)
(* workspace goes only if the job shows the verdict it delivered.          *)
Moved(r) ==
  /\ \A k \in Runs \ {r} : run'[k] = run[k]
  /\ Sound(run'[r]) /\ run'[r].at # "awaiting"
  /\ run[r] # NoRun
  /\ run'[r].delivered => run[r].delivered
  /\ run'[r].file = "bundle" => run[r].file = "bundle"
  /\ run'[r].workspace = "removed" =>
       run[r].delivered /\ Confirmed(r) /\ run'[r].verdict = run[r].verdict

RunsTyped == run' \in [Runs -> RunRecord]

LEMMA Updated ==
  ASSUME TypeOK, NEW r \in Runs, NEW rec \in RunRecord,
         run' = [run EXCEPT ![r] = rec]
  PROVE  /\ RunsTyped /\ run'[r] = rec
         /\ \A k \in Runs \ {r} : run'[k] = run[k]
BY DEF TypeOK, RunsTyped

LEMMA FailingMoves ==
  ASSUME TypeOK, NEW r \in Runs, Sound(run[r]), run[r].at # "none",
         run' = [run EXCEPT ![r] = Failing(r)]
  PROVE  Moved(r) /\ RunsTyped
<1>1. /\ Sound(Failing(r)) /\ Failing(r).at = "failing"
      /\ ~Failing(r).delivered /\ Failing(r).file = "log"
      /\ Failing(r).workspace = "kept"
  BY FailingSound, Zenon
<1>2. /\ RunsTyped /\ run'[r] = Failing(r)
      /\ \A k \in Runs \ {r} : run'[k] = run[k]
  BY <1>1, Updated, Zenon DEF Sound
<1>3. run[r] # NoRun
  BY DEF NoRun
<1>4. QED
  BY <1>1, <1>2, <1>3 DEF Moved

LEMMA CanceledMoves ==
  ASSUME TypeOK, NEW r \in Runs, Sound(run[r]), run[r].at # "none",
         run' = [run EXCEPT ![r] = Canceled(r)]
  PROVE  Moved(r) /\ RunsTyped
<1>1. /\ Sound(Canceled(r)) /\ Canceled(r).at = "reporting"
      /\ ~Canceled(r).delivered /\ Canceled(r).file = "log"
      /\ Canceled(r).workspace = "kept"
  BY CanceledSound, Zenon
<1>2. /\ RunsTyped /\ run'[r] = Canceled(r)
      /\ \A k \in Runs \ {r} : run'[k] = run[k]
  BY <1>1, Updated, Zenon DEF Sound
<1>3. run[r] # NoRun
  BY DEF NoRun
<1>4. QED
  BY <1>1, <1>2, <1>3 DEF Moved

LEMMA GoneMoves ==
  ASSUME TypeOK, NEW r \in Runs, Sound(run[r]), run[r].at # "none",
         NEW w \in {"none", "kept", "removed"},
         w = "removed" => run[r].delivered /\ Confirmed(r),
         run' = [run EXCEPT ![r] = Gone(r, w)]
  PROVE  Moved(r) /\ RunsTyped
<1>1. /\ Sound(Gone(r, w))
      /\ Gone(r, w).at = "gone" /\ ~Gone(r, w).delivered
      /\ Gone(r, w).file = "log" /\ Gone(r, w).workspace = w
      /\ w = "removed" => Gone(r, w).verdict = run[r].verdict
  BY GoneSound, Zenon
<1>2. /\ RunsTyped /\ run'[r] = Gone(r, w)
      /\ \A k \in Runs \ {r} : run'[k] = run[k]
  BY <1>1, Updated, Zenon DEF Sound
<1>3. run[r] # NoRun
  BY DEF NoRun
<1>4. QED
  BY <1>1, <1>2, <1>3 DEF Moved

LEMMA LeavesMoves ==
  ASSUME TypeOK, NEW r \in Runs, Sound(run[r]),
         run[r].at \notin {"none", "gone"}, Leaves(r)
  PROVE  Moved(r) /\ RunsTyped
<1>1. run[r].workspace \in {"none", "kept"}
  BY DEF Sound, RunRecord
<1>2. QED
  BY <1>1, GoneMoves DEF Leaves

LEMMA StepMoves ==
  ASSUME TypeOK, NEW r \in Runs, Sound(run[r]),
         run[r].at \notin {"none", "awaiting", "gone"},
         NEW to \in {"reporting", "rereading", "confirming", "gone"},
         Step(r, to),
         to = "confirming" => run[r].delivered,
         to \in {"reporting", "rereading"} => run[r].post # "none"
  PROVE  Moved(r) /\ RunsTyped
<1>1. /\ Sound(run'[r]) /\ run'[r].at = to
      /\ run'[r].delivered => run[r].delivered
      /\ run'[r].file = "bundle" => run[r].file = "bundle"
      /\ run'[r].workspace = run[r].workspace
      /\ run[r].workspace # "removed"
      /\ \A k \in Runs \ {r} : run'[k] = run[k]
  BY StepSound, Zenon
<1>2. RunsTyped
  <2>1. \E rec : run' = [run EXCEPT ![r] = rec]
    BY DEF Step
  <2>2. run \in [Runs -> RunRecord] /\ run'[r] \in RunRecord
    BY <1>1 DEF TypeOK, Sound
  <2>3. QED
    BY <2>1, <2>2 DEF RunsTyped
<1>3. run[r] # NoRun
  BY DEF NoRun
<1>4. QED
  BY <1>1, <1>2, <1>3 DEF Moved

LEMMA FinishExecutionMoves ==
  ASSUME TypeOK, NEW r \in Runs, Sound(run[r]), FinishExecution(r)
  PROVE  Moved(r) /\ RunsTyped
<1>1. run[r].at = "executing"
  BY DEF FinishExecution
<1>2. CASE \E exit \in {"unlogged", "error", "ok"} :
             run' = [run EXCEPT ![r].at = "sending", ![r].exit = exit]
  <2>1. PICK exit \in {"unlogged", "error", "ok"} :
          run' = [run EXCEPT ![r].at = "sending", ![r].exit = exit]
    BY <1>2
  <2> DEFINE g == [run[r] EXCEPT !.at = "sending", !.exit = exit]
  <2>2. run' = [run EXCEPT ![r] = g]
    BY <2>1 DEF TypeOK
  <2>3. run[r] \in RunRecord
    BY DEF Sound
  <2>4. /\ g.at = "sending" /\ g.exit = exit /\ g.file = run[r].file
        /\ g.awaits = run[r].awaits /\ g.verdict = run[r].verdict
        /\ g.post = run[r].post /\ g.retryable = run[r].retryable
        /\ g.delivered = run[r].delivered /\ g.workspace = run[r].workspace
    BY <2>3 DEF RunRecord
  <2>5. g \in RunRecord
    BY <2>3 DEF RunRecord, At, Exit
  <2> HIDE DEF g
  <2>6. Sound(g) /\ run[r].workspace # "removed"
    BY <1>1, <2>4, <2>5 DEF Sound
  <2>7. /\ RunsTyped /\ run'[r] = g
        /\ \A k \in Runs \ {r} : run'[k] = run[k]
    BY <2>2, <2>5, Updated, Zenon
  <2>8. run[r] # NoRun
    BY <1>1 DEF NoRun
  <2>9. QED
    BY <2>4, <2>6, <2>7, <2>8 DEF Moved
<1>3. CASE run' = [run EXCEPT ![r] = Failing(r)]
  BY <1>1, <1>3, FailingMoves
<1>4. CASE run' = [run EXCEPT ![r] = Canceled(r)]
  BY <1>1, <1>4, CanceledMoves
<1>5. QED
  BY <1>2, <1>3, <1>4 DEF FinishExecution

LEMMA UploadRetriedMoves ==
  ASSUME TypeOK, NEW r \in Runs, Sound(run[r]), run[r].at = "awaiting",
         run' = [run EXCEPT ![r] = [run[r] EXCEPT !.at = "sending",
                                                  !.awaits = NoUpload]]
  PROVE  Moved(r) /\ RunsTyped
<1> DEFINE g == [run[r] EXCEPT !.at = "sending", !.awaits = NoUpload]
<1>1. run[r] \in RunRecord
  BY DEF Sound
<1>2. /\ g.at = "sending" /\ g.exit = run[r].exit /\ g.file = run[r].file
      /\ g.awaits = NoUpload /\ g.verdict = run[r].verdict
      /\ g.post = run[r].post /\ g.retryable = run[r].retryable
      /\ g.delivered = run[r].delivered /\ g.workspace = run[r].workspace
  BY <1>1 DEF RunRecord
<1>3. g \in RunRecord
  BY <1>1 DEF RunRecord, At
<1> HIDE DEF g
<1>4. Sound(g) /\ run[r].workspace # "removed"
  BY <1>2, <1>3 DEF Sound
<1>5. /\ RunsTyped /\ run'[r] = g
      /\ \A k \in Runs \ {r} : run'[k] = run[k]
  BY <1>3, Updated, Zenon DEF g
<1>6. run[r] # NoRun
  BY DEF NoRun
<1>7. QED
  BY <1>2, <1>4, <1>5, <1>6 DEF Moved

(* Every step of a worker except the sending of an upload.                 *)
LEMMA AgentMoves ==
  ASSUME TypeOK, NEW r \in Runs, Sound(run[r]),
         \/ FinishExecution(r) \/ UploadEnds(r) \/ UploadRetried(r)
         \/ FailDelivery(r) \/ Report(r) \/ ReportFails(r) \/ Reread(r)
         \/ Confirm(r) \/ Dies(r)
  PROVE  Moved(r) /\ RunsTyped
<1>1. CASE FinishExecution(r)
  BY <1>1, FinishExecutionMoves
<1>2. CASE UploadEnds(r)
  BY <1>2, FailingMoves DEF UploadEnds
<1>3. CASE UploadRetried(r)
  <2>1. /\ run[r].at = "awaiting"
        /\ run' = [run EXCEPT ![r] = [run[r] EXCEPT !.at = "sending",
                                                    !.awaits = NoUpload]]
    BY <1>3 DEF UploadRetried, TypeOK
  <2>2. QED
    BY <2>1, UploadRetriedMoves
<1>4. CASE FailDelivery(r)
  <2>1. run[r].at = "failing"
    BY <1>4 DEF FailDelivery
  <2>2. CASE run' = [run EXCEPT ![r] = Undelivered(r)]
    <3>1. /\ Sound(Undelivered(r)) /\ Undelivered(r).at = "reporting"
          /\ Undelivered(r).delivered => run[r].delivered
          /\ Undelivered(r).file = run[r].file
          /\ Undelivered(r).workspace = run[r].workspace
      BY <2>1, UndeliveredSound, Zenon
    <3>2. /\ RunsTyped /\ run'[r] = Undelivered(r)
          /\ \A k \in Runs \ {r} : run'[k] = run[k]
      BY <2>2, <3>1, Updated, Zenon DEF Sound
    <3>3. run[r] # NoRun /\ run[r].workspace # "removed"
      BY <2>1 DEF NoRun, Sound
    <3>4. QED
      BY <3>1, <3>2, <3>3 DEF Moved
  <2>3. CASE run' = [run EXCEPT ![r] = Canceled(r)]
    BY <2>1, <2>3, CanceledMoves
  <2>4. CASE Leaves(r)
    BY <2>1, <2>4, LeavesMoves
  <2>5. QED
    BY <1>4, <2>2, <2>3, <2>4 DEF FailDelivery
<1>5. ASSUME run[r].at \in {"reporting", "rereading"}, Step(r, AfterReport(r))
      PROVE  Moved(r) /\ RunsTyped
  <2>1. AfterReport(r) \in {"confirming", "gone"}
        /\ (AfterReport(r) = "confirming" => run[r].delivered)
    BY <1>5 DEF AfterReport, Sound
  <2>2. QED
    BY <1>5, <2>1, StepMoves
<1>6. ASSUME run[r].at \in {"reporting", "rereading"},
             NEW to \in {"reporting", "rereading"}, Step(r, to)
      PROVE  Moved(r) /\ RunsTyped
  <2>1. run[r].post # "none"
    BY <1>6 DEF Sound
  <2>2. QED
    BY <1>6, <2>1, StepMoves
<1>7. CASE Report(r) \/ ReportFails(r)
  <2>1. run[r].at = "reporting"
        /\ (Step(r, AfterReport(r)) \/ Step(r, "rereading"))
    BY <1>7 DEF Report, ReportFails
  <2>2. QED
    BY <1>5, <1>6, <2>1
<1>8. CASE Reread(r)
  <2>1. run[r].at = "rereading"
    BY <1>8 DEF Reread
  <2>2. CASE Step(r, AfterReport(r)) \/ Step(r, "reporting")
    BY <1>5, <1>6, <2>1, <2>2
  <2>3. CASE run' = [run EXCEPT ![r].at = "reporting", ![r].post = "canceled"]
    <3> DEFINE g == [run[r] EXCEPT !.at = "reporting", !.post = "canceled"]
    <3>1. run[r] \in RunRecord
      BY DEF Sound
    <3>2. run' = [run EXCEPT ![r] = g]
      BY <2>3 DEF TypeOK
    <3>3. /\ g.at = "reporting" /\ g.exit = run[r].exit
          /\ g.file = run[r].file
          /\ g.awaits = run[r].awaits /\ g.verdict = run[r].verdict
          /\ g.post = "canceled" /\ g.retryable = run[r].retryable
          /\ g.delivered = run[r].delivered
          /\ g.workspace = run[r].workspace
      BY <3>1 DEF RunRecord
    <3>4. g \in RunRecord
      BY <3>1 DEF RunRecord, At
    <3> HIDE DEF g
    <3>5. Sound(g) /\ run[r].workspace # "removed"
      BY <2>1, <3>3, <3>4 DEF Sound
    <3>6. /\ RunsTyped /\ run'[r] = g
          /\ \A k \in Runs \ {r} : run'[k] = run[k]
      BY <3>2, <3>4, Updated, Zenon
    <3>7. run[r] # NoRun
      BY <2>1 DEF NoRun
    <3>8. QED
      BY <3>3, <3>5, <3>6, <3>7 DEF Moved
  <2>4. QED
    BY <1>8, <2>2, <2>3 DEF Reread
<1>9. CASE Confirm(r)
  <2>1. /\ run[r].at = "confirming"
        /\ run' = [run EXCEPT ![r] =
                     Gone(r, IF Confirmed(r) THEN "removed" ELSE "kept")]
    BY <1>9 DEF Confirm
  <2>2. run[r].delivered
    BY <2>1 DEF Sound
  <2>3. CASE Confirmed(r)
    BY <2>1, <2>2, <2>3, GoneMoves
  <2>4. CASE ~Confirmed(r)
    BY <2>1, <2>2, <2>4, GoneMoves
  <2>5. QED
    BY <2>3, <2>4
<1>10. CASE Dies(r)
  BY <1>10, LeavesMoves DEF Dies
<1>11. QED
  BY <1>1, <1>2, <1>3, <1>4, <1>7, <1>8, <1>9, <1>10

----------------------------------------------------------------------------
(* Answers: a worker gets the answer of the request it waits for.          *)

LEMMA AnswerMoves ==
  ASSUME TypeOK, NEW u \in Uploads, upload[u].run \in Runs,
         Sound(run[upload[u].run]), NEW kind \in {"transient", "final"},
         Answer(u, kind)
  PROVE  /\ RunsTyped /\ run'[upload[u].run].awaits # u
         /\ run' = run \/ Moved(upload[u].run)
<1> DEFINE r == upload[u].run
<1>1. CASE run[r].awaits # u
  BY <1>1 DEF Answer, RunsTyped, TypeOK
<1>2. CASE run[r].awaits = u
  <2>1. run[r].at = "awaiting"
    BY <1>2, OneJob DEF Sound
  <2>2. CASE kind = "transient"
    <3>1. run' = [run EXCEPT ![r] = [run[r] EXCEPT !.at = "sending",
                                                  !.awaits = NoUpload]]
      BY <1>2, <2>2, Zenon DEF Answer
    <3>2. Moved(r) /\ RunsTyped
      BY <2>1, <3>1, UploadRetriedMoves
    <3>3. QED
      BY <3>2, OneJob DEF Moved, Sound
  <2>3. CASE kind = "final"
    <3>1. run' = [run EXCEPT ![r] = Failing(r)]
      BY <1>2, <2>3, Zenon DEF Answer
    <3>2. Moved(r) /\ RunsTyped
      BY <2>1, <3>1, FailingMoves
    <3>3. QED
      BY <3>2, OneJob DEF Moved, Sound
  <2>4. QED
    BY <2>2, <2>3
<1>3. QED
  BY <1>1, <1>2

(* The answer that a file was published: the worker goes on to the bundle, *)
(* or has delivered all there is.                                          *)
Delivered(u) ==
  LET r == upload[u].run
  IN  /\ \A k \in Runs \ {r} : run'[k] = run[k]
      /\ Sound(run'[r]) /\ run'[r].at # "awaiting"
      /\ run[r] # NoRun /\ run[r].awaits = u /\ run[r].at = "awaiting"
      /\ run'[r].workspace # "removed"
      /\ run'[r].file \in {"log", "bundle"}
      /\ run'[r].delivered => run[r].file = "bundle" \/ r \notin Bundles

LEMMA CreatedDelivers ==
  ASSUME TypeOK, NEW u \in Uploads, upload[u].run \in Runs,
         Sound(run[upload[u].run]), Answer(u, "created")
  PROVE  /\ RunsTyped /\ run'[upload[u].run].awaits # u
         /\ run' = run \/ Delivered(u)
<1> DEFINE r == upload[u].run
<1>1. CASE run[r].awaits # u
  BY <1>1 DEF Answer, RunsTyped, TypeOK
<1>2. CASE run[r].awaits = u
  <2> DEFINE g == Delivers(r)
  <2>1. run[r].at = "awaiting" /\ run[r] \in RunRecord
    BY <1>2, OneJob DEF Sound
  <2>2. run[r] # NoRun /\ run[r].workspace # "removed"
    BY <2>1 DEF NoRun, Sound
  <2>3. run' = [run EXCEPT ![r] = g]
    BY <1>2, Zenon DEF Answer
  <2>4. g \in RunRecord /\ Sound(g) /\ g.at # "awaiting"
        /\ g.workspace # "removed" /\ g.awaits = NoUpload
        /\ (g.delivered => run[r].file = "bundle" \/ r \notin Bundles)
    <3>1. CASE run[r].file = "log" /\ r \in Bundles
      <4>1. g = [run[r] EXCEPT !.at = "sending", !.file = "bundle",
                               !.awaits = NoUpload]
        BY <3>1 DEF Delivers
      <4> HIDE DEF g
      <4>2. /\ g.at = "sending" /\ g.exit = run[r].exit
            /\ g.awaits = NoUpload /\ g.verdict = run[r].verdict
            /\ g.post = run[r].post /\ g.retryable = run[r].retryable
            /\ g.delivered = run[r].delivered
            /\ g.workspace = run[r].workspace
        BY <2>1, <4>1 DEF RunRecord
      <4>3. g \in RunRecord
        BY <2>1, <4>1 DEF RunRecord, At, File
      <4>4. Sound(g) /\ ~g.delivered
        BY <2>1, <2>2, <4>2, <4>3 DEF Sound
      <4>5. QED
        BY <2>2, <4>2, <4>3, <4>4
    <3>2. CASE ~(run[r].file = "log" /\ r \in Bundles)
      <4>1. PICK v \in {"succeeded", "failed"} :
              /\ g = [run[r] EXCEPT !.at = "reporting", !.awaits = NoUpload,
                                    !.verdict = v, !.post = v,
                                    !.delivered = TRUE]
              /\ v = "failed" => run[r].exit # "ok"
        BY <3>2 DEF Delivers
      <4> HIDE DEF g
      <4>2. /\ g.at = "reporting" /\ g.exit = run[r].exit
            /\ g.awaits = NoUpload /\ g.verdict = v
            /\ g.post = v /\ g.retryable = run[r].retryable
            /\ g.delivered = TRUE
            /\ g.workspace = run[r].workspace
        BY <2>1, <4>1 DEF RunRecord
      <4>3. g \in RunRecord
        BY <2>1, <4>1 DEF RunRecord, At
      <4>4. v = "failed" => run[r].exit = "error"
        BY <2>1, <4>1 DEF Sound
      <4>5. Sound(g)
        BY <2>2, <4>2, <4>3, <4>4 DEF Sound
      <4>6. run[r].file = "bundle" \/ r \notin Bundles
        BY <2>1, <3>2 DEF RunRecord, File
      <4>7. QED
        BY <2>2, <4>2, <4>3, <4>5, <4>6
    <3>3. QED
      BY <3>1, <3>2
  <2> HIDE DEF g
  <2>5. /\ RunsTyped /\ run'[r] = g
        /\ \A k \in Runs \ {r} : run'[k] = run[k]
    BY <2>3, <2>4, Updated, Zenon
  <2>6. g.file \in {"log", "bundle"}
    BY <2>4 DEF RunRecord, File
  <2>7. QED
    BY <1>2, <2>1, <2>2, <2>4, <2>5, <2>6, OneJob DEF Delivered
<1>3. QED
  BY <1>1, <1>2

----------------------------------------------------------------------------
(* Upload handlers: what their steps have in common.                       *)

LEMMA Handled ==
  ASSUME TypeOK, WorkersInv, NEW u \in Uploads, NEW from \in UploadStep,
         NEW to \in UploadStep, from # "none", Handler(u, from, to)
  PROVE  /\ upload' \in [Uploads -> UploadRecord]
         /\ upload[u].step = from /\ upload[u].run \in Runs
         /\ upload'[u].step = to /\ upload'[u].run = upload[u].run
         /\ upload'[u].file = upload[u].file
         /\ \A v \in Uploads \ {u} : upload'[v] = upload[v]
BY DEF Handler, TypeOK, UploadRecord, WorkersInv

(* A handler goes on to another step.                                      *)
HandlerMoved(u) ==
  /\ upload[u].step \notin {"none", "over"} /\ upload[u].run \in Runs
  /\ upload' \in [Uploads -> UploadRecord]
  /\ upload'[u].step # "none"
  /\ upload'[u].run = upload[u].run /\ upload'[u].file = upload[u].file
  /\ \A v \in Uploads \ {u} : upload'[v] = upload[v]

RunsMoved ==
  \A r \in Runs : \/ run'[r] = run[r]
                  \/ /\ Sound(run'[r]) /\ run'[r].at # "awaiting"
                     /\ run[r] # NoRun

LEMMA WorkersFollow ==
  ASSUME TypeOK, WorkersInv, NEW u \in Uploads, HandlerMoved(u), RunsMoved,
         UNCHANGED life,
         upload'[u].step = "discarding" => run'[upload[u].run].awaits # u
  PROVE  WorkersInv'
<1>1. \A v \in Uploads : /\ upload'[v].run = upload[v].run
                         /\ upload'[v].file = upload[v].file
                         /\ upload'[v].step # "none" => upload'[v].run \in Runs
                         /\ upload'[v].step = "none" => upload'[v] = NoHandler
  BY DEF HandlerMoved, WorkersInv
<1>2. ASSUME NEW r \in Runs PROVE Sound(run'[r]) /\ Awaited(r)'
  <2>1. CASE run'[r].at # "awaiting"
    BY <2>1 DEF RunsMoved, WorkersInv, Awaited
  <2>2. CASE run'[r].at = "awaiting"
    <3>1. run'[r] = run[r] /\ Sound(run[r])
      BY <2>2 DEF RunsMoved, WorkersInv
    <3>2. /\ upload[run[r].awaits].run = r
          /\ upload[run[r].awaits].file = run[r].file
          /\ upload[run[r].awaits].step # "discarding"
      BY <2>2, <3>1 DEF WorkersInv, Awaited
    <3>3. run[r].awaits \in Uploads
      BY <2>2, <3>1 DEF Sound, RunRecord
    <3>4. upload'[run[r].awaits].step # "discarding"
      BY <3>1, <3>2, <3>3 DEF HandlerMoved
    <3>5. QED
      BY <1>1, <3>1, <3>2, <3>3, <3>4 DEF Awaited
  <2>3. QED
    BY <2>1, <2>2
<1>3. \A r \in Runs : r > life[Job].runs => run'[r] = NoRun
  BY DEF RunsMoved, WorkersInv
<1>4. QED
  BY <1>1, <1>2, <1>3 DEF WorkersInv

LEMMA DiscardVersionEffect ==
  ASSUME TypeOK, NEW u \in Uploads, DiscardVersion(u)
  PROVE  /\ objects' \in {objects, objects \ {<<u, "version">>}}
         /\ lost' \subseteq Objects /\ lost \subseteq lost'
         /\ faults' \in 0..MaxFaults
         /\ status \in {"deleting", "removed"} /\ <<u, "version">> \in objects'
              => <<u, "version">> \in lost'
BY ResultsAssumption
DEF DiscardVersion, Losing, Fault, TypeOK, Objects

(* What a handler's step does to the objects: it adds and takes away its   *)
(* own only, and a version goes only when its publication was refused.     *)
Stocked(u) ==
  /\ objects' \subseteq Objects /\ lost' \subseteq Objects
  /\ lost \subseteq lost'
  /\ \A o \in objects' \ objects : o[1] = u
  /\ \A o \in objects \ objects' :
       \/ o = <<u, "staged">>
       \/ o = <<u, "version">> /\ upload[u].step = "committed" /\ ~MayPublish(u)

(* What all steps of a handler have in common, except that the last may    *)
(* leave nothing of it.                                                    *)
HandlerStep(u) ==
  /\ HandlerMoved(u) /\ RunsTyped /\ RunsMoved /\ Stocked(u)
  /\ upload'[u].step = "discarding" => run'[upload[u].run].awaits # u
  /\ upload'[u].step # "over" /\ upload[u].step # "discarding"
  /\ faults' \in 0..MaxFaults
  /\ UNCHANGED <<life, attempts, deletion>>

LEMMA StageEffect ==
  ASSUME TypeOK, WorkersInv, NEW u \in Uploads, Stage(u)
  PROVE  /\ HandlerStep(u)
         /\ upload[u].step = "staging"
         /\ upload'[u].step \in {"checked", "discarding"}
         /\ run' = run \/ Moved(upload[u].run)
         /\ objects' = objects \cup {<<u, "staged">>}
         /\ UNCHANGED <<lost, ref, stored>>
<1>1. UNCHANGED <<life, attempts, lost, deletion, ref, stored, faults>>
      /\ objects' = objects \cup {<<u, "staged">>}
  BY DEF Stage
<1>2. Stocked(u) /\ faults' \in 0..MaxFaults
  BY <1>1 DEF Stocked, TypeOK, Objects
<1>3. CASE Handler(u, "staging", "checked") /\ UNCHANGED run
  <2>1. /\ HandlerMoved(u) /\ upload[u].step = "staging"
        /\ upload'[u].step = "checked"
    BY <1>3, Handled DEF HandlerMoved, UploadStep
  <2>2. RunsTyped /\ RunsMoved
    BY <1>3 DEF RunsTyped, RunsMoved, TypeOK
  <2>3. QED
    BY <1>1, <1>2, <1>3, <2>1, <2>2 DEF HandlerStep
<1>4. CASE Handler(u, "staging", "discarding") /\ Answer(u, "final")
  <2>1. /\ HandlerMoved(u) /\ upload[u].step = "staging"
        /\ upload'[u].step = "discarding" /\ upload[u].run \in Runs
    BY <1>4, Handled DEF HandlerMoved, UploadStep
  <2>2. /\ RunsTyped /\ run'[upload[u].run].awaits # u
        /\ run' = run \/ Moved(upload[u].run)
    BY <1>4, <2>1, AnswerMoves DEF WorkersInv
  <2>3. RunsMoved
    BY <2>2 DEF RunsMoved, Moved
  <2>4. QED
    BY <1>1, <1>2, <2>1, <2>2, <2>3 DEF HandlerStep
<1>5. QED
  BY <1>3, <1>4 DEF Stage

LEMMA StageFailsEffect ==
  ASSUME TypeOK, WorkersInv, NEW u \in Uploads, StageFails(u)
  PROVE  /\ HandlerStep(u)
         /\ upload[u].step = "staging" /\ upload'[u].step = "discarding"
         /\ run' = run \/ Moved(upload[u].run)
         /\ UNCHANGED <<objects, lost, ref, stored>>
<1>1. /\ UNCHANGED <<life, attempts, objects, lost, deletion, ref, stored>>
      /\ faults' \in 0..MaxFaults
  BY ResultsAssumption DEF StageFails, Fault, TypeOK
<1>2. Stocked(u)
  BY <1>1 DEF Stocked, TypeOK
<1>3. /\ HandlerMoved(u) /\ upload[u].step = "staging"
      /\ upload'[u].step = "discarding" /\ upload[u].run \in Runs
  BY Handled DEF StageFails, HandlerMoved, UploadStep
<1>4. /\ RunsTyped /\ run'[upload[u].run].awaits # u
      /\ run' = run \/ Moved(upload[u].run)
  BY <1>3, AnswerMoves DEF StageFails, WorkersInv
<1>5. RunsMoved
  BY <1>4 DEF RunsMoved, Moved
<1>6. QED
  BY <1>1, <1>2, <1>3, <1>4, <1>5 DEF HandlerStep

LEMMA CommitEffect ==
  ASSUME TypeOK, WorkersInv, NEW u \in Uploads, Commit(u)
  PROVE  /\ HandlerStep(u)
         /\ upload[u].step = "checked" /\ upload'[u].step = "committed"
         /\ objects' = objects \cup {<<u, "version">>}
         /\ UNCHANGED <<run, lost, ref, stored>>
<1>1. /\ UNCHANGED <<life, attempts, run, lost, deletion, ref, stored, faults>>
      /\ objects' = objects \cup {<<u, "version">>}
  BY DEF Commit
<1>2. Stocked(u) /\ faults' \in 0..MaxFaults
  BY <1>1 DEF Stocked, TypeOK, Objects
<1>3. /\ HandlerMoved(u) /\ upload[u].step = "checked"
      /\ upload'[u].step = "committed"
  BY Handled DEF Commit, HandlerMoved, UploadStep
<1>4. RunsTyped /\ RunsMoved
  BY <1>1 DEF RunsTyped, RunsMoved, TypeOK
<1>5. QED
  BY <1>1, <1>2, <1>3, <1>4 DEF HandlerStep

LEMMA CommitFailsEffect ==
  ASSUME TypeOK, WorkersInv, NEW u \in Uploads, CommitFails(u)
  PROVE  /\ HandlerStep(u)
         /\ upload[u].step = "checked" /\ upload'[u].step = "discarding"
         /\ run' = run \/ Moved(upload[u].run)
         /\ \/ UNCHANGED objects
            \/ /\ objects' = objects \cup {<<u, "version">>}
               /\ status \in {"deleting", "removed"} =>
                    <<u, "version">> \in lost'
         /\ UNCHANGED <<ref, stored>>
<1>1. /\ UNCHANGED <<life, attempts, deletion, ref, stored>>
      /\ faults' \in 0..MaxFaults
  BY ResultsAssumption DEF CommitFails, Fault, TypeOK
<1>2. /\ Stocked(u)
      /\ \/ UNCHANGED objects
         \/ /\ objects' = objects \cup {<<u, "version">>}
            /\ status \in {"deleting", "removed"} => <<u, "version">> \in lost'
  BY DEF CommitFails, Losing, Stocked, TypeOK, Objects
<1>3. /\ HandlerMoved(u) /\ upload[u].step = "checked"
      /\ upload'[u].step = "discarding" /\ upload[u].run \in Runs
  BY Handled DEF CommitFails, HandlerMoved, UploadStep
<1>4. /\ RunsTyped /\ run'[upload[u].run].awaits # u
      /\ run' = run \/ Moved(upload[u].run)
  BY <1>3, AnswerMoves DEF CommitFails, WorkersInv
<1>5. RunsMoved
  BY <1>4 DEF RunsMoved, Moved
<1>6. QED
  BY <1>1, <1>2, <1>3, <1>4, <1>5 DEF HandlerStep

LEMMA PublishEffect ==
  ASSUME TypeOK, WorkersInv, NEW u \in Uploads, Publish(u)
  PROVE  /\ HandlerStep(u) /\ MayPublish(u)
         /\ upload[u].step = "committed" /\ upload'[u].step = "discarding"
         /\ run' = run \/ Delivered(u)
         /\ ref' = Published(u) /\ stored' = Published(u)
         /\ UNCHANGED <<objects, lost>>
<1>1. /\ UNCHANGED <<life, attempts, objects, lost, deletion, faults>>
      /\ ref' = Published(u) /\ stored' = Published(u) /\ MayPublish(u)
  BY DEF Publish
<1>2. Stocked(u) /\ faults' \in 0..MaxFaults
  BY <1>1 DEF Stocked, TypeOK
<1>3. /\ HandlerMoved(u) /\ upload[u].step = "committed"
      /\ upload'[u].step = "discarding" /\ upload[u].run \in Runs
  BY Handled DEF Publish, HandlerMoved, UploadStep
<1>4. /\ RunsTyped /\ run'[upload[u].run].awaits # u
      /\ run' = run \/ Delivered(u)
  BY <1>3, CreatedDelivers DEF Publish, WorkersInv
<1>5. RunsMoved
  BY <1>4 DEF RunsMoved, Delivered
<1>6. QED
  BY <1>1, <1>2, <1>3, <1>4, <1>5 DEF HandlerStep

LEMMA PublishRefusedEffect ==
  ASSUME TypeOK, WorkersInv, NEW u \in Uploads, PublishRefused(u)
  PROVE  /\ HandlerStep(u)
         /\ upload[u].step = "committed" /\ upload'[u].step = "discarding"
         /\ run' = run \/ Moved(upload[u].run)
         /\ status \in {"deleting", "removed"} /\ <<u, "version">> \in objects'
              => <<u, "version">> \in lost'
         /\ UNCHANGED <<ref, stored>>
<1>1. /\ UNCHANGED <<life, attempts, deletion, ref, stored>>
      /\ ~MayPublish(u) /\ DiscardVersion(u)
  BY DEF PublishRefused
<1>2. /\ HandlerMoved(u) /\ upload[u].step = "committed"
      /\ upload'[u].step = "discarding" /\ upload[u].run \in Runs
  BY Handled DEF PublishRefused, HandlerMoved, UploadStep
<1>3. /\ objects' \in {objects, objects \ {<<u, "version">>}}
      /\ lost' \subseteq Objects /\ lost \subseteq lost'
      /\ faults' \in 0..MaxFaults
      /\ status \in {"deleting", "removed"} /\ <<u, "version">> \in objects'
           => <<u, "version">> \in lost'
  BY <1>1, DiscardVersionEffect
<1>4. Stocked(u)
  BY <1>1, <1>2, <1>3 DEF Stocked, TypeOK
<1>5. /\ RunsTyped /\ run'[upload[u].run].awaits # u
      /\ run' = run \/ Moved(upload[u].run)
  BY <1>2, AnswerMoves DEF PublishRefused, WorkersInv
<1>6. RunsMoved
  BY <1>5 DEF RunsMoved, Moved
<1>7. QED
  BY <1>1, <1>2, <1>3, <1>4, <1>5, <1>6 DEF HandlerStep

LEMMA PublishUncertainEffect ==
  ASSUME TypeOK, WorkersInv, NEW u \in Uploads, PublishUncertain(u)
  PROVE  /\ HandlerStep(u) /\ MayPublish(u)
         /\ upload[u].step = "committed" /\ upload'[u].step = "discarding"
         /\ run' = run \/ Moved(upload[u].run)
         /\ ref' = ref /\ stored' \in {stored, Published(u)}
         /\ UNCHANGED <<objects, lost>>
<1>1. /\ UNCHANGED <<life, attempts, objects, lost, deletion, ref>>
      /\ stored' \in {stored, Published(u)} /\ MayPublish(u)
      /\ faults' \in 0..MaxFaults
  BY ResultsAssumption DEF PublishUncertain, KeepUncertain, Fault, TypeOK
<1>2. Stocked(u)
  BY <1>1 DEF Stocked, TypeOK
<1>3. /\ HandlerMoved(u) /\ upload[u].step = "committed"
      /\ upload'[u].step = "discarding" /\ upload[u].run \in Runs
  BY Handled DEF PublishUncertain, HandlerMoved, UploadStep
<1>4. /\ RunsTyped /\ run'[upload[u].run].awaits # u
      /\ run' = run \/ Moved(upload[u].run)
  BY <1>3, AnswerMoves DEF PublishUncertain, WorkersInv
<1>5. RunsMoved
  BY <1>4 DEF RunsMoved, Moved
<1>6. QED
  BY <1>1, <1>2, <1>3, <1>4, <1>5 DEF HandlerStep

(* The handler is over where something is left of the upload, and as if it *)
(* had never been otherwise; no worker waits for it by then.               *)
LEMMA DiscardEffect ==
  ASSUME TypeOK, WorkersInv, NEW u \in Uploads, Discard(u)
  PROVE  /\ upload' \in [Uploads -> UploadRecord] /\ faults' \in 0..MaxFaults
         /\ Stocked(u)
         /\ upload[u].step = "discarding" /\ upload[u].run \in Runs
         /\ \/ /\ upload'[u].step = "over"
               /\ upload'[u].run = upload[u].run
               /\ upload'[u].file = upload[u].file
            \/ /\ upload'[u] = NoHandler /\ ~Referenced(u)
               /\ \A o \in objects' : o[1] # u
         /\ \A v \in Uploads \ {u} : upload'[v] = upload[v]
         /\ status \in {"deleting", "removed"} /\ <<u, "staged">> \in objects'
              => <<u, "staged">> \in lost'
         /\ UNCHANGED <<life, attempts, run, deletion, ref, stored>>
<1>1. /\ UNCHANGED <<life, attempts, run, deletion, ref, stored>>
      /\ upload[u].step = "discarding"
      /\ \/ objects' = objects \ {<<u, "staged">>} /\ UNCHANGED <<lost, faults>>
         \/ Fault /\ Losing({<<u, "staged">>} \cap objects) /\ UNCHANGED objects
  BY DEF Discard
<1>2. /\ Stocked(u) /\ faults' \in 0..MaxFaults
      /\ status \in {"deleting", "removed"} /\ <<u, "staged">> \in objects'
           => <<u, "staged">> \in lost'
  BY <1>1, ResultsAssumption DEF Stocked, Losing, Fault, TypeOK, Objects
<1>3. \/ upload' = [upload EXCEPT ![u] = [upload[u] EXCEPT !.step = "over"]]
      \/ /\ upload' = [upload EXCEPT ![u] = NoHandler] /\ ~Referenced(u)
         /\ \A o \in objects' : o[1] # u
  <2>1. CASE Referenced(u) \/ \E o \in objects' : o[1] = u
    BY <2>1, Zenon DEF Discard
  <2>2. CASE ~(Referenced(u) \/ \E o \in objects' : o[1] = u)
    BY <2>2, Zenon DEF Discard
  <2>3. QED
    BY <2>1, <2>2
<1>4. upload[u].run \in Runs
  BY <1>1 DEF WorkersInv
<1>5. NoHandler \in UploadRecord
  BY DEF NoHandler, UploadRecord, UploadStep, File
<1>6. [upload[u] EXCEPT !.step = "over"] \in UploadRecord
  BY DEF TypeOK, UploadRecord, UploadStep
<1>7. /\ upload' \in [Uploads -> UploadRecord]
      /\ \/ /\ upload'[u].step = "over"
            /\ upload'[u].run = upload[u].run
            /\ upload'[u].file = upload[u].file
         \/ /\ upload'[u] = NoHandler /\ ~Referenced(u)
            /\ \A o \in objects' : o[1] # u
      /\ \A v \in Uploads \ {u} : upload'[v] = upload[v]
  <2>1. upload \in [Uploads -> UploadRecord] /\ upload[u] \in UploadRecord
    BY DEF TypeOK
  <2>2. CASE upload' = [upload EXCEPT ![u] = [upload[u] EXCEPT !.step = "over"]]
    BY <1>6, <2>1, <2>2 DEF UploadRecord
  <2>3. CASE /\ upload' = [upload EXCEPT ![u] = NoHandler] /\ ~Referenced(u)
             /\ \A o \in objects' : o[1] # u
    BY <1>5, <2>1, <2>3
  <2>4. QED
    BY <1>3, <2>2, <2>3
<1>8. QED
  BY <1>1, <1>2, <1>4, <1>7

----------------------------------------------------------------------------
(* Types, and the invariant of workers and handlers.                       *)

LEMMA PublishedType ==
  ASSUME TypeOK, NEW u \in Uploads
  PROVE  Published(u) \in [File -> Reference]
BY DEF Published, TypeOK, UploadRecord, Reference

LEMMA HandlerTypes ==
  ASSUME TypeOK, WorkersInv, NEW u \in Uploads, HandleUpload(u)
  PROVE  TypeOK' /\ WorkersInv'
<1> USE DEF HandleUpload
<1>1. ASSUME HandlerStep(u), ref' \in {ref, Published(u)},
             stored' \in {stored, Published(u)}
      PROVE  TypeOK' /\ WorkersInv'
  <2>1. ref' \in [File -> Reference] /\ stored' \in [File -> Reference]
    BY <1>1, PublishedType DEF TypeOK
  <2>2. TypeOK'
    BY <1>1, <2>1
    DEF TypeOK, HandlerStep, HandlerMoved, RunsTyped, Stocked
  <2>3. WorkersInv'
    BY <1>1, WorkersFollow DEF HandlerStep
  <2>4. QED
    BY <2>2, <2>3
<1>2. CASE Stage(u)
  BY <1>1, <1>2, StageEffect
<1>3. CASE StageFails(u)
  BY <1>1, <1>3, StageFailsEffect
<1>4. CASE Commit(u)
  BY <1>1, <1>4, CommitEffect
<1>5. CASE CommitFails(u)
  BY <1>1, <1>5, CommitFailsEffect
<1>6. CASE Publish(u)
  BY <1>1, <1>6, PublishEffect
<1>7. CASE PublishRefused(u)
  BY <1>1, <1>7, PublishRefusedEffect
<1>8. CASE PublishUncertain(u)
  BY <1>1, <1>8, PublishUncertainEffect
<1>9. CASE Discard(u)
  <2>1. /\ upload' \in [Uploads -> UploadRecord] /\ faults' \in 0..MaxFaults
        /\ Stocked(u)
        /\ upload[u].step = "discarding" /\ upload[u].run \in Runs
        /\ \/ /\ upload'[u].step = "over"
              /\ upload'[u].run = upload[u].run
              /\ upload'[u].file = upload[u].file
           \/ upload'[u] = NoHandler /\ ~Referenced(u)
        /\ \A v \in Uploads \ {u} : upload'[v] = upload[v]
        /\ UNCHANGED <<life, attempts, run, deletion, ref, stored>>
    BY <1>9, DiscardEffect
  <2>2. TypeOK'
    BY <2>1 DEF TypeOK, Stocked
  <2>3. \A r \in Runs : run[r].at = "awaiting" =>
          run[r].awaits # u /\ run[r].awaits \in Uploads
    BY <2>1 DEF WorkersInv, Awaited, Sound, RunRecord
  <2>4. \A r \in Runs : Awaited(r)'
    BY <2>1, <2>3 DEF WorkersInv, Awaited
  <2>5. \A v \in Uploads :
          /\ upload'[v].step # "none" => upload'[v].run \in Runs
          /\ upload'[v].step = "none" => upload'[v] = NoHandler
    BY <2>1 DEF WorkersInv, NoHandler
  <2>6. QED
    BY <2>1, <2>2, <2>4, <2>5 DEF WorkersInv
<1>10. QED
  BY <1>2, <1>3, <1>4, <1>5, <1>6, <1>7, <1>8, <1>9

(* Workers that move on and handlers that stay as they are.                *)
LEMMA WorkersMove ==
  ASSUME TypeOK, WorkersInv, RunsTyped, RunsMoved, upload' = upload,
         life'[Job].runs = life[Job].runs
  PROVE  WorkersInv'
<1>1. ASSUME NEW r \in Runs PROVE Sound(run'[r]) /\ Awaited(r)'
  BY DEF RunsMoved, WorkersInv, Awaited
<1>2. \A r \in Runs : r > life'[Job].runs => run'[r] = NoRun
  BY DEF RunsMoved, WorkersInv
<1>3. QED
  BY <1>1, <1>2 DEF WorkersInv

(* The request goes out for the file the worker is at.                     *)
LEMMA SendUploadEffect ==
  ASSUME TypeOK, WorkersInv, NEW r \in Runs, NEW u \in Uploads, SendUpload(r, u)
  PROVE  /\ upload[u] = NoHandler /\ upload'[u].step = "staging"
         /\ upload'[u].run = r /\ upload'[u].file = run[r].file
         /\ upload' \in [Uploads -> UploadRecord]
         /\ \A v \in Uploads \ {u} : upload'[v] = upload[v]
         /\ RunsTyped /\ Sound(run'[r])
         /\ run[r].at = "sending"
         /\ run'[r].awaits = u /\ run'[r].file = run[r].file
         /\ run'[r].delivered = run[r].delivered
         /\ run'[r].workspace = run[r].workspace
         /\ run[r].workspace # "removed"
         /\ \A k \in Runs \ {r} : run'[k] = run[k]
         /\ UNCHANGED <<life, attempts, objects, lost, deletion, ref, stored,
                        faults>>
<1>1. /\ run[r].at = "sending" /\ run[r].exit # "unlogged"
      /\ upload[u] = NoHandler
      /\ upload' = [upload EXCEPT ![u] =
                     [step |-> "staging", run |-> r, file |-> run[r].file]]
      /\ run' = [run EXCEPT ![r].at = "awaiting", ![r].awaits = u]
      /\ UNCHANGED <<life, attempts, objects, lost, deletion, ref, stored,
                     faults>>
  BY DEF SendUpload
<1>2. run[r] \in RunRecord /\ Sound(run[r])
  BY DEF TypeOK, WorkersInv
<1> DEFINE g == [run[r] EXCEPT !.at = "awaiting", !.awaits = u]
<1>3. run' = [run EXCEPT ![r] = g]
  BY <1>1 DEF TypeOK
<1>4. /\ g.at = "awaiting" /\ g.exit = run[r].exit /\ g.file = run[r].file
      /\ g.awaits = u /\ g.verdict = run[r].verdict
      /\ g.post = run[r].post /\ g.retryable = run[r].retryable
      /\ g.delivered = run[r].delivered /\ g.workspace = run[r].workspace
  BY <1>2 DEF RunRecord
<1>5. g \in RunRecord
  BY <1>2 DEF RunRecord, At
<1> HIDE DEF g
<1>6. Sound(g) /\ run[r].workspace # "removed"
  BY <1>1, <1>2, <1>4, <1>5, OneJob DEF Sound
<1>7. /\ RunsTyped /\ run'[r] = g
      /\ \A k \in Runs \ {r} : run'[k] = run[k]
  BY <1>3, <1>5, Updated, Zenon
<1>8. run[r].file \in File
  BY <1>2 DEF RunRecord
<1>9. /\ upload' \in [Uploads -> UploadRecord]
      /\ upload'[u].step = "staging"
      /\ upload'[u].run = r /\ upload'[u].file = run[r].file
      /\ \A v \in Uploads \ {u} : upload'[v] = upload[v]
  BY <1>1, <1>8 DEF TypeOK, UploadRecord, UploadStep
<1>10. QED
  BY <1>1, <1>4, <1>6, <1>7, <1>9

LEMMA SendUploadTypes ==
  ASSUME TypeOK, WorkersInv, NEW r \in Runs, NEW u \in Uploads, SendUpload(r, u)
  PROVE  TypeOK' /\ WorkersInv'
<1>1. /\ upload[u] = NoHandler /\ upload'[u].step = "staging"
      /\ upload'[u].run = r /\ upload'[u].file = run[r].file
      /\ upload' \in [Uploads -> UploadRecord]
      /\ \A v \in Uploads \ {u} : upload'[v] = upload[v]
      /\ RunsTyped /\ Sound(run'[r])
      /\ run[r].at = "sending"
      /\ run'[r].awaits = u /\ run'[r].file = run[r].file
      /\ \A k \in Runs \ {r} : run'[k] = run[k]
      /\ UNCHANGED <<life, attempts, objects, lost, deletion, ref, stored,
                     faults>>
  BY SendUploadEffect, Zenon
<1>2. TypeOK'
  BY <1>1 DEF TypeOK, RunsTyped
<1>3. Awaited(r)'
  BY <1>1 DEF Awaited
<1>4. ASSUME NEW k \in Runs \ {r} PROVE Awaited(k)'
  <2>1. run'[k] = run[k] /\ Sound(run[k]) /\ Awaited(k)
    BY <1>1 DEF WorkersInv
  <2>2. run[k].at = "awaiting" => run[k].awaits \in Uploads
    BY <2>1 DEF Sound, RunRecord
  <2>3. run[k].at = "awaiting" => run[k].awaits # u
    BY <1>1, <2>1, OneJob DEF Awaited, NoHandler, Runs
  <2>4. QED
    BY <1>1, <2>1, <2>2, <2>3 DEF Awaited
<1>5. \A k \in Runs : k > life'[Job].runs => run'[k] = NoRun
  <2>1. ~(r > life[Job].runs)
    BY <1>1 DEF WorkersInv, NoRun
  <2>2. QED
    BY <1>1, <2>1 DEF WorkersInv
<1>6. \A v \in Uploads : /\ upload'[v].step # "none" => upload'[v].run \in Runs
                         /\ upload'[v].step = "none" => upload'[v] = NoHandler
  BY <1>1 DEF WorkersInv
<1>7. \A k \in Runs : Sound(run'[k])
  BY <1>1 DEF WorkersInv
<1>8. QED
  BY <1>2, <1>3, <1>4, <1>5, <1>6, <1>7 DEF WorkersInv

LEMMA AgentTypes ==
  ASSUME TypeOK, Numbered, WorkersInv, NEW r \in Runs, Agent(r)
  PROVE  TypeOK' /\ Numbered' /\ WorkersInv'
<1>1. CASE \E u \in Uploads : SendUpload(r, u)
  <2>1. PICK u \in Uploads : SendUpload(r, u)
    BY <1>1
  <2>2. UNCHANGED <<life, attempts>>
    BY <2>1, SendUploadEffect
  <2>3. QED
    BY <2>1, <2>2, SendUploadTypes DEF Numbered, status, CanRun
<1>2. CASE \/ FinishExecution(r) \/ UploadEnds(r) \/ UploadRetried(r)
           \/ FailDelivery(r) \/ Report(r) \/ ReportFails(r) \/ Reread(r)
           \/ Confirm(r) \/ Dies(r)
  <2>1. Moved(r) /\ RunsTyped
    BY <1>2, AgentMoves DEF WorkersInv
  <2>2. RunsMoved
    BY <2>1 DEF RunsMoved, Moved
  <2>3. UNCHANGED <<attempts, upload, objects, lost, deletion, ref, faults>>
    BY <1>2
    DEF FinishExecution, UploadEnds, UploadRetried, FailDelivery, Report,
        ReportFails, Reread, Confirm, Dies, server
  <2>4. CASE Report(r)
    <3>1. /\ life' \in [Jobs -> LifeRecord(Job)] /\ Numbered'
          /\ life'[Job].runs = life[Job].runs /\ stored' = ref
      BY <2>4, ReportLife DEF WorkersInv
    <3>2. QED
      BY <2>1, <2>2, <2>3, <3>1, WorkersMove DEF TypeOK, RunsTyped
  <2>5. CASE ~Report(r)
    <3>1. UNCHANGED <<life, stored>>
      BY <1>2, <2>5
      DEF FinishExecution, UploadEnds, UploadRetried, FailDelivery,
          ReportFails, Reread, Confirm, Dies, server
    <3>2. Numbered'
      BY <2>3, <3>1 DEF Numbered, status, CanRun
    <3>3. QED
      BY <2>1, <2>2, <2>3, <3>1, <3>2, WorkersMove DEF TypeOK, RunsTyped
  <2>6. QED
    BY <2>4, <2>5
<1>3. QED
  BY <1>1, <1>2 DEF Agent

LEMMA BeginRunEffect ==
  ASSUME TypeOK, Numbered, WorkersInv, BeginRun
  PROVE  LET r == life[Job].runs + 1
         IN  /\ r \in Runs /\ run[r] = NoRun
             /\ RunsTyped /\ Sound(run'[r]) /\ run'[r].at # "awaiting"
             /\ ~run'[r].delivered /\ run'[r].file = "log"
             /\ run'[r].workspace # "removed"
             /\ \A k \in Runs \ {r} : run'[k] = run[k]
<1> DEFINE r == life[Job].runs + 1
<1>1. r \in Runs /\ r > life[Job].runs
  <2>1. r \in Runs
    BY BeginRunLife
  <2>2. life[Job].runs \in Nat
    BY OneJob DEF TypeOK, LifeRecord
  <2>3. QED
    BY <2>1, <2>2
<1>2. \/ run' = [run EXCEPT ![r].at = "executing", ![r].workspace = "kept"]
      \/ run' = [run EXCEPT ![r].at = "reporting", ![r].exit = "unstarted",
                            ![r].post = "failed"]
  BY DEF BeginRun
<1> HIDE DEF r
<1>3. run[r] = NoRun
  BY <1>1 DEF WorkersInv
<1>4. CASE run' = [run EXCEPT ![r].at = "executing", ![r].workspace = "kept"]
  <2> DEFINE g == [NoRun EXCEPT !.at = "executing", !.workspace = "kept"]
  <2>1. run' = [run EXCEPT ![r] = g]
    BY <1>1, <1>3, <1>4 DEF TypeOK
  <2>2. /\ g.at = "executing" /\ g.exit = "none" /\ g.file = "log"
        /\ g.awaits = NoUpload /\ g.verdict = "none"
        /\ g.post = "none" /\ g.retryable = TRUE
        /\ g.delivered = FALSE /\ g.workspace = "kept"
    BY DEF NoRun
  <2>3. g \in RunRecord
    BY DEF NoRun, RunRecord, At, Exit, File
  <2> HIDE DEF g
  <2>4. Sound(g)
    BY <2>2, <2>3 DEF Sound
  <2>5. /\ RunsTyped /\ run'[r] = g
        /\ \A k \in Runs \ {r} : run'[k] = run[k]
    BY <1>1, <2>1, <2>3, Updated, Zenon
  <2>6. QED
    BY <1>1, <1>3, <2>2, <2>4, <2>5 DEF r
<1>5. CASE run' = [run EXCEPT ![r].at = "reporting", ![r].exit = "unstarted",
                             ![r].post = "failed"]
  <2> DEFINE g == [NoRun EXCEPT !.at = "reporting", !.exit = "unstarted",
                                !.post = "failed"]
  <2>1. run' = [run EXCEPT ![r] = g]
    BY <1>1, <1>3, <1>5 DEF TypeOK
  <2>2. /\ g.at = "reporting" /\ g.exit = "unstarted" /\ g.file = "log"
        /\ g.awaits = NoUpload /\ g.verdict = "none"
        /\ g.post = "failed" /\ g.retryable = TRUE
        /\ g.delivered = FALSE /\ g.workspace = "none"
    BY DEF NoRun
  <2>3. g \in RunRecord
    BY DEF NoRun, RunRecord, At, Exit, File
  <2> HIDE DEF g
  <2>4. Sound(g)
    BY <2>2, <2>3 DEF Sound
  <2>5. /\ RunsTyped /\ run'[r] = g
        /\ \A k \in Runs \ {r} : run'[k] = run[k]
    BY <1>1, <2>1, <2>3, Updated, Zenon
  <2>6. QED
    BY <1>1, <1>3, <2>2, <2>4, <2>5 DEF r
<1>6. QED
  BY <1>2, <1>4, <1>5

LEMMA BeginRunTypes ==
  ASSUME TypeOK, Numbered, WorkersInv, BeginRun
  PROVE  TypeOK' /\ Numbered' /\ WorkersInv'
<1> DEFINE r == life[Job].runs + 1
<1>1. /\ r \in Runs /\ run[r] = NoRun
      /\ RunsTyped /\ Sound(run'[r]) /\ run'[r].at # "awaiting"
      /\ \A k \in Runs \ {r} : run'[k] = run[k]
  BY BeginRunEffect
<1>2. /\ life' \in [Jobs -> LifeRecord(Job)] /\ Numbered'
      /\ life'[Job].runs = r /\ stored' = ref /\ attempts' = attempts
  BY BeginRunLife
<1>3. UNCHANGED <<upload, objects, lost, deletion, ref, faults>>
  BY DEF BeginRun
<1>4. life[Job].runs \in Nat
  BY OneJob DEF TypeOK, LifeRecord
<1>5. \A k \in Runs : k > r => k > life[Job].runs /\ k # r
  BY <1>4 DEF Runs
<1> HIDE DEF r
<1>6. TypeOK'
  BY <1>1, <1>2, <1>3 DEF TypeOK, RunsTyped
<1>7. \A k \in Runs : Sound(run'[k])
  BY <1>1 DEF WorkersInv
<1>8. \A k \in Runs : Awaited(k)'
  BY <1>1, <1>3 DEF WorkersInv, Awaited
<1>9. \A k \in Runs : k > life'[Job].runs => run'[k] = NoRun
  BY <1>1, <1>2, <1>5 DEF WorkersInv
<1>10. WorkersInv'
  BY <1>3, <1>7, <1>8, <1>9 DEF WorkersInv
<1>11. QED
  BY <1>2, <1>6, <1>10

(* A restart: handlers stop where they are, references are read again.     *)
LEMMA RestartEffect ==
  ASSUME TypeOK, WorkersInv, Restart
  PROVE  /\ UNCHANGED <<life, attempts, objects, stored, run>>
         /\ ref' = stored /\ faults' \in 0..MaxFaults
         /\ upload' \in [Uploads -> UploadRecord]
         /\ \A u \in Uploads :
              /\ upload'[u].run = upload[u].run
              /\ upload'[u].file = upload[u].file
              /\ upload'[u].step = IF upload[u].step = "none" THEN "none"
                                                             ELSE "over"
              /\ upload'[u].step = "none" => upload'[u] = NoHandler
         /\ deletion' \in DeletionRecord
         /\ deletion'.step = "none" /\ deletion'.cleans = deletion.cleans
         /\ lost' \subseteq Objects /\ lost \subseteq lost'
         /\ status \in {"deleting", "removed"} =>
              \A o \in objects :
                o \in lost' \/ upload[o[1]].step = "over" \/ Referenced(o[1])
<1>1. /\ UNCHANGED <<life, attempts, objects, stored, run>>
      /\ ref' = stored /\ faults' \in 0..MaxFaults
      /\ upload' = [u \in Uploads |->
                     IF upload[u].step = "none" THEN NoHandler
                     ELSE [upload[u] EXCEPT !.step = "over"]]
      /\ Losing({o \in objects :
                  upload[o[1]].step # "over" /\ ~Referenced(o[1])})
      /\ deletion' = [deletion EXCEPT !.step = "none"]
  BY ResultsAssumption DEF Restart, Fault, TypeOK
<1>2. NoHandler \in UploadRecord
  BY DEF NoHandler, UploadRecord, UploadStep, File
<1>3. \A u \in Uploads :
        /\ upload[u] \in UploadRecord
        /\ [upload[u] EXCEPT !.step = "over"] \in UploadRecord
        /\ [upload[u] EXCEPT !.step = "over"].step = "over"
        /\ [upload[u] EXCEPT !.step = "over"].run = upload[u].run
        /\ [upload[u] EXCEPT !.step = "over"].file = upload[u].file
        /\ upload[u].step = "none" => upload[u] = NoHandler
  BY DEF TypeOK, WorkersInv, UploadRecord, UploadStep
<1>4. upload' \in [Uploads -> UploadRecord]
  BY <1>1, <1>2, <1>3
<1>5. \A u \in Uploads :
        /\ upload'[u].run = upload[u].run
        /\ upload'[u].file = upload[u].file
        /\ upload'[u].step = IF upload[u].step = "none" THEN "none" ELSE "over"
        /\ upload'[u].step = "none" => upload'[u] = NoHandler
  BY <1>1, <1>3 DEF NoHandler
<1>6. /\ deletion' \in DeletionRecord
      /\ deletion'.step = "none" /\ deletion'.cleans = deletion.cleans
  BY <1>1 DEF TypeOK, DeletionRecord
<1>7. lost' \subseteq Objects /\ lost \subseteq lost'
  BY <1>1 DEF Losing, TypeOK
<1>8. status \in {"deleting", "removed"} =>
        \A o \in objects :
          o \in lost' \/ upload[o[1]].step = "over" \/ Referenced(o[1])
  BY <1>1 DEF Losing
<1>9. QED
  BY <1>1, <1>4, <1>5, <1>6, <1>7, <1>8

LEMMA ControlPlaneTypes ==
  ASSUME TypeOK, Numbered, WorkersInv, DeletionInv, ControlPlane
  PROVE  TypeOK' /\ Numbered' /\ WorkersInv'
<1>1. ASSUME UNCHANGED <<run, upload>>, life'[Job].runs = life[Job].runs
      PROVE  WorkersInv'
  <2>1. RunsTyped /\ RunsMoved
    BY <1>1 DEF RunsTyped, RunsMoved, TypeOK
  <2>2. QED
    BY <1>1, <2>1, WorkersMove
<1>2. CASE Advance
  <2>1. /\ life' \in [Jobs -> LifeRecord(Job)] /\ attempts' \in Runs \cup {0}
        /\ Numbered' /\ life'[Job].runs = life[Job].runs /\ stored' = ref
        /\ UNCHANGED <<upload, objects, lost, deletion, ref, run, faults>>
    BY <1>2, AdvanceLife DEF Advance, Unowned
  <2>2. QED
    BY <1>1, <2>1 DEF TypeOK
<1>3. CASE RequestCancel
  <2>1. /\ life' \in [Jobs -> LifeRecord(Job)] /\ attempts' = attempts
        /\ Numbered' /\ life'[Job].runs = life[Job].runs /\ stored' = ref
        /\ UNCHANGED <<upload, objects, lost, deletion, ref, run, faults>>
    BY <1>3, RequestCancelLife DEF RequestCancel, Unowned
  <2>2. QED
    BY <1>1, <2>1 DEF TypeOK
<1>4. CASE BeginRun
  BY <1>4, BeginRunTypes
<1>5. CASE \E cleans \in BOOLEAN : BeginDeletion(cleans)
  <2>1. /\ life' \in [Jobs -> LifeRecord(Job)] /\ attempts' = attempts
        /\ Numbered' /\ life'[Job].runs = life[Job].runs
    BY <1>5, DeletionLife
  <2>2. PICK cleans \in BOOLEAN :
          /\ deletion' = [step |-> IF cleans THEN "removing" ELSE "finishing",
                          cleans |-> cleans,
                          todo |-> IF cleans THEN objects ELSE {}]
          /\ stored' = ref
          /\ UNCHANGED <<upload, objects, lost, ref, run, faults>>
    BY <1>5 DEF BeginDeletion, Goes
  <2>3. deletion' \in DeletionRecord
    BY <2>2 DEF DeletionRecord, TypeOK
  <2>4. QED
    BY <1>1, <2>1, <2>2, <2>3 DEF TypeOK
<1>6. CASE RemoveObjects
  <2>1. /\ UNCHANGED <<life, attempts, upload, ref, stored, run, faults>>
        /\ objects' = objects \ deletion.todo /\ lost' = lost \ deletion.todo
        /\ deletion' = [deletion EXCEPT !.step = "finishing", !.todo = {}]
    BY <1>6 DEF RemoveObjects
  <2>2. deletion' \in DeletionRecord
    BY <2>1 DEF TypeOK, DeletionRecord
  <2>3. Numbered'
    BY <2>1 DEF Numbered, status, CanRun
  <2>4. QED
    BY <1>1, <2>1, <2>2, <2>3 DEF TypeOK
<1>7. CASE RemovalFails
  <2>1. PICK some \in SUBSET deletion.todo :
          objects' = objects \ some /\ lost' = lost \ some
    BY <1>7 DEF RemovalFails
  <2>2. /\ UNCHANGED <<life, attempts, upload, ref, stored, run>>
        /\ deletion' = NoDeletion /\ faults' \in 0..MaxFaults
    BY <1>7, ResultsAssumption DEF RemovalFails, Fault, TypeOK
  <2>3. NoDeletion \in DeletionRecord
    BY DEF NoDeletion, DeletionRecord
  <2>4. Numbered'
    BY <2>2 DEF Numbered, status, CanRun
  <2>5. QED
    BY <1>1, <2>1, <2>2, <2>3, <2>4 DEF TypeOK
<1>8. CASE FinishDeletion
  <2>1. /\ life' \in [Jobs -> LifeRecord(Job)] /\ attempts' = attempts
        /\ Numbered' /\ life'[Job].runs = life[Job].runs
    BY <1>8, DeletionLife
  <2>2. /\ deletion' = [deletion EXCEPT !.step = "none"]
        /\ ref' = [f \in File |-> NoReference]
        /\ stored' = [f \in File |-> NoReference]
        /\ UNCHANGED <<upload, objects, lost, run, faults>>
    BY <1>8 DEF FinishDeletion
  <2>3. deletion' \in DeletionRecord
    BY <2>2 DEF TypeOK, DeletionRecord
  <2>4. NoReference \in Reference
    BY DEF NoReference, Reference
  <2>5. QED
    BY <1>1, <2>1, <2>2, <2>3, <2>4 DEF TypeOK
<1>9. CASE Restart
  <2>1. /\ UNCHANGED <<life, attempts, objects, stored, run>>
        /\ ref' = stored /\ faults' \in 0..MaxFaults
        /\ upload' \in [Uploads -> UploadRecord]
        /\ \A u \in Uploads :
             /\ upload'[u].run = upload[u].run
             /\ upload'[u].file = upload[u].file
             /\ upload'[u].step = IF upload[u].step = "none" THEN "none"
                                                            ELSE "over"
             /\ upload'[u].step = "none" => upload'[u] = NoHandler
        /\ deletion' \in DeletionRecord /\ lost' \subseteq Objects
    BY <1>9, RestartEffect, Zenon
  <2>2. TypeOK'
    BY <2>1 DEF TypeOK
  <2>3. Numbered'
    BY <2>1 DEF Numbered, status, CanRun
  <2>4. \A r \in Runs : run[r].at = "awaiting" => run[r].awaits \in Uploads
    BY DEF WorkersInv, Sound, RunRecord
  <2>5. \A r \in Runs : Awaited(r)'
    BY <2>1, <2>4 DEF WorkersInv, Awaited
  <2>6. WorkersInv'
    BY <2>1, <2>5 DEF WorkersInv
  <2>7. QED
    BY <2>2, <2>3, <2>6
<1>10. QED
  BY <1>2, <1>3, <1>4, <1>5, <1>6, <1>7, <1>8, <1>9 DEF ControlPlane

----------------------------------------------------------------------------
(* References: what holds of them outside a publication.                   *)

(* The last run delivers nothing new, and a workspace goes only if the job *)
(* shows the verdict that was delivered.                                   *)
NothingNew ==
  /\ \A r \in Runs : r = life'[Job].runs =>
       /\ run'[r].file = "bundle" =>
            r = life[Job].runs /\ run[r].file = "bundle"
       /\ run'[r].delivered => r = life[Job].runs /\ run[r].delivered
  /\ \A r \in Runs : run'[r].workspace = "removed" =>
       /\ run'[r].verdict = run[r].verdict
       /\ \/ run[r].workspace = "removed"
          \/ /\ run[r].delivered /\ Confirmed(r)
             /\ run[r].verdict \in {"succeeded", "failed"}

VersionsStay(refs) ==
  \A f \in File :
    refs[f] # NoReference /\ refs[f].upload \in Uploads =>
      LET u == refs[f].upload
      IN  /\ upload'[u].run = upload[u].run
          /\ upload'[u].file = upload[u].file
          /\ upload'[u].step \in {"discarding", "over"}
          /\ Kept' /\ HasVersion(u) => HasVersion(u)'

LEMMA MovedNothingNew ==
  ASSUME TypeOK, NEW r \in Runs, Sound(run[r]), Moved(r),
         life'[Job].runs = life[Job].runs
  PROVE  NothingNew
<1>1. \A k \in Runs \ {r} : run'[k] = run[k]
  BY DEF Moved
<1>2. run'[r].workspace = "removed" =>
        /\ run'[r].verdict = run[r].verdict
        /\ run[r].delivered /\ Confirmed(r)
        /\ run[r].verdict \in {"succeeded", "failed"}
  <2>1. run[r].verdict \in {"none", "succeeded", "failed"}
    BY DEF Sound, RunRecord
  <2>2. status # "none"
    BY OneJob DEF TypeOK, LifeRecord, Status, status
  <2>3. QED
    BY <2>1, <2>2 DEF Moved, Confirmed
<1>3. QED
  BY <1>1, <1>2 DEF NothingNew, Moved

(* The job does not come back, nothing new is delivered, and what is       *)
(* referred to stays.                                                      *)
LEMMA ReferencesStay ==
  ASSUME TypeOK, Numbered, NEW refs, Shows(refs),
         life'[Job].status \in Status,
         Kept' => Kept,
         Kept' /\ status \in {"succeeded", "failed"} =>
           UNCHANGED <<attempts, status>>,
         status' = "succeeded" =>
           \/ status = "succeeded"
           \/ /\ Kept /\ attempts' = life[Job].runs /\ attempts' \in Runs
              /\ run[attempts'].delivered,
         status' = "removed" => status = "removed",
         NothingNew, VersionsStay(refs)
  PROVE  Shows(refs)'
<1> USE DEF NothingNew
<1>1. Attributed(refs)'
  BY DEF Shows, Attributed, VersionsStay
<1>2. LastRunShown(refs)'
  BY DEF Shows, LastRunShown
<1>3. RemovedShown(refs)'
  <2> SUFFICES ASSUME NEW r \in Runs, run'[r].workspace = "removed", Kept'
               PROVE  /\ attempts' = r
                      /\ status' = run'[r].verdict
                      /\ status' \in {"succeeded", "failed"}
                      /\ Whole(refs, r)
    BY DEF RemovedShown, Whole
  <2>1. CASE run[r].workspace = "removed"
    BY <2>1 DEF Shows, RemovedShown
  <2>2. CASE run[r].workspace # "removed"
    <3>1. /\ run[r].delivered /\ attempts = r /\ status = run[r].verdict
          /\ status \in {"succeeded", "failed"}
      BY <2>2 DEF Confirmed
    <3>2. r = life[Job].runs
      BY <3>1 DEF Numbered
    <3>3. Whole(refs, r)
      BY <3>1, <3>2 DEF Shows, LastRunShown
    <3>4. QED
      BY <3>1, <3>3
  <2>3. QED
    BY <2>1, <2>2
<1>4. SuccessShown(refs)'
  <2> SUFFICES ASSUME status' = "succeeded"
               PROVE  attempts' \in Runs /\ Whole(refs, attempts')
    BY DEF SuccessShown, Whole
  <2>1. CASE status = "succeeded"
    <3>1. Kept'
      BY DEF Kept
    <3>2. QED
      BY <2>1, <3>1 DEF Shows, SuccessShown
  <2>2. CASE status # "succeeded"
    BY <2>2 DEF Shows, LastRunShown
  <2>3. QED
    BY <2>1, <2>2
<1>5. Forgotten(refs)'
  BY DEF Shows, Forgotten
<1>6. QED
  BY <1>1, <1>2, <1>3, <1>4, <1>5 DEF Shows

(* A publication: the version belongs to the run that owns the job, which  *)
(* is its current attempt.                                                 *)
LEMMA PublicationShows ==
  ASSUME TypeOK, Numbered, WorkersInv, ReferencesInv,
         NEW u \in Uploads, HandlerStep(u), MayPublish(u),
         upload[u].step = "committed", upload'[u].step = "discarding",
         run' = run \/ Moved(upload[u].run) \/ Delivered(u),
         UNCHANGED objects, NEW refs, refs = Published(u)
  PROVE  Shows(refs)'
<1> DEFINE r == upload[u].run
           f == upload[u].file
<1>1. /\ r \in Runs /\ r = life[Job].runs /\ r = attempts
      /\ status \in {"running", "canceling"}
      /\ UNCHANGED <<life, attempts>>
  BY DEF HandlerStep, HandlerMoved, MayPublish, ValidAttempt, Owner, Numbered
<1>2. Kept /\ Kept' /\ UNCHANGED status
  BY <1>1 DEF Kept, status
<1>3. /\ f \in File /\ refs[f].upload = u /\ refs[f].attempt = r
      /\ \A g \in File \ {f} : refs[g] = ref[g]
  BY <1>1 DEF Published, TypeOK, UploadRecord
<1>4. \A v \in Uploads \ {u} : upload'[v] = upload[v]
  BY DEF HandlerStep, HandlerMoved
<1>5. upload'[u].run = r /\ upload'[u].file = f
  BY DEF HandlerStep, HandlerMoved
<1>6. Shows(ref)
  BY DEF ReferencesInv
<1>7. HasVersion(u)
  BY <1>2 DEF ReferencesInv, CommittedStored
<1> HIDE DEF r, f
<1>8. Attributed(refs)'
  <2> SUFFICES ASSUME NEW g \in File, refs[g] # NoReference
               PROVE  /\ refs[g].upload \in Uploads
                      /\ upload'[refs[g].upload].run = refs[g].attempt
                      /\ upload'[refs[g].upload].file = g
                      /\ upload'[refs[g].upload].step
                           \in {"discarding", "over"}
                      /\ HasVersion(refs[g].upload)'
    BY DEF Attributed
  <2>1. CASE g = f
    BY <1>3, <1>5, <1>7, <2>1 DEF HasVersion
  <2>2. CASE g # f
    <3>1. /\ refs[g].upload \in Uploads
          /\ upload[refs[g].upload].run = refs[g].attempt
          /\ upload[refs[g].upload].file = g
          /\ upload[refs[g].upload].step \in {"discarding", "over"}
          /\ HasVersion(refs[g].upload)
      BY <1>2, <1>3, <1>6, <2>2 DEF Shows, Attributed
    <3>2. refs[g].upload # u
      BY <3>1
    <3>3. QED
      BY <1>4, <3>1, <3>2 DEF HasVersion
  <2>3. QED
    BY <2>1, <2>2
<1>9. LastRunShown(refs)'
  <2>1. Whole(ref, r) => Whole(refs, r)
    BY <1>3 DEF Whole, File
  <2>2. /\ run[r].file = "bundle" => ref["log"].attempt = r
        /\ run[r].delivered => Whole(ref, r)
    BY <1>1, <1>2, <1>6 DEF Shows, LastRunShown
  <2>3. ref["log"].attempt = r => refs["log"].attempt = r
    BY <1>3 DEF File
  <2>4. /\ run'[r].file = "bundle" => refs["log"].attempt = r
        /\ run'[r].delivered => Whole(refs, r)
    <3>1. CASE run' = run
      BY <2>1, <2>2, <2>3, <3>1
    <3>2. CASE Moved(r)
      BY <2>1, <2>2, <2>3, <3>2 DEF Moved
    <3>3. CASE Delivered(u)
      <4>1. /\ run[r].at = "awaiting" /\ run[r].awaits = u
            /\ run'[r].delivered => run[r].file = "bundle" \/ r \notin Bundles
        BY <3>3 DEF Delivered, r
      <4>2. run[r].file = f /\ run[r].file \in {"log", "bundle"}
        BY <1>1, <4>1 DEF WorkersInv, Awaited, f, TypeOK, RunRecord, File
      <4>3. CASE run[r].file = "log"
        BY <1>3, <4>1, <4>2, <4>3 DEF Whole
      <4>4. CASE run[r].file = "bundle"
        BY <1>3, <2>2, <2>3, <4>2, <4>4 DEF Whole
      <4>5. QED
        BY <4>2, <4>3, <4>4
    <3>4. QED
      BY <3>1, <3>2, <3>3 DEF r
  <2>5. QED
    BY <1>1, <2>4 DEF LastRunShown, Whole
<1>10. RemovedShown(refs)'
  <2>1. ASSUME NEW k \in Runs, run'[k].workspace = "removed" PROVE FALSE
    <3>1. run[k].workspace # "removed"
      BY <1>1, <1>2, <1>6 DEF Shows, RemovedShown
    <3>2. CASE run' = run
      BY <2>1, <3>1, <3>2
    <3>3. CASE Moved(r)
      <4>1. Confirmed(r) /\ k = r
        BY <2>1, <3>1, <3>3 DEF Moved
      <4>2. run[r].verdict \in {"none", "succeeded", "failed", "canceled"}
        BY <1>1 DEF TypeOK, RunRecord
      <4>3. QED
        BY <1>1, <4>1, <4>2 DEF Confirmed
    <3>4. CASE Delivered(u)
      BY <2>1, <3>1, <3>4 DEF Delivered
    <3>5. QED
      BY <3>2, <3>3, <3>4 DEF r
  <2>2. QED
    BY <2>1 DEF RemovedShown
<1>11. SuccessShown(refs)' /\ Forgotten(refs)'
  BY <1>1, <1>2 DEF SuccessShown, Forgotten
<1>12. QED
  BY <1>8, <1>9, <1>10, <1>11 DEF Shows

(* A handler's step that publishes nothing.                                *)
LEMMA HandlerReferences ==
  ASSUME TypeOK, Numbered, WorkersInv, ReferencesInv,
         NEW u \in Uploads, HandlerStep(u),
         run' = run \/ Moved(upload[u].run), NEW refs \in {ref, stored}
  PROVE  Shows(refs)'
<1>1. Shows(refs)
  BY DEF ReferencesInv
<1>2. UNCHANGED <<life, attempts>> /\ UNCHANGED <<status, Kept>>
  BY DEF HandlerStep, status, Kept
<1>3. upload[u].run \in Runs
  BY DEF HandlerStep, HandlerMoved
<1>4. NothingNew
  <2>1. CASE run' = run
    BY <1>2, <2>1 DEF NothingNew
  <2>2. CASE Moved(upload[u].run)
    BY <1>2, <1>3, <2>2, MovedNothingNew DEF WorkersInv
  <2>3. QED
    BY <2>1, <2>2
<1>5. VersionsStay(refs)
  <2> SUFFICES ASSUME NEW f \in File, refs[f] # NoReference,
                      refs[f].upload \in Uploads
               PROVE  LET v == refs[f].upload
                      IN  /\ upload'[v].run = upload[v].run
                          /\ upload'[v].file = upload[v].file
                          /\ upload'[v].step \in {"discarding", "over"}
                          /\ Kept' /\ HasVersion(v) => HasVersion(v)'
    BY DEF VersionsStay
  <2> DEFINE v == refs[f].upload
  <2>1. upload[v].step \in {"discarding", "over"}
    BY <1>1 DEF Shows, Attributed
  <2>2. upload[u].step \notin {"discarding", "over"}
    BY DEF HandlerStep, HandlerMoved
  <2>3. upload'[v] = upload[v]
    BY <2>1, <2>2 DEF HandlerStep, HandlerMoved
  <2>4. HasVersion(v) => HasVersion(v)'
    BY <2>1, <2>2 DEF HandlerStep, Stocked, HasVersion
  <2>5. QED
    BY <2>1, <2>3, <2>4
<1>6. life'[Job].status \in Status
  BY <1>2, OneJob DEF TypeOK, LifeRecord
<1>7. QED
  BY <1>1, <1>2, <1>4, <1>5, <1>6, ReferencesStay

(* A version waits for its publication where it was copied; a refusal      *)
(* takes it away and ends the wait.                                        *)
LEMMA HandlerCommitted ==
  ASSUME TypeOK, WorkersInv, ReferencesInv, NEW u \in Uploads, HandlerStep(u),
         upload'[u].step = "committed" => HasVersion(u)'
  PROVE  CommittedStored'
<1> SUFFICES ASSUME NEW v \in Uploads, upload'[v].step = "committed", Kept'
             PROVE  HasVersion(v)'
  BY DEF CommittedStored, HasVersion
<1>1. CASE v = u
  BY <1>1
<1>2. CASE v # u
  <2>1. upload'[v] = upload[v] /\ Kept
    BY <1>2 DEF HandlerStep, HandlerMoved, Kept, status
  <2>2. HasVersion(v)
    BY <2>1 DEF ReferencesInv, CommittedStored
  <2>3. QED
    BY <1>2, <2>2 DEF HandlerStep, Stocked, HasVersion
<1>3. QED
  BY <1>1, <1>2

LEMMA HandlerShows ==
  ASSUME TypeOK, Numbered, WorkersInv, ReferencesInv,
         NEW u \in Uploads, HandleUpload(u)
  PROVE  ReferencesInv'
<1>1. ASSUME HandlerStep(u), run' = run \/ Moved(upload[u].run),
             UNCHANGED <<ref, stored>>,
             upload'[u].step = "committed" => HasVersion(u)'
      PROVE  ReferencesInv'
  <2>1. \A refs \in {ref, stored} : Shows(refs)'
    BY <1>1, HandlerReferences
  <2>2. CommittedStored'
    BY <1>1, HandlerCommitted
  <2>3. QED
    BY <1>1, <2>1, <2>2 DEF ReferencesInv
<1>2. CASE Stage(u)
  BY <1>1, <1>2, StageEffect
<1>3. CASE StageFails(u)
  BY <1>1, <1>3, StageFailsEffect
<1>4. CASE Commit(u)
  BY <1>1, <1>4, CommitEffect DEF HasVersion
<1>5. CASE CommitFails(u)
  BY <1>1, <1>5, CommitFailsEffect
<1>6. CASE PublishRefused(u)
  BY <1>1, <1>6, PublishRefusedEffect
<1>7. CASE Publish(u)
  <2>1. /\ HandlerStep(u) /\ MayPublish(u)
        /\ upload[u].step = "committed" /\ upload'[u].step = "discarding"
        /\ run' = run \/ Delivered(u)
        /\ ref' = Published(u) /\ stored' = Published(u)
        /\ UNCHANGED objects
    BY <1>7, PublishEffect
  <2>2. \A refs : refs = Published(u) => Shows(refs)'
    BY <2>1, PublicationShows
  <2>3. CommittedStored'
    BY <2>1, HandlerCommitted
  <2>4. QED
    BY <2>1, <2>2, <2>3 DEF ReferencesInv
<1>8. CASE PublishUncertain(u)
  <2>1. /\ HandlerStep(u) /\ MayPublish(u)
        /\ upload[u].step = "committed" /\ upload'[u].step = "discarding"
        /\ run' = run \/ Moved(upload[u].run)
        /\ ref' = ref /\ stored' \in {stored, Published(u)}
        /\ UNCHANGED objects
    BY <1>8, PublishUncertainEffect
  <2>2. \A refs : refs = Published(u) => Shows(refs)'
    BY <2>1, PublicationShows
  <2>3. \A refs \in {ref, stored} : Shows(refs)'
    BY <2>1, HandlerReferences
  <2>4. CommittedStored'
    BY <2>1, HandlerCommitted
  <2>5. QED
    BY <2>1, <2>2, <2>3, <2>4 DEF ReferencesInv
<1>9. CASE Discard(u)
  <2>1. /\ Stocked(u) /\ upload[u].step = "discarding"
        /\ \/ /\ upload'[u].step = "over"
              /\ upload'[u].run = upload[u].run
              /\ upload'[u].file = upload[u].file
           \/ upload'[u] = NoHandler /\ ~Referenced(u)
        /\ \A v \in Uploads \ {u} : upload'[v] = upload[v]
        /\ UNCHANGED <<life, attempts, run, deletion, ref, stored>>
    BY <1>9, DiscardEffect
  <2>2. UNCHANGED <<status, Kept>> /\ life'[Job].status \in Status
    BY <2>1, OneJob DEF status, Kept, TypeOK, LifeRecord
  <2>3. NothingNew
    BY <2>1 DEF NothingNew
  <2>4. \A v \in Uploads : HasVersion(v) => HasVersion(v)'
    BY <2>1 DEF Stocked, HasVersion
  <2>5. ASSUME NEW refs \in {ref, stored} PROVE Shows(refs)'
    <3>1. Shows(refs)
      BY DEF ReferencesInv
    <3>2. VersionsStay(refs)
      BY <2>1, <2>4, <3>1
      DEF VersionsStay, Shows, Attributed, Referenced
    <3>3. QED
      BY <2>1, <2>2, <2>3, <3>1, <3>2, ReferencesStay
  <2>6. CommittedStored'
    <3>1. \A v \in Uploads :
            upload'[v].step = "committed" => upload[v].step = "committed"
      BY <2>1 DEF NoHandler
    <3>2. QED
      BY <2>2, <2>4, <3>1 DEF ReferencesInv, CommittedStored
  <2>7. QED
    BY <2>1, <2>5, <2>6 DEF ReferencesInv
<1>10. QED
  BY <1>2, <1>3, <1>4, <1>5, <1>6, <1>7, <1>8, <1>9 DEF HandleUpload

(* Uploads and objects stay as they are.                                   *)
LEMMA ReferencesKept ==
  ASSUME TypeOK, Numbered, ReferencesInv,
         life'[Job].status \in Status, Kept' => Kept,
         Kept' /\ status \in {"succeeded", "failed"} =>
           UNCHANGED <<attempts, status>>,
         status' = "succeeded" =>
           \/ status = "succeeded"
           \/ /\ Kept /\ attempts' = life[Job].runs /\ attempts' \in Runs
              /\ run[attempts'].delivered,
         status' = "removed" => status = "removed",
         NothingNew, UNCHANGED <<upload, objects>>,
         ref' \in {ref, stored}, stored' \in {ref, stored}
  PROVE  ReferencesInv'
<1>1. ASSUME NEW refs \in {ref, stored} PROVE Shows(refs)'
  <2>1. Shows(refs)
    BY DEF ReferencesInv
  <2>2. VersionsStay(refs)
    BY <2>1 DEF VersionsStay, Shows, Attributed, HasVersion
  <2>3. QED
    BY <2>1, <2>2, ReferencesStay
<1>2. CommittedStored'
  BY DEF ReferencesInv, CommittedStored, HasVersion
<1>3. QED
  BY <1>1, <1>2 DEF ReferencesInv

LEMMA AgentShows ==
  ASSUME TypeOK, Numbered, WorkersInv, ReferencesInv, NEW r \in Runs, Agent(r)
  PROVE  ReferencesInv'
<1>1. CASE \E u \in Uploads : SendUpload(r, u)
  <2>1. PICK u \in Uploads : SendUpload(r, u)
    BY <1>1
  <2>2. /\ upload[u] = NoHandler /\ upload'[u].step = "staging"
        /\ \A v \in Uploads \ {u} : upload'[v] = upload[v]
        /\ run'[r].file = run[r].file
        /\ run'[r].delivered = run[r].delivered
        /\ run'[r].workspace = run[r].workspace
        /\ run[r].workspace # "removed"
        /\ \A k \in Runs \ {r} : run'[k] = run[k]
        /\ UNCHANGED <<life, attempts, objects, ref, stored>>
    BY <2>1, SendUploadEffect, Zenon
  <2>3. NothingNew /\ UNCHANGED <<status, Kept>>
    BY <2>2 DEF NothingNew, status, Kept
  <2>4. life'[Job].status \in Status
    BY <2>2, OneJob DEF TypeOK, LifeRecord
  <2>5. ASSUME NEW refs \in {ref, stored} PROVE Shows(refs)'
    <3>1. Shows(refs)
      BY DEF ReferencesInv
    <3>2. upload[u].step = "none"
      BY <2>2 DEF NoHandler
    <3>3. VersionsStay(refs)
      BY <2>2, <3>1, <3>2 DEF VersionsStay, Shows, Attributed, HasVersion
    <3>4. QED
      BY <2>2, <2>3, <2>4, <3>1, <3>3, ReferencesStay
  <2>6. CommittedStored'
    BY <2>2, <2>3 DEF ReferencesInv, CommittedStored, HasVersion
  <2>7. QED
    BY <2>2, <2>5, <2>6 DEF ReferencesInv
<1>2. CASE Report(r)
  <2>1. Sound(run[r])
    BY DEF WorkersInv
  <2>2. /\ life' \in [Jobs -> LifeRecord(Job)] /\ attempts' = attempts
        /\ life'[Job].runs = life[Job].runs
        /\ r = life[Job].runs /\ r = attempts
        /\ status \in {"running", "canceling"}
        /\ status' \in {"succeeded", "failed", "queued", "canceled"}
        /\ status' = "succeeded" => run[r].post = "succeeded"
        /\ stored' = ref
    BY <1>2, <2>1, ReportLife
  <2>3. Moved(r)
    BY <1>2, <2>1, AgentMoves
  <2>4. NothingNew
    BY <2>1, <2>2, <2>3, MovedNothingNew
  <2>5. UNCHANGED <<upload, objects, ref>>
    BY <1>2 DEF Report
  <2>6. status' = "succeeded" => run[r].delivered
    BY <2>1, <2>2 DEF Sound
  <2>7. Kept /\ life'[Job].status \in Status
    BY <2>2, OneJob DEF Kept, LifeRecord
  <2>8. QED
    BY <2>2, <2>4, <2>5, <2>6, <2>7, ReferencesKept
<1>3. CASE \/ FinishExecution(r) \/ UploadEnds(r) \/ UploadRetried(r)
           \/ FailDelivery(r) \/ ReportFails(r) \/ Reread(r)
           \/ Confirm(r) \/ Dies(r)
  <2>1. Sound(run[r])
    BY DEF WorkersInv
  <2>2. Moved(r)
    BY <1>3, <2>1, AgentMoves
  <2>3. UNCHANGED <<life, attempts, upload, objects, ref, stored>>
    BY <1>3
    DEF FinishExecution, UploadEnds, UploadRetried, FailDelivery,
        ReportFails, Reread, Confirm, Dies, server
  <2>4. NothingNew
    BY <2>1, <2>2, <2>3, MovedNothingNew
  <2>5. UNCHANGED <<status, Kept>> /\ life'[Job].status \in Status
    BY <2>3, OneJob DEF status, Kept, TypeOK, LifeRecord
  <2>6. QED
    BY <2>3, <2>4, <2>5, ReferencesKept
<1>4. QED
  BY <1>1, <1>2, <1>3 DEF Agent

LEMMA ControlPlaneShows ==
  ASSUME TypeOK, Numbered, WorkersInv, ReferencesInv, DeletionInv,
         ControlPlane
  PROVE  ReferencesInv'
<1>1. ASSUME UNCHANGED run, life'[Job].runs = life[Job].runs
      PROVE  NothingNew
  BY <1>1 DEF NothingNew
<1>2. CASE Advance
  <2>1. /\ life' \in [Jobs -> LifeRecord(Job)]
        /\ life'[Job].runs = life[Job].runs
        /\ status \notin {"succeeded", "failed", "deleting", "removed"}
        /\ status' \notin {"succeeded", "deleting", "removed"}
        /\ stored' = ref /\ UNCHANGED <<upload, objects, ref, run>>
    BY <1>2, AdvanceLife DEF Advance, Unowned
  <2>2. Kept /\ life'[Job].status \in Status
    BY <2>1, OneJob DEF Kept, LifeRecord
  <2>3. QED
    BY <1>1, <2>1, <2>2, ReferencesKept
<1>3. CASE RequestCancel
  <2>1. /\ life' \in [Jobs -> LifeRecord(Job)]
        /\ life'[Job].runs = life[Job].runs
        /\ status \notin {"succeeded", "failed", "deleting", "removed"}
        /\ status' \in {"canceled", "canceling"}
        /\ stored' = ref /\ UNCHANGED <<upload, objects, ref, run>>
    BY <1>3, RequestCancelLife DEF RequestCancel, Unowned
  <2>2. Kept /\ life'[Job].status \in Status
    BY <2>1, OneJob DEF Kept, LifeRecord
  <2>3. QED
    BY <1>1, <2>1, <2>2, ReferencesKept
<1>4. CASE BeginRun
  <2> DEFINE r == life[Job].runs + 1
  <2>1. /\ r \in Runs /\ ~run'[r].delivered /\ run'[r].file = "log"
        /\ run'[r].workspace # "removed"
        /\ \A k \in Runs \ {r} : run'[k] = run[k]
    BY <1>4, BeginRunEffect
  <2>2. /\ life' \in [Jobs -> LifeRecord(Job)]
        /\ life'[Job].runs = r
        /\ status = "assigned" /\ status' = "running"
        /\ stored' = ref /\ UNCHANGED <<upload, objects, ref>>
    BY <1>4, BeginRunLife DEF BeginRun
  <2> HIDE DEF r
  <2>3. NothingNew
    BY <2>1, <2>2 DEF NothingNew
  <2>4. Kept /\ life'[Job].status \in Status
    BY <2>2, OneJob DEF Kept, LifeRecord
  <2>5. QED
    BY <2>2, <2>3, <2>4, ReferencesKept
<1>5. CASE \E cleans \in BOOLEAN : BeginDeletion(cleans)
  <2>1. /\ life' \in [Jobs -> LifeRecord(Job)]
        /\ life'[Job].runs = life[Job].runs
    BY <1>5, DeletionLife
  <2>2. /\ life'[Job].status = "deleting" /\ stored' = ref
        /\ UNCHANGED <<upload, objects, ref, run>>
    BY <1>5, OneJob DEF BeginDeletion, Goes, TypeOK, LifeRecord
  <2>3. ~Kept' /\ status' = "deleting" /\ life'[Job].status \in Status
    BY <2>2 DEF Kept, status, Status
  <2>4. QED
    BY <1>1, <2>1, <2>2, <2>3, ReferencesKept
<1>6. CASE RemoveObjects \/ RemovalFails
  <2>1. UNCHANGED <<life, attempts, upload, ref, stored, run>>
    BY <1>6 DEF RemoveObjects, RemovalFails
  <2>2. status = "deleting"
    BY <1>6 DEF RemoveObjects, RemovalFails, DeletionInv
  <2>3. /\ ~Kept' /\ status' = status /\ life'[Job].status \in Status
    BY <2>1, <2>2 DEF Kept, status, Status
  <2>4. ASSUME NEW refs \in {ref, stored} PROVE Shows(refs)'
    <3>1. Shows(refs)
      BY DEF ReferencesInv
    <3>2. VersionsStay(refs)
      BY <2>1, <2>3, <3>1 DEF VersionsStay, Shows, Attributed
    <3>3. NothingNew
      BY <1>1, <2>1
    <3>4. QED
      BY <2>2, <2>3, <3>1, <3>2, <3>3, ReferencesStay
  <2>5. CommittedStored'
    BY <2>3 DEF CommittedStored
  <2>6. QED
    BY <2>1, <2>4, <2>5 DEF ReferencesInv
<1>7. CASE FinishDeletion
  <2>1. /\ life'[Job].status = "removed"
        /\ ref' = [f \in File |-> NoReference] /\ stored' = ref'
    BY <1>7, OneJob DEF FinishDeletion, TypeOK, LifeRecord
  <2>2. status' = "removed" /\ ~Kept'
    BY <2>1 DEF status, Kept
  <2>3. ASSUME NEW refs, \A f \in File : refs[f] = NoReference
        PROVE  Shows(refs)'
    BY <2>2, <2>3
    DEF Shows, Attributed, LastRunShown, RemovedShown, SuccessShown, Forgotten
  <2>4. CommittedStored'
    BY <2>2 DEF CommittedStored
  <2>5. QED
    BY <2>1, <2>3, <2>4 DEF ReferencesInv
<1>8. CASE Restart
  <2>1. /\ UNCHANGED <<life, attempts, objects, stored, run>> /\ ref' = stored
        /\ \A u \in Uploads :
             /\ upload'[u].run = upload[u].run
             /\ upload'[u].file = upload[u].file
             /\ upload'[u].step = IF upload[u].step = "none" THEN "none"
                                                            ELSE "over"
    BY <1>8, RestartEffect, Zenon
  <2>2. UNCHANGED <<status, Kept>> /\ life'[Job].status \in Status
    BY <2>1, OneJob DEF status, Kept, TypeOK, LifeRecord
  <2>3. Shows(stored)
    BY DEF ReferencesInv
  <2>4. VersionsStay(stored)
    BY <2>1, <2>3 DEF VersionsStay, Shows, Attributed, HasVersion
  <2>5. NothingNew
    BY <1>1, <2>1
  <2>6. ASSUME NEW refs, refs = stored PROVE Shows(refs)'
    BY <2>1, <2>2, <2>3, <2>4, <2>5, <2>6, ReferencesStay
  <2>7. CommittedStored'
    BY <2>1 DEF CommittedStored
  <2>8. QED
    BY <2>1, <2>6, <2>7 DEF ReferencesInv
<1>9. QED
  BY <1>2, <1>3, <1>4, <1>5, <1>6, <1>7, <1>8 DEF ControlPlane

----------------------------------------------------------------------------
(* Deletions.                                                              *)

(* While a deletion cleans, handlers add only what they still hold, and    *)
(* give up what they leave.                                                *)
LEMMA HandlerDeletes ==
  ASSUME TypeOK, WorkersInv, DeletionInv, NEW u \in Uploads, HandlerStep(u),
         upload'[u].step \in {"none", "staging", "checked"} =>
           ~HasVersion(u)',
         Cleaning /\ upload'[u].step = "discarding" /\ HasVersion(u)' =>
           <<u, "version">> \in Doomed \cup lost'
  PROVE  DeletionInv'
<1>1. /\ UNCHANGED <<life, attempts, deletion>> /\ lost \subseteq lost'
      /\ \A v \in Uploads \ {u} : upload'[v] = upload[v]
      /\ upload'[u].step # "over"
      /\ \A o \in objects' \ objects : o[1] = u
  BY DEF HandlerStep, HandlerMoved, Stocked
<1>2. UNCHANGED <<status, Cleaning>>
  BY <1>1 DEF status, Cleaning
<1>3. Doomed \cup lost' \subseteq Doomed'
  BY <1>1 DEF Doomed
<1>4. \A v \in Uploads \ {u} : HasVersion(v)' => HasVersion(v)
  BY <1>1 DEF HasVersion
<1>5. Uncopied'
  BY <1>1, <1>4 DEF Uncopied, DeletionInv
<1>6. objects' \subseteq Objects
  BY DEF HandlerStep, Stocked
<1>7. Cleaning =>
        \A o \in objects' : o \in Doomed' \/ upload'[o[1]].step # "over"
  <2> SUFFICES ASSUME Cleaning, NEW o \in objects'
               PROVE  o \in Doomed' \/ upload'[o[1]].step # "over"
    OBVIOUS
  <2>1. o[1] \in Uploads
    BY <1>6 DEF Objects
  <2>2. CASE o[1] = u
    BY <1>1, <2>2
  <2>3. CASE o[1] # u
    <3>1. o \in objects /\ upload'[o[1]] = upload[o[1]]
      BY <1>1, <2>1, <2>3
    <3>2. QED
      BY <1>3, <3>1 DEF DeletionInv
  <2>4. QED
    BY <2>2, <2>3
<1>8. Cleaning =>
        \A v \in Uploads : upload'[v].step = "discarding" /\ HasVersion(v)' =>
          <<v, "version">> \in Doomed'
  BY <1>1, <1>3, <1>4 DEF DeletionInv
<1>9. QED
  BY <1>1, <1>2, <1>5, <1>7, <1>8 DEF DeletionInv

LEMMA HandlerDeletion ==
  ASSUME TypeOK, WorkersInv, DeletionInv, NEW u \in Uploads, HandleUpload(u)
  PROVE  DeletionInv'
<1>1. upload[u].step \in {"none", "staging", "checked"} => ~HasVersion(u)
  BY DEF DeletionInv, Uncopied
<1>2. Cleaning => status \in {"deleting", "removed"}
  BY DEF Cleaning, DeletionInv
<1>3. MayPublish(u) => ~Cleaning
  BY <1>2 DEF MayPublish, ValidAttempt
<1>4. CASE Stage(u)
  <2>1. /\ HandlerStep(u) /\ upload[u].step = "staging"
        /\ objects' = objects \cup {<<u, "staged">>}
    BY <1>4, StageEffect
  <2>2. ~HasVersion(u)'
    BY <1>1, <2>1 DEF HasVersion
  <2>3. QED
    BY <2>1, <2>2, HandlerDeletes
<1>5. CASE StageFails(u)
  <2>1. /\ HandlerStep(u) /\ upload[u].step = "staging" /\ UNCHANGED objects
    BY <1>5, StageFailsEffect
  <2>2. ~HasVersion(u)'
    BY <1>1, <2>1 DEF HasVersion
  <2>3. QED
    BY <2>1, <2>2, HandlerDeletes
<1>6. CASE Commit(u)
  BY <1>6, CommitEffect, HandlerDeletes
<1>7. CASE CommitFails(u)
  <2>1. /\ HandlerStep(u)
        /\ upload[u].step = "checked" /\ upload'[u].step = "discarding"
        /\ \/ UNCHANGED objects
           \/ status \in {"deleting", "removed"} => <<u, "version">> \in lost'
    BY <1>7, CommitFailsEffect
  <2>2. Cleaning /\ HasVersion(u)' => <<u, "version">> \in lost'
    BY <1>1, <1>2, <2>1 DEF HasVersion
  <2>3. QED
    BY <2>1, <2>2, HandlerDeletes
<1>8. CASE Publish(u)
  BY <1>3, <1>8, PublishEffect, HandlerDeletes
<1>9. CASE PublishRefused(u)
  <2>1. /\ HandlerStep(u) /\ upload'[u].step = "discarding"
        /\ status \in {"deleting", "removed"} /\ <<u, "version">> \in objects'
             => <<u, "version">> \in lost'
    BY <1>9, PublishRefusedEffect
  <2>2. QED
    BY <1>2, <2>1, HandlerDeletes DEF HasVersion
<1>10. CASE PublishUncertain(u)
  BY <1>3, <1>10, PublishUncertainEffect, HandlerDeletes
<1>11. CASE Discard(u)
  <2>1. /\ Stocked(u) /\ upload[u].step = "discarding"
        /\ upload'[u].step \in {"over", "none"}
        /\ upload'[u].step = "none" => \A o \in objects' : o[1] # u
        /\ \A v \in Uploads \ {u} : upload'[v] = upload[v]
        /\ status \in {"deleting", "removed"} /\ <<u, "staged">> \in objects'
             => <<u, "staged">> \in lost'
        /\ UNCHANGED <<life, deletion>>
    BY <1>11, DiscardEffect DEF NoHandler
  <2>2. UNCHANGED <<status, Cleaning>> /\ Doomed \cup lost' \subseteq Doomed'
    BY <2>1 DEF status, Cleaning, Doomed, Stocked
  <2>3. objects' \subseteq objects /\ objects \subseteq Objects
    BY <1>11, <2>1 DEF Stocked, Discard, TypeOK
  <2>4. \A v \in Uploads : HasVersion(v)' => HasVersion(v)
    BY <2>3 DEF HasVersion
  <2>5. Uncopied'
    <3>1. upload'[u].step = "none" => ~HasVersion(u)'
      BY <2>1 DEF HasVersion
    <3>2. QED
      BY <2>1, <2>4, <3>1 DEF DeletionInv, Uncopied
  <2>6. Cleaning =>
          \A o \in objects' : o \in Doomed' \/ upload'[o[1]].step # "over"
    <3> SUFFICES ASSUME Cleaning, NEW o \in objects'
                 PROVE  o \in Doomed' \/ upload'[o[1]].step # "over"
      OBVIOUS
    <3>1. /\ o \in objects /\ o[1] \in Uploads
          /\ o = <<o[1], "staged">> \/ o = <<o[1], "version">>
      BY <2>3 DEF Objects
    <3>2. CASE o = <<u, "staged">>
      BY <1>2, <2>1, <2>2, <3>2
    <3>3. CASE o = <<u, "version">>
      BY <2>1, <2>2, <3>1, <3>3 DEF DeletionInv, HasVersion
    <3>4. CASE o[1] # u
      BY <2>1, <2>2, <3>1, <3>4 DEF DeletionInv
    <3>5. QED
      BY <3>1, <3>2, <3>3, <3>4
  <2>7. Cleaning =>
          \A v \in Uploads :
            upload'[v].step = "discarding" /\ HasVersion(v)' =>
              <<v, "version">> \in Doomed'
    BY <2>1, <2>2, <2>4 DEF DeletionInv
  <2>8. QED
    BY <2>1, <2>2, <2>5, <2>6, <2>7 DEF DeletionInv
<1>12. QED
  BY <1>4, <1>5, <1>6, <1>7, <1>8, <1>9, <1>10, <1>11 DEF HandleUpload

LEMMA AgentDeletion ==
  ASSUME TypeOK, Numbered, WorkersInv, DeletionInv, NEW r \in Runs, Agent(r)
  PROVE  DeletionInv'
<1>1. CASE \E u \in Uploads : SendUpload(r, u)
  <2>1. PICK u \in Uploads : SendUpload(r, u)
    BY <1>1
  <2>2. /\ upload[u] = NoHandler /\ upload'[u].step = "staging"
        /\ \A v \in Uploads \ {u} : upload'[v] = upload[v]
        /\ UNCHANGED <<life, attempts, objects, lost, deletion>>
    BY <2>1, SendUploadEffect, Zenon
  <2>3. upload[u].step = "none"
    BY <2>2 DEF NoHandler
  <2>4. UNCHANGED <<status, Cleaning, Doomed>>
    BY <2>2 DEF status, Cleaning, Doomed
  <2>5. Uncopied'
    BY <2>2, <2>3 DEF DeletionInv, Uncopied, HasVersion
  <2>6. \A o \in objects : upload[o[1]].step # "over" =>
          upload'[o[1]].step # "over"
    <3>1. \A o \in objects : o[1] \in Uploads
      BY DEF TypeOK, Objects
    <3>2. QED
      BY <2>2, <3>1
  <2>7. Cleaning' => \A v \in Uploads :
          upload'[v].step = "discarding" /\ HasVersion(v)' =>
            <<v, "version">> \in Doomed'
    BY <2>2, <2>4 DEF DeletionInv, HasVersion
  <2>8. QED
    BY <2>2, <2>4, <2>5, <2>6, <2>7 DEF DeletionInv
<1>2. CASE Report(r)
  <2>1. /\ status \in {"running", "canceling"}
        /\ status' \in {"succeeded", "failed", "queued", "canceled"}
    BY <1>2, ReportLife DEF WorkersInv
  <2>2. UNCHANGED <<upload, objects, deletion>>
    BY <1>2 DEF Report
  <2>3. QED
    BY <2>1, <2>2 DEF DeletionInv, Cleaning, Uncopied, HasVersion
<1>3. CASE UNCHANGED <<life, server>>
  BY <1>3
  DEF server, DeletionInv, Cleaning, Doomed, Uncopied, HasVersion, status
<1>4. QED
  BY <1>1, <1>2, <1>3
  DEF Agent, FinishExecution, UploadEnds, UploadRetried, FailDelivery,
      ReportFails, Reread, Confirm, Dies

LEMMA ControlPlaneDeletion ==
  ASSUME TypeOK, Numbered, WorkersInv, ReferencesInv, DeletionInv,
         ControlPlane
  PROVE  DeletionInv'
<1>1. ASSUME status \notin {"deleting", "removed"}, status' # "removed",
             UNCHANGED <<upload, objects, deletion>>
      PROVE  DeletionInv'
  BY <1>1 DEF DeletionInv, Cleaning, Uncopied, HasVersion
<1>2. CASE Advance
  <2>1. /\ status \notin {"succeeded", "failed", "deleting", "removed"}
        /\ status' \notin {"succeeded", "deleting", "removed"}
        /\ UNCHANGED <<upload, objects, deletion>>
    BY <1>2, AdvanceLife DEF Advance, Unowned
  <2>2. QED
    BY <1>1, <2>1
<1>3. CASE RequestCancel
  <2>1. /\ status \notin {"succeeded", "failed", "deleting", "removed"}
        /\ status' \in {"canceled", "canceling"}
        /\ UNCHANGED <<upload, objects, deletion>>
    BY <1>3, RequestCancelLife DEF RequestCancel, Unowned
  <2>2. QED
    BY <1>1, <2>1
<1>4. CASE BeginRun
  <2>1. /\ status = "assigned" /\ status' = "running"
        /\ UNCHANGED <<upload, objects, deletion>>
    BY <1>4, BeginRunLife DEF BeginRun
  <2>2. QED
    BY <1>1, <2>1
<1>5. CASE \E cleans \in BOOLEAN : BeginDeletion(cleans)
  <2>1. PICK cleans \in BOOLEAN : BeginDeletion(cleans)
    BY <1>5
  <2>2. /\ deletion' = [step |-> IF cleans THEN "removing" ELSE "finishing",
                        cleans |-> cleans,
                        todo |-> IF cleans THEN objects ELSE {}]
        /\ life'[Job].status = "deleting"
        /\ UNCHANGED <<upload, objects, lost>>
    BY <2>1, OneJob DEF BeginDeletion, Goes, TypeOK, LifeRecord
  <2>3. status' = "deleting"
    BY <2>2 DEF status
  <2>4. Cleaning' => objects' \subseteq Doomed'
    BY <2>2, <2>3 DEF Cleaning, Doomed
  <2>5. QED
    BY <2>2, <2>3, <2>4 DEF DeletionInv, Uncopied, HasVersion
<1>6. CASE RemoveObjects
  <2>1. /\ deletion.step = "removing"
        /\ objects' = objects \ deletion.todo /\ lost' = lost \ deletion.todo
        /\ deletion' = [deletion EXCEPT !.step = "finishing", !.todo = {}]
        /\ UNCHANGED <<life, upload>>
    BY <1>6 DEF RemoveObjects
  <2>2. /\ deletion'.step = "finishing" /\ deletion'.cleans = deletion.cleans
        /\ UNCHANGED status
    BY <2>1 DEF TypeOK, DeletionRecord, status
  <2>3. /\ Cleaning' => Cleaning
        /\ Doomed = lost \cup deletion.todo /\ Doomed' = lost'
    BY <2>1, <2>2 DEF Cleaning, Doomed
  <2>4. status = "deleting"
    BY <2>1 DEF DeletionInv
  <2>5. Uncopied'
    BY <2>1 DEF DeletionInv, Uncopied, HasVersion
  <2>6. Cleaning' =>
          \A o \in objects' : o \in Doomed' \/ upload'[o[1]].step # "over"
    BY <2>1, <2>3 DEF DeletionInv
  <2>7. Cleaning' => \A v \in Uploads :
          upload'[v].step = "discarding" /\ HasVersion(v)' =>
            <<v, "version">> \in Doomed'
    BY <2>1, <2>3 DEF DeletionInv, HasVersion
  <2>8. QED
    BY <2>2, <2>4, <2>5, <2>6, <2>7 DEF DeletionInv
<1>7. CASE RemovalFails
  <2>1. /\ objects' \subseteq objects /\ deletion' = NoDeletion
        /\ UNCHANGED upload
    BY <1>7 DEF RemovalFails
  <2>2. deletion'.step = "none" /\ ~Cleaning'
    BY <2>1 DEF NoDeletion, Cleaning
  <2>3. QED
    BY <2>1, <2>2 DEF DeletionInv, Uncopied, HasVersion
<1>8. CASE FinishDeletion
  <2>1. /\ deletion.step = "finishing"
        /\ deletion' = [deletion EXCEPT !.step = "none"]
        /\ UNCHANGED <<upload, objects, lost>>
    BY <1>8 DEF FinishDeletion
  <2>2. /\ deletion'.step = "none" /\ deletion'.cleans = deletion.cleans
    BY <2>1 DEF TypeOK, DeletionRecord
  <2>3. (Cleaning' => Cleaning) /\ UNCHANGED Doomed
    BY <2>1, <2>2 DEF Cleaning, Doomed
  <2>4. QED
    BY <2>1, <2>2, <2>3 DEF DeletionInv, Uncopied, HasVersion
<1>9. CASE Restart
  <2>1. /\ UNCHANGED <<life, objects>>
        /\ \A u \in Uploads :
             upload'[u].step = IF upload[u].step = "none" THEN "none"
                                                          ELSE "over"
        /\ deletion'.step = "none" /\ deletion'.cleans = deletion.cleans
        /\ lost \subseteq lost'
        /\ status \in {"deleting", "removed"} =>
             \A o \in objects :
               o \in lost' \/ upload[o[1]].step = "over" \/ Referenced(o[1])
    BY <1>9, RestartEffect, Zenon
  <2>2. Uncopied'
    BY <2>1 DEF DeletionInv, Uncopied, HasVersion
  <2>3. ASSUME Cleaning', NEW o \in objects PROVE o \in Doomed'
    <3>1. status = "removed" /\ deletion.step = "none" /\ Cleaning
      BY <2>1, <2>3 DEF Cleaning, status, DeletionInv
    <3>2. Doomed = lost /\ Doomed' = lost'
      BY <2>1, <3>1 DEF Doomed
    <3>3. o[1] \in Uploads
      BY DEF TypeOK, Objects
    <3>4. ~Referenced(o[1])
      BY <3>1, <3>3, OneJob
      DEF Referenced, ReferencesInv, Shows, Forgotten, NoReference
    <3>5. QED
      BY <2>1, <3>1, <3>2, <3>4 DEF DeletionInv
  <2>4. QED
    BY <2>1, <2>2, <2>3 DEF DeletionInv
<1>10. QED
  BY <1>2, <1>3, <1>4, <1>5, <1>6, <1>7, <1>8, <1>9 DEF ControlPlane

----------------------------------------------------------------------------
(* The invariant, and what follows from it.                                *)

LEMMA InitResultsInv ==
  ASSUME ResultsInit
  PROVE  ResultsInv
<1>1. /\ life = [j \in Jobs |-> Unborn] /\ attempts = 0
      /\ ref = [f \in File |-> NoReference] /\ stored = ref
      /\ upload = [u \in Uploads |-> NoHandler]
      /\ objects = {} /\ lost = {} /\ deletion = NoDeletion
      /\ run = [r \in Runs |-> NoRun] /\ faults = 0
  BY DEF ResultsInit, Init
<1>2. /\ life \in [Jobs -> LifeRecord(Job)] /\ status = "absent"
      /\ life[Job].runs = 0 /\ ~life[Job].owned
  BY <1>1, OneJob DEF LifeRecord, Unborn, Status, status
<1>3. /\ NoHandler \in UploadRecord /\ NoReference \in Reference
      /\ NoDeletion \in DeletionRecord /\ NoHandler.step = "none"
      /\ NoDeletion.step = "none" /\ ~NoDeletion.cleans
  BY DEF NoHandler, UploadRecord, UploadStep, File, NoReference, Reference,
         NoDeletion, DeletionRecord
<1>4. NoRun \in RunRecord /\ Sound(NoRun)
  BY NoRunSound DEF Sound
<1>5. TypeOK
  BY <1>1, <1>2, <1>3, <1>4, ResultsAssumption DEF TypeOK
<1>6. Numbered
  BY <1>1, <1>2 DEF Numbered
<1>7. WorkersInv
  <2>1. NoRun.at = "none"
    BY DEF NoRun
  <2>2. QED
    BY <1>1, <1>3, <1>4, <2>1 DEF WorkersInv, Awaited
<1>8. ReferencesInv
  <2>1. /\ NoRun.file = "log" /\ ~NoRun.delivered
        /\ NoRun.workspace # "removed"
    BY DEF NoRun
  <2>2. Shows(ref)
    BY <1>1, <1>2, <2>1
    DEF Shows, Attributed, LastRunShown, RemovedShown, SuccessShown, Forgotten
  <2>3. QED
    BY <1>1, <1>3, <2>2 DEF ReferencesInv, CommittedStored
<1>9. DeletionInv
  BY <1>1, <1>2, <1>3 DEF DeletionInv, Cleaning, Uncopied, HasVersion
<1>10. QED
  BY <1>5, <1>6, <1>7, <1>8, <1>9 DEF ResultsInv

LEMMA NextResultsInv ==
  ASSUME ResultsInv, [ResultsNext]_vars
  PROVE  ResultsInv'
<1> USE DEF ResultsInv
<1>1. CASE ControlPlane
  BY <1>1, ControlPlaneTypes, ControlPlaneShows, ControlPlaneDeletion
<1>2. CASE \E r \in Runs : Agent(r)
  BY <1>2, AgentTypes, AgentShows, AgentDeletion
<1>3. CASE \E u \in Uploads : HandleUpload(u)
  <2>1. PICK u \in Uploads : HandleUpload(u)
    BY <1>3
  <2>2. UNCHANGED <<life, attempts>>
    BY <2>1
    DEF HandleUpload, Stage, StageFails, Commit, CommitFails, Publish,
        PublishRefused, PublishUncertain, Discard
  <2>3. Numbered'
    BY <2>2 DEF Numbered, status, CanRun
  <2>4. QED
    BY <2>1, <2>3, HandlerTypes, HandlerShows, HandlerDeletion
<1>4. CASE UNCHANGED vars
  <2>1. TypeOK' /\ Numbered' /\ WorkersInv'
    BY <1>4
    DEF vars, server, TypeOK, Numbered, status, CanRun, WorkersInv, Awaited
  <2>2. ReferencesInv'
    BY <1>4
    DEF vars, server, ReferencesInv, Shows, Attributed, LastRunShown,
        RemovedShown, SuccessShown, Forgotten, CommittedStored, Kept,
        HasVersion, status
  <2>3. DeletionInv'
    BY <1>4
    DEF vars, server, DeletionInv, Cleaning, Doomed, Uncopied, HasVersion,
        status
  <2>4. QED
    BY <2>1, <2>2, <2>3
<1>5. QED
  BY <1>1, <1>2, <1>3, <1>4 DEF ResultsNext

LEMMA ResultsInvariant == ResultsSpec => []ResultsInv
<1>1. ResultsInit => ResultsInv
  BY InitResultsInv
<1>2. ResultsInv /\ [ResultsNext]_vars => ResultsInv'
  BY NextResultsInv
<1>3. QED
  BY <1>1, <1>2, PTL DEF ResultsSpec

(* The records of upload handlers, workers, references and deletions keep  *)
(* the shapes the code gives them (artifacts.go, result_delivery.go).      *)
THEOREM ResultsTyped == ResultsSpec => []TypeOK
<1>1. ResultsInv => TypeOK
  BY DEF ResultsInv
<1>2. QED
  BY <1>1, ResultsInvariant, PTL

(* Until the job is deleted, whatever its references name can be read, in  *)
(* memory and after a restart: an uncertain transaction of                 *)
(* PublishJobArtifact never costs a version (server.go:180-188).           *)
THEOREM ReferencesReadableHolds == ResultsSpec => []ReferencesReadable
<1>1. ResultsInv => ReferencesReadable
  BY DEF ResultsInv, ReferencesInv, Shows, Attributed, ReferencesReadable
<1>2. QED
  BY <1>1, ResultsInvariant, PTL

(* A file served as the current attempt's was uploaded by the run of that  *)
(* attempt, however long its copy took (PublishJobArtifact checks the      *)
(* attempt under the store's lock, artifacts.go:22-25).                    *)
THEOREM ServedByItsRunHolds == ResultsSpec => []ServedByItsRun
<1>1. ResultsInv => ServedByItsRun
  <2> SUFFICES ASSUME ResultsInv, NEW f \in File, Served(f)
               PROVE  /\ upload[ref[f].upload].run = attempts
                      /\ upload[ref[f].upload].file = f
    BY DEF ServedByItsRun
  <2>1. Shows(ref)
    BY DEF ResultsInv, ReferencesInv
  <2>2. QED
    BY <2>1 DEF Shows, Attributed, Served
<1>2. QED
  BY <1>1, ResultsInvariant, PTL

(* A reference of an attempt is one to something, since runs count from 1. *)
LEMMA WholeServed ==
  ASSUME Whole(ref, attempts), attempts \in Runs
  PROVE  /\ Served("log")
         /\ attempts \in Bundles => Served("bundle")
<1>1. attempts # 0 /\ NoReference.attempt = 0
  BY OneJob DEF Runs, NoReference
<1>2. QED
  BY <1>1 DEF Whole, Served

(* A job succeeds with its log and files served: deliverResults reports    *)
(* success after the last upload was answered (result_delivery.go).        *)
THEOREM SucceededIsServedHolds == ResultsSpec => []SucceededIsServed
<1>1. ResultsInv => SucceededIsServed
  BY WholeServed
  DEF ResultsInv, ReferencesInv, Shows, SuccessShown, SucceededIsServed
<1>2. QED
  BY <1>1, ResultsInvariant, PTL

(* Local results are removed only when the published ones stand for them:  *)
(* the attempt is the job's last, its verdict is the job's, and its files  *)
(* are served (finishResult, result_delivery.go).                          *)
THEOREM WorkspaceKeptHolds == ResultsSpec => []WorkspaceKept
<1>1. ResultsInv => WorkspaceKept
  <2> SUFFICES ASSUME ResultsInv, NEW r \in Runs,
                      run[r].workspace = "removed", Kept
               PROVE  /\ attempts = r
                      /\ status = run[r].verdict
                      /\ Served("log")
                      /\ r \in Bundles => Served("bundle")
    BY DEF WorkspaceKept
  <2>1. attempts = r /\ status = run[r].verdict /\ Whole(ref, r)
    BY DEF ResultsInv, ReferencesInv, Shows, RemovedShown
  <2>2. QED
    BY <2>1, WholeServed
<1>2. QED
  BY <1>1, ResultsInvariant, PTL

(* Deleting a job with its artifacts leaves no object that neither a live  *)
(* upload handler holds nor a failed discard gave up, whatever uploads and *)
(* restarts happen while the listed objects are removed (server.go).       *)
THEOREM DeletedLeavesNothingHolds == ResultsSpec => []DeletedLeavesNothing
<1>1. ResultsInv => DeletedLeavesNothing
  <2> SUFFICES ASSUME ResultsInv, status = "removed", deletion.cleans
               PROVE  \A o \in objects :
                        o \in lost \/ upload[o[1]].step # "over"
    BY DEF DeletedLeavesNothing
  <2>1. deletion.step = "none" /\ Cleaning
    BY DEF ResultsInv, DeletionInv, Cleaning
  <2>2. QED
    BY <2>1 DEF ResultsInv, DeletionInv, Doomed
<1>2. QED
  BY <1>1, ResultsInvariant, PTL

(* A running job is queued again only by the report of a run that was not  *)
(* started or whose computation failed and was delivered; a failed         *)
(* delivery is reported as not retryable (failResultDelivery).             *)
THEOREM RetriesComputationOnlyHolds == ResultsSpec => RetriesComputationOnly
<1> DEFINE Computed(r) == \/ run[r].exit = "unstarted"
                          \/ run[r].exit = "error" /\ run[r].delivered
           Retries == status = "running" /\ status' = "queued" =>
                        LET r == life[Job].runs
                        IN  \/ run[r].exit = "unstarted"
                            \/ run[r].exit = "error" /\ run[r].delivered
<1>1. ASSUME ResultsInv, [ResultsNext]_vars PROVE [Retries]_vars
  <2> SUFFICES ASSUME status = "running", status' = "queued"
               PROVE  Computed(life[Job].runs)
    OBVIOUS
  <2>1. TypeOK /\ Numbered /\ WorkersInv /\ DeletionInv
    BY <1>1 DEF ResultsInv
  <2>2. ~UNCHANGED life
    BY DEF status
  <2>3. ~ControlPlane
    <3>1. ~Advance
      BY <2>1, AdvanceLife
    <3>2. ~RequestCancel
      BY <2>1, RequestCancelLife
    <3>3. ~BeginRun
      BY <2>1, BeginRunLife
    <3>4. ~((\E cleans \in BOOLEAN : BeginDeletion(cleans)) \/ FinishDeletion)
      BY <2>1, DeletionLife
    <3>5. ~(RemoveObjects \/ RemovalFails \/ Restart)
      BY <2>2 DEF RemoveObjects, RemovalFails, Restart
    <3>6. QED
      BY <3>1, <3>2, <3>3, <3>4, <3>5 DEF ControlPlane
  <2>4. ~(\E u \in Uploads : HandleUpload(u))
    BY <2>2
    DEF HandleUpload, Stage, StageFails, Commit, CommitFails, Publish,
        PublishRefused, PublishUncertain, Discard
  <2>5. PICK r \in Runs : Agent(r)
    BY <1>1, <2>2, <2>3, <2>4 DEF ResultsNext, vars
  <2>6. Report(r)
    BY <2>2, <2>5
    DEF Agent, FinishExecution, SendUpload, UploadEnds, UploadRetried,
        FailDelivery, ReportFails, Reread, Confirm, Dies
  <2>7. Sound(run[r])
    BY <2>1 DEF WorkersInv
  <2>8. r = life[Job].runs /\ run[r].post = "failed" /\ run[r].retryable
    BY <2>1, <2>6, <2>7, ReportLife
  <2>9. QED
    BY <2>7, <2>8 DEF Sound
<1>2. ResultsInv /\ [ResultsNext]_vars => [Retries]_vars
  BY <1>1
<1>3. QED
  BY <1>2, ResultsInvariant, PTL DEF ResultsSpec, RetriesComputationOnly
=============================================================================
