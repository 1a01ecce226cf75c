----------------------------- MODULE TaskImages -----------------------------
(***************************************************************************)
(* The control plane's task images (internal/api/images.go): a map of      *)
(* records behind a mutex, their rows in MySQL, the images the local       *)
(* Docker daemon has, a build in the background for each reserved record,  *)
(* deletions that work without the mutex, and a restart at any point.      *)
(*                                                                         *)
(* A row is keyed by its ID and by its name: saving a record replaces the  *)
(* row of another one that has the name.  A statement that fails may or    *)
(* may not have been executed.  The control plane is the Community one,    *)
(* which has no publisher.                                                 *)
(***************************************************************************)
EXTENDS Naturals, FiniteSets

CONSTANTS
  Ids,       (* record IDs                                                 *)
  Names,     (* image names, all under gpuflow-task/                       *)
  NoImage,   (* a name the daemon has no image of                          *)
  NameOf,    (* the name each record is created with                       *)
  Deleters,  (* requests that delete an image                              *)
  NoRecord,  (* a request that is not under way has no record              *)
  MaxFaults  (* bound: failing statements and restarts                     *)

ASSUME ImagesAssumption ==
  /\ NameOf \in [Ids -> Names]
  /\ NoImage \notin Ids
  /\ NoRecord \notin Ids
  /\ MaxFaults \in Nat

VARIABLES
  up,        (* the control plane is running                               *)
  images,    (* the map: the status of each record in it                   *)
  row,       (* the status in each row of task_images                      *)
  docker,    (* for each name the record whose build tagged it last        *)
  builder,   (* where each record's build goroutine is                     *)
  deleter,   (* the record each deletion is about, and where it is         *)
  faults,    (* failures so far                                            *)
  used,      (* history: IDs that have been generated                      *)
  deleted,   (* history: records whose deletion was answered with success  *)
  late       (* history: records deleted while their result was not saved  *)

imageVars ==
  <<up, images, row, docker, builder, deleter, faults, used, deleted, late>>

Pending == {"save ready", "save failed", "refused", "resave"}

Listed   == {i \in Ids : images[i] # "none"}

(* At most MaxFaults statements fail or processes die.                     *)
Fault == faults < MaxFaults /\ faults' = faults + 1

(* SaveTaskImage: INSERT ... ON DUPLICATE KEY UPDATE.                      *)
SavedRow(rows, i, status) ==
  [k \in Ids |-> IF k = i THEN status
                 ELSE IF NameOf[k] = NameOf[i] THEN "none" ELSE rows[k]]

SaveSucceeds(i, status) == row' = SavedRow(row, i, status) /\ UNCHANGED faults

SaveFails(i, status) == Fault /\ row' \in {row, SavedRow(row, i, status)}

----------------------------------------------------------------------------
(* Builds.                                                                 *)

(* Mistake: the name of a failed build can be used again.                  *)
FaultyNameFree(i) ==
  \A k \in Listed : NameOf[k] = NameOf[i] => images[k] = "failed"

NameFree(i) == \A k \in Listed : NameOf[k] # NameOf[i]

(* reserve, which saves under the mutex, and the start of the goroutine.   *)
Reserve(i) ==
  /\ up
  /\ i \notin used
  /\ NameFree(i)
  /\ used' = used \cup {i}
  /\ \/ /\ SaveSucceeds(i, "building")
        /\ images' = [images EXCEPT ![i] = "building"]
        /\ builder' = [builder EXCEPT ![i] = "building"]
     \/ /\ SaveFails(i, "building")
        /\ UNCHANGED <<images, builder>>
  /\ UNCHANGED <<up, docker, deleter, deleted, late>>

(* docker build ends; a successful one has tagged its image.               *)
Build(i) ==
  /\ builder[i] = "building"
  /\ \/ /\ builder' = [builder EXCEPT ![i] = "built"]
        /\ docker' = [docker EXCEPT ![NameOf[i]] = i]
     \/ /\ builder' = [builder EXCEPT ![i] = "broken"]
        /\ UNCHANGED docker
  /\ UNCHANGED <<up, images, row, deleter, faults, used, deleted, late>>

(* finish's first section enters the result in the map.                    *)
Finish(i) ==
  /\ builder[i] \in {"built", "broken"}
  /\ LET status == IF builder[i] = "built" THEN "ready" ELSE "failed"
     IN  /\ images' = [images EXCEPT ![i] = status]
         /\ builder' = [builder EXCEPT ![i] =
              IF status = "ready" THEN "save ready" ELSE "save failed"]
  /\ UNCHANGED <<up, row, docker, deleter, faults, used, deleted, late>>

(* Then it saves the result without the mutex.                             *)
SaveResult(i) ==
  /\ builder[i] \in {"save ready", "save failed"}
  /\ LET status == IF builder[i] = "save ready" THEN "ready" ELSE "failed"
     IN  \/ /\ SaveSucceeds(i, status)
            /\ builder' = [builder EXCEPT ![i] = "done"]
         \/ /\ SaveFails(i, status)
            /\ builder' = [builder EXCEPT ![i] = "refused"]
  /\ UNCHANGED <<up, images, docker, deleter, used, deleted, late>>

(* A result that could not be saved fails the record, unless it has been   *)
(* taken out of the map.                                                   *)
FailRecord(i) ==
  /\ builder[i] = "refused"
  /\ images' = [images EXCEPT ![i] = IF i \in Listed THEN "failed" ELSE "none"]
  /\ builder' = [builder EXCEPT ![i] = "resave"]
  /\ UNCHANGED <<up, row, docker, deleter, faults, used, deleted, late>>

(* The failure is saved once; a second error is only logged.               *)
SaveFailure(i) ==
  /\ builder[i] = "resave"
  /\ SaveSucceeds(i, "failed") \/ SaveFails(i, "failed")
  /\ builder' = [builder EXCEPT ![i] = "done"]
  /\ UNCHANGED <<up, images, docker, deleter, used, deleted, late>>

----------------------------------------------------------------------------
(* Deletions.                                                              *)

Idle == [record |-> NoRecord, at |-> "idle"]

(* Mistake: a build under way does not protect its record.                 *)
FaultyMayDelete(i) == i \in Listed

MayDelete(i) == i \in Listed /\ images[i] # "building"

BeginDelete(d, i) ==
  /\ up
  /\ deleter[d] = Idle
  /\ MayDelete(i)
  /\ deleter' = [deleter EXCEPT ![d] = [record |-> i, at |-> "docker"]]
  /\ UNCHANGED <<up, images, row, docker, builder, faults, used, deleted, late>>

(* docker image rm: an image that is not there is as good as removed, any  *)
(* other error ends the request.                                           *)
RemoveImage(d) ==
  LET i == deleter[d].record
  IN  /\ deleter[d].at = "docker"
      /\ \/ /\ docker' = [docker EXCEPT ![NameOf[i]] = NoImage]
            /\ deleter' = [deleter EXCEPT ![d].at = "row"]
            /\ UNCHANGED faults
         \/ /\ Fault
            /\ deleter' = [deleter EXCEPT ![d] = Idle]
            /\ UNCHANGED docker
      /\ UNCHANGED <<up, images, row, builder, used, deleted, late>>

(* Mistake: an error of the statement is taken for a missing row.          *)
FaultyDeleteRow(d) ==
  LET i == deleter[d].record
  IN  /\ deleter[d].at = "row"
      /\ \/ row' = [row EXCEPT ![i] = "none"] /\ UNCHANGED faults
         \/ Fault /\ UNCHANGED row
      /\ deleter' = [deleter EXCEPT ![d].at = "map"]
      /\ late' = IF builder[i] \in Pending THEN late \cup {i} ELSE late
      /\ UNCHANGED <<up, images, docker, builder, used, deleted>>

(* DeleteTaskImage: a missing row is fine, an error ends the request.      *)
DeleteRow(d) ==
  LET i == deleter[d].record
  IN  /\ deleter[d].at = "row"
      /\ \/ /\ row' = [row EXCEPT ![i] = "none"]
            /\ deleter' = [deleter EXCEPT ![d].at = "map"]
            /\ late' = IF builder[i] \in Pending THEN late \cup {i} ELSE late
            /\ UNCHANGED faults
         \/ /\ Fault
            /\ row' \in {row, [row EXCEPT ![i] = "none"]}
            /\ deleter' = [deleter EXCEPT ![d] = Idle]
            /\ UNCHANGED late
      /\ UNCHANGED <<up, images, docker, builder, used, deleted>>

Forget(d) ==
  LET i == deleter[d].record
  IN  /\ deleter[d].at = "map"
      /\ images' = [images EXCEPT ![i] = "none"]
      /\ deleter' = [deleter EXCEPT ![d] = Idle]
      /\ deleted' = deleted \cup {i}
      /\ UNCHANGED <<up, row, docker, builder, faults, used, late>>

----------------------------------------------------------------------------
(* The control plane stops and starts again.                               *)

(* The builds under way are left to the daemon.                            *)
Crash ==
  /\ up
  /\ Fault
  /\ up' = FALSE
  /\ images' = [i \in Ids |-> "none"]
  /\ builder' = [i \in Ids |-> IF builder[i] \in {"building", "abandoned"}
                                  THEN "abandoned" ELSE "none"]
  /\ deleter' = [d \in Deleters |-> Idle]
  /\ UNCHANGED <<row, docker, used, deleted, late>>

(* It may still complete one and tag its image, at any later time.         *)
CompleteAbandoned(i) ==
  /\ builder[i] = "abandoned"
  /\ builder' = [builder EXCEPT ![i] = "none"]
  /\ docker' = [docker EXCEPT ![NameOf[i]] = i]
  /\ UNCHANGED <<up, images, row, deleter, faults, used, deleted, late>>

(* Mistake: an interrupted build is restored as it was.                    *)
FaultyRestored(status) == status

Restored(status) == IF status = "building" THEN "failed" ELSE status

(* Names of images the daemon has that no listed row accounts for.         *)
UnknownNames(rows) ==
  {n \in Names : /\ docker[n] # NoImage
                 /\ \A i \in Ids : rows[i] # "none" => NameOf[i] # n}

(* Records imported for such images; all of them unless the daemon does    *)
(* not answer or IDs run out.                                              *)
Discoveries(rows) ==
  {F \in SUBSET (Ids \ used) :
     /\ \A i, k \in F : NameOf[i] = NameOf[k] => i = k
     /\ \A i \in F : NameOf[i] \in UnknownNames(rows)}

(* NewImageBuilder: interrupted builds fail, then local images are         *)
(* imported.  A failure that cannot be saved stands in memory, an import   *)
(* that cannot be saved is left out; rows that cannot be listed count as   *)
(* none, and an import then replaces the row of its namesake.              *)
Restart ==
  /\ ~up
  /\ up' = TRUE
  /\ \E rows \in {row, [i \in Ids |-> "none"]} :
     \E found \in Discoveries(rows) :
       LET saves == found \cup {i \in Ids : rows[i] = "building"}
       IN  \E unsaved \in SUBSET saves : \E executed \in SUBSET unsaved :
             LET record(i) == IF i \in found THEN "ready" ELSE Restored(rows[i])
                 written   == (saves \ unsaved) \cup executed
                 Replaced(k) ==
                   \E i \in written \ {k} : NameOf[i] = NameOf[k]
             IN  /\ IF rows = row /\ unsaved = {} THEN UNCHANGED faults ELSE Fault
                 /\ images' = [i \in Ids |-> IF i \in found \cap unsaved
                                               THEN "none" ELSE record(i)]
                 /\ row' = [k \in Ids |-> IF k \in written THEN record(k)
                                           ELSE IF Replaced(k) THEN "none" ELSE row[k]]
                 /\ used' = used \cup found
  /\ UNCHANGED <<docker, builder, deleter, deleted, late>>

----------------------------------------------------------------------------
Init ==
  /\ up = TRUE
  /\ images = [i \in Ids |-> "none"]
  /\ row = [i \in Ids |-> "none"]
  /\ docker = [n \in Names |-> NoImage]
  /\ builder = [i \in Ids |-> "none"]
  /\ deleter = [d \in Deleters |-> Idle]
  /\ faults = 0
  /\ used = {}
  /\ deleted = {}
  /\ late = {}

BuilderStep(i) ==
  Build(i) \/ Finish(i) \/ SaveResult(i) \/ FailRecord(i) \/ SaveFailure(i)

DeleterStep(d) == RemoveImage(d) \/ DeleteRow(d) \/ Forget(d)

Next ==
  \/ \E i \in Ids : Reserve(i) \/ BuilderStep(i)
  \/ \E d \in Deleters, i \in Ids : BeginDelete(d, i)
  \/ \E d \in Deleters : DeleterStep(d)
  \/ Crash
  \/ \E i \in Ids : CompleteAbandoned(i)
  \/ Restart

ImagesSpec == Init /\ [][Next]_imageVars

(* Builds are limited to 15 minutes, so their goroutines get to the end,   *)
(* and a control plane that died is started again.                         *)
FairImagesSpec ==
  /\ ImagesSpec
  /\ \A i \in Ids : WF_imageVars(BuilderStep(i))
  /\ WF_imageVars(Restart)

----------------------------------------------------------------------------
(* Properties.                                                             *)

(* The goroutine of a build dereferences its record without asking: the    *)
(* record stays in the map, and building, until the build has ended,       *)
(* whatever deletions of it or of a namesake are under way.                *)
BuilderHasRecord ==
  \A i \in Ids :
    builder[i] \in {"building", "built", "broken"} => images[i] = "building"

(* Two records never offer the same name, not even after a restart that    *)
(* finds rows of failed statements and images of deleted records.          *)
OneRecordPerName ==
  \A i, k \in Listed : NameOf[i] = NameOf[k] => i = k

(* A deletion that was answered with success stays: neither a second       *)
(* deletion, a failed statement nor a restart brings the record back.  The *)
(* exception is a record deleted before its result was saved: that save    *)
(* writes the row again, and takes the name from a newer record.           *)
DeletedStaysDeleted ==
  \A i \in deleted \ late : images[i] = "none" /\ row[i] = "none"

(* No record stays in building for ever, also across restarts.             *)
BuildsEnd == \A i \in Ids : images[i] = "building" ~> images[i] # "building"
=============================================================================
