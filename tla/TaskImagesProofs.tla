-------------------------- MODULE TaskImagesProofs --------------------------
(***************************************************************************)
(* Proofs about TaskImages: whatever the records, names and deletions, a   *)
(* build keeps its record, a name is offered once, and a deleted image     *)
(* stays deleted.                                                          *)
(*                                                                         *)
(* The properties speak of the map alone, and are not inductive: a restart *)
(* builds the map from the rows, and a deletion forgets a record that it   *)
(* chose steps ago.  ImagesInv adds what holds of the rows, of deletions   *)
(* under way, of a stopped control plane and of IDs not used so far.       *)
(***************************************************************************)
EXTENDS TaskImages, TLAPS

Statuses == {"none", "building", "ready", "failed"}

BuilderStates ==
  {"none", "building", "built", "broken", "done", "abandoned"} \cup Pending

(* What a control plane that died leaves of a build.                       *)
Left == {"none", "abandoned"}

ImagesTypeOK ==
  /\ up \in BOOLEAN
  /\ images \in [Ids -> Statuses]
  /\ row \in [Ids -> Statuses]
  /\ docker \in [Names -> Ids \cup {NoImage}]
  /\ builder \in [Ids -> BuilderStates]
  /\ deleter \in [Deleters -> [record : Ids \cup {NoRecord},
                               at : {"idle", "docker", "row", "map"}]]
  /\ faults \in Nat
  /\ used \subseteq Ids
  /\ deleted \subseteq used
  /\ late \subseteq used

(* The rows never offer a name twice, whichever statements failed.         *)
OneRowPerName ==
  \A i, k \in Ids :
    row[i] # "none" /\ row[k] # "none" /\ NameOf[i] = NameOf[k] => i = k

(* An ID that has not been generated is nowhere.                           *)
FreshUnknown ==
  \A i \in Ids \ used :
    images[i] = "none" /\ row[i] = "none" /\ builder[i] = "none"

(* Nothing runs in a control plane that is down.                           *)
DownHoldsNothing ==
  ~up => /\ \A i \in Ids : images[i] = "none" /\ builder[i] \in Left
         /\ \A d \in Deleters : deleter[d] = Idle

(* A deletion under way is of a record that is not being built; once its   *)
(* row is gone nobody is left who would save it again.                     *)
DeletionIsLast ==
  \A d \in Deleters :
    deleter[d].at # "idle" =>
      LET i == deleter[d].record
      IN  /\ i \in used
          /\ images[i] # "building"
          /\ deleter[d].at = "map" /\ i \notin late =>
               row[i] = "none" /\ builder[i] \notin Pending

(* Nobody is left who would save a deleted record.                         *)
DeletedUnpended == \A i \in deleted \ late : builder[i] \notin Pending

ImagesInv ==
  /\ ImagesTypeOK
  /\ OneRowPerName
  /\ FreshUnknown
  /\ DownHoldsNothing
  /\ DeletionIsLast
  /\ DeletedUnpended
  /\ BuilderHasRecord
  /\ OneRecordPerName
  /\ DeletedStaysDeleted

----------------------------------------------------------------------------
(* Saving a record, executed or not: other rows stay or go, those of a     *)
(* namesake go.                                                            *)
RowSaved(i) ==
  \/ row' = row
  \/ \A k \in Ids \ {i} :
       /\ row'[k] \in {"none", row[k]}
       /\ NameOf[k] = NameOf[i] => row'[k] = "none"

LEMMA Saves ==
  ASSUME ImagesTypeOK, NEW i \in Ids, NEW status \in Statuses,
         SaveSucceeds(i, status) \/ SaveFails(i, status)
  PROVE  RowSaved(i) /\ row' \in [Ids -> Statuses] /\ faults' \in Nat
<1>1. SavedRow(row, i, status) \in [Ids -> Statuses]
  BY DEF SavedRow, ImagesTypeOK, Statuses
<1>2. row' \in {row, SavedRow(row, i, status)} /\ faults' \in Nat
  BY DEF SaveSucceeds, SaveFails, Fault, ImagesTypeOK
<1>3. CASE row' = row
  BY <1>2, <1>3 DEF RowSaved, ImagesTypeOK
<1>4. CASE row' = SavedRow(row, i, status)
  BY <1>1, <1>2, <1>4 DEF RowSaved, SavedRow, ImagesTypeOK
<1>5. QED
  BY <1>2, <1>3, <1>4

(* What the steps of a build do to the rows, by the state they start in.   *)
LEMMA BuildSaves ==
  ASSUME ImagesTypeOK, NEW i \in Ids, Reserve(i) \/ BuilderStep(i)
  PROVE  /\ RowSaved(i) /\ row' \in [Ids -> Statuses] /\ faults' \in Nat
         /\ row' = row \/ i \notin used \/ builder[i] \in Pending
<1>1. CASE Reserve(i)
  <2>1. SaveSucceeds(i, "building") \/ SaveFails(i, "building")
    BY <1>1 DEF Reserve
  <2>2. QED
    BY <1>1, <2>1, Saves DEF Reserve, Statuses
<1>2. CASE SaveResult(i)
  <2>1. \E s \in {"ready", "failed"} : SaveSucceeds(i, s) \/ SaveFails(i, s)
    BY <1>2 DEF SaveResult
  <2>2. QED
    BY <1>2, <2>1, Saves DEF SaveResult, Statuses, Pending
<1>3. CASE SaveFailure(i)
  <2>1. SaveSucceeds(i, "failed") \/ SaveFails(i, "failed")
    BY <1>3 DEF SaveFailure
  <2>2. QED
    BY <1>3, <2>1, Saves DEF SaveFailure, Statuses, Pending
<1>4. CASE Build(i) \/ Finish(i) \/ FailRecord(i)
  BY <1>4 DEF Build, Finish, FailRecord, RowSaved, ImagesTypeOK
<1>5. QED
  BY <1>1, <1>2, <1>3, <1>4 DEF BuilderStep

----------------------------------------------------------------------------
(* Types, one action at a time.  Builds are steps of a record, deletions   *)
(* steps of a request.                                                     *)

LEMMA BuildTypes ==
  ASSUME ImagesTypeOK, NEW i \in Ids, Reserve(i) \/ BuilderStep(i)
  PROVE  ImagesTypeOK'
<1> USE ImagesAssumption, BuildSaves
    DEF ImagesTypeOK, Statuses, BuilderStates, Pending
<1>1. CASE Reserve(i)
  <2>1. /\ images' = images \/ images' = [images EXCEPT ![i] = "building"]
        /\ builder' = builder
           \/ builder' = [builder EXCEPT ![i] = "building"]
        /\ used' = used \cup {i}
        /\ UNCHANGED <<up, docker, deleter, deleted, late>>
    BY <1>1, Zenon DEF Reserve
  <2>2. images' \in [Ids -> Statuses]
    BY <2>1
  <2>3. builder' \in [Ids -> BuilderStates]
    BY <2>1
  <2>4. QED
    BY <2>1, <2>2, <2>3
<1>2. CASE Build(i)
  <2>1. NameOf[i] \in Names
    OBVIOUS
  <2>2. docker' = docker \/ docker' = [docker EXCEPT ![NameOf[i]] = i]
    BY <1>2 DEF Build
  <2>3. docker' \in [Names -> Ids \cup {NoImage}]
    BY <2>1, <2>2
  <2>4. builder' \in [Ids -> BuilderStates]
    BY <1>2 DEF Build
  <2>5. QED
    BY <1>2, <2>3, <2>4 DEF Build
<1>3. CASE Finish(i)
  BY <1>3 DEF Finish
<1>4. CASE SaveResult(i)
  BY <1>4 DEF SaveResult
<1>5. CASE FailRecord(i)
  BY <1>5 DEF FailRecord
<1>6. CASE SaveFailure(i)
  BY <1>6 DEF SaveFailure
<1>7. QED
  BY <1>1, <1>2, <1>3, <1>4, <1>5, <1>6 DEF BuilderStep

LEMMA DeletionTypes ==
  ASSUME ImagesTypeOK, DeletionIsLast, NEW d \in Deleters,
         (\E i \in Ids : BeginDelete(d, i)) \/ DeleterStep(d)
  PROVE  ImagesTypeOK'
<1> USE ImagesAssumption DEF ImagesTypeOK, Statuses, Idle, Fault
<1>1. CASE \E i \in Ids : BeginDelete(d, i)
  BY <1>1 DEF BeginDelete
<1>2. CASE DeleterStep(d)
  <2>1. deleter[d].at # "idle"
    BY <1>2 DEF DeleterStep, RemoveImage, DeleteRow, Forget
  <2>2. deleter[d].record \in used
    BY <2>1 DEF DeletionIsLast
  <2>3. CASE RemoveImage(d)
    BY <2>2, <2>3 DEF RemoveImage
  <2>4. CASE DeleteRow(d)
    BY <2>2, <2>4 DEF DeleteRow
  <2>5. CASE Forget(d)
    BY <2>2, <2>5 DEF Forget
  <2>6. QED
    BY <1>2, <2>3, <2>4, <2>5 DEF DeleterStep
<1>3. QED
  BY <1>1, <1>2

----------------------------------------------------------------------------
(* Builds keep the invariant.                                              *)

LEMMA BuildRunsUp ==
  ASSUME ImagesInv, NEW i \in Ids, Reserve(i) \/ BuilderStep(i)
  PROVE  up /\ (BuilderStep(i) => i \in used)
<1>1. CASE Reserve(i)
  <2>1. i \notin used
    BY <1>1 DEF Reserve
  <2>2. builder[i] = "none"
    BY <2>1 DEF ImagesInv, FreshUnknown
  <2>3. ~BuilderStep(i)
    BY <2>2 DEF BuilderStep, Build, Finish, SaveResult, FailRecord, SaveFailure
  <2>4. QED
    BY <1>1, <2>3 DEF Reserve
<1>2. CASE BuilderStep(i)
  <2>1. builder[i] \notin Left
    BY <1>2
    DEF Left, BuilderStep, Build, Finish, SaveResult, FailRecord, SaveFailure
  <2>2. QED
    BY <2>1 DEF Left, ImagesInv, ImagesTypeOK, FreshUnknown, DownHoldsNothing
<1>3. QED
  BY <1>1, <1>2

(* A step of a build touches its own record and goroutine only.            *)
LEMMA BuildTouches ==
  ASSUME ImagesTypeOK, NEW i \in Ids, Reserve(i) \/ BuilderStep(i)
  PROVE  /\ UNCHANGED <<up, deleter, deleted, late>>
         /\ used' = used \/ used' = used \cup {i}
         /\ \A k \in Ids \ {i} :
              images'[k] = images[k] /\ builder'[k] = builder[k]
<1> USE DEF ImagesTypeOK
<1>1. CASE Reserve(i)
  BY <1>1 DEF Reserve
<1>2. CASE Build(i)
  BY <1>2 DEF Build
<1>3. CASE Finish(i)
  BY <1>3 DEF Finish
<1>4. CASE SaveResult(i)
  BY <1>4 DEF SaveResult
<1>5. CASE FailRecord(i)
  BY <1>5 DEF FailRecord
<1>6. CASE SaveFailure(i)
  BY <1>6 DEF SaveFailure
<1>7. QED
  BY <1>1, <1>2, <1>3, <1>4, <1>5, <1>6 DEF BuilderStep

(* The record a build leaves: only a name that is free gets a new one, it  *)
(* is building exactly while the goroutine is, and a result is saved only  *)
(* by a goroutine that entered it.                                         *)
LEMMA BuildLeaves ==
  ASSUME ImagesInv, NEW i \in Ids, Reserve(i) \/ BuilderStep(i)
  PROVE  /\ images'[i] # "none" => images[i] # "none" \/ NameFree(i)
         /\ builder'[i] \in {"building", "built", "broken"}
              => images'[i] = "building"
         /\ images'[i] = "building" => i \notin used \/ images[i] = "building"
         /\ builder'[i] \in Pending =>
              builder[i] \in Pending \/ images[i] = "building"
         /\ images[i] = "none" /\ builder[i] \in Pending => images'[i] = "none"
<1> USE DEF ImagesInv, ImagesTypeOK, Pending, Listed
<1>1. CASE Reserve(i)
  <2>1. images[i] = "none" /\ builder[i] = "none"
    BY <1>1 DEF Reserve, FreshUnknown
  <2>2. \/ images' = images /\ builder' = builder
        \/ /\ images' = [images EXCEPT ![i] = "building"]
           /\ builder' = [builder EXCEPT ![i] = "building"]
    BY <1>1, Zenon DEF Reserve
  <2>3. \/ images'[i] = "none" /\ builder'[i] = "none"
        \/ images'[i] = "building" /\ builder'[i] = "building"
    BY <2>1, <2>2
  <2>4. NameFree(i) /\ i \notin used
    BY <1>1 DEF Reserve
  <2>5. QED
    BY <2>1, <2>3, <2>4
<1>2. CASE Build(i)
  BY <1>2 DEF Build, BuilderHasRecord
<1>3. CASE Finish(i)
  BY <1>3 DEF Finish, BuilderHasRecord
<1>4. CASE SaveResult(i)
  BY <1>4 DEF SaveResult
<1>5. CASE FailRecord(i)
  BY <1>5 DEF FailRecord
<1>6. CASE SaveFailure(i)
  BY <1>6 DEF SaveFailure
<1>7. QED
  BY <1>1, <1>2, <1>3, <1>4, <1>5, <1>6 DEF BuilderStep

LEMMA BuildKeeps ==
  ASSUME ImagesInv, NEW i \in Ids, Reserve(i) \/ BuilderStep(i)
  PROVE  ImagesInv'
<1> USE ImagesAssumption
<1>1. ImagesTypeOK'
  BY BuildTypes DEF ImagesInv
<1>2. /\ UNCHANGED <<up, deleter, deleted, late>>
      /\ used' = used \/ used' = used \cup {i}
      /\ \A k \in Ids \ {i} :
           images'[k] = images[k] /\ builder'[k] = builder[k]
  BY BuildTouches, Zenon DEF ImagesInv
<1>3. /\ images'[i] # "none" => images[i] # "none" \/ NameFree(i)
      /\ builder'[i] \in {"building", "built", "broken"}
           => images'[i] = "building"
      /\ images'[i] = "building" => i \notin used \/ images[i] = "building"
      /\ builder'[i] \in Pending =>
           builder[i] \in Pending \/ images[i] = "building"
      /\ images[i] = "none" /\ builder[i] \in Pending => images'[i] = "none"
  BY BuildLeaves, Zenon
<1>4. /\ RowSaved(i) /\ row' \in [Ids -> Statuses]
      /\ row' = row \/ i \notin used \/ builder[i] \in Pending
  BY BuildSaves DEF ImagesInv
<1>5. up /\ i \in used'
  <2>1. CASE Reserve(i)
    BY <2>1 DEF Reserve
  <2>2. CASE BuilderStep(i)
    BY <2>2, <1>2, BuildRunsUp
  <2>3. QED
    BY <2>1, <2>2
<1>6. OneRowPerName'
  BY <1>4 DEF ImagesInv, OneRowPerName, RowSaved
<1>7. FreshUnknown'
  BY <1>2, <1>4, <1>5 DEF ImagesInv, FreshUnknown, RowSaved
<1>8. DownHoldsNothing'
  BY <1>2, <1>5 DEF DownHoldsNothing
<1>9. DeletionIsLast'
  <2> SUFFICES ASSUME NEW d \in Deleters, deleter'[d].at # "idle"
               PROVE  LET k == deleter'[d].record
                      IN  /\ k \in used'
                          /\ images'[k] # "building"
                          /\ deleter'[d].at = "map" /\ k \notin late' =>
                               row'[k] = "none" /\ builder'[k] \notin Pending
    BY DEF DeletionIsLast
  <2> DEFINE k == deleter[d].record
  <2>1. /\ k \in used /\ images[k] # "building"
        /\ deleter[d].at = "map" /\ k \notin late =>
             row[k] = "none" /\ builder[k] \notin Pending
    BY <1>2 DEF ImagesInv, DeletionIsLast
  <2>2. k \in Ids
    BY <2>1 DEF ImagesInv, ImagesTypeOK
  <2>3. images'[k] # "building"
    BY <1>2, <1>3, <2>1, <2>2
  <2>4. ASSUME deleter[d].at = "map", k \notin late
        PROVE  row'[k] = "none" /\ builder'[k] \notin Pending
    <3>1. builder'[k] \notin Pending
      BY <1>2, <1>3, <2>1, <2>2, <2>4
    <3>2. CASE k = i
      BY <3>1, <1>4, <2>1, <2>4, <3>2
    <3>3. CASE k # i
      BY <3>1, <1>4, <2>1, <2>2, <2>4, <3>3 DEF RowSaved
    <3>4. QED
      BY <3>1, <3>2, <3>3
  <2>5. QED
    BY <1>2, <2>1, <2>3, <2>4
<1>10. ASSUME NEW k \in deleted \ late
       PROVE  /\ images'[k] = "none" /\ row'[k] = "none"
              /\ builder'[k] \notin Pending
  <2>1. k \in Ids /\ k \in used
    BY DEF ImagesInv, ImagesTypeOK
  <2>2. images[k] = "none" /\ row[k] = "none" /\ builder[k] \notin Pending
    BY DEF ImagesInv, DeletedUnpended, DeletedStaysDeleted
  <2>3. CASE k = i
    <3>1. BuilderStep(i)
      BY <2>1, <2>3 DEF Reserve
    <3>2. builder[i] \in {"building", "built", "broken"}
      BY <2>2, <2>3, <3>1 DEF BuilderStep, Build, Finish, SaveResult,
                              FailRecord, SaveFailure, Pending
    <3>3. QED
      BY <2>2, <2>3, <3>2 DEF ImagesInv, BuilderHasRecord
  <2>4. CASE k # i
    BY <1>2, <1>4, <2>1, <2>2, <2>4 DEF RowSaved
  <2>5. QED
    BY <2>3, <2>4
<1>11. DeletedUnpended' /\ DeletedStaysDeleted'
  BY <1>2, <1>10 DEF DeletedUnpended, DeletedStaysDeleted
<1>12. BuilderHasRecord'
  BY <1>2, <1>3 DEF ImagesInv, BuilderHasRecord
<1>13. OneRecordPerName'
  BY <1>2, <1>3 DEF ImagesInv, OneRecordPerName, Listed, NameFree
<1>14. QED
  BY <1>1, <1>6, <1>7, <1>8, <1>9, <1>11, <1>12, <1>13 DEF ImagesInv
----------------------------------------------------------------------------
(* Deletions keep the invariant.                                           *)

LEMMA BeginDeleteKeeps ==
  ASSUME ImagesInv, NEW d \in Deleters, NEW i \in Ids, BeginDelete(d, i)
  PROVE  ImagesInv'
<1>1. ImagesTypeOK'
  BY DeletionTypes DEF ImagesInv
<1>2. /\ up /\ MayDelete(i)
      /\ deleter' = [deleter EXCEPT ![d] = [record |-> i, at |-> "docker"]]
      /\ UNCHANGED <<up, images, row, docker, builder, faults, used, deleted,
                     late>>
  BY DEF BeginDelete
<1>3. DeletionIsLast'
  <2>1. i \in used /\ images[i] # "building"
    BY <1>2 DEF MayDelete, Listed, ImagesInv, FreshUnknown
  <2>2. deleter'[d].at = "docker" /\ deleter'[d].record = i
    BY <1>2 DEF ImagesInv, ImagesTypeOK
  <2>3. \A e \in Deleters \ {d} : deleter'[e] = deleter[e]
    BY <1>2 DEF ImagesInv, ImagesTypeOK
  <2>4. QED
    BY <1>2, <2>1, <2>2, <2>3 DEF ImagesInv, DeletionIsLast
<1>4. QED
  BY <1>1, <1>2, <1>3
  DEF ImagesInv, OneRowPerName, FreshUnknown, DownHoldsNothing,
      DeletedUnpended, BuilderHasRecord, OneRecordPerName, Listed,
      DeletedStaysDeleted

(* What a step of a deletion does: it touches its own request, never a     *)
(* goroutine, and takes the row or the record away.                        *)
LEMMA DeleterChanges ==
  ASSUME ImagesInv, NEW d \in Deleters, DeleterStep(d)
  PROVE  LET i == deleter[d].record
         IN  /\ UNCHANGED <<up, builder, used>> /\ up
             /\ i \in used /\ images[i] # "building"
             /\ \A e \in Deleters \ {d} : deleter'[e] = deleter[e]
             /\ \/ deleter'[d].at = "idle"
                \/ deleter'[d].record = i
             /\ images' = images \/ images' = [images EXCEPT ![i] = "none"]
             /\ row' = row \/ row' = [row EXCEPT ![i] = "none"]
             /\ late \subseteq late'
             /\ deleted' = deleted
                \/ /\ deleted' = deleted \cup {i}
                   /\ deleter[d].at = "map"
                   /\ images' = [images EXCEPT ![i] = "none"]
             /\ deleter'[d].at = "map" /\ i \notin late' =>
                  row'[i] = "none" /\ builder[i] \notin Pending
<1> DEFINE i == deleter[d].record
<1>1. deleter[d].at # "idle"
  BY DEF DeleterStep, RemoveImage, DeleteRow, Forget
<1>2. up /\ i \in used /\ images[i] # "building"
  BY <1>1 DEF ImagesInv, ImagesTypeOK, DeletionIsLast, DownHoldsNothing, Idle
<1>3. i \in Ids /\ deleter \in [Deleters -> [record : Ids \cup {NoRecord},
                               at : {"idle", "docker", "row", "map"}]]
  BY <1>2 DEF ImagesInv, ImagesTypeOK
<1>4. CASE RemoveImage(d)
  <2>1. \/ deleter' = [deleter EXCEPT ![d].at = "row"]
        \/ deleter' = [deleter EXCEPT ![d] = Idle]
    BY <1>4 DEF RemoveImage
  <2>2. /\ \A e \in Deleters \ {d} : deleter'[e] = deleter[e]
        /\ \/ deleter'[d].at = "idle"
           \/ (deleter'[d].record = i /\ deleter'[d].at = "row")
    <3>1. CASE deleter' = [deleter EXCEPT ![d].at = "row"]
      BY <1>3, <3>1
    <3>2. CASE deleter' = [deleter EXCEPT ![d] = Idle]
      <4>1. deleter'[d] = Idle
        BY <1>3, <3>2
      <4>2. \A e \in Deleters \ {d} : deleter'[e] = deleter[e]
        BY <1>3, <3>2
      <4>3. QED
        BY <4>1, <4>2 DEF Idle
    <3>3. QED
      BY <2>1, <3>1, <3>2
  <2>3. QED
    BY <1>2, <1>4, <2>2 DEF RemoveImage
<1>5. CASE DeleteRow(d)
  <2>1. \/ /\ deleter' = [deleter EXCEPT ![d].at = "map"]
           /\ row' = [row EXCEPT ![i] = "none"]
           /\ late' = IF builder[i] \in Pending THEN late \cup {i} ELSE late
        \/ /\ deleter' = [deleter EXCEPT ![d] = Idle]
           /\ (row' = row \/ row' = [row EXCEPT ![i] = "none"])
           /\ late' = late
    BY <1>5 DEF DeleteRow
  <2>2. /\ \A e \in Deleters \ {d} : deleter'[e] = deleter[e]
        /\ \/ deleter'[d].at = "idle"
           \/ /\ deleter'[d].record = i /\ deleter'[d].at = "map"
              /\ row' = [row EXCEPT ![i] = "none"]
              /\ late' = IF builder[i] \in Pending THEN late \cup {i} ELSE late
    BY <1>3, <2>1 DEF Idle
  <2>3. deleter'[d].at = "map" /\ i \notin late' =>
          row'[i] = "none" /\ builder[i] \notin Pending
    BY <1>3, <2>2 DEF ImagesInv, ImagesTypeOK
  <2>4. QED
    BY <1>2, <1>5, <2>1, <2>2, <2>3 DEF DeleteRow
<1>6. CASE Forget(d)
  <2>1. /\ \A e \in Deleters \ {d} : deleter'[e] = deleter[e]
        /\ deleter'[d].at = "idle"
    BY <1>3, <1>6 DEF Forget, Idle
  <2>2. QED
    BY <1>2, <1>6, <2>1 DEF Forget
<1>7. QED
  BY <1>4, <1>5, <1>6 DEF DeleterStep

LEMMA DeleterKeeps ==
  ASSUME ImagesInv, NEW d \in Deleters, DeleterStep(d)
  PROVE  ImagesInv'
<1> DEFINE i == deleter[d].record
<1>1. /\ UNCHANGED <<up, builder, used>> /\ up
      /\ i \in used /\ images[i] # "building"
      /\ \A e \in Deleters \ {d} : deleter'[e] = deleter[e]
      /\ \/ deleter'[d].at = "idle"
         \/ deleter'[d].record = i
      /\ images' = images \/ images' = [images EXCEPT ![i] = "none"]
      /\ row' = row \/ row' = [row EXCEPT ![i] = "none"]
      /\ late \subseteq late'
      /\ deleted' = deleted
         \/ /\ deleted' = deleted \cup {i}
            /\ deleter[d].at = "map"
            /\ images' = [images EXCEPT ![i] = "none"]
      /\ deleter'[d].at = "map" /\ i \notin late' =>
           row'[i] = "none" /\ builder[i] \notin Pending
  BY DeleterChanges, Zenon
<1>2. ImagesTypeOK'
  BY DeletionTypes DEF ImagesInv
<1>3. i \in Ids
  BY <1>1 DEF ImagesInv, ImagesTypeOK
<1>4. deleter[d].at = "map" /\ i \notin late =>
        row[i] = "none" /\ builder[i] \notin Pending
  BY DEF ImagesInv, DeletionIsLast
<1> HIDE DEF i
<1>5. \A k \in Ids :
        /\ images'[k] = images[k] \/ (k = i /\ images'[k] = "none")
        /\ row'[k] = row[k] \/ (k = i /\ row'[k] = "none")
  <2>1. images \in [Ids -> Statuses] /\ row \in [Ids -> Statuses]
    BY DEF ImagesInv, ImagesTypeOK
  <2>2. /\ images' = images \/ images' = [images EXCEPT ![i] = "none"]
        /\ row' = row \/ row' = [row EXCEPT ![i] = "none"]
    BY <1>1
  <2>3. \A k \in Ids : images'[k] = images[k] \/ (k = i /\ images'[k] = "none")
    BY <1>3, <2>1, <2>2
  <2>4. \A k \in Ids : row'[k] = row[k] \/ (k = i /\ row'[k] = "none")
    BY <1>3, <2>1, <2>2
  <2>5. QED
    BY <2>3, <2>4
<1>6. OneRowPerName' /\ FreshUnknown' /\ DownHoldsNothing'
  BY <1>1, <1>5
  DEF ImagesInv, OneRowPerName, FreshUnknown, DownHoldsNothing
<1>7. DeletionIsLast'
  <2> SUFFICES ASSUME NEW e \in Deleters, deleter'[e].at # "idle"
               PROVE  LET k == deleter'[e].record
                      IN  /\ k \in used'
                          /\ images'[k] # "building"
                          /\ deleter'[e].at = "map" /\ k \notin late' =>
                               row'[k] = "none" /\ builder'[k] \notin Pending
    BY DEF DeletionIsLast
  <2>1. CASE e = d
    BY <1>1, <1>3, <1>5, <2>1
  <2>2. CASE e # d
    <3>1. deleter'[e] = deleter[e]
      BY <1>1, <2>2
    <3>2. LET k == deleter[e].record
          IN  /\ k \in used /\ images[k] # "building"
              /\ deleter[e].at = "map" /\ k \notin late =>
                   row[k] = "none" /\ builder[k] \notin Pending
      BY <3>1 DEF ImagesInv, DeletionIsLast
    <3>3. deleter[e].record \in Ids
      BY <3>2 DEF ImagesInv, ImagesTypeOK
    <3>4. QED
      BY <1>1, <1>5, <3>1, <3>2, <3>3
  <2>3. QED
    BY <2>1, <2>2
<1>8. BuilderHasRecord' /\ OneRecordPerName'
  BY <1>1, <1>5
  DEF ImagesInv, BuilderHasRecord, OneRecordPerName, Listed
<1>9. ASSUME NEW k \in deleted' \ late'
      PROVE  /\ images'[k] = "none" /\ row'[k] = "none"
             /\ builder'[k] \notin Pending
  <2>1. CASE k \in deleted
    <3>1. k \in Ids /\ k \notin late
      BY <1>1, <2>1 DEF ImagesInv, ImagesTypeOK
    <3>2. images[k] = "none" /\ row[k] = "none" /\ builder[k] \notin Pending
      BY <2>1, <3>1 DEF ImagesInv, DeletedUnpended, DeletedStaysDeleted
    <3>3. QED
      BY <1>1, <1>5, <3>1, <3>2
  <2>2. CASE k \notin deleted
    <3>1. /\ k = i /\ deleter[d].at = "map" /\ i \notin late
          /\ images' = [images EXCEPT ![i] = "none"]
      BY <1>1, <2>2
    <3>2. images'[k] = "none"
      BY <1>3, <3>1 DEF ImagesInv, ImagesTypeOK
    <3>3. QED
      BY <1>1, <1>3, <1>4, <1>5, <3>1, <3>2
  <2>3. QED
    BY <2>1, <2>2
<1>10. DeletedUnpended' /\ DeletedStaysDeleted'
  BY <1>9 DEF DeletedUnpended, DeletedStaysDeleted
<1>11. QED
  BY <1>2, <1>6, <1>7, <1>8, <1>10 DEF ImagesInv

----------------------------------------------------------------------------
(* A stop and a start keep the invariant.                                  *)

LEMMA CrashKeeps ==
  ASSUME ImagesInv, Crash
  PROVE  ImagesInv'
<1>1. /\ \A i \in Ids :
           /\ images'[i] = "none"
           /\ builder'[i] \in Left
           /\ builder[i] = "none" => builder'[i] = "none"
      /\ \A d \in Deleters : deleter'[d] = Idle
      /\ UNCHANGED <<row, used, deleted, late>>
  BY DEF Crash, Left
<1>2. ImagesTypeOK'
  <2>1. deleter' \in [Deleters -> [record : Ids \cup {NoRecord},
                                  at : {"idle", "docker", "row", "map"}]]
    BY DEF Crash, Idle
  <2>2. images' \in [Ids -> Statuses] /\ builder' \in [Ids -> BuilderStates]
    BY DEF Crash, Statuses, BuilderStates
  <2>3. faults' \in Nat /\ up' \in BOOLEAN
    <3>1. up' = FALSE /\ faults' = faults + 1 /\ faults \in Nat
      BY DEF Crash, Fault, ImagesInv, ImagesTypeOK
    <3>2. up' \in BOOLEAN
      BY <3>1, Zenon
    <3>3. QED
      BY <3>1, <3>2
  <2>4. QED
    BY <1>1, <2>1, <2>2, <2>3 DEF Crash, ImagesInv, ImagesTypeOK
<1>3. OneRowPerName' /\ FreshUnknown' /\ DownHoldsNothing'
  BY <1>1
  DEF ImagesInv, OneRowPerName, FreshUnknown, DownHoldsNothing
<1>4. DeletionIsLast'
  BY <1>1 DEF DeletionIsLast, Idle
<1>5. BuilderHasRecord' /\ OneRecordPerName'
  BY <1>1 DEF Left, BuilderHasRecord, OneRecordPerName, Listed
<1>6. DeletedUnpended' /\ DeletedStaysDeleted'
  BY <1>1
  DEF Left, ImagesInv, ImagesTypeOK, DeletedUnpended, DeletedStaysDeleted, Pending
<1>7. QED
  BY <1>2, <1>3, <1>4, <1>5, <1>6 DEF ImagesInv

(* A build the daemon completes by itself only adds an image.              *)
LEMMA AbandonedKeeps ==
  ASSUME ImagesInv, NEW i \in Ids, CompleteAbandoned(i)
  PROVE  ImagesInv'
<1>1. /\ builder[i] = "abandoned"
      /\ builder' = [builder EXCEPT ![i] = "none"]
      /\ docker' = [docker EXCEPT ![NameOf[i]] = i]
      /\ UNCHANGED <<up, images, row, deleter, faults, used, deleted, late>>
  BY DEF CompleteAbandoned
<1>2. /\ builder'[i] = "none"
      /\ \A k \in Ids \ {i} : builder'[k] = builder[k]
  BY <1>1 DEF ImagesInv, ImagesTypeOK
<1>3. ImagesTypeOK'
  <2>1. builder' \in [Ids -> BuilderStates]
    BY <1>1 DEF ImagesInv, ImagesTypeOK, BuilderStates
  <2>2. docker' \in [Names -> Ids \cup {NoImage}]
    BY <1>1 DEF ImagesInv, ImagesTypeOK
  <2>3. QED
    BY <1>1, <2>1, <2>2 DEF ImagesInv, ImagesTypeOK
<1>4. OneRowPerName' /\ FreshUnknown' /\ DownHoldsNothing'
  BY <1>1, <1>2
  DEF Left, ImagesInv, OneRowPerName, FreshUnknown, DownHoldsNothing
<1>5. DeletionIsLast'
  <2>1. \A k \in Ids : builder'[k] \in Pending => builder[k] \in Pending
    BY <1>2 DEF Pending
  <2>2. \A d \in Deleters : deleter[d].at # "idle" => deleter[d].record \in Ids
    BY DEF ImagesInv, ImagesTypeOK, DeletionIsLast
  <2>3. QED
    BY <1>1, <2>1, <2>2 DEF ImagesInv, DeletionIsLast
<1>6. BuilderHasRecord' /\ OneRecordPerName' /\ DeletedStaysDeleted'
  BY <1>1, <1>2
  DEF ImagesInv, BuilderHasRecord, OneRecordPerName, DeletedStaysDeleted, Listed
<1>7. DeletedUnpended'
  BY <1>1, <1>2
  DEF ImagesInv, ImagesTypeOK, DeletedUnpended, Pending
<1>8. QED
  BY <1>3, <1>4, <1>5, <1>6, <1>7 DEF ImagesInv

(* The rows a start reads and the records it imports: each name once.      *)
LEMMA RestartReads ==
  ASSUME ImagesInv, NEW rows \in {row, [i \in Ids |-> "none"]},
         NEW found \in Discoveries(rows)
  PROVE  /\ found \subseteq Ids \ used
         /\ \A i \in Ids : rows[i] \in {"none", row[i]}
         /\ \A i, k \in Ids :
              /\ i \in found \/ rows[i] # "none"
              /\ k \in found \/ rows[k] # "none"
              /\ NameOf[i] = NameOf[k]
              => i = k
<1>1. /\ found \subseteq Ids \ used
      /\ \A i, k \in found : NameOf[i] = NameOf[k] => i = k
      /\ \A i \in found : \A k \in Ids :
           rows[k] # "none" => NameOf[k] # NameOf[i]
  BY DEF Discoveries, UnknownNames
<1>2. \A i \in Ids : rows[i] \in {"none", row[i]}
  OBVIOUS
<1>3. \A i, k \in Ids :
        rows[i] # "none" /\ rows[k] # "none" /\ NameOf[i] = NameOf[k] => i = k
  BY <1>2 DEF ImagesInv, OneRowPerName
<1>4. QED
  BY <1>1, <1>2, <1>3

(* What a start makes of them: records of rows and imports in the map;     *)
(* rows that are kept, and saved ones in the place of their namesakes.     *)
RestartedFrom(rows, found, written) ==
  /\ used' = used \cup found
  /\ images' \in [Ids -> Statuses] /\ row' \in [Ids -> Statuses]
  /\ \A i \in Ids \ found : images'[i] = Restored(rows[i])
  /\ \A i \in found : images'[i] # "building"
  /\ \A i \in Ids \ written :
       /\ row'[i] \in {"none", row[i]}
       /\ \A k \in written : NameOf[k] = NameOf[i] => row'[i] = "none"

LEMMA RestartMakes ==
  ASSUME ImagesInv, Restart
  PROVE  \E rows \in {row, [i \in Ids |-> "none"]} :
         \E found \in Discoveries(rows) :
         \E written \in SUBSET (found \cup {i \in Ids : rows[i] = "building"}) :
           RestartedFrom(rows, found, written)
<1> DEFINE saves(rows, found) == found \cup {i \in Ids : rows[i] = "building"}
           Body(rows, found, unsaved, executed) ==
             LET record(i) == IF i \in found THEN "ready" ELSE Restored(rows[i])
                 written   == (saves(rows, found) \ unsaved) \cup executed
                 Replaced(k) ==
                   \E i \in written \ {k} : NameOf[i] = NameOf[k]
             IN  /\ images' = [i \in Ids |-> IF i \in found \cap unsaved
                                               THEN "none" ELSE record(i)]
                 /\ row' = [k \in Ids |->
                      IF k \in written THEN record(k)
                      ELSE IF Replaced(k) THEN "none" ELSE row[k]]
                 /\ used' = used \cup found
<1>1. \E rows \in {row, [i \in Ids |-> "none"]} :
      \E found \in Discoveries(rows) :
      \E unsaved \in SUBSET saves(rows, found) :
      \E executed \in SUBSET unsaved : Body(rows, found, unsaved, executed)
  BY Zenon DEF Restart
<1> HIDE DEF Body
<1>2. PICK rows \in {row, [i \in Ids |-> "none"]} :
      \E found \in Discoveries(rows) :
      \E unsaved \in SUBSET saves(rows, found) :
      \E executed \in SUBSET unsaved : Body(rows, found, unsaved, executed)
  BY <1>1, Zenon
<1>3. PICK found \in Discoveries(rows) :
      \E unsaved \in SUBSET saves(rows, found) :
      \E executed \in SUBSET unsaved : Body(rows, found, unsaved, executed)
  BY <1>2, Zenon
<1>4. PICK unsaved \in SUBSET saves(rows, found) :
      \E executed \in SUBSET unsaved : Body(rows, found, unsaved, executed)
  BY <1>3, Zenon
<1>5. PICK executed \in SUBSET unsaved :
        Body(rows, found, unsaved, executed)
  BY <1>4, Zenon
<1> DEFINE record(i) == IF i \in found THEN "ready" ELSE Restored(rows[i])
           written   == (saves(rows, found) \ unsaved) \cup executed
<1>6. /\ images' = [i \in Ids |-> IF i \in found \cap unsaved
                                    THEN "none" ELSE record(i)]
      /\ row' = [k \in Ids |->
           IF k \in written THEN record(k)
           ELSE IF \E i \in written \ {k} : NameOf[i] = NameOf[k]
                THEN "none" ELSE row[k]]
      /\ used' = used \cup found
  BY <1>5, Zenon DEF Body
<1>7. written \in SUBSET saves(rows, found)
  OBVIOUS
<1>8. \A i \in Ids : Restored(rows[i]) \in Statuses
  BY DEF Restored, Statuses, ImagesInv, ImagesTypeOK
<1>9. \A i \in Ids : record(i) \in Statuses
  BY <1>8 DEF Statuses
<1> HIDE DEF written, record
<1>10. images' \in [Ids -> Statuses] /\ row' \in [Ids -> Statuses]
  BY <1>6, <1>9 DEF Statuses, ImagesInv, ImagesTypeOK
<1>11. \A i \in Ids \ found : images'[i] = Restored(rows[i])
  BY <1>6 DEF record
<1>12. \A i \in found : images'[i] # "building"
  BY <1>6 DEF record, Discoveries
<1>13. \A i \in Ids \ written :
         /\ row'[i] \in {"none", row[i]}
         /\ \A k \in written : NameOf[k] = NameOf[i] => row'[i] = "none"
  BY <1>6
<1>14. RestartedFrom(rows, found, written)
  BY <1>6, <1>10, <1>11, <1>12, <1>13, Zenon DEF RestartedFrom
<1>15. QED
  BY <1>7, <1>14, Zenon

LEMMA RestartKeeps ==
  ASSUME ImagesInv, Restart
  PROVE  ImagesInv'
<1>1. /\ up' = TRUE /\ ~up
      /\ UNCHANGED <<docker, builder, deleter, deleted, late>>
  BY DEF Restart
<1>2. /\ \A i \in Ids : images[i] = "none" /\ builder[i] \in Left
      /\ \A d \in Deleters : deleter[d] = Idle
  BY <1>1 DEF ImagesInv, DownHoldsNothing
<1>3. PICK rows \in {row, [i \in Ids |-> "none"]} :
      \E found \in Discoveries(rows) :
      \E written \in SUBSET (found \cup {i \in Ids : rows[i] = "building"}) :
        RestartedFrom(rows, found, written)
  BY RestartMakes, Zenon
<1>4. PICK found \in Discoveries(rows) :
      \E written \in SUBSET (found \cup {i \in Ids : rows[i] = "building"}) :
        RestartedFrom(rows, found, written)
  BY <1>3, Zenon
<1>5. PICK written \in SUBSET (found \cup {i \in Ids : rows[i] = "building"}) :
        RestartedFrom(rows, found, written)
  BY <1>4, Zenon
<1> USE DEF RestartedFrom
<1>6. /\ found \subseteq Ids \ used
      /\ \A i \in Ids : rows[i] \in {"none", row[i]}
      /\ \A i, k \in Ids :
           /\ i \in found \/ rows[i] # "none"
           /\ k \in found \/ rows[k] # "none"
           /\ NameOf[i] = NameOf[k]
           => i = k
  BY RestartReads, Zenon
<1>7. written \subseteq Ids
      /\ \A i \in written : i \in found \/ rows[i] # "none"
  BY <1>6
<1>8. \A i \in Ids : images'[i] # "none" => i \in found \/ rows[i] # "none"
  BY <1>5 DEF Restored
<1>9. \A i \in Ids : images'[i] # "building"
  BY <1>5 DEF Restored
<1>10. ImagesTypeOK'
  BY <1>1, <1>5, <1>6 DEF ImagesInv, ImagesTypeOK, Restart, Fault
<1>11. OneRowPerName'
  <2> SUFFICES ASSUME NEW i \in Ids, NEW k \in Ids, row'[i] # "none",
                      row'[k] # "none", NameOf[i] = NameOf[k]
               PROVE  i = k
    BY DEF OneRowPerName
  <2>1. CASE i \in written /\ k \in written
    BY <1>6, <1>7, <2>1
  <2>2. CASE i \in written /\ k \notin written
    BY <1>5, <2>2
  <2>3. CASE i \notin written /\ k \in written
    BY <1>5, <2>3
  <2>4. CASE i \notin written /\ k \notin written
    <3>1. row[i] # "none" /\ row[k] # "none"
      BY <1>5, <2>4
    <3>2. QED
      BY <3>1 DEF ImagesInv, OneRowPerName
  <2>5. QED
    BY <2>1, <2>2, <2>3, <2>4
<1>12. \A i \in Ids \ found : row[i] = "none" =>
         images'[i] = "none" /\ row'[i] = "none"
  BY <1>5, <1>6, <1>7 DEF Restored
<1>13. FreshUnknown'
  BY <1>1, <1>2, <1>5, <1>12 DEF ImagesInv, FreshUnknown
<1>14. DownHoldsNothing' /\ DeletionIsLast'
  BY <1>1, <1>2 DEF DownHoldsNothing, DeletionIsLast, Idle
<1>15. BuilderHasRecord' /\ DeletedUnpended'
  BY <1>1, <1>2
  DEF Left, ImagesInv, ImagesTypeOK, BuilderHasRecord, DeletedUnpended, Pending
<1>16. OneRecordPerName'
  BY <1>6, <1>8 DEF OneRecordPerName, Listed
<1>17. DeletedStaysDeleted'
  BY <1>1, <1>6, <1>12 DEF ImagesInv, ImagesTypeOK, DeletedStaysDeleted
<1>18. QED
  BY <1>10, <1>11, <1>13, <1>14, <1>15, <1>16, <1>17 DEF ImagesInv

----------------------------------------------------------------------------
LEMMA ImagesInvInit == Init => ImagesInv
<1> SUFFICES ASSUME Init PROVE ImagesInv
  OBVIOUS
<1>1. ImagesTypeOK
  BY DEF Init, ImagesTypeOK, Statuses, BuilderStates, Idle
<1>2. QED
  BY <1>1
  DEF Init, ImagesInv, OneRowPerName, FreshUnknown, DownHoldsNothing,
      DeletionIsLast, DeletedUnpended, BuilderHasRecord, OneRecordPerName,
      Listed, DeletedStaysDeleted, Idle, Pending

LEMMA ImagesInvStep == ImagesInv /\ [Next]_imageVars => ImagesInv'
<1> SUFFICES ASSUME ImagesInv, [Next]_imageVars PROVE ImagesInv'
  OBVIOUS
<1>1. CASE \E i \in Ids : Reserve(i) \/ BuilderStep(i)
  BY <1>1, BuildKeeps, Zenon
<1>2. CASE \E d \in Deleters, i \in Ids : BeginDelete(d, i)
  BY <1>2, BeginDeleteKeeps, Zenon
<1>3. CASE \E d \in Deleters : DeleterStep(d)
  BY <1>3, DeleterKeeps, Zenon
<1>4. CASE Crash
  BY <1>4, CrashKeeps, Zenon
<1>5. CASE \E i \in Ids : CompleteAbandoned(i)
  BY <1>5, AbandonedKeeps, Zenon
<1>6. CASE Restart
  BY <1>6, RestartKeeps, Zenon
<1>7. CASE UNCHANGED imageVars
  BY <1>7
  DEF imageVars, ImagesInv, ImagesTypeOK, OneRowPerName, FreshUnknown,
      DownHoldsNothing, DeletionIsLast, DeletedUnpended, BuilderHasRecord,
      OneRecordPerName, Listed, DeletedStaysDeleted
<1>8. QED
  BY <1>1, <1>2, <1>3, <1>4, <1>5, <1>6, <1>7, Zenon DEF Next

LEMMA ImagesInvariant == ImagesSpec => []ImagesInv
<1>1. QED
  BY ImagesInvInit, ImagesInvStep, PTL DEF ImagesSpec

(* BuildImage's goroutine in images.go finds its record, in building, when *)
(* the build ends: it dereferences the entry of the map without asking.    *)
THEOREM BuilderHasRecordHolds == ImagesSpec => []BuilderHasRecord
<1>1. ImagesInv => BuilderHasRecord
  BY DEF ImagesInv
<1>2. QED
  BY ImagesInvariant, <1>1, PTL

(* reserve and NewImageBuilder never let two records offer one name,       *)
(* whichever saves failed before a restart.                                *)
THEOREM OneRecordPerNameHolds == ImagesSpec => []OneRecordPerName
<1>1. ImagesInv => OneRecordPerName
  BY DEF ImagesInv
<1>2. QED
  BY ImagesInvariant, <1>1, PTL

(* A record whose deletion was answered with success is in neither the map *)
(* nor the table again, unless its result was still to be saved.           *)
THEOREM DeletedStaysDeletedHolds == ImagesSpec => []DeletedStaysDeleted
<1>1. ImagesInv => DeletedStaysDeleted
  BY DEF ImagesInv
<1>2. QED
  BY ImagesInvariant, <1>1, PTL
=============================================================================
