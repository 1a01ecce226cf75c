---------------------------- MODULE FairScheduler ----------------------------
(***************************************************************************)
(* The scheduling pass of the project_fair_scheduling feature              *)
(* (scheduleFairLocked in internal/store/store.go): one assignment at a    *)
(* time goes to the project that has the least virtual runtime among those *)
(* with work that can be placed, and is charged to it in proportion to its *)
(* GPUs and in inverse proportion to the project's weight.                 *)
(*                                                                         *)
(* What can be placed depends on nodes, licence, quotas and the projects'  *)
(* status, which JobStore models: here each round finds any set of queued  *)
(* jobs placeable, and any projects that have work may be the competitors. *)
(***************************************************************************)
EXTENDS Integers

CONSTANTS
  NumJobs,     (* job IDs, numbered in the order of their CreatedAt        *)
  Projects,
  ProjectOf,   (* the project each job is created in                       *)
  GpuCount,    (* Requirements.GPUCount of each job                        *)
  Priority,    (* Priority of each job                                     *)
  Weights,     (* the weights administrators give projects                 *)
  Stride,      (* fairSchedulingStride                                     *)
  Scale,       (* unit of the history: a multiple of every weight          *)
  MaxVruntime  (* bound: nothing is assigned to a project past it          *)

Jobs == 1..NumJobs

DefaultWeight == 1

(* The weights need not divide the stride, and a charge is rounded as the  *)
(* code rounds it.  Scale only measures shares: counted in parts of it,    *)
(* what a project receives per weight is a whole number.                   *)
ASSUME FairAssumption ==
  /\ NumJobs \in Nat
  /\ ProjectOf \in [Jobs -> Projects]
  /\ GpuCount \in [Jobs -> Nat]
  /\ Priority \in [Jobs -> Int]
  /\ Weights \subseteq Nat \ {0}
  /\ Stride \in Nat \ {0}
  /\ Scale \in Nat \ {0}
  /\ \A w \in Weights : Scale % w = 0
  /\ MaxVruntime \in Nat

VARIABLES
  status,    (* absent, queued, active or ended                            *)
  weight,    (* Project.Weight                                             *)
  vruntime,  (* Project.SchedulerVRuntime                                  *)
  won,       (* history: what a project received beyond another, in GPUs   *)
             (* times Stride per weight, since both have been runnable, in *)
             (* parts of Scale                                             *)
  due,       (* history: what it was behind when that began                *)
  rounded    (* history: the other's charges since then that were rounded  *)

history == <<won, due, rounded>>

fairVars == <<status, weight, vruntime, won, due, rounded>>

Pairs == Projects \X Projects

AtLeastZero(x) == IF x > 0 THEN x ELSE 0

----------------------------------------------------------------------------
Backlogged(p) ==
  \E j \in Jobs : ProjectOf[j] = p /\ status[j] \in {"queued", "active"}

(* Sets of competitors: a project with work competes unless it is          *)
(* disabled or, while it only waits, no node could ever serve it.          *)
CompetitorSets(p) == SUBSET {q \in Projects \ {p} : Backlogged(q)}

(* minimumFairCompetitorVRuntimeLocked; without competitors p's own.       *)
Baselines(p, Q) ==
  IF Q = {}
    THEN {vruntime[p]}
    ELSE {vruntime[q] : q \in {r \in Q : \A o \in Q : vruntime[r] <= vruntime[o]}}

Cost(j) == IF GpuCount[j] = 0 THEN 1 ELSE GpuCount[j]

(* Mistake: what a charge is beyond a whole number is dropped.             *)
FaultyStrideDelta(j) == (Stride * Cost(j)) \div weight[ProjectOf[j]]

(* fairStrideDelta, rounded up.                                            *)
StrideDelta(j) ==
  LET w == weight[ProjectOf[j]]
  IN  (Stride * Cost(j) + w - 1) \div w

(* What the project of job j receives with it, to the last part of Scale,  *)
(* and whether its charge is more than that.                               *)
Received(j)  == (Scale \div weight[ProjectOf[j]]) * (Stride * Cost(j))
RoundedUp(j) == Received(j) < Scale * StrideDelta(j)

(* fairJobBefore.                                                          *)
Before(i, j) ==
  Priority[i] > Priority[j] \/ (Priority[i] = Priority[j] /\ i <= j)

(* Mistake: a higher priority also wins against another project.           *)
FaultySelected(j, placeable) == \A i \in placeable : Before(j, i)

(* The best placeable job of a project with the least virtual runtime.     *)
(* The code breaks ties by the projects' names, which are arbitrary here.  *)
Selected(j, placeable) ==
  \A i \in placeable :
    IF ProjectOf[i] = ProjectOf[j]
      THEN Before(j, i)
      ELSE vruntime[ProjectOf[j]] <= vruntime[ProjectOf[i]]

(* Mistake: a project that comes back from idleness starts where it left.  *)
FaultyLifted(p, baseline) == vruntime[p]

(* It starts no lower than its competitors: nothing is saved up.           *)
Lifted(p, baseline) == IF vruntime[p] < baseline THEN baseline ELSE vruntime[p]

----------------------------------------------------------------------------
(* A contest between two projects ends when one of them becomes idle or    *)
(* has nothing placeable in a round; the next one starts from their        *)
(* virtual runtimes.                                                       *)

(* CreateJob and RerunJob.                                                 *)
CreateJob(j) ==
  LET p == ProjectOf[j]
  IN  /\ status[j] = "absent"
      /\ \A i \in 1..j - 1 : status[i] # "absent"
      /\ status' = [status EXCEPT ![j] = "queued"]
      /\ IF Backlogged(p)
           THEN UNCHANGED <<vruntime, history>>
           ELSE \E Q \in CompetitorSets(p) : \E baseline \in Baselines(p, Q) :
                  LET entry == Lifted(p, baseline)
                  IN  /\ vruntime' = [vruntime EXCEPT ![p] = entry]
                      /\ won' = [x \in Pairs |->
                                   IF p \in {x[1], x[2]} THEN 0 ELSE won[x]]
                      /\ due' = [x \in Pairs |->
                           IF x[1] = p
                             THEN AtLeastZero(vruntime[x[2]] - baseline)
                             ELSE IF x[2] = p THEN AtLeastZero(entry - vruntime[x[1]]) ELSE due[x]]
                      /\ rounded' = [x \in Pairs |->
                                       IF p \in {x[1], x[2]} THEN 0 ELSE rounded[x]]
      /\ UNCHANGED weight

(* UpdateProject.                                                          *)
UpdateWeight(p, w) ==
  /\ weight' = [weight EXCEPT ![p] = w]
  /\ UNCHANGED <<status, vruntime, history>>

(* One round of the pass: the assignment and its charge.                   *)
FairAssign(j, placeable) ==
  LET p        == ProjectOf[j]
      runnable == {ProjectOf[i] : i \in placeable}
      Gain(q)  == IF q = p THEN Received(j) ELSE 0
      Excess(q) == IF q = p /\ RoundedUp(j) THEN 1 ELSE 0
      Contest(x) == x[1] \in runnable /\ x[2] \in runnable
  IN  /\ vruntime[p] <= MaxVruntime
      /\ Selected(j, placeable)
      /\ status' = [status EXCEPT ![j] = "active"]
      /\ vruntime' = [vruntime EXCEPT ![p] = vruntime[p] + StrideDelta(j)]
      /\ won' = [x \in Pairs |->
           IF Contest(x) THEN won[x] + Gain(x[1]) - Gain(x[2]) ELSE 0]
      /\ due' = [x \in Pairs |->
           IF Contest(x)
             THEN due[x]
             ELSE AtLeastZero(vruntime'[x[2]] - vruntime'[x[1]])]
      /\ rounded' = [x \in Pairs |->
           IF Contest(x) THEN rounded[x] + Excess(x[2]) ELSE 0]
      /\ UNCHANGED weight

(* Unstarted work taken back, a retry or an interrupted run: what was      *)
(* charged for the attempt is not refunded.                                *)
Requeue(j) ==
  /\ status[j] = "active"
  /\ status' = [status EXCEPT ![j] = "queued"]
  /\ UNCHANGED <<weight, vruntime, history>>

(* A job ends, or is canceled while it waits.                              *)
End(j) ==
  /\ status[j] \in {"queued", "active"}
  /\ status' = [status EXCEPT ![j] = "ended"]
  /\ UNCHANGED <<weight, vruntime, history>>

----------------------------------------------------------------------------
Init ==
  /\ status = [j \in Jobs |-> "absent"]
  /\ weight = [p \in Projects |-> DefaultWeight]
  /\ vruntime = [p \in Projects |-> 0]
  /\ won = [x \in Pairs |-> 0]
  /\ due = [x \in Pairs |-> 0]
  /\ rounded = [x \in Pairs |-> 0]

Next ==
  \/ \E j \in Jobs : CreateJob(j)
  \/ \E p \in Projects, w \in Weights : UpdateWeight(p, w)
  \/ \E placeable \in SUBSET {j \in Jobs : status[j] = "queued"} :
       \E j \in placeable : FairAssign(j, placeable)
  \/ \E j \in Jobs : Requeue(j) \/ End(j)

FairSpec == Init /\ [][Next]_fairVars

----------------------------------------------------------------------------
(* Properties.                                                             *)

(* Every record has the fields and ranges of the code's.                   *)
FairTypeOK ==
  /\ status \in [Jobs -> {"absent", "queued", "active", "ended"}]
  /\ weight \in [Projects -> Weights \cup {DefaultWeight}]
  /\ vruntime \in [Projects -> Nat]
  /\ won \in [Pairs -> Int]
  /\ due \in [Pairs -> Nat]
  /\ rounded \in [Pairs -> Nat]

(* What p was behind q when their contest began, and what q was charged    *)
(* too much since then: less than one unit of runtime for each charge.     *)
Allowance(p, q) == Scale * (due[<<p, q>>] + rounded[<<p, q>>])

(* While two projects both have placeable work, neither receives more than *)
(* one job beyond its weighted share, apart from what it was behind when   *)
(* that began and from what the rounding of charges cost the other; and a  *)
(* project that returns from idleness is behind nobody by more than its    *)
(* least competitor is.  Priorities, sizes, requeues and changed weights   *)
(* make no difference.                                                     *)
FairShare ==
  \A p, q \in Projects :
    \/ won[<<p, q>>] <= Allowance(p, q)
    \/ \E j \in Jobs : /\ ProjectOf[j] = p
                       /\ won[<<p, q>>] <= Allowance(p, q) + Scale * (Stride * Cost(j))
=============================================================================
