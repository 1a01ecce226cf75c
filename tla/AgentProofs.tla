----------------------------- MODULE AgentProofs -----------------------------
(***************************************************************************)
(* Proofs about Agent: that the agents ask of the store nothing but its    *)
(* own operations, and what containers compute on a host, for every number *)
(* of jobs, nodes, sessions, workers and faults.                           *)
(*                                                                         *)
(* A container is the current attempt of its job because of a chain that   *)
(* starts at the store: a session's lease protects its node, the token of  *)
(* an attempt has one holder, the holder alone passes the validation, and  *)
(* a successor takes work only after a cleanup.  The invariant states each *)
(* link, so that a step is looked at by the one link it concerns.          *)
(***************************************************************************)
EXTENDS Agent, JobStoreProofs

(* Where a worker has a claim that it does not execute yet, and where it   *)
(* executes the attempt: it was found to own it.                           *)
Early == {"start", "reread", "disowned", "prepare", "validate"}

Executing == {"create", "creating", "confirm", "launch", "monitor", "cleanup"}

Resting == {"idle", "poll", "gone"}

SameAttempt(r, q) == r.job = q.job /\ r.attempt = q.attempt

Runs(b) == b.st \in {"starting", "computing"}

WorkerJob(w) == worker[w].at \notin Resting => worker[w].job \in Jobs

TypedInv == AgentTypeOK /\ \A w \in Workers : WorkerJob(w)

(* A node's session was registered for that node, and a process whose      *)
(* lease lasts has its node.                                               *)
SessionsInv ==
  /\ \A n \in Nodes : node[n].session # NoSession =>
       /\ node[n].known
       /\ Home[node[n].session] = n
       /\ agent[node[n].session].phase # "new"
  /\ \A s \in Sessions : agent[s].lease =>
       node[Home[s]].session = s /\ ~node[Home[s]].stale

WorkerInv(w) ==
  /\ worker[w].at # "idle" => agent[SessionOf[w]].phase \in {"ready", "stopped"}
  /\ agent[SessionOf[w]].handoff = "quiesced" => ~Active(w)

(* What runs is watched by the worker that launched it, until it stopped.  *)
BoxInv(b) ==
  LET s == SessionOf[b.by]
  IN  /\ agent[s].phase \in {"ready", "stopped"}
      /\ Runs(b) => \/ /\ agent[s].phase = "stopped"
                       /\ agent[s].handoff # "quiesced"
                    \/ /\ worker[b.by].at \in {"monitor", "cleanup"}
                       /\ SameAttempt(b, worker[b.by])

(* The attempt of r was started, and if it is the one that runs, worker w  *)
(* has its token.                                                          *)
StartedBy(r, w) ==
  /\ r.attempt <= started[r.job]
  /\ r.attempt = started[r.job] /\ job[r.job].claim = "held" =>
       holder[r.job] = w

(* The token a worker was sent last is that of the attempt it works on.    *)
TokenInv(w) ==
  LET j == worker[w].job
  IN  /\ worker[w].at \in Early \cup Executing
      /\ holder[j] = w
      /\ job[j].claim # "none"
      => /\ job[j].attempts = worker[w].attempt
         /\ job[j].claim # "held" => job[j].status = "assigned"

(* An attempt is executed by one worker and has one container.             *)
NamesInv ==
  /\ \A b \in box : StartedBy(b, b.by)
  /\ \A w \in Workers : worker[w].at \in Executing => StartedBy(worker[w], w)
  /\ \A b, c \in box : SameAttempt(b, c) => b = c
  /\ \A b \in box, w \in Workers :
       worker[w].at \in Executing /\ SameAttempt(b, worker[w]) => b.by = w
  /\ \A w, v \in Workers :
       /\ worker[w].at \in Executing
       /\ worker[v].at \in Executing
       /\ SameAttempt(worker[w], worker[v])
       => w = v
  /\ \A b \in box : worker[b.by].at \in Early \cup {"create"} =>
       ~SameAttempt(b, worker[b.by])

ClaimInv(j) == job[j].claim # "none" => job[j].status \in ActiveStatus

(* The attempt of r is the job's, on the host of worker w ...              *)
OnNode(r, w) ==
  /\ job[r.job].status \in {"running", "canceling"}
  /\ job[r.job].attempts = r.attempt
  /\ job[r.job].node = HostOf(w)

(* ... and w has its token.                                                *)
Current(r, w) ==
  /\ job[r.job].claim = "held"
  /\ holder[r.job] = w
  /\ job[r.job].session = SessionOf[w]

HasNode(w) == node[HostOf(w)].session = SessionOf[w]

HostsInv ==
  /\ \A b \in box :
       Runs(b) => OnNode(b, b.by) /\ (HasNode(b.by) => Current(b, b.by))
  /\ \A w \in Workers : worker[w].at = "launch" /\ HasNode(w) =>
       OnNode(worker[w], w) /\ Current(worker[w], w)
  /\ \A s \in Sessions, b \in box :
       /\ agent[s].phase \in {"cleaned", "ready"}
       /\ node[Home[s]].session = s
       /\ Runs(b)
       /\ HostOf(b.by) = Home[s]
       => SessionOf[b.by] = s

----------------------------------------------------------------------------
(* The agents' steps are steps of the store.                               *)

LEMMA HostType ==
  ASSUME NEW w \in Workers
  PROVE  /\ SessionOf[w] \in Sessions /\ SessionOf[w] # NoSession
         /\ HostOf(w) \in Nodes
BY AgentAssumption, PolicyAssumption DEF HostOf

LEMMA StoreStep ==
  ASSUME TypedInv, [NextWithAgents]_allVars
  PROVE  [Next]_vars
<1>1. CASE Surroundings
  BY <1>1 DEF Surroundings, HeartbeatMissed, Next, UserOperation, Time
<1>2. ASSUME NEW s \in Sessions, Process(s)
      PROVE  [Next]_vars
  <2>1. Home[s] \in Nodes
    BY AgentAssumption
  <2>2. CASE \E healthy \in RegisteredHealth, g \in Inventories :
               Register(s, healthy, g)
    BY <2>1, <2>2 DEF Register, Next, AgentNodeOperation
  <2>3. CASE \E healthy \in ReportedHealth, g \in Inventories,
               hostChanged \in BOOLEAN :
               ReportHealth(s, healthy, g, hostChanged)
    BY <2>1, <2>3 DEF ReportHealth, Next, AgentNodeOperation
  <2>4. CASE Confirm(s)
    BY <2>1, <2>4 DEF Confirm, Next, AgentNodeOperation
  <2>5. CASE SessionRefused(s)
    BY <2>1, <2>5 DEF SessionRefused, Next, AgentNodeOperation
  <2>6. CASE \/ CleanManaged(s) \/ StopExpired(s) \/ LeaseRunsOut(s) \/ Crash(s)
             \/ Quiesce(s) \/ AcknowledgeQuiesce(s) \/ Resume(s)
    BY <2>6 DEF CleanManaged, StopExpired, LeaseRunsOut, Crash, Quiesce,
                AcknowledgeQuiesce, Resume
  <2>7. QED
    BY <1>2, <2>2, <2>3, <2>4, <2>5, <2>6 DEF Process, ProcessStep
<1>3. ASSUME NEW w \in Workers, WorkerStep(w)
      PROVE  [Next]_vars
  <2>1. CASE Poll(w)
    BY <2>1, HostType DEF Poll, Next, AgentJobOperation
  <2>2. CASE PostRunning(w)
    <3>1. worker[w].job \in Jobs
      BY <2>2 DEF PostRunning, At_, TypedInv, WorkerJob, Resting
    <3>2. QED
      BY <2>2, <3>1 DEF PostRunning, Next, AgentJobOperation
  <2>3. CASE PostEnd(w)
    <3>1. worker[w].job \in Jobs
      BY <2>3 DEF PostEnd, At_, TypedInv, WorkerJob, Resting
    <3>2. QED
      BY <2>3, <3>1 DEF PostEnd, ReportEnd, Next, AgentJobOperation
  <2>4. CASE \/ Tick(w) \/ PollInVain(w) \/ PostRunningFails(w)
             \/ RereadStart(w) \/ RereadFails(w) \/ Prepare(w) \/ Validate(w)
             \/ ExecuteFails(w) \/ RequestCreate(w) \/ Created(w)
    BY <2>4 DEF Tick, PollInVain, PostRunningFails, RereadStart, RereadFails,
                Prepare, Validate, ExecuteFails, RequestCreate, Created
  <2>5. CASE \/ ValidateAgain(w) \/ Launch(w) \/ Finishes(w)
             \/ SeesCancellation(w) \/ RemoveBox(w) \/ PostEndFails(w)
             \/ RecheckEnd(w) \/ Withdraw(w)
    BY <2>5 DEF ValidateAgain, Launch, Finishes, SeesCancellation, RemoveBox,
                PostEndFails, RecheckEnd, Withdraw
  <2>6. QED
    BY <1>3, <2>1, <2>2, <2>3, <2>4, <2>5 DEF WorkerStep
<1>4. CASE (\E b \in box : Daemon(b)) \/ UNCHANGED allVars
  BY <1>4 DEF Daemon, allVars, vars
<1>5. QED
  BY <1>1, <1>2, <1>3, <1>4 DEF NextWithAgents

----------------------------------------------------------------------------
(* What a step makes of the workers.                                       *)

Others(w) == \A v \in Workers \ {w} : worker'[v] = worker[v]

LEMMA GotoFacts ==
  ASSUME worker \in [Workers -> WorkerRecord], NEW w \in Workers,
         NEW at \in At, Goto(w, at)
  PROVE  /\ worker' \in [Workers -> WorkerRecord] /\ Others(w)
         /\ worker'[w].at = at /\ SameAttempt(worker'[w], worker[w])
BY DEF Goto, WorkerRecord, Others, SameAttempt

LEMMA ConcludeFacts ==
  ASSUME worker \in [Workers -> WorkerRecord], NEW w \in Workers,
         NEW at \in At, NEW outcome \in Outcome, Conclude(w, at, outcome)
  PROVE  /\ worker' \in [Workers -> WorkerRecord] /\ Others(w)
         /\ worker'[w].at = at /\ SameAttempt(worker'[w], worker[w])
BY DEF Conclude, WorkerRecord, Others, SameAttempt

LEMMA IdleFacts ==
  /\ Idle \in WorkerRecord /\ Idle.at = "idle"
  /\ Gone \in WorkerRecord /\ Gone.at = "gone"
BY DEF Idle, Gone, WorkerRecord, At, Outcome

LEMMA RestFacts ==
  ASSUME worker \in [Workers -> WorkerRecord], NEW w \in Workers, Rest(w)
  PROVE  /\ worker' \in [Workers -> WorkerRecord] /\ Others(w)
         /\ worker'[w] = Idle
BY IdleFacts DEF Rest, Others

LEMMA FailStopFacts ==
  ASSUME agent \in [Sessions -> AgentRecord],
         worker \in [Workers -> WorkerRecord], NEW s \in Sessions, FailStop(s)
  PROVE  /\ agent' \in [Sessions -> AgentRecord]
         /\ worker' \in [Workers -> WorkerRecord]
         /\ agent'[s].phase = "stopped" /\ agent'[s].lease = agent[s].lease
         /\ agent'[s].handoff = "quiesced" <=> agent[s].handoff = "quiesced"
         /\ \A z \in Sessions \ {s} : agent'[z] = agent[z]
         /\ \A w \in Workers :
              \/ worker'[w] = worker[w] /\ (SessionOf[w] = s => HasContainerID(w))
              \/ worker'[w] = Gone /\ SessionOf[w] = s /\ ~HasContainerID(w)
<1> DEFINE r == [agent[s] EXCEPT !.phase = "stopped",
                                 !.handoff = IF @ = "quiesced" THEN @ ELSE "open"]
<1>1. agent[s] \in AgentRecord
  OBVIOUS
<1>2. agent' = [agent EXCEPT ![s] = r]
  BY DEF FailStop
<1>3. /\ r \in AgentRecord
      /\ r.phase = "stopped" /\ r.lease = agent[s].lease
      /\ r.handoff = "quiesced" <=> agent[s].handoff = "quiesced"
  BY <1>1 DEF AgentRecord, Phase, Handoff
<1>4. \A w \in Workers :
        worker'[w] = IF SessionOf[w] = s /\ ~HasContainerID(w)
                       THEN Gone ELSE worker[w]
  BY DEF FailStop
<1>5. worker' \in [Workers -> WorkerRecord]
  BY IdleFacts DEF FailStop
<1> HIDE DEF r
<1>6. QED
  BY <1>2, <1>3, <1>4, <1>5

----------------------------------------------------------------------------
(* Types.                                                                  *)

AgentTypes ==
  /\ agent \in [Sessions -> AgentRecord]
  /\ worker \in [Workers -> WorkerRecord]
  /\ box \subseteq Box
  /\ holder \in [Jobs -> Workers \cup {NoWorker}]
  /\ faults \in 0..MaxFaults
  /\ \A w \in Workers : WorkerJob(w)

LEMMA TypedSplit == TypedInv <=> TypeOK /\ AgentTypes
BY DEF TypedInv, AgentTypes, AgentTypeOK

LEMMA FaultType ==
  ASSUME faults \in 0..MaxFaults, Fault \/ NoFault
  PROVE  faults' \in 0..MaxFaults
BY AgentAssumption DEF Fault, NoFault

(* A step that moves one worker, or rests it, keeps the types.             *)
LEMMA WorkerMoveTyped ==
  ASSUME AgentTypes, NEW w \in Workers, Others(w),
         worker' \in [Workers -> WorkerRecord],
         worker'[w].at \notin Resting => worker'[w].job \in Jobs
  PROVE  \A v \in Workers : WorkerJob(v)'
BY DEF AgentTypes, WorkerJob, Others

LEMMA FailStopTyped ==
  ASSUME AgentTypes, NEW s \in Sessions, FailStop(s)
  PROVE  /\ agent' \in [Sessions -> AgentRecord]
         /\ worker' \in [Workers -> WorkerRecord]
         /\ \A v \in Workers : WorkerJob(v)'
<1>1. /\ agent' \in [Sessions -> AgentRecord]
      /\ worker' \in [Workers -> WorkerRecord]
      /\ \A v \in Workers : worker'[v] = worker[v] \/ worker'[v] = Gone
  BY FailStopFacts DEF AgentTypes
<1>2. QED
  BY <1>1, IdleFacts DEF AgentTypes, WorkerJob, Resting

LEMMA AgentRecordTypes ==
  ASSUME agent \in [Sessions -> AgentRecord], NEW s \in Sessions
  PROVE  /\ \A phase \in Phase :
              /\ [agent EXCEPT ![s].phase = phase] \in [Sessions -> AgentRecord]
              /\ [agent EXCEPT ![s].phase = phase, ![s].lease = TRUE]
                   \in [Sessions -> AgentRecord]
         /\ [agent EXCEPT ![s].lease = FALSE] \in [Sessions -> AgentRecord]
         /\ \A handoff \in Handoff :
              [agent EXCEPT ![s].handoff = handoff] \in [Sessions -> AgentRecord]
BY DEF AgentRecord

LEMMA ProcessTyped ==
  ASSUME AgentTypes, NEW s \in Sessions, Process(s)
  PROVE  AgentTypes'
<1>1. /\ agent \in [Sessions -> AgentRecord] /\ box \subseteq Box
      /\ worker \in [Workers -> WorkerRecord] /\ faults \in 0..MaxFaults
  BY DEF AgentTypes
<1>2. CASE \E healthy \in BOOLEAN, g \in Inventories : Register(s, healthy, g)
  <2>1. PICK healthy \in BOOLEAN, g \in Inventories : Register(s, healthy, g)
    BY <1>2
  <2>2. agent' \in [Sessions -> AgentRecord]
    <3>1. PICK phase \in {"registered", "stopped"} :
            agent' = [agent EXCEPT ![s].phase = phase, ![s].lease = TRUE]
      BY <2>1 DEF Register
    <3>2. phase \in Phase
      BY DEF Phase
    <3>3. QED
      BY <1>1, <3>1, <3>2, AgentRecordTypes
  <2>3. faults' \in 0..MaxFaults
    BY <1>1, <2>1, FaultType DEF Register
  <2>4. UNCHANGED <<worker, box, holder>>
    BY <2>1 DEF Register
  <2>5. QED
    BY <2>2, <2>3, <2>4 DEF AgentTypes, WorkerJob
<1>3. CASE \E healthy \in BOOLEAN, g \in Inventories, hostChanged \in BOOLEAN :
             ReportHealth(s, healthy, g, hostChanged)
  <2>1. faults' \in 0..MaxFaults /\ UNCHANGED <<agent, worker, box, holder>>
    BY <1>1, <1>3, FaultType DEF ReportHealth
  <2>2. QED
    BY <2>1 DEF AgentTypes, WorkerJob
<1>4. CASE Confirm(s)
  <2>1. faults' \in 0..MaxFaults /\ UNCHANGED <<box, holder>>
    BY <1>1, <1>4, FaultType DEF Confirm
  <2>2. CASE FailStop(s)
    BY <2>1, <2>2, FailStopTyped DEF AgentTypes
  <2>3. CASE agent' = [agent EXCEPT ![s].phase = "ready"] /\ UNCHANGED worker
    BY <1>1, <2>1, <2>3, AgentRecordTypes DEF AgentTypes, Phase, WorkerJob
  <2>4. QED
    BY <1>4, <2>2, <2>3 DEF Confirm
<1>5. CASE StopExpired(s) \/ Crash(s) \/ SessionRefused(s)
  BY <1>5, FailStopTyped DEF StopExpired, Crash, SessionRefused, AgentTypes
<1>6. CASE CleanManaged(s)
  <2>1. box' \subseteq box /\ UNCHANGED <<worker, holder, faults>>
        /\ agent' = [agent EXCEPT ![s].phase = "cleaned"]
    BY <1>6 DEF CleanManaged
  <2>2. QED
    BY <1>1, <2>1, AgentRecordTypes DEF AgentTypes, Phase, WorkerJob
<1>7. CASE LeaseRunsOut(s)
  BY <1>1, <1>7, AgentRecordTypes DEF LeaseRunsOut, AgentTypes, WorkerJob
<1>8. CASE Quiesce(s) \/ AcknowledgeQuiesce(s) \/ Resume(s)
  <2>1. PICK handoff \in Handoff : agent' = [agent EXCEPT ![s].handoff = handoff]
    BY <1>8 DEF Quiesce, AcknowledgeQuiesce, Resume, Handoff
  <2>2. agent' \in [Sessions -> AgentRecord]
    BY <1>1, <2>1, AgentRecordTypes
  <2>3. UNCHANGED <<worker, box, holder, faults>>
    BY <1>8 DEF Quiesce, AcknowledgeQuiesce, Resume
  <2>4. QED
    BY <2>2, <2>3 DEF AgentTypes, WorkerJob
<1>9. QED
  BY <1>2, <1>3, <1>4, <1>5, <1>6, <1>7, <1>8
     DEF Process, ProcessStep, RegisteredHealth, ReportedHealth

----------------------------------------------------------------------------
(* Most steps of a worker only bring it on: its process is ready, it keeps *)
(* its attempt or gives it up, nothing new appears on its host, and what   *)
(* runs there is not left alone.                                           *)

Progress(w) ==
  /\ SameAttempt(worker'[w], worker[w])
  /\ worker[w].at \notin Resting
  /\ worker'[w].at \notin Resting \cup {"create", "launch"}
  /\ worker'[w].at \in Early => worker[w].at \in Early
  /\ worker'[w].at \in Executing => worker[w].at \in Executing
  /\ worker[w].at \in {"monitor", "cleanup"} =>
       worker'[w].at \in {"monitor", "cleanup"} \/ box' \cap Own(w) = {}

LocalMove(w) ==
  /\ UNCHANGED <<vars, agent, holder>>
  /\ agent[SessionOf[w]].phase = "ready"
  /\ agent[SessionOf[w]].handoff # "quiesced"
  /\ worker' \in [Workers -> WorkerRecord]
  /\ faults' \in 0..MaxFaults
  /\ Others(w)
  /\ box' \subseteq box
  /\ \/ worker'[w] = Idle /\ worker[w].at \notin {"monitor", "cleanup"}
     \/ worker[w].at = "idle" /\ worker'[w].at = "poll"
     \/ Progress(w)

LEMMA ActiveOpen ==
  ASSUME NEW w \in Workers, WorkerInv(w), Ready(SessionOf[w]),
         worker[w].at \notin {"idle", "gone"}
  PROVE  /\ agent[SessionOf[w]].phase = "ready"
         /\ agent[SessionOf[w]].handoff # "quiesced"
BY DEF WorkerInv, Ready, Active

LEMMA StepsOn ==
  ASSUME AgentTypes, NEW w \in Workers, WorkerInv(w),
         UNCHANGED <<vars, agent, holder>>, Ready(SessionOf[w]),
         Fault \/ NoFault, box' \subseteq box,
         NEW at \in At \ (Resting \cup {"create", "launch"}),
         Goto(w, at) \/ \E outcome \in Outcome : Conclude(w, at, outcome),
         worker[w].at \notin Resting,
         at \in Early => worker[w].at \in Early,
         at \in Executing => worker[w].at \in Executing,
         worker[w].at \in {"monitor", "cleanup"} =>
           at \in {"monitor", "cleanup"} \/ box' \cap Own(w) = {}
  PROVE  LocalMove(w)
<1>1. /\ worker \in [Workers -> WorkerRecord] /\ faults' \in 0..MaxFaults
  BY FaultType DEF AgentTypes
<1>2. /\ worker' \in [Workers -> WorkerRecord] /\ Others(w)
      /\ worker'[w].at = at /\ SameAttempt(worker'[w], worker[w])
  BY <1>1, GotoFacts, ConcludeFacts
<1>3. /\ agent[SessionOf[w]].phase = "ready"
      /\ agent[SessionOf[w]].handoff # "quiesced"
  BY ActiveOpen DEF Resting
<1>4. Progress(w)
  BY <1>2 DEF Progress
<1>5. QED
  BY <1>1, <1>2, <1>3, <1>4 DEF LocalMove

LEMMA Rests ==
  ASSUME AgentTypes, NEW w \in Workers, WorkerInv(w),
         UNCHANGED <<vars, agent, holder, box>>, Ready(SessionOf[w]),
         Fault \/ NoFault, Rest(w),
         worker[w].at \notin {"idle", "gone", "monitor", "cleanup"}
  PROVE  LocalMove(w)
BY FaultType, RestFacts, ActiveOpen DEF AgentTypes, LocalMove

LEMMA ClaimMoves ==
  ASSUME AgentTypes, NEW w \in Workers, WorkerInv(w),
         \/ Tick(w) \/ PollInVain(w) \/ PostRunningFails(w)
         \/ RereadStart(w) /\ ~FailStop(SessionOf[w])
  PROVE  LocalMove(w)
<1>1. CASE Tick(w)
  <2>1. /\ Ready(SessionOf[w]) /\ worker[w].at = "idle"
        /\ agent[SessionOf[w]].handoff = "open"
        /\ Goto(w, "poll") /\ UNCHANGED <<vars, agent, box, holder, faults>>
    BY <1>1 DEF Tick, At_
  <2>2. "poll" \in At
    BY DEF At
  <2>3. /\ worker' \in [Workers -> WorkerRecord] /\ Others(w)
        /\ worker'[w].at = "poll"
    BY <2>1, <2>2, GotoFacts DEF AgentTypes
  <2>4. QED
    BY <2>1, <2>3 DEF LocalMove, AgentTypes, Ready
<1>2. CASE PollInVain(w)
  <2>1. /\ Ready(SessionOf[w]) /\ worker[w].at = "poll" /\ Rest(w)
        /\ UNCHANGED <<vars, agent, box, holder>> /\ (Fault \/ NoFault)
    BY <1>2 DEF PollInVain, At_
  <2>2. QED
    BY <2>1, Rests
<1>3. CASE PostRunningFails(w)
  <2>1. PICK at \in {"disowned", "reread"} : Goto(w, at)
    BY <1>3 DEF PostRunningFails
  <2>2. /\ Ready(SessionOf[w]) /\ worker[w].at = "start"
        /\ UNCHANGED <<vars, agent, box, holder>> /\ (Fault \/ NoFault)
    BY <1>3 DEF PostRunningFails, At_
  <2>3. QED
    BY <2>1, <2>2, StepsOn DEF At, Resting, Early, Executing
<1>4. CASE RereadStart(w) /\ ~FailStop(SessionOf[w])
  <2>1. /\ Ready(SessionOf[w]) /\ worker[w].at \in {"reread", "disowned"}
        /\ UNCHANGED <<vars, agent, box, holder>> /\ NoFault
    BY <1>4 DEF RereadStart, At_, NoFault
  <2>2. Rest(w) \/ \E at \in {"prepare", "start"} : Goto(w, at)
    BY <1>4 DEF RereadStart
  <2>3. CASE Rest(w)
    BY <2>1, <2>3, Rests
  <2>4. ASSUME NEW at \in {"prepare", "start"}, Goto(w, at)
        PROVE  LocalMove(w)
    BY <2>1, <2>4, StepsOn DEF At, Resting, Early, Executing
  <2>5. QED
    BY <2>2, <2>3, <2>4
<1>5. QED
  BY <1>1, <1>2, <1>3, <1>4

LEMMA ExecutionMoves ==
  ASSUME AgentTypes, NEW w \in Workers, WorkerInv(w),
         \/ Prepare(w) \/ ExecuteFails(w) \/ Created(w)
         \/ ValidateAgain(w) /\ ~Goto(w, "launch")
         \/ Launch(w) /\ Own(w) = {}
         \/ Finishes(w) \/ SeesCancellation(w)
  PROVE  LocalMove(w)
<1>1. CASE Prepare(w)
  <2>1. /\ Ready(SessionOf[w]) /\ worker[w].at = "prepare"
        /\ Goto(w, "validate") /\ box' \subseteq box
        /\ UNCHANGED <<vars, agent, holder>> /\ NoFault
    BY <1>1 DEF Prepare, At_, NoFault
  <2>2. QED
    BY <2>1, StepsOn DEF At, Resting, Early, Executing
<1>2. CASE ExecuteFails(w)
  <2>1. /\ Ready(SessionOf[w])
        /\ worker[w].at \in {"prepare", "validate", "creating"}
        /\ Conclude(w, "report", "failed") /\ (Fault \/ NoFault)
        /\ UNCHANGED <<vars, agent, box, holder>>
    BY <1>2 DEF ExecuteFails, At_
  <2>2. QED
    BY <2>1, StepsOn DEF At, Outcome, Resting, Early, Executing
<1>3. CASE Created(w)
  <2>1. /\ Ready(SessionOf[w]) /\ worker[w].at = "creating"
        /\ Goto(w, "confirm") /\ UNCHANGED <<vars, agent, box, holder>>
        /\ NoFault
    BY <1>3 DEF Created, At_, NoFault
  <2>2. QED
    BY <2>1, StepsOn DEF At, Resting, Early, Executing
<1>4. CASE ValidateAgain(w) /\ ~Goto(w, "launch")
  <2>1. /\ Ready(SessionOf[w]) /\ worker[w].at = "confirm"
        /\ Conclude(w, "cleanup", "failed") /\ (Fault \/ NoFault)
        /\ UNCHANGED <<vars, agent, box, holder>>
    BY <1>4 DEF ValidateAgain, At_
  <2>2. QED
    BY <2>1, StepsOn DEF At, Outcome, Resting, Early, Executing
<1>5. CASE Launch(w) /\ Own(w) = {}
  <2>1. /\ Ready(SessionOf[w]) /\ worker[w].at = "launch"
        /\ Conclude(w, "cleanup", "failed") /\ NoFault
        /\ UNCHANGED <<vars, agent, box, holder>>
    BY <1>5 DEF Launch, At_, NoFault
  <2>2. QED
    BY <2>1, StepsOn DEF At, Outcome, Resting, Early, Executing
<1>6. CASE Finishes(w) \/ SeesCancellation(w)
  <2>1. /\ Ready(SessionOf[w]) /\ worker[w].at = "monitor" /\ NoFault
        /\ UNCHANGED <<vars, agent, box, holder>>
    BY <1>6 DEF Finishes, SeesCancellation, At_, NoFault
  <2>2. \E outcome \in Outcome : Conclude(w, "cleanup", outcome)
    BY <1>6 DEF Finishes, SeesCancellation, Outcome
  <2>3. QED
    BY <2>1, <2>2, StepsOn DEF At, Resting, Early, Executing
<1>7. QED
  BY <1>1, <1>2, <1>3, <1>4, <1>5, <1>6

LEMMA EndMoves ==
  ASSUME AgentTypes, NEW w \in Workers, WorkerInv(w),
         \/ PostEndFails(w)
         \/ (RecheckEnd(w) \/ RereadFails(w) \/ RemoveBox(w))
              /\ ~FailStop(SessionOf[w])
  PROVE  LocalMove(w)
<1>1. CASE PostEndFails(w)
  <2>1. /\ Ready(SessionOf[w]) /\ worker[w].at = "report"
        /\ (Fault \/ NoFault) /\ UNCHANGED <<vars, agent, box, holder>>
        /\ Rest(w) \/ Goto(w, "recheck")
    BY <1>1 DEF PostEndFails, At_
  <2>2. CASE Rest(w)
    BY <2>1, <2>2, Rests
  <2>3. CASE Goto(w, "recheck")
    BY <2>1, <2>3, StepsOn DEF At, Resting, Early, Executing
  <2>4. QED
    BY <2>1, <2>2, <2>3
<1>2. CASE RecheckEnd(w) /\ ~FailStop(SessionOf[w])
  <2>1. /\ Ready(SessionOf[w]) /\ worker[w].at = "recheck"
        /\ NoFault /\ UNCHANGED <<vars, agent, box, holder>>
        /\ Rest(w) \/ Goto(w, "report") \/ Conclude(w, "report", "canceled")
    BY <1>2 DEF RecheckEnd, At_, NoFault
  <2>2. CASE Rest(w)
    BY <2>1, <2>2, Rests
  <2>3. CASE Goto(w, "report") \/ Conclude(w, "report", "canceled")
    BY <2>1, <2>3, StepsOn DEF At, Outcome, Resting, Early, Executing
  <2>4. QED
    BY <2>1, <2>2, <2>3
<1>3. CASE RereadFails(w) /\ ~FailStop(SessionOf[w])
  <2>1. /\ Ready(SessionOf[w]) /\ worker[w].at \in {"reread", "recheck"}
        /\ Fault /\ UNCHANGED <<vars, agent, box, holder>>
        /\ Goto(w, IF worker[w].at = "reread" THEN "start" ELSE "report")
    BY <1>3 DEF RereadFails, At_
  <2>2. CASE worker[w].at = "reread" /\ Goto(w, "start")
    BY <2>1, <2>2, StepsOn DEF At, Resting, Early, Executing
  <2>3. CASE worker[w].at = "recheck" /\ Goto(w, "report")
    BY <2>1, <2>3, StepsOn DEF At, Resting, Early, Executing
  <2>4. QED
    BY <2>1, <2>2, <2>3
<1>4. CASE RemoveBox(w) /\ ~FailStop(SessionOf[w])
  <2>1. /\ Ready(SessionOf[w]) /\ worker[w].at = "cleanup" /\ NoFault
        /\ box' = box \ Own(w) /\ Goto(w, "report")
        /\ UNCHANGED <<vars, agent, holder>>
    BY <1>4 DEF RemoveBox, At_
  <2>2. QED
    BY <2>1, StepsOn DEF At, Resting, Early, Executing
<1>5. QED
  BY <1>1, <1>2, <1>3, <1>4

----------------------------------------------------------------------------
(* The other steps of a worker.                                            *)

(* A worker goes from one point of its attempt to the next.                *)
Turns(w, from, to) ==
  /\ UNCHANGED agent
  /\ agent[SessionOf[w]].phase = "ready"
  /\ agent[SessionOf[w]].handoff # "quiesced"
  /\ worker' \in [Workers -> WorkerRecord]
  /\ faults' \in 0..MaxFaults
  /\ Others(w)
  /\ worker[w].at = from
  /\ worker'[w].at = to
  /\ SameAttempt(worker'[w], worker[w])

With(b, st) == [b EXCEPT !.st = st]

Validated(w) ==
  /\ Turns(w, "validate", "create")
  /\ OwnsAttempt(w)
  /\ UNCHANGED <<vars, box, holder>>

NewBox(w) == [job |-> worker[w].job, attempt |-> worker[w].attempt,
              by |-> w, st |-> "requested"]

Requested(w) ==
  /\ Turns(w, "create", "creating")
  /\ box' = box \cup {NewBox(w)}
  /\ UNCHANGED <<vars, holder>>

Confirmed(w) ==
  /\ Turns(w, "confirm", "launch")
  /\ OwnsAttempt(w)
  /\ UNCHANGED <<vars, box, holder>>

Launched(w) ==
  /\ Turns(w, "launch", "monitor")
  /\ agent[SessionOf[w]].lease
  /\ box' = (box \ Own(w)) \cup {With(b, "starting") : b \in Own(w)}
  /\ UNCHANGED <<vars, holder>>

Started(w) ==
  /\ \E to \in {"prepare", "reread"} : Turns(w, "start", to)
  /\ ReportRunning(worker[w].job)
  /\ UNCHANGED <<box, holder>>

(* A worker at rest again, or with a new attempt.                          *)
Renewed(w, from) ==
  /\ UNCHANGED agent
  /\ agent[SessionOf[w]].phase = "ready"
  /\ agent[SessionOf[w]].handoff # "quiesced"
  /\ worker' \in [Workers -> WorkerRecord]
  /\ faults' \in 0..MaxFaults
  /\ Others(w)
  /\ worker[w].at = from

Reports(w) ==
  /\ \/ Renewed(w, "report") /\ worker'[w] = Idle
     \/ Turns(w, "report", "recheck")
  /\ HoldsToken(w)
  /\ ReportEnd(worker[w].job, worker[w].outcome)
  /\ UNCHANGED <<box, holder>>

(* What a poll does to the jobs and to whom their tokens were sent.        *)
Polled(w) ==
  /\ Renewed(w, "poll")
  /\ NextJob(HostOf(w))
  /\ \A j \in Jobs :
       \/ (Untouched(j) \/ SentBack(j)) /\ holder'[j] = holder[j]
       \/ Claimed(j) /\ holder'[j] \in {w, NoWorker}
  /\ \/ worker'[w] = Idle
     \/ \E j \in Jobs :
          /\ Claimed(j)
          /\ worker'[w].job = j
          /\ \/ worker'[w].at = "report"
             \/ /\ worker'[w].at = "start"
                /\ worker'[w].attempt = job[j].attempts
                /\ job[j].status = "assigned"
  /\ holder' \in [Jobs -> Workers \cup {NoWorker}]
  /\ UNCHANGED box

Stops(s) ==
  /\ FailStop(s)
  /\ faults' \in 0..MaxFaults
  /\ UNCHANGED <<vars, box, holder>>

LEMMA GotoTurns ==
  ASSUME AgentTypes, NEW w \in Workers, WorkerInv(w), NEW from, NEW to \in At,
         At_(w, from), from \notin {"idle", "gone"}, Goto(w, to),
         Fault \/ NoFault, UNCHANGED agent
  PROVE  Turns(w, from, to)
<1>1. worker \in [Workers -> WorkerRecord] /\ faults' \in 0..MaxFaults
  BY FaultType DEF AgentTypes
<1>2. /\ worker' \in [Workers -> WorkerRecord] /\ Others(w)
      /\ worker'[w].at = to /\ SameAttempt(worker'[w], worker[w])
  BY <1>1, GotoFacts
<1>3. worker[w].at = from /\ Ready(SessionOf[w])
  BY DEF At_
<1>4. /\ agent[SessionOf[w]].phase = "ready"
      /\ agent[SessionOf[w]].handoff # "quiesced"
  BY <1>3, ActiveOpen
<1>5. QED
  BY <1>1, <1>2, <1>3, <1>4 DEF Turns

LEMMA RestRenews ==
  ASSUME AgentTypes, NEW w \in Workers, WorkerInv(w), NEW from,
         At_(w, from), from \notin {"idle", "gone"}, Rest(w),
         Fault \/ NoFault, UNCHANGED agent
  PROVE  Renewed(w, from) /\ worker'[w] = Idle
BY FaultType, RestFacts, ActiveOpen DEF AgentTypes, Renewed, At_

LEMMA TurnKinds ==
  ASSUME AgentTypes, NEW w \in Workers, WorkerInv(w)
  PROVE  /\ Validate(w) => Validated(w)
         /\ RequestCreate(w) => Requested(w)
         /\ ValidateAgain(w) /\ Goto(w, "launch") => Confirmed(w) \/ LocalMove(w)
         /\ Launch(w) => Launched(w) \/ LocalMove(w)
         /\ PostRunning(w) => Started(w)
         /\ PostEnd(w) => Reports(w)
<1>1. ASSUME Validate(w) PROVE Validated(w)
  BY <1>1, GotoTurns DEF Validate, Validated, NoFault, At
<1>2. ASSUME RequestCreate(w) PROVE Requested(w)
  BY <1>2, GotoTurns DEF RequestCreate, Requested, NewBox, NoFault, At
<1>3. ASSUME ValidateAgain(w), Goto(w, "launch")
      PROVE  Confirmed(w) \/ LocalMove(w)
  <2>1. CASE OwnsAttempt(w) /\ NoFault
    BY <1>3, <2>1, GotoTurns DEF ValidateAgain, Confirmed, At
  <2>2. CASE Conclude(w, "cleanup", "failed")
    <3>1. worker'[w].at = "launch" /\ worker'[w].at = "cleanup"
      BY <1>3, <2>2, GotoFacts, ConcludeFacts DEF At, Outcome, AgentTypes
    <3>2. QED
      BY <3>1
  <2>3. QED
    BY <1>3, <2>1, <2>2 DEF ValidateAgain
<1>4. ASSUME Launch(w) PROVE Launched(w) \/ LocalMove(w)
  <2>1. CASE Own(w) = {}
    BY <1>4, <2>1, ExecutionMoves
  <2>2. CASE Own(w) # {}
    BY <1>4, <2>2, GotoTurns DEF Launch, Launched, With, NoFault, At
  <2>3. QED
    BY <2>1, <2>2
<1>5. ASSUME PostRunning(w) PROVE Started(w)
  <2>1. PICK to \in {"prepare", "reread"} : Goto(w, to)
    BY <1>5 DEF PostRunning
  <2>2. /\ At_(w, "start") /\ (Fault \/ NoFault)
        /\ ReportRunning(worker[w].job) /\ UNCHANGED <<agent, box, holder>>
    BY <1>5 DEF PostRunning
  <2>3. Turns(w, "start", to)
    BY <2>1, <2>2, GotoTurns DEF At
  <2>4. QED
    BY <2>2, <2>3 DEF Started
<1>6. ASSUME PostEnd(w) PROVE Reports(w)
  <2>1. /\ At_(w, "report") /\ (Fault \/ NoFault) /\ UNCHANGED agent
        /\ Rest(w) \/ Goto(w, "recheck")
    BY <1>6 DEF PostEnd
  <2>2. \/ Renewed(w, "report") /\ worker'[w] = Idle
        \/ Turns(w, "report", "recheck")
    BY <2>1, GotoTurns, RestRenews DEF At
  <2>3. QED
    BY <1>6, <2>2 DEF PostEnd, Reports
<1>7. QED
  BY <1>1, <1>2, <1>3, <1>4, <1>5, <1>6

LEMMA ClaimedFields ==
  ASSUME TypeOK, NEW j \in Jobs
  PROVE  /\ Claimed(j) => /\ job'[j].claim = "live"
                          /\ job'[j].status = job[j].status
                          /\ job'[j].attempts = job[j].attempts
                          /\ job'[j].node = job[j].node
                          /\ job'[j].session = job[j].session
         /\ SentBack(j) => job'[j].claim = "none"
<1>1. job[j] \in JobRecord
  BY DEF TypeOK
<1>2. \A r \in JobRecord :
        Requeued(r).claim = "none" /\ QueueFull(r).claim = "none"
  BY DEF Requeued, QueueFull, Unassigned, JobRecord
<1>3. SentBack(j) => job'[j].claim = "none"
  BY <1>1, <1>2 DEF SentBack
<1>4. QED
  BY <1>1, <1>3 DEF Claimed, JobRecord

LEMMA DispatchedIsClaimed ==
  ASSUME TypeOK, NEW n \in Nodes, NextJob(n), NEW j \in Jobs
  PROVE  \/ j \in Dispatched /\ Claimed(j)
         \/ j \notin Dispatched /\ (Untouched(j) \/ SentBack(j))
<1>1. Untouched(j) \/ SentBack(j) \/ Claimed(j)
  BY NextJobSteps
<1>2. CASE Claimed(j)
  BY <1>2, ClaimedFields DEF Dispatched, Claimed
<1>3. CASE Untouched(j)
  BY <1>3 DEF Dispatched, Untouched
<1>4. CASE SentBack(j)
  BY <1>4, ClaimedFields DEF Dispatched
<1>5. QED
  BY <1>1, <1>2, <1>3, <1>4

LEMMA PollKind ==
  ASSUME TypeOK, AgentTypes, NEW w \in Workers, WorkerInv(w), Poll(w)
  PROVE  Polled(w)
<1>1. /\ worker \in [Workers -> WorkerRecord] /\ faults' \in 0..MaxFaults
      /\ holder \in [Jobs -> Workers \cup {NoWorker}]
  BY FaultType DEF AgentTypes, Poll
<1>2. /\ NextJob(HostOf(w)) /\ UNCHANGED <<agent, box>>
      /\ Ready(SessionOf[w]) /\ worker[w].at = "poll"
  BY DEF Poll, At_
<1>3. /\ agent[SessionOf[w]].phase = "ready"
      /\ agent[SessionOf[w]].handoff # "quiesced"
  BY <1>2, ActiveOpen
<1>4. PICK v \in {w, NoWorker} :
        holder' = [j \in Jobs |-> IF j \in Dispatched THEN v ELSE holder[j]]
  BY DEF Poll
<1>5. \A j \in Jobs :
        \/ (Untouched(j) \/ SentBack(j)) /\ holder'[j] = holder[j]
        \/ Claimed(j) /\ holder'[j] \in {w, NoWorker}
  BY <1>2, <1>4, HostType, DispatchedIsClaimed
<1>6. holder' \in [Jobs -> Workers \cup {NoWorker}]
  BY <1>1, <1>4
<1>7. PICK r \in WorkerRecord :
        /\ worker' = [worker EXCEPT ![w] = r]
        /\ \/ r = Idle
           \/ \E j \in Jobs :
                /\ Claimed(j)
                /\ r.job = j
                /\ \/ r.at = "report"
                   \/ /\ r.at = "start"
                      /\ r.attempt = job[j].attempts
                      /\ job[j].status = "assigned"
  <2>1. CASE Rest(w)
    BY <2>1, IdleFacts DEF Rest
  <2>2. CASE Dispatched = {} /\ ~Rest(w)
    BY <2>2, IdleFacts DEF Poll
  <2>3. CASE Dispatched # {} /\ ~Rest(w)
    <3> DEFINE j == CHOOSE i \in Dispatched : TRUE
               c == [at |-> "report", job |-> j, attempt |-> job[j].attempts,
                     outcome |-> "canceled"]
               t == [at |-> "start", job |-> j, attempt |-> job[j].attempts,
                     outcome |-> "none"]
    <3>1. j \in Dispatched
      BY <2>3
    <3>2. j \in Jobs
      BY <3>1 DEF Dispatched
    <3>3. Claimed(j)
      BY <1>2, <3>1, <3>2, HostType, DispatchedIsClaimed
    <3>4. job[j].attempts \in Nat
      BY <3>2 DEF TypeOK, JobRecord
    <3>5. c \in WorkerRecord /\ t \in WorkerRecord
      BY <3>2, <3>4 DEF WorkerRecord, At, Outcome
    <3>6. \/ job[j].status = "canceling" /\ worker' = [worker EXCEPT ![w] = c]
          \/ job[j].status # "canceling" /\ worker' = [worker EXCEPT ![w] = t]
      BY <2>3 DEF Poll
    <3>7. job[j].status # "canceling" => job[j].status = "assigned"
      BY <3>3 DEF Claimed
    <3>8. /\ c.at = "report" /\ c.job = j
          /\ t.at = "start" /\ t.job = j /\ t.attempt = job[j].attempts
      OBVIOUS
    <3> HIDE DEF j, c, t
    <3>9. QED
      BY <3>2, <3>3, <3>5, <3>6, <3>7, <3>8
  <2>4. QED
    BY <2>1, <2>2, <2>3
<1>8. /\ worker' \in [Workers -> WorkerRecord] /\ Others(w) /\ worker'[w] = r
  BY <1>1, <1>7 DEF Others
<1>9. Renewed(w, "poll")
  BY <1>1, <1>2, <1>3, <1>8 DEF Renewed
<1>10. QED
  BY <1>2, <1>5, <1>6, <1>7, <1>8, <1>9 DEF Polled

(* What a step of a worker can be.                                         *)
MoveKind(w) ==
  \/ LocalMove(w) \/ Validated(w) \/ Requested(w) \/ Confirmed(w)
  \/ Launched(w) \/ Started(w) \/ Reports(w) \/ Polled(w)

LEMMA WorkerKinds ==
  ASSUME TypeOK, AgentTypes, NEW w \in Workers, WorkerInv(w), WorkerStep(w)
  PROVE  MoveKind(w) \/ Stops(SessionOf[w]) \/ Withdraw(w)
<1> USE DEF MoveKind
<1>1. CASE Poll(w)
  BY <1>1, PollKind
<1>2. CASE \/ Tick(w) \/ PollInVain(w) \/ PostRunningFails(w)
  BY <1>2, ClaimMoves
<1>3. CASE \/ Prepare(w) \/ ExecuteFails(w) \/ Created(w) \/ Finishes(w)
           \/ SeesCancellation(w)
  BY <1>3, ExecutionMoves
<1>4. CASE ValidateAgain(w)
  BY <1>4, ExecutionMoves, TurnKinds
<1>5. CASE \/ Validate(w) \/ RequestCreate(w) \/ Launch(w) \/ PostRunning(w)
           \/ PostEnd(w)
  BY <1>5, TurnKinds
<1>6. CASE PostEndFails(w)
  BY <1>6, EndMoves
<1>7. CASE \/ RereadStart(w) \/ RecheckEnd(w) \/ RereadFails(w) \/ RemoveBox(w)
  <2>1. CASE FailStop(SessionOf[w])
    <3>1. faults' \in 0..MaxFaults
      BY <1>7, FaultType
         DEF RereadStart, RecheckEnd, RereadFails, RemoveBox, AgentTypes
    <3>2. UNCHANGED <<vars, box, holder>>
      <4>1. CASE RereadStart(w) \/ RecheckEnd(w) \/ RereadFails(w)
        BY <4>1 DEF RereadStart, RecheckEnd, RereadFails
      <4>2. CASE RemoveBox(w) /\ UNCHANGED box
        BY <4>2 DEF RemoveBox
      <4>3. CASE RemoveBox(w) /\ box' # box
        <5>1. UNCHANGED agent /\ At_(w, "cleanup")
          BY <4>3 DEF RemoveBox
        <5>2. agent'[SessionOf[w]].phase = "stopped"
          BY <2>1, HostType, FailStopFacts DEF AgentTypes
        <5>3. QED
          BY <5>1, <5>2 DEF At_, Ready
      <4>4. QED
        BY <1>7, <4>1, <4>2, <4>3
    <3>3. QED
      BY <2>1, <3>1, <3>2 DEF Stops
  <2>2. CASE ~FailStop(SessionOf[w])
    BY <1>7, <2>2, ClaimMoves, EndMoves
  <2>3. QED
    BY <2>1, <2>2
<1>8. CASE Withdraw(w)
  BY <1>8
<1>9. QED
  BY <1>1, <1>2, <1>3, <1>4, <1>5, <1>6, <1>7, <1>8 DEF WorkerStep

----------------------------------------------------------------------------
(* The types are kept.                                                     *)

LEMMA BoxTypes ==
  ASSUME NEW b \in Box
  PROVE  /\ b.by \in Workers /\ b.job \in Jobs /\ b.attempt \in Nat
         /\ \A st \in {"requested", "created", "starting", "computing"} :
              /\ With(b, st) \in Box
              /\ With(b, st).by = b.by
              /\ SameAttempt(With(b, st), b)
              /\ With(b, st).st = st
BY DEF Box, SameAttempt, With

LEMMA MoveTyped ==
  ASSUME TypeOK, AgentTypes, NEW w \in Workers, MoveKind(w)
  PROVE  AgentTypes'
<1>0. /\ worker \in [Workers -> WorkerRecord] /\ box \subseteq Box
      /\ agent \in [Sessions -> AgentRecord] /\ WorkerJob(w)
      /\ holder \in [Jobs -> Workers \cup {NoWorker}]
  BY DEF AgentTypes
<1>1. /\ worker' \in [Workers -> WorkerRecord] /\ faults' \in 0..MaxFaults
      /\ UNCHANGED agent /\ Others(w)
  BY DEF MoveKind, LocalMove, Validated, Requested, Confirmed, Launched,
         Started, Reports, Polled, Turns, Renewed
<1>2. worker'[w].at \notin Resting => worker'[w].job \in Jobs
  <2>1. ASSUME NEW from, NEW to, Turns(w, from, to), from \notin Resting
        PROVE  worker'[w].job \in Jobs
    BY <1>0, <2>1 DEF Turns, SameAttempt, WorkerJob
  <2>2. CASE LocalMove(w)
    BY <1>0, <2>2, IdleFacts
       DEF LocalMove, Progress, SameAttempt, WorkerJob, Resting
  <2>3. CASE Validated(w) \/ Requested(w) \/ Confirmed(w) \/ Launched(w)
    BY <2>1, <2>3 DEF Validated, Requested, Confirmed, Launched, Resting
  <2>4. CASE Started(w)
    BY <2>1, <2>4 DEF Started, Resting
  <2>5. CASE Reports(w)
    BY <2>1, <2>5, IdleFacts DEF Reports, Resting
  <2>6. CASE Polled(w)
    BY <2>6, IdleFacts DEF Polled, Resting
  <2>7. QED
    BY <2>2, <2>3, <2>4, <2>5, <2>6 DEF MoveKind
<1>3. \A v \in Workers : WorkerJob(v)'
  BY <1>1, <1>2, WorkerMoveTyped
<1>4. box' \subseteq Box
  <2>1. CASE Requested(w)
    <3>1. worker[w].job \in Jobs /\ worker[w].attempt \in Nat
      BY <1>0, <2>1 DEF Requested, Turns, WorkerJob, Resting, WorkerRecord
    <3>2. NewBox(w) \in Box
      BY <3>1 DEF NewBox, Box
    <3>3. QED
      BY <1>0, <2>1, <3>2 DEF Requested
  <2>2. CASE Launched(w)
    <3>1. ASSUME NEW b \in Own(w) PROVE With(b, "starting") \in Box
      BY <1>0, BoxTypes DEF Own
    <3>2. QED
      BY <1>0, <2>2, <3>1 DEF Launched
  <2>3. CASE ~Requested(w) /\ ~Launched(w)
    BY <1>0, <2>3
       DEF MoveKind, LocalMove, Validated, Confirmed, Started, Reports, Polled
  <2>4. QED
    BY <2>1, <2>2, <2>3
<1>5. holder' \in [Jobs -> Workers \cup {NoWorker}]
  BY <1>0
     DEF MoveKind, LocalMove, Validated, Requested, Confirmed, Launched,
         Started, Reports, Polled
<1>6. QED
  BY <1>0, <1>1, <1>3, <1>4, <1>5 DEF AgentTypes

LEMMA DaemonFacts ==
  ASSUME box \subseteq Box, NEW b \in box, Daemon(b)
  PROVE  /\ UNCHANGED <<vars, agent, worker, holder, faults>>
         /\ \/ box' \subseteq box
            \/ \E st \in {"created", "computing"} :
                 /\ box' = (box \ {b}) \cup {With(b, st)}
                 /\ st = "computing" => b.st = "starting"
BY DEF Daemon, Becomes, With

LEMMA WithdrawFacts ==
  ASSUME AgentTypes, NEW w \in Workers, Withdraw(w)
  PROVE  /\ agent[SessionOf[w]].phase = "stopped"
         /\ worker[w].at \notin {"idle", "gone"}
         /\ worker' \in [Workers -> WorkerRecord] /\ Others(w)
         /\ worker'[w] = Gone
         /\ box' \subseteq box
         /\ UNCHANGED <<vars, agent, holder, faults>>
BY IdleFacts DEF Withdraw, HasContainerID, AgentTypes, Others

LEMMA AgentsTyped ==
  ASSUME TypeOK, AgentTypes, \A w \in Workers : WorkerInv(w),
         [NextWithAgents]_allVars
  PROVE  AgentTypes'
<1>1. ASSUME NEW s \in Sessions, Process(s) PROVE AgentTypes'
  BY <1>1, ProcessTyped
<1>2. ASSUME NEW w \in Workers, WorkerStep(w) PROVE AgentTypes'
  <2>1. CASE MoveKind(w)
    BY <2>1, MoveTyped
  <2>2. CASE Stops(SessionOf[w])
    BY <2>2, HostType, FailStopTyped DEF Stops, AgentTypes
  <2>3. CASE Withdraw(w)
    <3>1. \A v \in Workers : WorkerJob(v)'
      BY <2>3, WithdrawFacts, IdleFacts, WorkerMoveTyped DEF Resting
    <3>2. QED
      BY <2>3, <3>1, WithdrawFacts DEF AgentTypes
  <2>4. QED
    BY <1>2, <2>1, <2>2, <2>3, WorkerKinds
<1>3. ASSUME NEW b \in box, Daemon(b) PROVE AgentTypes'
  <2>1. box \subseteq Box /\ b \in Box
    BY DEF AgentTypes
  <2>2. box' \subseteq Box
    <3>1. CASE box' \subseteq box
      BY <2>1, <3>1
    <3>2. ASSUME NEW st \in {"created", "computing"},
                 box' = (box \ {b}) \cup {With(b, st)}
          PROVE  box' \subseteq Box
      BY <2>1, <3>2, BoxTypes
    <3>3. QED
      BY <1>3, <2>1, <3>1, <3>2, DaemonFacts
  <2>3. QED
    BY <1>3, <2>1, <2>2, DaemonFacts DEF AgentTypes, WorkerJob
<1>4. CASE Surroundings
  <2>1. faults' \in 0..MaxFaults
    BY <1>4, FaultType DEF Surroundings, AgentTypes
  <2>2. QED
    BY <1>4, <2>1 DEF Surroundings, AgentTypes, WorkerJob
<1>5. CASE UNCHANGED allVars
  BY <1>5 DEF allVars, agentVars, AgentTypes, WorkerJob
<1>6. QED
  BY <1>1, <1>2, <1>3, <1>4, <1>5 DEF NextWithAgents

----------------------------------------------------------------------------
(* What runs on a host is watched.                                         *)

Watched == (\A w \in Workers : WorkerInv(w)) /\ (\A b \in box : BoxInv(b))

(* c is a container of before, under the same name.                        *)
Remains(c) ==
  \E b \in box : b.by = c.by /\ SameAttempt(b, c) /\ (Runs(c) => Runs(b))

LEMMA BoxKeeper ==
  ASSUME AgentTypes, NEW b \in box
  PROVE  /\ b.by \in Workers /\ b.job \in Jobs /\ b.attempt \in Nat
         /\ SessionOf[b.by] \in Sessions /\ HostOf(b.by) \in Nodes
         /\ Remains(b)
<1>1. b \in Box
  BY DEF AgentTypes
<1>2. b.by \in Workers /\ b.job \in Jobs /\ b.attempt \in Nat
  BY <1>1, BoxTypes
<1>3. QED
  BY <1>2, HostType DEF Remains, SameAttempt

LEMMA WatchedMove ==
  ASSUME AgentTypes, Watched, NEW w \in Workers,
         UNCHANGED agent, Others(w),
         agent[SessionOf[w]].phase = "ready",
         agent[SessionOf[w]].handoff # "quiesced",
         \A c \in box' : c.by # w => Remains(c),
         \A c \in box' : c.by = w /\ Runs(c) =>
           worker'[w].at \in {"monitor", "cleanup"} /\ SameAttempt(c, worker'[w])
  PROVE  Watched'
<1>1. ASSUME NEW v \in Workers PROVE WorkerInv(v)'
  BY DEF Watched, WorkerInv, Active, Others
<1>2. ASSUME NEW c \in box' PROVE BoxInv(c)'
  <2>1. CASE c.by = w
    BY <2>1 DEF BoxInv
  <2>2. CASE c.by # w
    <3>1. PICK b \in box : /\ b.by = c.by /\ SameAttempt(b, c)
                           /\ Runs(c) => Runs(b)
      BY <2>2 DEF Remains
    <3>2. worker'[c.by] = worker[c.by]
      BY <2>2, <3>1, BoxKeeper DEF Others
    <3>3. BoxInv(b)
      BY DEF Watched
    <3>4. QED
      BY <3>1, <3>2, <3>3 DEF BoxInv, SameAttempt
  <2>3. QED
    BY <2>1, <2>2
<1>3. QED
  BY <1>1, <1>2 DEF Watched

(* A worker that is not watching has no container that runs.               *)
LEMMA RunsOwn ==
  ASSUME Watched, NEW b \in box, Runs(b), agent[SessionOf[b.by]].phase = "ready"
  PROVE  /\ worker[b.by].at \in {"monitor", "cleanup"}
         /\ SameAttempt(b, worker[b.by])
         /\ b \in Own(b.by)
BY DEF Watched, BoxInv, Own, SameAttempt

LEMMA MoveWatches ==
  ASSUME AgentTypes, Watched, NEW w \in Workers, MoveKind(w)
  PROVE  Watched'
<1>1. /\ UNCHANGED agent /\ Others(w)
      /\ agent[SessionOf[w]].phase = "ready"
      /\ agent[SessionOf[w]].handoff # "quiesced"
  BY DEF MoveKind, LocalMove, Validated, Requested, Confirmed, Launched,
         Started, Reports, Polled, Turns, Renewed
<1>2. CASE LocalMove(w)
  <2>1. \A c \in box' : c.by # w => Remains(c)
    BY <1>2, BoxKeeper DEF LocalMove
  <2>2. ASSUME NEW c \in box', c.by = w, Runs(c)
        PROVE  /\ worker'[w].at \in {"monitor", "cleanup"}
               /\ SameAttempt(c, worker'[w])
    <3>1. c \in box
      BY <1>2 DEF LocalMove
    <3>2. /\ worker[w].at \in {"monitor", "cleanup"}
          /\ SameAttempt(c, worker[w]) /\ c \in Own(w)
      BY <1>1, <2>2, <3>1, RunsOwn
    <3>3. Progress(w)
      BY <1>2, <3>2 DEF LocalMove
    <3>4. QED
      BY <2>2, <3>2, <3>3 DEF Progress, SameAttempt
  <2>3. QED
    BY <1>1, <2>1, <2>2, WatchedMove
<1>3. CASE Validated(w) \/ Confirmed(w) \/ Started(w) \/ Reports(w) \/ Polled(w)
  <2>1. UNCHANGED box /\ worker[w].at \notin {"monitor", "cleanup"}
    BY <1>3 DEF Validated, Confirmed, Started, Reports, Polled, Turns, Renewed
  <2>2. \A c \in box' : c.by # w => Remains(c)
    BY <2>1, BoxKeeper
  <2>3. \A c \in box' : c.by = w => ~Runs(c)
    BY <1>1, <2>1, RunsOwn
  <2>4. QED
    BY <1>1, <2>2, <2>3, WatchedMove
<1>4. CASE Requested(w)
  <2>1. /\ box' = box \cup {NewBox(w)} /\ worker[w].at = "create"
    BY <1>4 DEF Requested, Turns
  <2>2. NewBox(w).by = w /\ ~Runs(NewBox(w))
    BY DEF NewBox, Runs
  <2>3. \A c \in box' : c.by # w => Remains(c)
    BY <2>1, <2>2, BoxKeeper
  <2>4. \A c \in box' : c.by = w => ~Runs(c)
    BY <1>1, <2>1, <2>2, RunsOwn
  <2>5. QED
    BY <1>1, <2>3, <2>4, WatchedMove
<1>5. CASE Launched(w)
  <2>1. /\ box' = (box \ Own(w)) \cup {With(b, "starting") : b \in Own(w)}
        /\ worker[w].at = "launch" /\ worker'[w].at = "monitor"
        /\ SameAttempt(worker'[w], worker[w])
    BY <1>5 DEF Launched, Turns
  <2>2. ASSUME NEW b \in Own(w)
        PROVE  /\ With(b, "starting").by = w
               /\ SameAttempt(With(b, "starting"), worker[w])
    <3>1. b \in Box /\ b.by = w /\ SameAttempt(b, worker[w])
      BY DEF Own, AgentTypes, SameAttempt
    <3>2. QED
      BY <3>1, BoxTypes DEF SameAttempt
  <2>3. \A c \in box' : c.by # w => Remains(c)
    BY <2>1, <2>2, BoxKeeper
  <2>4. ASSUME NEW c \in box', c.by = w, Runs(c)
        PROVE  /\ worker'[w].at \in {"monitor", "cleanup"}
               /\ SameAttempt(c, worker'[w])
    <3>1. c \notin box \ Own(w)
      BY <1>1, <2>1, <2>4, RunsOwn
    <3>2. SameAttempt(c, worker[w])
      BY <2>1, <2>2, <3>1
    <3>3. QED
      BY <2>1, <3>2 DEF SameAttempt
  <2>5. QED
    BY <1>1, <2>3, <2>4, WatchedMove
<1>6. QED
  BY <1>2, <1>3, <1>4, <1>5 DEF MoveKind

LEMMA StopWatches ==
  ASSUME AgentTypes, Watched, NEW s \in Sessions, FailStop(s), UNCHANGED box
  PROVE  Watched'
<1>1. /\ agent'[s].phase = "stopped"
      /\ agent'[s].handoff = "quiesced" <=> agent[s].handoff = "quiesced"
      /\ \A z \in Sessions \ {s} : agent'[z] = agent[z]
      /\ \A w \in Workers :
           \/ worker'[w] = worker[w] /\ (SessionOf[w] = s => HasContainerID(w))
           \/ worker'[w] = Gone /\ SessionOf[w] = s /\ ~HasContainerID(w)
  BY FailStopFacts DEF AgentTypes
<1>2. ASSUME NEW v \in Workers PROVE WorkerInv(v)'
  <2>1. WorkerInv(v) /\ SessionOf[v] \in Sessions
    BY HostType DEF Watched
  <2>2. QED
    BY <1>1, <2>1, IdleFacts DEF WorkerInv, Active
<1>3. ASSUME NEW b \in box PROVE BoxInv(b)'
  <2>1. BoxInv(b) /\ b.by \in Workers /\ SessionOf[b.by] \in Sessions
        /\ WorkerInv(b.by)
    BY BoxKeeper DEF Watched
  <2>2. CASE SessionOf[b.by] = s
    <3>1. Runs(b) => agent[s].handoff # "quiesced"
      BY <2>1, <2>2 DEF BoxInv, WorkerInv, Active
    <3>2. QED
      BY <1>1, <2>2, <3>1 DEF BoxInv
  <2>3. CASE SessionOf[b.by] # s
    BY <1>1, <2>1, <2>3 DEF BoxInv
  <2>4. QED
    BY <2>2, <2>3
<1>4. QED
  BY <1>2, <1>3 DEF Watched

(* A process goes on, or its handoff is acknowledged.                      *)
LEMMA PhaseWatches ==
  ASSUME AgentTypes, Watched, UNCHANGED worker, \A c \in box' : Remains(c),
         \A z \in Sessions :
           /\ agent[z].phase \in {"ready", "stopped"} =>
                agent'[z].phase = agent[z].phase
           /\ agent'[z].handoff = "quiesced" =>
                \/ agent[z].handoff = "quiesced"
                \/ /\ agent[z].phase = "ready"
                   /\ \A w \in Workers : SessionOf[w] = z => ~Active(w)
  PROVE  Watched'
<1>1. ASSUME NEW v \in Workers PROVE WorkerInv(v)'
  <2>1. WorkerInv(v) /\ SessionOf[v] \in Sessions
    BY HostType DEF Watched
  <2>2. QED
    BY <2>1 DEF WorkerInv, Active
<1>2. ASSUME NEW c \in box' PROVE BoxInv(c)'
  <2>1. PICK b \in box : /\ b.by = c.by /\ SameAttempt(b, c)
                         /\ Runs(c) => Runs(b)
    BY DEF Remains
  <2>2. BoxInv(b) /\ SessionOf[b.by] \in Sessions
    BY BoxKeeper DEF Watched
  <2>3. QED
    BY <2>1, <2>2 DEF BoxInv, SameAttempt
<1>3. QED
  BY <1>1, <1>2 DEF Watched

LEMMA WithdrawWatches ==
  ASSUME AgentTypes, Watched, NEW w \in Workers, Withdraw(w)
  PROVE  Watched'
<1>1. /\ agent[SessionOf[w]].phase = "stopped"
      /\ worker[w].at \notin {"idle", "gone"}
      /\ Others(w) /\ worker'[w] = Gone
      /\ box' \subseteq box /\ UNCHANGED agent
  BY WithdrawFacts
<1>2. ASSUME NEW v \in Workers PROVE WorkerInv(v)'
  BY <1>1, IdleFacts DEF Watched, WorkerInv, Active, Others
<1>3. ASSUME NEW b \in box' PROVE BoxInv(b)'
  <2>1. BoxInv(b) /\ b.by \in Workers /\ WorkerInv(w)
    BY <1>1, BoxKeeper DEF Watched
  <2>2. CASE b.by = w
    BY <1>1, <2>1, <2>2 DEF BoxInv, WorkerInv, Active
  <2>3. CASE b.by # w
    BY <1>1, <2>1, <2>3 DEF BoxInv, Others
  <2>4. QED
    BY <2>2, <2>3
<1>4. QED
  BY <1>2, <1>3 DEF Watched

LEMMA ProcessWatches ==
  ASSUME AgentTypes, Watched, NEW s \in Sessions, Process(s)
  PROVE  Watched'
<1>1. agent \in [Sessions -> AgentRecord]
  BY DEF AgentTypes
<1>2. CASE \E healthy \in BOOLEAN, g \in Inventories : Register(s, healthy, g)
  <2>1. PICK phase \in {"registered", "stopped"} :
          /\ agent[s].phase = "new"
          /\ agent' = [agent EXCEPT ![s].phase = phase, ![s].lease = TRUE]
          /\ UNCHANGED <<worker, box>>
    BY <1>2 DEF Register
  <2>2. /\ agent'[s].handoff = agent[s].handoff
        /\ \A z \in Sessions \ {s} : agent'[z] = agent[z]
    BY <1>1, <2>1 DEF AgentRecord
  <2>3. QED
    BY <2>1, <2>2, PhaseWatches, BoxKeeper
<1>3. CASE \E healthy \in BOOLEAN, g \in Inventories, hostChanged \in BOOLEAN :
             ReportHealth(s, healthy, g, hostChanged)
  <2>1. UNCHANGED <<agent, worker, box>>
    BY <1>3 DEF ReportHealth
  <2>2. QED
    BY <2>1, PhaseWatches, BoxKeeper
<1>4. CASE FailStop(s) /\ UNCHANGED box
  BY <1>4, StopWatches
<1>5. CASE CleanManaged(s) \/ (Confirm(s) /\ ~FailStop(s)) \/ LeaseRunsOut(s)
  <2>1. /\ UNCHANGED worker /\ box' \subseteq box
        /\ agent'[s].handoff = agent[s].handoff
        /\ agent[s].phase \in {"ready", "stopped"} =>
             agent'[s].phase = agent[s].phase
        /\ \A z \in Sessions \ {s} : agent'[z] = agent[z]
    BY <1>1, <1>5 DEF CleanManaged, Confirm, LeaseRunsOut, AgentRecord
  <2>2. QED
    BY <2>1, PhaseWatches, BoxKeeper
<1>6. CASE Quiesce(s) \/ AcknowledgeQuiesce(s) \/ Resume(s)
  <2>1. /\ UNCHANGED <<worker, box>>
        /\ agent'[s].phase = agent[s].phase
        /\ agent'[s].handoff = "quiesced" =>
             /\ agent[s].phase = "ready"
             /\ \A w \in Workers : SessionOf[w] = s => ~Active(w)
        /\ \A z \in Sessions \ {s} : agent'[z] = agent[z]
    BY <1>1, <1>6 DEF Quiesce, AcknowledgeQuiesce, Resume, AgentRecord, Ready
  <2>2. QED
    BY <2>1, PhaseWatches, BoxKeeper
<1>7. QED
  BY <1>2, <1>3, <1>4, <1>5, <1>6
     DEF Process, ProcessStep, StopExpired, Crash, SessionRefused, Confirm,
         RegisteredHealth, ReportedHealth

LEMMA DaemonRemains ==
  ASSUME AgentTypes, NEW b \in box, Daemon(b)
  PROVE  \A c \in box' : Remains(c)
<1>1. box \subseteq Box
  BY DEF AgentTypes
<1>2. CASE box' \subseteq box
  BY <1>2, BoxKeeper
<1>3. ASSUME NEW st \in {"created", "computing"},
             box' = (box \ {b}) \cup {With(b, st)},
             st = "computing" => b.st = "starting"
      PROVE  \A c \in box' : Remains(c)
  <2>0. b \in Box /\ st \in {"requested", "created", "starting", "computing"}
    BY <1>1
  <2>1. /\ With(b, st).by = b.by /\ SameAttempt(With(b, st), b)
        /\ With(b, st).st = st
    BY <2>0, BoxTypes
  <2>2. Remains(With(b, st))
    BY <1>3, <2>1 DEF Remains, Runs, SameAttempt
  <2>3. QED
    BY <1>3, <2>2, BoxKeeper
<1>4. QED
  BY <1>1, <1>2, <1>3, DaemonFacts

LEMMA AgentsWatch ==
  ASSUME TypeOK, AgentTypes, Watched, [NextWithAgents]_allVars
  PROVE  Watched'
<1>1. ASSUME NEW s \in Sessions, Process(s) PROVE Watched'
  BY <1>1, ProcessWatches
<1>2. ASSUME NEW w \in Workers, WorkerStep(w) PROVE Watched'
  <2>1. MoveKind(w) \/ Stops(SessionOf[w]) \/ Withdraw(w)
    BY <1>2, WorkerKinds DEF Watched
  <2>2. QED
    BY <2>1, HostType, MoveWatches, StopWatches, WithdrawWatches DEF Stops
<1>3. ASSUME NEW b \in box, Daemon(b) PROVE Watched'
  BY <1>3, DaemonRemains, DaemonFacts, PhaseWatches DEF AgentTypes
<1>4. CASE Surroundings \/ UNCHANGED allVars
  <2>1. UNCHANGED <<agent, worker, box>>
    BY <1>4 DEF Surroundings, allVars, agentVars
  <2>2. QED
    BY <2>1, PhaseWatches, BoxKeeper
<1>5. QED
  BY <1>1, <1>2, <1>3, <1>4 DEF NextWithAgents

----------------------------------------------------------------------------
(* What agents ask for are the store's operations, and a quiesced process  *)
(* is idle.                                                                *)

BaseInv == TypedInv /\ Watched

LEMMA InitBase == InitAgents => BaseInv
<1> SUFFICES ASSUME InitAgents PROVE BaseInv
  OBVIOUS
<1>1. TypeOK
  BY InitType DEF InitAgents
<1>2. AgentTypes
  <2>1. agent \in [Sessions -> AgentRecord]
    BY DEF InitAgents, AgentRecord, Phase, Handoff
  <2>2. faults \in 0..MaxFaults
    BY AgentAssumption DEF InitAgents
  <2>3. \A w \in Workers : worker[w] = Idle
    BY DEF InitAgents
  <2>4. worker \in [Workers -> WorkerRecord]
    BY IdleFacts DEF InitAgents
  <2>5. QED
    BY <2>1, <2>2, <2>3, <2>4, IdleFacts
       DEF InitAgents, AgentTypes, WorkerJob, Resting
<1>3. Watched
  <2>1. \A w \in Workers : worker[w].at = "idle"
    BY IdleFacts DEF InitAgents
  <2>2. box = {}
    BY DEF InitAgents
  <2>3. QED
    BY <2>1, <2>2 DEF Watched, WorkerInv, Active
<1>4. QED
  BY <1>1, <1>2, <1>3, TypedSplit DEF BaseInv

LEMMA NextBase ==
  ASSUME BaseInv, [NextWithAgents]_allVars
  PROVE  BaseInv'
<1>1. TypeOK /\ AgentTypes /\ Watched
  BY TypedSplit DEF BaseInv
<1>2. TypeOK'
  BY <1>1, StoreStep, NextType DEF BaseInv
<1>3. AgentTypes'
  BY <1>1, AgentsTyped DEF Watched
<1>4. Watched'
  BY <1>1, AgentsWatch
<1>5. TypedInv'
  BY <1>2, <1>3 DEF TypedInv, AgentTypes, AgentTypeOK
<1>6. QED
  BY <1>4, <1>5 DEF BaseInv

LEMMA BaseInvariant == AgentSpec => []BaseInv
<1>1. InitAgents => BaseInv
  BY InitBase
<1>2. BaseInv /\ [NextWithAgents]_allVars => BaseInv'
  BY NextBase
<1>3. QED
  BY <1>1, <1>2, PTL DEF AgentSpec

(* The processes, workers, containers and tokens keep their types.         *)
THEOREM AgentTyped == AgentSpec => []AgentTypeOK
<1>1. BaseInv => AgentTypeOK
  BY DEF BaseInv, TypedInv
<1>2. QED
  BY <1>1, BaseInvariant, PTL

(* Whatever agents do, of what they may do at all, is for the store one of *)
(* the operations of store.go on its own: all that is proved of the store  *)
(* holds of the store that agents use.                                     *)
THEOREM AgentsUseStore == AgentSpec => Spec
<1>1. InitAgents => Init
  BY DEF InitAgents
<1>2. BaseInv /\ [NextWithAgents]_allVars => [Next]_vars
  BY StoreStep DEF BaseInv
<1>3. QED
  BY <1>1, <1>2, BaseInvariant, PTL DEF AgentSpec, Spec

(* After the acknowledgement of a quiesce (local_control.go), and until it *)
(* is resumed, a process has no worker at work and no container that runs. *)
THEOREM QuiescedHoldsNothingHolds == AgentSpec => []QuiescedHoldsNothing
<1>1. BaseInv => QuiescedHoldsNothing
  <2> SUFFICES ASSUME BaseInv, NEW s \in Sessions, agent[s].handoff = "quiesced"
               PROVE  /\ \A b \in box : SessionOf[b.by] = s =>
                           b.st \notin {"starting", "computing"}
                      /\ \A w \in Workers : SessionOf[w] = s => ~Active(w)
    BY DEF QuiescedHoldsNothing
  <2>1. AgentTypes /\ Watched
    BY TypedSplit DEF BaseInv
  <2>2. \A w \in Workers : SessionOf[w] = s => ~Active(w)
    BY <2>1 DEF Watched, WorkerInv
  <2>3. ASSUME NEW b \in box, SessionOf[b.by] = s, Runs(b) PROVE FALSE
    <3>1. worker[b.by].at \in {"monitor", "cleanup"} /\ b.by \in Workers
      BY <2>1, <2>3, BoxKeeper DEF Watched, BoxInv
    <3>2. QED
      BY <2>2, <2>3, <3>1 DEF Active
  <2>4. QED
    BY <2>2, <2>3 DEF Runs
<1>2. QED
  BY <1>1, BaseInvariant, PTL

----------------------------------------------------------------------------
(* What steps do to the sessions of nodes and to the jobs, other than the  *)
(* steps that hand something over: registrations, polls and final reports. *)

NodesGoOn ==
  \A n \in Nodes :
    /\ node'[n].known = node[n].known
    /\ \/ node'[n].session = node[n].session
       \/ node[n].stale /\ node'[n].session = NoSession
    /\ \/ node'[n].stale = node[n].stale
       \/ node[n].session # NoSession => ~agent[node[n].session].lease

CalmStep(j) ==
  \/ Untouched(j) \/ Submitted(j) \/ Withdrawn(j) \/ CancelRequested(j)
  \/ SentBack(j) \/ Placed(j) \/ Lapsed(j) \/ Begun(j)

StoreCalm == NodesGoOn /\ \A j \in Jobs : CalmStep(j)

SameNode(r, q) ==
  /\ r.known = q.known /\ r.session = q.session /\ r.stale = q.stale

LEMMA RefreshedKeeps ==
  ASSUME NEW nodes \in [Nodes -> NodeRecord], NEW jobs, NEW n \in Nodes,
         NEW m \in Nodes
  PROVE  SameNode(Refreshed(nodes, jobs, n)[m], nodes[m])
BY DEF Refreshed, NodeRecord, SameNode

LEMMA SameNodesGoOn ==
  ASSUME \A n \in Nodes : SameNode(node'[n], node[n])
  PROVE  NodesGoOn
BY DEF SameNode, NodesGoOn

LEMMA SetJobGoesOn ==
  ASSUME TypeOK, NEW j \in Jobs, NEW r, SetJob(j, r)
  PROVE  NodesGoOn
<1>1. job[j].node \in Nodes \cup {NoNode} /\ node \in [Nodes -> NodeRecord]
  BY DEF TypeOK, JobRecord
<1>2. CASE job[j].node = NoNode
  BY <1>2 DEF SetJob, NodesGoOn
<1>3. CASE job[j].node # NoNode
  <2>1. node' = Refreshed(node, [job EXCEPT ![j] = r], job[j].node)
    BY <1>3 DEF SetJob
  <2>2. \A n \in Nodes : SameNode(node'[n], node[n])
    BY <1>1, <1>3, <2>1, RefreshedKeeps
  <2>3. QED
    BY <2>2, SameNodesGoOn
<1>4. QED
  BY <1>2, <1>3

LEMMA RequeueGoesOn ==
  ASSUME TypeOK, NEW n \in Nodes, NEW nodes \in [Nodes -> NodeRecord],
         \A m \in Nodes : SameNode(nodes[m], node[m]), RequeueAssigned(n, nodes)
  PROVE  NodesGoOn
<1>1. PICK jobs : node' = Refreshed(nodes, jobs, n)
  BY DEF RequeueAssigned
<1>2. \A m \in Nodes : SameNode(node'[m], nodes[m])
  BY <1>1, RefreshedKeeps
<1>3. \A m \in Nodes : SameNode(node'[m], node[m])
  BY <1>2 DEF SameNode
<1>4. QED
  BY <1>3, SameNodesGoOn

LEMMA UserCalm ==
  ASSUME TypeOK, NEW j \in Jobs, CreateJob(j) \/ CancelJob(j) \/ LeaseExpires(j)
  PROVE  StoreCalm
<1>1. CASE CreateJob(j)
  BY <1>1, CreateJobSteps DEF CreateJob, StoreCalm, NodesGoOn, CalmStep
<1>2. CASE CancelJob(j)
  <2>1. NodesGoOn
    BY <1>2, SetJobGoesOn DEF CancelJob
  <2>2. QED
    BY <1>2, <2>1, CancelJobSteps DEF StoreCalm, CalmStep
<1>3. CASE LeaseExpires(j)
  BY <1>3, OtherSteps DEF LeaseExpires, Time, StoreCalm, NodesGoOn, CalmStep
<1>4. QED
  BY <1>1, <1>2, <1>3

LEMMA PassCalm ==
  ASSUME TypeOK, SchedulingPass
  PROVE  StoreCalm
<1>0. node \in [Nodes -> NodeRecord]
  BY DEF TypeOK
<1>1. CASE Schedule
  <2>1. ASSUME NEW n \in Nodes
        PROVE  \/ node'[n] = node[n]
               \/ node[n].stale /\ node'[n] = Fenced(n)
    <3>1. PICK offline \in SUBSET {m \in Nodes : node[m].stale} :
            node' = [m \in Nodes |-> IF m \in offline THEN Fenced(m)
                                                     ELSE node[m]]
      BY <1>1 DEF Schedule, KnownNodes
    <3>2. node'[n] = IF n \in offline THEN Fenced(n) ELSE node[n]
      BY <3>1, Zenon
    <3>3. QED
      BY <3>1, <3>2
  <2>2. \A n \in Nodes : /\ Fenced(n).session = NoSession
                         /\ Fenced(n).known = node[n].known
                         /\ Fenced(n).stale = node[n].stale
    BY <1>0 DEF Fenced, NodeRecord
  <2>3. NodesGoOn
    BY <2>1, <2>2 DEF NodesGoOn
  <2>4. QED
    BY <1>1, <2>3, OtherSteps DEF StoreCalm, CalmStep
<1>2. ASSUME NEW j \in Jobs, NEW n \in Nodes, ScheduleAssign(j, n)
      PROVE  StoreCalm
  <2>1. node' = Refreshed(node, job', n)
    BY <1>2 DEF ScheduleAssign
  <2>2. NodesGoOn
    BY <1>0, <2>1, RefreshedKeeps, SameNodesGoOn
  <2>3. QED
    BY <1>2, <2>2, AssignSteps DEF StoreCalm, CalmStep
<1>3. CASE ScheduleEnd
  BY <1>3, OtherSteps DEF ScheduleEnd, StoreCalm, NodesGoOn, CalmStep
<1>4. QED
  BY <1>1, <1>2, <1>3 DEF SchedulingPass

LEMMA SurroundingsCalm ==
  ASSUME TypeOK, Surroundings
  PROVE  StoreCalm
<1>0. node \in [Nodes -> NodeRecord]
  BY DEF TypeOK
<1>1. ASSUME NEW n \in Nodes, HeartbeatMissed(n)
      PROVE  StoreCalm
  <2>1. /\ node' = [node EXCEPT ![n].stale = TRUE]
        /\ node[n].session # NoSession => ~agent[node[n].session].lease
    BY <1>1 DEF HeartbeatMissed, HeartbeatLapses
  <2>2. \A m \in Nodes : /\ node'[m].known = node[m].known
                         /\ node'[m].session = node[m].session
                         /\ m # n => node'[m].stale = node[m].stale
    BY <1>0, <2>1 DEF NodeRecord
  <2>3. NodesGoOn
    BY <2>1, <2>2 DEF NodesGoOn
  <2>4. QED
    BY <1>1, <2>3, OtherSteps DEF HeartbeatMissed, Time, StoreCalm, CalmStep
<1>2. ASSUME NEW n \in Nodes, HealthReportLapses(n)
      PROVE  StoreCalm
  <2>1. node' = [node EXCEPT ![n].healthy = FALSE]
    BY <1>2 DEF HealthReportLapses
  <2>2. \A m \in Nodes : SameNode(node'[m], node[m])
    BY <1>0, <2>1 DEF NodeRecord, SameNode
  <2>3. QED
    BY <1>2, <2>2, SameNodesGoOn, OtherSteps DEF Time, StoreCalm, CalmStep
<1>3. QED
  BY <1>1, <1>2, UserCalm, PassCalm DEF Surroundings

LEMMA UnchangedCalm ==
  ASSUME TypeOK, UNCHANGED vars
  PROVE  StoreCalm
<1>1. \A j \in Jobs : Untouched(j)
  BY DEF vars, Untouched, Kept
<1>2. NodesGoOn
  BY DEF vars, NodesGoOn
<1>3. QED
  BY <1>1, <1>2 DEF StoreCalm, CalmStep

LEMMA NodeOperationsCalm ==
  ASSUME TypeOK, NEW n \in Nodes,
         \/ ConfirmCleanup(n) \/ FenceExpiredSession(n)
         \/ \E healthy \in BOOLEAN, g \in Inventories, hostChanged \in BOOLEAN :
              UpdateNodeHealth(n, healthy, g, hostChanged)
  PROVE  StoreCalm
<1>0. node \in [Nodes -> NodeRecord]
  BY DEF TypeOK
<1>1. CASE ConfirmCleanup(n) \/ FenceExpiredSession(n)
  <2>1. \A j \in Jobs : Untouched(j)
    BY <1>1 DEF ConfirmCleanup, FenceExpiredSession, Untouched, Kept, history
  <2>2. NodesGoOn
    <3>1. CASE ConfirmCleanup(n)
      BY <1>0, <3>1 DEF ConfirmCleanup, NodesGoOn, NodeRecord
    <3>2. CASE FenceExpiredSession(n)
      <4>1. node[n].stale /\ node' = [node EXCEPT ![n] = Fenced(n)]
        BY <3>2 DEF FenceExpiredSession
      <4>2. /\ Fenced(n).session = NoSession
            /\ Fenced(n).known = node[n].known
            /\ Fenced(n).stale = node[n].stale
        BY <1>0 DEF Fenced, NodeRecord
      <4>3. QED
        BY <1>0, <4>1, <4>2 DEF NodesGoOn
    <3>3. QED
      BY <1>1, <3>1, <3>2
  <2>3. QED
    BY <2>1, <2>2 DEF StoreCalm, CalmStep
<1>2. ASSUME NEW healthy \in BOOLEAN, NEW g \in Inventories,
             NEW hostChanged \in BOOLEAN,
             UpdateNodeHealth(n, healthy, g, hostChanged)
      PROVE  StoreCalm
  <2>1. \A j \in Jobs : CalmStep(j)
    BY <1>2, UpdateNodeHealthSteps DEF CalmStep
  <2>2. PICK nodes :
          /\ \E gpus \in 0..MaxGpus :
               nodes = [node EXCEPT ![n].healthy = healthy, ![n].gpus = gpus]
          /\ RequeueAssigned(n, nodes) \/ node' = Refreshed(nodes, job, n)
    <3> DEFINE gpus == IF healthy THEN g ELSE node[n].gpus
    <3>1. gpus \in 0..MaxGpus
      BY <1>0, SizesAssumption DEF NodeRecord
    <3>2. QED
      BY <1>2, <3>1 DEF UpdateNodeHealth
  <2>3. PICK gpus \in 0..MaxGpus :
          nodes = [node EXCEPT ![n].healthy = healthy, ![n].gpus = gpus]
    BY <2>2
  <2>4. /\ nodes \in [Nodes -> NodeRecord]
        /\ \A m \in Nodes : SameNode(nodes[m], node[m])
    BY <1>0, <2>3 DEF NodeRecord, SameNode
  <2>5. NodesGoOn
    <3>1. CASE RequeueAssigned(n, nodes)
      BY <2>4, <3>1, RequeueGoesOn
    <3>2. CASE node' = Refreshed(nodes, job, n)
      <4>1. \A m \in Nodes : SameNode(node'[m], nodes[m])
        BY <2>4, <3>2, RefreshedKeeps
      <4>2. \A m \in Nodes : SameNode(node'[m], node[m])
        BY <2>4, <4>1 DEF SameNode
      <4>3. QED
        BY <4>2, SameNodesGoOn
    <3>3. QED
      BY <2>2, <3>1, <3>2
  <2>6. QED
    BY <2>1, <2>5 DEF StoreCalm
<1>3. QED
  BY <1>1, <1>2

LEMMA JobOperationsGoOn ==
  ASSUME TypeOK
  PROVE  /\ \A n \in Nodes : NextJob(n) => NodesGoOn
         /\ \A j \in Jobs : /\ ReportRunning(j) => StoreCalm
                            /\ \A outcome : ReportEnd(j, outcome) => NodesGoOn
<1>0. node \in [Nodes -> NodeRecord]
  BY DEF TypeOK
<1>1. \A n \in Nodes : SameNode(node[n], node[n])
  BY DEF SameNode
<1>2. ASSUME NEW n \in Nodes, NextJob(n) PROVE NodesGoOn
  <2>1. UNCHANGED node \/ RequeueAssigned(n, node)
    BY <1>2 DEF NextJob, ClaimOldest
  <2>2. QED
    BY <1>0, <1>1, <2>1, RequeueGoesOn, SameNodesGoOn
<1>3. ASSUME NEW j \in Jobs, ReportRunning(j) PROVE StoreCalm
  <2>1. job[j].node \in Nodes
    BY <1>3 DEF ReportRunning, HoldsAttempt, TypeOK, JobRecord
  <2>2. (\E r : SetJob(j, r)) \/ RequeueAssigned(job[j].node, node)
    BY <1>3 DEF ReportRunning
  <2>3. NodesGoOn
    BY <1>0, <1>1, <2>1, <2>2, SetJobGoesOn, RequeueGoesOn
  <2>4. \A i \in Jobs : CalmStep(i)
    BY <1>3, ReportRunningSteps DEF CalmStep
  <2>5. QED
    BY <2>3, <2>4 DEF StoreCalm
<1>4. ASSUME NEW j \in Jobs, NEW outcome, ReportEnd(j, outcome) PROVE NodesGoOn
  <2>1. job[j].mark \in {"none", "retry", "cleanup"}
    BY DEF TypeOK, JobRecord, Marker
  <2>2. \E r : SetJob(j, r)
    BY <1>4, <2>1 DEF ReportEnd, ReportSucceeded, ReportFailed, ReportCanceled,
                      RetryOrFail
  <2>3. QED
    BY <2>2, SetJobGoesOn
<1>5. QED
  BY <1>2, <1>3, <1>4

(* What a step of one worker does to the store.                            *)
LEMMA MoveStore ==
  ASSUME TypeOK, AgentTypes, NEW w \in Workers, MoveKind(w)
  PROVE  /\ NodesGoOn
         /\ \/ UNCHANGED <<job, history>>
            \/ Started(w) \/ Reports(w) \/ Polled(w)
<1>1. worker[w].at \notin Resting => worker[w].job \in Jobs
  BY DEF AgentTypes, WorkerJob
<1>2. CASE LocalMove(w) \/ Validated(w) \/ Requested(w) \/ Confirmed(w)
           \/ Launched(w)
  <2>1. UNCHANGED vars
    BY <1>2 DEF LocalMove, Validated, Requested, Confirmed, Launched
  <2>2. UNCHANGED <<job, history>>
    BY <2>1 DEF vars, history
  <2>3. QED
    BY <2>1, <2>2, UnchangedCalm DEF StoreCalm
<1>3. CASE Started(w)
  <2>1. worker[w].job \in Jobs /\ ReportRunning(worker[w].job)
    BY <1>1, <1>3 DEF Started, Turns, Resting
  <2>2. QED
    BY <1>3, <2>1, JobOperationsGoOn DEF StoreCalm
<1>4. CASE Reports(w)
  <2>1. /\ worker[w].job \in Jobs
        /\ ReportEnd(worker[w].job, worker[w].outcome)
    BY <1>1, <1>4 DEF Reports, Turns, Renewed, Resting
  <2>2. QED
    BY <1>4, <2>1, JobOperationsGoOn
<1>5. CASE Polled(w)
  BY <1>5, HostType, JobOperationsGoOn DEF Polled
<1>6. QED
  BY <1>2, <1>3, <1>4, <1>5 DEF MoveKind

(* What a process does but for its registration.                           *)
LEMMA ProcessCalm ==
  ASSUME TypeOK, NEW s \in Sessions, Process(s)
  PROVE  \/ StoreCalm
         \/ \E healthy \in BOOLEAN, g \in Inventories : Register(s, healthy, g)
<1>1. Home[s] \in Nodes
  BY AgentAssumption
<1>2. CASE Confirm(s) \/ SessionRefused(s)
  BY <1>1, <1>2, NodeOperationsCalm, UnchangedCalm DEF Confirm, SessionRefused
<1>3. CASE \E healthy \in BOOLEAN, g \in Inventories, hostChanged \in BOOLEAN :
             ReportHealth(s, healthy, g, hostChanged)
  BY <1>1, <1>3, NodeOperationsCalm DEF ReportHealth
<1>4. CASE \/ CleanManaged(s) \/ StopExpired(s) \/ LeaseRunsOut(s) \/ Crash(s)
           \/ Quiesce(s) \/ AcknowledgeQuiesce(s) \/ Resume(s)
  <2>1. UNCHANGED vars
    BY <1>4 DEF CleanManaged, StopExpired, LeaseRunsOut, Crash, Quiesce,
                AcknowledgeQuiesce, Resume, vars
  <2>2. QED
    BY <2>1, UnchangedCalm
<1>5. QED
  BY <1>2, <1>3, <1>4 DEF Process, ProcessStep, RegisteredHealth,
                          ReportedHealth

----------------------------------------------------------------------------
(* A process whose lease lasts has its node.                               *)

(* No process comes back to its beginning or to a lease.                   *)
AgentsGoOn ==
  \A s \in Sessions :
    /\ agent[s].phase # "new" => agent'[s].phase # "new"
    /\ agent'[s].lease => agent[s].lease
    /\ agent'[s].phase \in {"cleaned", "ready"} =>
         agent[s].phase \in {"registered", "cleaned", "ready"}

LEMMA ProcessGoesOn ==
  ASSUME AgentTypes, NEW s \in Sessions, Process(s)
  PROVE  \/ AgentsGoOn
         \/ \E healthy \in BOOLEAN, g \in Inventories : Register(s, healthy, g)
<1>1. agent \in [Sessions -> AgentRecord]
  BY DEF AgentTypes
<1>2. CASE FailStop(s)
  BY <1>2, FailStopFacts DEF AgentsGoOn, AgentTypes
<1>3. CASE \/ CleanManaged(s) \/ (Confirm(s) /\ ~FailStop(s)) \/ LeaseRunsOut(s)
           \/ Quiesce(s) \/ AcknowledgeQuiesce(s) \/ Resume(s)
  BY <1>1, <1>3 DEF CleanManaged, Confirm, LeaseRunsOut, Quiesce,
                    AcknowledgeQuiesce, Resume, AgentsGoOn, AgentRecord
<1>4. CASE \E healthy \in BOOLEAN, g \in Inventories, hostChanged \in BOOLEAN :
             ReportHealth(s, healthy, g, hostChanged)
  BY <1>4 DEF ReportHealth, AgentsGoOn
<1>5. QED
  BY <1>2, <1>3, <1>4
     DEF Process, ProcessStep, StopExpired, Crash, SessionRefused,
         RegisteredHealth, ReportedHealth

LEMMA RegisterFacts ==
  ASSUME TypeOK, AgentTypes, NEW s \in Sessions, NEW healthy \in BOOLEAN,
         NEW g \in Inventories, Register(s, healthy, g)
  PROVE  /\ agent[s].phase = "new" /\ agent'[s].phase \in {"registered", "stopped"}
         /\ \A z \in Sessions \ {s} : agent'[z] = agent[z]
         /\ node'[Home[s]].known /\ node'[Home[s]].session = s
         /\ ~node'[Home[s]].stale
         /\ \A n \in Nodes \ {Home[s]} : SameNode(node'[n], node[n])
         /\ node[Home[s]].known =>
              \/ node[Home[s]].session \in {s, NoSession} \/ node[Home[s]].stale
         /\ \A j \in Jobs : \/ Untouched(j)
                            \/ /\ job[j].node = Home[s]
                               /\ TakenOver(j)
                               /\ job'[j] = Recovered(j, s)
         /\ UNCHANGED <<worker, box, holder>>
<1>0. /\ agent \in [Sessions -> AgentRecord] /\ Home[s] \in Nodes
      /\ node \in [Nodes -> NodeRecord]
  BY AgentAssumption DEF AgentTypes, TypeOK
<1>1. RegisterNode(Home[s], s, healthy, g) /\ agent[s].phase = "new"
      /\ UNCHANGED <<worker, box, holder>>
  BY DEF Register
<1>2. /\ agent'[s].phase \in {"registered", "stopped"}
      /\ \A z \in Sessions \ {s} : agent'[z] = agent[z]
  BY <1>0 DEF Register, AgentRecord
<1>3. RegisteredGpus(Home[s], healthy, g) \in 0..MaxGpus
  BY <1>0, SizesAssumption DEF RegisteredGpus, NodeRecord
<1>4. PICK nodes, jobs :
        /\ nodes = [node EXCEPT ![Home[s]] =
             [known |-> TRUE, session |-> s, cleanup |-> TRUE, stale |-> FALSE,
              healthy |-> healthy, maintenance |-> node[Home[s]].maintenance,
              gpus |-> RegisteredGpus(Home[s], healthy, g), busy |-> FALSE]]
        /\ node' = Refreshed(nodes, jobs, Home[s])
  BY <1>1 DEF RegisterNode
<1>5. nodes \in [Nodes -> NodeRecord]
  BY <1>0, <1>3, <1>4 DEF NodeRecord
<1>6. \A n \in Nodes : SameNode(node'[n], nodes[n])
  BY <1>0, <1>4, <1>5, RefreshedKeeps
<1>7. /\ nodes[Home[s]].known = TRUE /\ nodes[Home[s]].session = s
      /\ nodes[Home[s]].stale = FALSE
      /\ \A n \in Nodes \ {Home[s]} : nodes[n] = node[n]
  BY <1>0, <1>4
<1>8. /\ node'[Home[s]].known = TRUE /\ node'[Home[s]].session = s
      /\ node'[Home[s]].stale = FALSE
      /\ \A n \in Nodes \ {Home[s]} : SameNode(node'[n], node[n])
  BY <1>0, <1>6, <1>7 DEF SameNode
<1>9. node[Home[s]].known =>
        \/ node[Home[s]].session \in {s, NoSession} \/ node[Home[s]].stale
  BY <1>1 DEF RegisterNode
<1>10. \A j \in Jobs : \/ Untouched(j)
                       \/ /\ job[j].node = Home[s]
                          /\ TakenOver(j)
                          /\ job'[j] = Recovered(j, s)
  BY <1>0, <1>1, RegisterNodeSteps DEF TakenOver
<1>11. QED
  BY <1>1, <1>2, <1>8, <1>9, <1>10

LEMMA SessionsGoOn ==
  ASSUME TypeOK, AgentTypes, SessionsInv, NodesGoOn, AgentsGoOn
  PROVE  SessionsInv'
<1>1. ASSUME NEW n \in Nodes, node'[n].session # NoSession
      PROVE  /\ node'[n].known
             /\ Home[node'[n].session] = n
             /\ agent'[node'[n].session].phase # "new"
  <2>1. /\ node'[n].session = node[n].session
        /\ node'[n].known = node[n].known
        /\ node[n].session \in Sessions \cup {NoSession}
    BY <1>1 DEF NodesGoOn, TypeOK, NodeRecord
  <2>2. QED
    BY <1>1, <2>1 DEF SessionsInv, AgentsGoOn
<1>2. ASSUME NEW s \in Sessions, agent'[s].lease
      PROVE  node'[Home[s]].session = s /\ ~node'[Home[s]].stale
  <2>1. /\ agent[s].lease /\ Home[s] \in Nodes /\ s # NoSession
        /\ node[Home[s]].session = s /\ ~node[Home[s]].stale
    BY <1>2, AgentAssumption, PolicyAssumption DEF SessionsInv, AgentsGoOn
  <2>2. QED
    BY <2>1 DEF NodesGoOn
<1>3. QED
  BY <1>1, <1>2 DEF SessionsInv

LEMMA SessionsRegister ==
  ASSUME TypeOK, AgentTypes, SessionsInv, NEW s \in Sessions,
         NEW healthy \in BOOLEAN, NEW g \in Inventories, Register(s, healthy, g)
  PROVE  SessionsInv'
<1>0. /\ Home[s] \in Nodes /\ s # NoSession
      /\ agent[s].phase = "new" /\ agent'[s].phase # "new"
      /\ \A z \in Sessions \ {s} : agent'[z] = agent[z]
      /\ node'[Home[s]].known /\ node'[Home[s]].session = s
      /\ ~node'[Home[s]].stale
      /\ \A n \in Nodes \ {Home[s]} : SameNode(node'[n], node[n])
      /\ node[Home[s]].known =>
           \/ node[Home[s]].session \in {s, NoSession} \/ node[Home[s]].stale
  BY RegisterFacts, AgentAssumption, PolicyAssumption
<1>1. ASSUME NEW n \in Nodes, node'[n].session # NoSession
      PROVE  /\ node'[n].known
             /\ Home[node'[n].session] = n
             /\ agent'[node'[n].session].phase # "new"
  <2>1. CASE n = Home[s]
    BY <1>0, <2>1
  <2>2. CASE n # Home[s]
    <3>1. /\ node'[n].session = node[n].session
          /\ node'[n].known = node[n].known
          /\ node[n].session \in Sessions \cup {NoSession}
      BY <1>0, <2>2 DEF SameNode, TypeOK, NodeRecord
    <3>2. QED
      BY <1>0, <1>1, <2>2, <3>1 DEF SessionsInv
  <2>3. QED
    BY <2>1, <2>2
<1>2. ASSUME NEW z \in Sessions, agent'[z].lease
      PROVE  node'[Home[z]].session = z /\ ~node'[Home[z]].stale
  <2>1. CASE z = s
    BY <1>0, <2>1
  <2>2. CASE z # s
    <3>1. /\ agent[z].lease /\ Home[z] \in Nodes /\ z # NoSession
          /\ node[Home[z]].session = z /\ ~node[Home[z]].stale
          /\ node[Home[z]].known
      BY <1>0, <1>2, <2>2, AgentAssumption, PolicyAssumption DEF SessionsInv
    <3>2. Home[z] # Home[s]
      BY <1>0, <2>2, <3>1
    <3>3. QED
      BY <1>0, <3>1, <3>2 DEF SameNode
  <2>3. QED
    BY <2>1, <2>2
<1>3. QED
  BY <1>1, <1>2 DEF SessionsInv

LEMMA AgentsKeepSessions ==
  ASSUME BaseInv, SessionsInv, [NextWithAgents]_allVars
  PROVE  SessionsInv'
<1>0. TypeOK /\ AgentTypes /\ Watched
  BY TypedSplit DEF BaseInv
<1>1. ASSUME NEW s \in Sessions, Process(s) PROVE SessionsInv'
  BY <1>0, <1>1, ProcessCalm, ProcessGoesOn, SessionsGoOn, SessionsRegister
     DEF StoreCalm
<1>2. ASSUME NEW w \in Workers, WorkerStep(w) PROVE SessionsInv'
  <2>1. MoveKind(w) \/ Stops(SessionOf[w]) \/ Withdraw(w)
    BY <1>0, <1>2, WorkerKinds DEF Watched
  <2>2. CASE MoveKind(w)
    <3>1. UNCHANGED agent
      BY <2>2 DEF MoveKind, LocalMove, Validated, Requested, Confirmed,
                  Launched, Started, Reports, Polled, Turns, Renewed
    <3>2. AgentsGoOn
      BY <3>1 DEF AgentsGoOn
    <3>3. QED
      BY <1>0, <2>2, <3>2, MoveStore, SessionsGoOn
  <2>3. CASE Stops(SessionOf[w])
    <3>1. AgentsGoOn
      BY <1>0, <2>3, HostType, FailStopFacts DEF Stops, AgentsGoOn, AgentTypes
    <3>2. NodesGoOn
      BY <1>0, <2>3, UnchangedCalm DEF Stops, StoreCalm
    <3>3. QED
      BY <1>0, <3>1, <3>2, SessionsGoOn
  <2>4. CASE Withdraw(w)
    <3>1. UNCHANGED <<vars, agent>>
      BY <2>4 DEF Withdraw
    <3>2. AgentsGoOn
      BY <3>1 DEF AgentsGoOn
    <3>3. QED
      BY <1>0, <3>1, <3>2, UnchangedCalm, SessionsGoOn DEF StoreCalm
  <2>5. QED
    BY <2>1, <2>2, <2>3, <2>4
<1>3. ASSUME NEW b \in box, Daemon(b) PROVE SessionsInv'
  <2>1. UNCHANGED <<vars, agent>>
    BY <1>3 DEF Daemon
  <2>2. AgentsGoOn
    BY <2>1 DEF AgentsGoOn
  <2>3. QED
    BY <1>0, <2>1, <2>2, UnchangedCalm, SessionsGoOn DEF StoreCalm
<1>4. CASE Surroundings
  <2>1. AgentsGoOn
    BY <1>4 DEF Surroundings, AgentsGoOn
  <2>2. QED
    BY <1>0, <1>4, <2>1, SurroundingsCalm, SessionsGoOn DEF StoreCalm
<1>5. CASE UNCHANGED allVars
  <2>1. UNCHANGED <<vars, agent>>
    BY <1>5 DEF allVars, agentVars
  <2>2. AgentsGoOn
    BY <2>1 DEF AgentsGoOn
  <2>3. QED
    BY <1>0, <2>1, <2>2, UnchangedCalm, SessionsGoOn DEF StoreCalm
<1>6. QED
  BY <1>1, <1>2, <1>3, <1>4, <1>5 DEF NextWithAgents

----------------------------------------------------------------------------
(* The token of a job in a step of the store.                              *)

KeepsClaim(j) ==
  /\ started'[j] >= started[j]
  /\ job'[j].claim = "held" =>
       /\ holder'[j] = holder[j]
       /\ started'[j] = started[j] => job[j].claim = "held"
  /\ job'[j].claim # "none" => job'[j].status \in ActiveStatus

KeepsToken(j) ==
  job'[j].claim # "none" =>
    /\ job[j].claim # "none"
    /\ job'[j].attempts = job[j].attempts
    /\ job'[j].claim # "held" => /\ job[j].claim # "held"
                                 /\ job'[j].status = job[j].status

LEMMA DisownedClaims ==
  ASSUME TypeOK, NEW j \in Jobs,
         \/ Withdrawn(j) \/ SentBack(j) \/ TakenOver(j) \/ Placed(j) \/ Reported(j)
  PROVE  job'[j].claim = "none" /\ started'[j] = started[j]
<1>1. job[j] \in JobRecord
  BY DEF TypeOK
<1>2. ASSUME NEW r \in JobRecord PROVE Unassigned(r).claim = "none"
  BY DEF Unassigned, JobRecord
<1>3. CASE Withdrawn(j)
  <2>1. [job[j] EXCEPT !.status = "canceled"] \in JobRecord
    BY <1>1 DEF JobRecord, JobStatus, TerminalStatus
  <2>2. QED
    BY <1>2, <1>3, <2>1 DEF Withdrawn
<1>4. CASE SentBack(j)
  BY <1>4, ClaimedFields DEF SentBack, Kept
<1>5. CASE TakenOver(j)
  <2>1. PICK s \in Sessions : job'[j] = Recovered(j, s)
    BY <1>5 DEF TakenOver
  <2>2. Recovered(j, s).claim = "none"
    BY <1>1 DEF Recovered, Interrupted, JobRecord
  <2>3. QED
    BY <1>5, <2>1, <2>2 DEF TakenOver, Kept
<1>6. CASE Placed(j)
  <2>1. PICK n \in Nodes : job'[j] = Assigned(job[j], j, n)
    BY <1>6 DEF Placed
  <2>2. Assigned(job[j], j, n).claim = "none"
    BY <1>1 DEF Assigned, JobRecord
  <2>3. QED
    BY <1>6, <2>1, <2>2 DEF Placed, Kept
<1>7. CASE Reported(j)
  <2>1. \/ \E s : job'[j] = Finished(job[j], s)
        \/ job'[j] = Unassigned([job[j] EXCEPT !.status = "queued",
                                               !.mark = "none"])
    BY <1>7 DEF Reported, Retried
  <2>2. \A s : Finished(job[j], s).claim = "none"
    BY <1>1 DEF Finished, JobRecord
  <2>3. [job[j] EXCEPT !.status = "queued", !.mark = "none"] \in JobRecord
    BY <1>1 DEF JobRecord, JobStatus, Marker
  <2>4. QED
    BY <1>2, <1>7, <2>1, <2>2, <2>3 DEF Reported
<1>8. QED
  BY <1>3, <1>4, <1>5, <1>6, <1>7

LEMMA StepTokens ==
  ASSUME TypeOK, NEW j \in Jobs, JobInv(j), ClaimInv(j),
         CalmStep(j) \/ TakenOver(j) \/ Reported(j), holder'[j] = holder[j]
  PROVE  KeepsClaim(j) /\ KeepsToken(j)
<1> USE DEF KeepsClaim, KeepsToken
<1>1. job[j] \in JobRecord /\ started[j] \in Nat
  BY DEF TypeOK
<1>2. CASE \/ Withdrawn(j) \/ SentBack(j) \/ TakenOver(j) \/ Placed(j)
           \/ Reported(j)
  BY <1>1, <1>2, DisownedClaims
<1>3. CASE Untouched(j)
  BY <1>1, <1>3 DEF Untouched, Kept, ClaimInv
<1>4. CASE Submitted(j)
  <2>1. /\ job[j].claim = "none" /\ job'[j].claim = job[j].claim
        /\ started'[j] = started[j]
    BY <1>1, <1>4 DEF Submitted, Kept, ClaimInv, ActiveStatus, JobRecord
  <2>2. QED
    BY <1>1, <2>1
<1>5. CASE CancelRequested(j)
  <2>1. /\ job'[j].claim = job[j].claim /\ started'[j] = started[j]
        /\ job'[j].attempts = job[j].attempts
        /\ job'[j].status = "canceling"
        /\ job[j].status = "running" \/ job[j].status = "canceling"
    BY <1>1, <1>5 DEF CancelRequested, JobRecord
  <2>2. job[j].status = "running" => job[j].claim = "held"
    BY DEF JobInv, HeldInv
  <2>3. QED
    BY <1>1, <2>1, <2>2 DEF ActiveStatus
<1>6. CASE Lapsed(j)
  <2>1. /\ job[j].claim = "live" /\ job'[j].claim = "expired"
        /\ started'[j] = started[j] /\ job'[j].attempts = job[j].attempts
        /\ job'[j].status = job[j].status
    BY <1>1, <1>6 DEF Lapsed, Kept, JobRecord
  <2>2. QED
    BY <1>1, <2>1 DEF ClaimInv
<1>7. CASE Begun(j)
  <2>1. /\ job[j].claim # "none" /\ job'[j].claim = "held"
        /\ started'[j] = started[j] + 1 /\ job'[j].attempts = job[j].attempts
        /\ job'[j].status = "running"
    BY <1>1, <1>7 DEF Begun, HoldsAttempt, JobRecord
  <2>2. QED
    BY <1>1, <2>1 DEF ActiveStatus
<1>8. QED
  BY <1>2, <1>3, <1>4, <1>5, <1>6, <1>7 DEF CalmStep

LEMMA ClaimedTokens ==
  ASSUME TypeOK, NEW j \in Jobs, Claimed(j)
  PROVE  KeepsClaim(j)
<1>1. started[j] \in Nat /\ started'[j] = started[j]
  BY DEF TypeOK, Claimed, Kept
<1>2. QED
  BY <1>1, ClaimedFields DEF Claimed, KeepsClaim, ActiveStatus

----------------------------------------------------------------------------
(* An attempt has one worker and one container, of one name.               *)

TokensInv ==
  /\ \A j \in Jobs : ClaimInv(j)
  /\ \A w \in Workers : TokenInv(w)
  /\ NamesInv

(* A worker's attempt is the one it had, and it is no further from its end.*)
Lesser(w) ==
  worker'[w].at \in Early \cup Executing =>
    /\ SameAttempt(worker'[w], worker[w])
    /\ worker[w].at \in Early \cup Executing
    /\ worker'[w].at \in Executing => worker[w].at \in Executing
    /\ worker'[w].at \in Early \cup {"create"} =>
         worker[w].at \in Early \cup {"create"}

LEMMA TokenGoesOn ==
  ASSUME TypeOK, AgentTypes, NEW w \in Workers, TokenInv(w), Lesser(w),
         holder'[worker[w].job] = w =>
           /\ KeepsToken(worker[w].job)
           /\ holder'[worker[w].job] = holder[worker[w].job]
  PROVE  TokenInv(w)'
<1> SUFFICES ASSUME worker'[w].at \in Early \cup Executing,
                    holder'[worker'[w].job] = w,
                    job'[worker'[w].job].claim # "none"
             PROVE  /\ job'[worker'[w].job].attempts = worker'[w].attempt
                    /\ job'[worker'[w].job].claim # "held" =>
                         job'[worker'[w].job].status = "assigned"
  BY DEF TokenInv
<1>1. /\ worker'[w].job = worker[w].job /\ worker'[w].attempt = worker[w].attempt
      /\ worker[w].at \in Early \cup Executing
  BY DEF Lesser, SameAttempt
<1>2. QED
  BY <1>1 DEF TokenInv, KeepsToken

LEMMA StartedGoesOn ==
  ASSUME NEW r, NEW q, NEW w, SameAttempt(q, r), StartedBy(r, w),
         r.job \in Jobs, r.attempt \in Nat,
         started[r.job] \in Nat, started'[r.job] \in Nat, KeepsClaim(r.job)
  PROVE  /\ q.attempt <= started'[q.job]
         /\ q.attempt = started'[q.job] /\ job'[q.job].claim = "held" =>
              holder'[q.job] = w
BY DEF StartedBy, SameAttempt, KeepsClaim

(* No container has a new name, or the name of another.                    *)
KeptNames ==
  /\ \A c \in box' : \E b \in box : b.by = c.by /\ SameAttempt(b, c)
  /\ \A c, d \in box' : SameAttempt(c, d) => c = d

(* The same for the names, when none is new.                               *)
LEMMA NamesGoOn ==
  ASSUME TypeOK, TypeOK', AgentTypes, NamesInv, \A j \in Jobs : KeepsClaim(j),
         KeptNames,
         \A w \in Workers :
           worker'[w].at \in Executing =>
             /\ worker[w].at \in Executing
             /\ SameAttempt(worker'[w], worker[w]),
         \A b \in box : worker'[b.by].at \in Early \cup {"create"} =>
           ~SameAttempt(b, worker'[b.by])
  PROVE  NamesInv'
<1>0. \A j \in Jobs : started[j] \in Nat /\ started'[j] \in Nat
  BY DEF TypeOK
<1>1. ASSUME NEW c \in box' PROVE StartedBy(c, c.by)'
  <2>1. PICK b \in box : b.by = c.by /\ SameAttempt(b, c)
    BY DEF KeptNames
  <2>2. /\ b.job \in Jobs /\ b.attempt \in Nat /\ StartedBy(b, c.by)
        /\ SameAttempt(c, b)
    BY <2>1, BoxKeeper DEF NamesInv, SameAttempt
  <2>3. /\ c.attempt <= started'[c.job]
        /\ c.attempt = started'[c.job] /\ job'[c.job].claim = "held" =>
             holder'[c.job] = c.by
    BY <1>0, <2>2, StartedGoesOn
  <2>4. QED
    BY <2>3 DEF StartedBy
<1>2. ASSUME NEW w \in Workers, worker'[w].at \in Executing
      PROVE  StartedBy(worker[w], w)'
  <2>1. /\ worker[w].at \in Executing /\ SameAttempt(worker'[w], worker[w])
        /\ StartedBy(worker[w], w)
    BY <1>2 DEF NamesInv
  <2>2. worker[w].job \in Jobs /\ worker[w].attempt \in Nat
    BY <2>1 DEF AgentTypes, WorkerJob, WorkerRecord, Executing, Resting
  <2>3. /\ worker'[w].attempt <= started'[worker'[w].job]
        /\ /\ worker'[w].attempt = started'[worker'[w].job]
           /\ job'[worker'[w].job].claim = "held"
           => holder'[worker'[w].job] = w
    BY <1>0, <2>1, <2>2, StartedGoesOn
  <2>4. QED
    BY <2>3 DEF StartedBy
<1>3. ASSUME NEW c \in box', NEW w \in Workers, worker'[w].at \in Executing,
             SameAttempt(c, worker'[w])
      PROVE  c.by = w
  BY <1>3 DEF NamesInv, SameAttempt, KeptNames
<1>4. ASSUME NEW w \in Workers, NEW v \in Workers,
             worker'[w].at \in Executing, worker'[v].at \in Executing,
             SameAttempt(worker'[w], worker'[v])
      PROVE  w = v
  BY <1>4 DEF NamesInv, SameAttempt
<1>5. ASSUME NEW c \in box', worker'[c.by].at \in Early \cup {"create"}
      PROVE  ~SameAttempt(c, worker'[c.by])
  BY <1>5 DEF SameAttempt, KeptNames
<1>6. QED
  BY <1>1, <1>2, <1>3, <1>4, <1>5 DEF NamesInv, KeptNames

LEMMA FewerNames ==
  ASSUME NamesInv, box' \subseteq box
  PROVE  KeptNames
BY DEF NamesInv, KeptNames, SameAttempt

LEMMA SameNames ==
  ASSUME AgentTypes, NamesInv, NEW S \in SUBSET box,
         NEW st \in {"requested", "created", "starting", "computing"},
         box' = (box \ S) \cup {With(b, st) : b \in S}
  PROVE  KeptNames
<1>1. \A b \in S : With(b, st).by = b.by /\ SameAttempt(With(b, st), b)
  BY BoxTypes DEF AgentTypes
<1>2. ASSUME NEW c \in box'
      PROVE  \E b \in box : /\ b.by = c.by /\ SameAttempt(b, c)
                            /\ c = IF b \in S THEN With(b, st) ELSE b
  BY <1>1 DEF SameAttempt
<1>3. ASSUME NEW c \in box', NEW d \in box', SameAttempt(c, d)
      PROVE  c = d
  <2>1. PICK b \in box : /\ SameAttempt(b, c)
                         /\ c = IF b \in S THEN With(b, st) ELSE b
    BY <1>2
  <2>2. PICK a \in box : /\ SameAttempt(a, d)
                         /\ d = IF a \in S THEN With(a, st) ELSE a
    BY <1>2
  <2>3. a = b
    BY <1>3, <2>1, <2>2 DEF SameAttempt, NamesInv
  <2>4. QED
    BY <2>1, <2>2, <2>3
<1>4. QED
  BY <1>2, <1>3 DEF KeptNames

LEMMA TokensGoOn ==
  ASSUME LifeInv, TypeOK', AgentTypes, TokensInv, KeptNames,
         \A j \in Jobs : CalmStep(j) \/ TakenOver(j) \/ Reported(j),
         UNCHANGED holder, \A w \in Workers : Lesser(w)
  PROVE  TokensInv'
<1>0. TypeOK /\ NamesInv /\ \A j \in Jobs : JobInv(j) /\ ClaimInv(j)
  BY DEF LifeInv, TokensInv
<1>1. \A j \in Jobs : KeepsClaim(j) /\ KeepsToken(j)
  BY <1>0, StepTokens
<1>2. \A j \in Jobs : ClaimInv(j)'
  BY <1>1 DEF KeepsClaim, ClaimInv
<1>3. ASSUME NEW w \in Workers PROVE TokenInv(w)'
  <2>1. CASE worker[w].at \in Early \cup Executing
    <3>1. worker[w].job \in Jobs
      BY <2>1 DEF AgentTypes, WorkerJob, Early, Executing, Resting
    <3>2. QED
      BY <1>0, <1>1, <3>1, TokenGoesOn DEF TokensInv
  <2>2. CASE worker[w].at \notin Early \cup Executing
    BY <2>2 DEF Lesser, TokenInv
  <2>3. QED
    BY <2>1, <2>2
<1>4. \A w \in Workers : worker'[w].at \in Executing =>
        /\ worker[w].at \in Executing
        /\ SameAttempt(worker'[w], worker[w])
  BY DEF Lesser
<1>5. ASSUME NEW b \in box, worker'[b.by].at \in Early \cup {"create"}
      PROVE  ~SameAttempt(b, worker'[b.by])
  <2>1. b.by \in Workers
    BY BoxKeeper
  <2>2. /\ worker[b.by].at \in Early \cup {"create"}
        /\ SameAttempt(worker'[b.by], worker[b.by])
    BY <1>5, <2>1 DEF Lesser, Executing
  <2>3. ~SameAttempt(b, worker[b.by])
    BY <1>0, <2>2 DEF NamesInv
  <2>4. QED
    BY <2>2, <2>3 DEF SameAttempt
<1>6. NamesInv'
  BY <1>0, <1>1, <1>4, <1>5, NamesGoOn
<1>7. QED
  BY <1>2, <1>3, <1>6 DEF TokensInv

(* When the store and the tokens stay as they are, only what is new needs  *)
(* to be looked at.                                                        *)
LEMMA TokensStay ==
  ASSUME LifeInv, AgentTypes, TokensInv, UNCHANGED <<vars, holder>>,
         \A w \in Workers : Lesser(w), KeptNames
  PROVE  TokensInv'
<1>1. TypeOK /\ TypeOK'
  BY NextType DEF LifeInv
<1>2. QED
  BY <1>1, UnchangedCalm, TokensGoOn DEF StoreCalm

LEMMA OthersLesser ==
  ASSUME NEW w \in Workers, Others(w), Lesser(w)
  PROVE  \A v \in Workers : Lesser(v)
BY DEF Others, Lesser, SameAttempt

LEMMA TurnLesser ==
  ASSUME NEW w \in Workers, NEW from \in At, NEW to \in At, Turns(w, from, to),
         from \in Early \cup Executing,
         to \in Executing => from \in Executing,
         to \in Early \cup {"create"} => from \in Early \cup {"create"}
  PROVE  \A v \in Workers : Lesser(v)
<1>1. Lesser(w) /\ Others(w)
  BY DEF Turns, Lesser
<1>2. QED
  BY <1>1, OthersLesser

LEMMA RestLesser ==
  ASSUME NEW w \in Workers, Others(w),
         worker'[w].at \notin Early \cup Executing
  PROVE  \A v \in Workers : Lesser(v)
<1>1. Lesser(w)
  BY DEF Lesser
<1>2. QED
  BY <1>1, OthersLesser

LEMMA FailLesser ==
  ASSUME AgentTypes, NEW s \in Sessions, FailStop(s)
  PROVE  \A w \in Workers : Lesser(w)
<1>1. \A w \in Workers : worker'[w] = worker[w] \/ worker'[w] = Gone
  BY FailStopFacts DEF AgentTypes
<1>2. QED
  BY <1>1, IdleFacts DEF Lesser, SameAttempt, Early, Executing

LEMMA LocalLesser ==
  ASSUME NEW w \in Workers, LocalMove(w)
  PROVE  \A v \in Workers : Lesser(v)
<1>1. Others(w)
  BY DEF LocalMove
<1>2. Lesser(w)
  <2>1. CASE Progress(w)
    BY <2>1 DEF Progress, Lesser, Early, Executing, Resting
  <2>2. CASE worker'[w].at \in {"idle", "poll"}
    BY <2>2 DEF Lesser, Early, Executing
  <2>3. QED
    BY <2>1, <2>2, IdleFacts DEF LocalMove
<1>3. QED
  BY <1>1, <1>2, OthersLesser

(* The validation finds the attempt that runs and the worker that has its  *)
(* token: nobody else executes the attempt, and no container has its name  *)
(* but that worker's.                                                      *)
LEMMA ValidatedOwner ==
  ASSUME LifeInv, AgentTypes, TokensInv, NEW w \in Workers, OwnsAttempt(w),
         worker[w].at \in Early \cup Executing
  PROVE  /\ worker[w].job \in Jobs
         /\ job[worker[w].job].claim = "held"
         /\ holder[worker[w].job] = w
         /\ worker[w].attempt = job[worker[w].job].attempts
         /\ worker[w].attempt = started[worker[w].job]
         /\ worker[w].attempt \in Nat
<1> DEFINE j == worker[w].job
<1>1. j \in Jobs /\ worker[w].attempt \in Nat
  BY DEF AgentTypes, WorkerJob, WorkerRecord, Early, Executing, Resting
<1>2. /\ holder[j] = w /\ job[j].claim # "none"
      /\ job[j].status \in {"running", "canceling"}
  BY DEF OwnsAttempt, HoldsToken, HoldsAttempt
<1>3. job[j].attempts = worker[w].attempt /\ job[j].claim = "held"
  BY <1>2 DEF TokensInv, TokenInv
<1>4. job[j].attempts = started[j]
  BY <1>1, <1>2 DEF LifeInv, JobInv, BudgetInv
<1>5. QED
  BY <1>1, <1>2, <1>3, <1>4

LEMMA ValidatedNames ==
  ASSUME LifeInv, AgentTypes, TokensInv, NEW w \in Workers, Validated(w)
  PROVE  TokensInv'
<1>1. /\ Turns(w, "validate", "create") /\ OwnsAttempt(w)
      /\ UNCHANGED <<vars, box, holder>>
  BY DEF Validated
<1>2. /\ worker[w].at = "validate" /\ worker'[w].at = "create" /\ Others(w)
      /\ SameAttempt(worker'[w], worker[w])
  BY <1>1 DEF Turns
<1>3. /\ worker[w].job \in Jobs /\ worker[w].attempt \in Nat
      /\ job[worker[w].job].claim = "held" /\ holder[worker[w].job] = w
      /\ worker[w].attempt = started[worker[w].job]
  BY <1>1, <1>2, ValidatedOwner DEF Early
<1>4. UNCHANGED <<job, started, holder, box>>
  BY <1>1 DEF vars
<1>5. \A j \in Jobs : ClaimInv(j)'
  BY <1>4 DEF TokensInv, ClaimInv
<1>6. ASSUME NEW v \in Workers PROVE TokenInv(v)'
  <2>1. /\ worker'[v].job = worker[v].job
        /\ worker'[v].attempt = worker[v].attempt
        /\ worker'[v].at \in Early \cup Executing =>
             worker[v].at \in Early \cup Executing
    BY <1>2 DEF Others, SameAttempt, Early
  <2>2. QED
    BY <1>4, <2>1 DEF TokensInv, TokenInv
<1>7. StartedBy(worker[w], w)
  BY <1>3 DEF StartedBy
<1>8. ASSUME NEW r, NEW v, StartedBy(r, v), SameAttempt(r, worker[w])
      PROVE  v = w
  BY <1>3, <1>8 DEF StartedBy, SameAttempt
<1>9. \A b \in box : SameAttempt(b, worker[w]) => b.by = w
  BY <1>8 DEF TokensInv, NamesInv
<1>10. \A v \in Workers :
         worker[v].at \in Executing /\ SameAttempt(worker[v], worker[w]) => v = w
  BY <1>8 DEF TokensInv, NamesInv
<1>11. NamesInv'
  <2>1. \A b \in box : StartedBy(b, b.by)'
    BY <1>4 DEF TokensInv, NamesInv, StartedBy
  <2>2. ASSUME NEW v \in Workers, worker'[v].at \in Executing
        PROVE  StartedBy(worker[v], v)'
    <3>1. StartedBy(worker[v], v) /\ SameAttempt(worker'[v], worker[v])
      BY <1>2, <1>7, <2>2 DEF TokensInv, NamesInv, Others, SameAttempt
    <3>2. QED
      BY <1>4, <3>1 DEF StartedBy, SameAttempt
  <2>3. ASSUME NEW b \in box, NEW v \in Workers, worker'[v].at \in Executing,
               SameAttempt(b, worker'[v])
        PROVE  b.by = v
    <3>1. CASE v = w
      BY <1>2, <1>9, <2>3, <3>1 DEF SameAttempt
    <3>2. CASE v # w
      BY <1>2, <2>3, <3>2 DEF TokensInv, NamesInv, Others
    <3>3. QED
      BY <3>1, <3>2
  <2>4. ASSUME NEW u \in Workers, NEW v \in Workers,
               worker'[u].at \in Executing, worker'[v].at \in Executing,
               SameAttempt(worker'[u], worker'[v])
        PROVE  u = v
    <3>1. CASE u = w
      BY <1>2, <1>10, <2>4, <3>1 DEF SameAttempt, Others
    <3>2. CASE v = w
      BY <1>2, <1>10, <2>4, <3>2 DEF SameAttempt, Others
    <3>3. CASE u # w /\ v # w
      BY <1>2, <2>4, <3>3 DEF TokensInv, NamesInv, Others
    <3>4. QED
      BY <3>1, <3>2, <3>3
  <2>5. ASSUME NEW b \in box, worker'[b.by].at \in Early \cup {"create"}
        PROVE  ~SameAttempt(b, worker'[b.by])
    <3>1. /\ worker[b.by].at \in Early \cup {"create"}
          /\ SameAttempt(worker'[b.by], worker[b.by])
      BY <1>2, <2>5, BoxKeeper DEF Others, SameAttempt, Early
    <3>2. ~SameAttempt(b, worker[b.by])
      BY <3>1 DEF TokensInv, NamesInv
    <3>3. QED
      BY <3>1, <3>2 DEF SameAttempt
  <2>6. box' = box /\ \A b, c \in box : SameAttempt(b, c) => b = c
    BY <1>4 DEF TokensInv, NamesInv
  <2>7. \A b, c \in box' : SameAttempt(b, c) => b = c
    BY <2>6
  <2>8. \A b \in box' : StartedBy(b, b.by)'
    BY <2>1, <2>6
  <2>9. \A b \in box', v \in Workers :
          worker'[v].at \in Executing /\ SameAttempt(b, worker'[v]) => b.by = v
    BY <2>3, <2>6
  <2>10. \A b \in box' : worker'[b.by].at \in Early \cup {"create"} =>
           ~SameAttempt(b, worker'[b.by])
    BY <2>5, <2>6
  <2>11. QED
    BY <2>2, <2>4, <2>7, <2>8, <2>9, <2>10 DEF NamesInv
<1>12. QED
  BY <1>5, <1>6, <1>11 DEF TokensInv

(* The name of a requested container is that of its worker's attempt.      *)
LEMMA RequestedNames ==
  ASSUME LifeInv, AgentTypes, TokensInv, NEW w \in Workers, Requested(w)
  PROVE  TokensInv'
<1>1. /\ worker[w].at = "create" /\ worker'[w].at = "creating" /\ Others(w)
      /\ SameAttempt(worker'[w], worker[w])
      /\ box' = box \cup {NewBox(w)} /\ UNCHANGED <<vars, holder>>
  BY DEF Requested, Turns
<1>2. UNCHANGED <<job, started, holder>>
  BY <1>1 DEF vars
<1>3. NewBox(w).by = w /\ SameAttempt(NewBox(w), worker[w])
  BY DEF NewBox, SameAttempt
<1>4. /\ NamesInv
      /\ StartedBy(worker[w], w)
      /\ \A b \in box : ~SameAttempt(b, worker[w])
  BY <1>1 DEF TokensInv, NamesInv, Executing
<1>5. \A v \in Workers : SameAttempt(worker'[v], worker[v]) /\
        (worker'[v].at \in Executing => worker[v].at \in Executing) /\
        (worker'[v].at \in Early \cup Executing =>
           worker[v].at \in Early \cup Executing)
  BY <1>1 DEF Others, SameAttempt, Executing, Early
<1>6. \A j \in Jobs : ClaimInv(j)'
  BY <1>2 DEF TokensInv, ClaimInv
<1>7. \A v \in Workers : TokenInv(v)'
  BY <1>2, <1>5 DEF TokensInv, TokenInv, SameAttempt
<1>8. NamesInv'
  <2>1. ASSUME NEW b \in box' PROVE StartedBy(b, b.by)'
    <3>1. StartedBy(b, b.by)
      BY <1>1, <1>3, <1>4 DEF NamesInv, StartedBy, SameAttempt
    <3>2. QED
      BY <1>2, <3>1 DEF StartedBy
  <2>2. ASSUME NEW v \in Workers, worker'[v].at \in Executing
        PROVE  StartedBy(worker[v], v)'
    <3>1. StartedBy(worker[v], v) /\ SameAttempt(worker'[v], worker[v])
      BY <1>4, <1>5, <2>2 DEF NamesInv
    <3>2. QED
      BY <1>2, <3>1 DEF StartedBy, SameAttempt
  <2>3. ASSUME NEW b \in box', NEW c \in box', SameAttempt(b, c)
        PROVE  b = c
    BY <1>1, <1>3, <1>4, <2>3 DEF NamesInv, SameAttempt
  <2>4. ASSUME NEW b \in box', NEW v \in Workers, worker'[v].at \in Executing,
               SameAttempt(b, worker'[v])
        PROVE  b.by = v
    <3>1. worker[v].at \in Executing /\ SameAttempt(b, worker[v])
      BY <1>5, <2>4 DEF SameAttempt
    <3>2. CASE b \in box
      BY <1>4, <3>1, <3>2 DEF NamesInv
    <3>3. CASE b = NewBox(w)
      <4>1. SameAttempt(worker[w], worker[v])
        BY <1>3, <3>1, <3>3 DEF SameAttempt
      <4>2. w = v
        BY <1>1, <1>4, <3>1, <4>1 DEF NamesInv, Executing
      <4>3. QED
        BY <1>3, <3>3, <4>2
    <3>4. QED
      BY <1>1, <3>2, <3>3
  <2>5. ASSUME NEW u \in Workers, NEW v \in Workers,
               worker'[u].at \in Executing, worker'[v].at \in Executing,
               SameAttempt(worker'[u], worker'[v])
        PROVE  u = v
    <3>1. /\ worker[u].at \in Executing /\ worker[v].at \in Executing
          /\ SameAttempt(worker[u], worker[v])
      BY <1>5, <2>5 DEF SameAttempt
    <3>2. QED
      BY <1>4, <3>1 DEF NamesInv
  <2>6. ASSUME NEW b \in box', worker'[b.by].at \in Early \cup {"create"}
        PROVE  ~SameAttempt(b, worker'[b.by])
    <3>1. b.by # w
      BY <1>1, <2>6 DEF Early
    <3>2. b \in box
      BY <1>1, <1>3, <3>1
    <3>3. worker'[b.by] = worker[b.by]
      BY <1>1, <3>1, <3>2, BoxKeeper DEF Others
    <3>4. QED
      BY <1>4, <2>6, <3>2, <3>3 DEF NamesInv
  <2>7. QED
    BY <2>1, <2>2, <2>3, <2>4, <2>5, <2>6 DEF NamesInv
<1>9. QED
  BY <1>6, <1>7, <1>8 DEF TokensInv

(* A polled attempt is later than all that have a container.               *)
LEMMA PolledNames ==
  ASSUME LifeInv, TypeOK', AgentTypes, TokensInv, NEW w \in Workers, Polled(w)
  PROVE  TokensInv'
<1>0. TypeOK /\ NamesInv /\ \A j \in Jobs : JobInv(j) /\ ClaimInv(j)
  BY DEF LifeInv, TokensInv
<1>1. /\ Others(w) /\ UNCHANGED box /\ NoWorker \notin Workers
      /\ \/ worker'[w] = Idle
         \/ \E j \in Jobs :
              /\ Claimed(j)
              /\ worker'[w].job = j
              /\ \/ worker'[w].at = "report"
                 \/ /\ worker'[w].at = "start"
                    /\ worker'[w].attempt = job[j].attempts
                    /\ job[j].status = "assigned"
  BY AgentAssumption DEF Polled, Renewed
<1>2. ASSUME NEW j \in Jobs
      PROVE  /\ KeepsClaim(j)
             /\ \/ KeepsToken(j) /\ holder'[j] = holder[j]
                \/ Claimed(j) /\ holder'[j] \in {w, NoWorker}
  <2>1. CASE (Untouched(j) \/ SentBack(j)) /\ holder'[j] = holder[j]
    BY <1>0, <2>1, StepTokens DEF CalmStep
  <2>2. CASE Claimed(j) /\ holder'[j] \in {w, NoWorker}
    BY <1>0, <2>2, ClaimedTokens
  <2>3. QED
    BY <2>1, <2>2 DEF Polled
<1>3. worker'[w].at \in {"idle", "report", "start"}
  BY <1>1, IdleFacts
<1>4. \A j \in Jobs : ClaimInv(j)'
  BY <1>2 DEF KeepsClaim, ClaimInv
<1>5. ASSUME NEW v \in Workers PROVE TokenInv(v)'
  <2>1. CASE v = w
    <3>1. SUFFICES ASSUME worker'[w].at = "start" PROVE TokenInv(w)'
      BY <1>3, <2>1 DEF TokenInv, Early, Executing
    <3>2. PICK j \in Jobs : /\ Claimed(j) /\ worker'[w].job = j
                            /\ worker'[w].attempt = job[j].attempts
                            /\ job[j].status = "assigned"
      BY <1>1, <3>1, IdleFacts
    <3>3. /\ job'[j].attempts = job[j].attempts
          /\ job'[j].status = "assigned"
      BY <1>0, <3>2, ClaimedFields
    <3>4. QED
      BY <3>2, <3>3 DEF TokenInv
  <2>2. CASE v # w /\ worker[v].at \in Early \cup Executing
    <3>1. worker[v].job \in Jobs
      BY <2>2 DEF AgentTypes, WorkerJob, Early, Executing, Resting
    <3>2. Lesser(v)
      BY <1>1, <2>2 DEF Others, Lesser, SameAttempt
    <3>3. TokenInv(v)
      BY DEF TokensInv
    <3>4. holder'[worker[v].job] = v =>
            /\ KeepsToken(worker[v].job)
            /\ holder'[worker[v].job] = holder[worker[v].job]
      BY <1>1, <1>2, <2>2, <3>1
    <3>5. QED
      BY <1>0, <3>2, <3>3, <3>4, TokenGoesOn
  <2>3. CASE v # w /\ worker[v].at \notin Early \cup Executing
    BY <1>1, <2>3 DEF Others, TokenInv
  <2>4. QED
    BY <2>1, <2>2, <2>3
<1>6. KeptNames
  BY <1>0, <1>1, FewerNames
<1>7. \A v \in Workers : worker'[v].at \in Executing =>
        /\ worker[v].at \in Executing
        /\ SameAttempt(worker'[v], worker[v])
  BY <1>1, <1>3 DEF Others, Executing, SameAttempt
<1>8. ASSUME NEW b \in box, worker'[b.by].at \in Early \cup {"create"}
      PROVE  ~SameAttempt(b, worker'[b.by])
  <2>1. /\ b.by \in Workers /\ b.job \in Jobs /\ b.attempt \in Nat
        /\ StartedBy(b, b.by)
    BY <1>0, BoxKeeper DEF NamesInv
  <2>2. CASE b.by = w
    <3>1. PICK j \in Jobs : /\ worker'[w].job = j
                            /\ worker'[w].attempt = job[j].attempts
                            /\ job[j].status = "assigned"
      BY <1>1, <1>8, <2>2, IdleFacts DEF Early
    <3>2. job[j].attempts = started[j] + 1 /\ started[j] \in Nat
      BY <1>0, <3>1 DEF JobInv, BudgetInv, TypeOK
    <3>3. b.attempt <= started[b.job]
      BY <2>1 DEF StartedBy
    <3>4. QED
      BY <2>1, <2>2, <3>1, <3>2, <3>3 DEF SameAttempt
  <2>3. CASE b.by # w
    BY <1>0, <1>1, <1>8, <2>1, <2>3 DEF NamesInv, Others
  <2>4. QED
    BY <2>2, <2>3
<1>9. NamesInv'
  BY <1>0, <1>2, <1>6, <1>7, <1>8, NamesGoOn
<1>10. QED
  BY <1>4, <1>5, <1>9 DEF TokensInv

LEMMA LaunchedNames ==
  ASSUME AgentTypes, NamesInv, NEW w \in Workers, Launched(w)
  PROVE  KeptNames
<1>1. Own(w) \in SUBSET box
  BY DEF Own
<1>2. box' = (box \ Own(w)) \cup {With(b, "starting") : b \in Own(w)}
  BY DEF Launched
<1>3. QED
  BY <1>1, <1>2, SameNames

LEMMA DaemonNames ==
  ASSUME AgentTypes, NamesInv, NEW b \in box, Daemon(b)
  PROVE  KeptNames
<1>1. CASE box' \subseteq box
  BY <1>1, FewerNames
<1>2. ASSUME NEW st \in {"created", "computing"},
             box' = (box \ {b}) \cup {With(b, st)}
      PROVE  KeptNames
  <2>1. {b} \in SUBSET box
    OBVIOUS
  <2>2. box' = (box \ {b}) \cup {With(c, st) : c \in {b}}
    BY <1>2
  <2>3. QED
    BY <2>1, <2>2, SameNames
<1>3. QED
  BY <1>1, <1>2, DaemonFacts DEF AgentTypes

LEMMA ReportsSteps ==
  ASSUME TypeOK, AgentTypes, NEW w \in Workers, Reports(w)
  PROVE  /\ worker[w].job \in Jobs
         /\ Reported(worker[w].job)
         /\ \A i \in Jobs \ {worker[w].job} : Untouched(i)
<1>1. worker[w].at = "report" /\ ReportEnd(worker[w].job, worker[w].outcome)
  BY DEF Reports, Turns, Renewed
<1>2. worker[w].job \in Jobs
  BY <1>1 DEF AgentTypes, WorkerJob, Resting
<1>3. QED
  BY <1>1, <1>2, ReportEndSteps DEF ReportEnd

LEMMA MoveTokens ==
  ASSUME LifeInv, TypeOK', AgentTypes, TokensInv, NEW w \in Workers, MoveKind(w)
  PROVE  TokensInv'
<1>0. TypeOK /\ NamesInv
  BY DEF LifeInv, TokensInv
<1>1. CASE LocalMove(w)
  BY <1>0, <1>1, LocalLesser, FewerNames, TokensStay DEF LocalMove
<1>2. CASE Validated(w)
  BY <1>2, ValidatedNames
<1>3. CASE Requested(w)
  BY <1>3, RequestedNames
<1>4. CASE Confirmed(w)
  <2>1. Turns(w, "confirm", "launch") /\ UNCHANGED <<vars, box, holder>>
    BY <1>4 DEF Confirmed
  <2>2. \A v \in Workers : Lesser(v)
    BY <2>1, TurnLesser DEF Early, Executing, At
  <2>3. QED
    BY <1>0, <2>1, <2>2, FewerNames, TokensStay
<1>5. CASE Launched(w)
  <2>1. Turns(w, "launch", "monitor") /\ UNCHANGED <<vars, holder>>
    BY <1>5 DEF Launched
  <2>2. \A v \in Workers : Lesser(v)
    BY <2>1, TurnLesser DEF Early, Executing, At
  <2>3. QED
    BY <1>0, <1>5, <2>1, <2>2, LaunchedNames, TokensStay
<1>6. CASE Started(w)
  <2>1. PICK to \in {"prepare", "reread"} : Turns(w, "start", to)
    BY <1>6 DEF Started
  <2>2. worker[w].job \in Jobs
    BY <2>1 DEF Turns, AgentTypes, WorkerJob, Resting
  <2>3. UNCHANGED <<box, holder>> /\ StoreCalm
    BY <1>0, <1>6, <2>2, JobOperationsGoOn DEF Started
  <2>4. \A v \in Workers : Lesser(v)
    BY <2>1, TurnLesser DEF Early, Executing, At
  <2>5. QED
    BY <1>0, <2>3, <2>4, FewerNames, TokensGoOn DEF StoreCalm
<1>7. CASE Reports(w)
  <2>1. \A j \in Jobs : CalmStep(j) \/ Reported(j)
    BY <1>0, <1>7, ReportsSteps DEF CalmStep
  <2>2. /\ UNCHANGED <<box, holder>> /\ Others(w)
        /\ worker'[w].at \notin Early \cup Executing
    BY <1>7, IdleFacts DEF Reports, Turns, Renewed, Early, Executing
  <2>3. \A v \in Workers : Lesser(v)
    BY <2>2, RestLesser
  <2>4. QED
    BY <1>0, <2>1, <2>2, <2>3, FewerNames, TokensGoOn
<1>8. CASE Polled(w)
  BY <1>8, PolledNames
<1>9. QED
  BY <1>1, <1>2, <1>3, <1>4, <1>5, <1>6, <1>7, <1>8 DEF MoveKind

LEMMA ProcessTokens ==
  ASSUME LifeInv, TypeOK', AgentTypes, TokensInv, NEW s \in Sessions, Process(s)
  PROVE  TokensInv'
<1>0. TypeOK /\ NamesInv
  BY DEF LifeInv, TokensInv
<1>1. box' \subseteq box /\ UNCHANGED holder
  BY DEF Process, ProcessStep, Register, CleanManaged, Confirm, ReportHealth,
         LeaseRunsOut, StopExpired, Crash, SessionRefused, Quiesce,
         AcknowledgeQuiesce, Resume
<1>2. UNCHANGED worker \/ FailStop(s)
  BY DEF Process, ProcessStep, Register, CleanManaged, Confirm, ReportHealth,
         LeaseRunsOut, StopExpired, Crash, SessionRefused, Quiesce,
         AcknowledgeQuiesce, Resume
<1>3. \A w \in Workers : Lesser(w)
  <2>1. CASE UNCHANGED worker
    BY <2>1 DEF Lesser, SameAttempt
  <2>2. QED
    BY <1>2, <2>1, FailLesser
<1>4. \A j \in Jobs : CalmStep(j) \/ TakenOver(j)
  <2>1. CASE StoreCalm
    BY <2>1 DEF StoreCalm
  <2>2. ASSUME NEW healthy \in BOOLEAN, NEW g \in Inventories,
               Register(s, healthy, g)
        PROVE  \A j \in Jobs : CalmStep(j) \/ TakenOver(j)
    BY <1>0, <2>2, RegisterFacts DEF CalmStep
  <2>3. QED
    BY <1>0, <2>1, <2>2, ProcessCalm
<1>5. QED
  BY <1>0, <1>1, <1>3, <1>4, FewerNames, TokensGoOn

LEMMA AgentsKeepTokens ==
  ASSUME BaseInv, LifeInv, TokensInv, [NextWithAgents]_allVars
  PROVE  TokensInv'
<1>0. TypeOK /\ AgentTypes /\ Watched /\ NamesInv /\ TypeOK'
  BY TypedSplit, NextBase DEF BaseInv, TokensInv, TypedInv, AgentTypeOK
<1>1. ASSUME NEW s \in Sessions, Process(s) PROVE TokensInv'
  BY <1>0, <1>1, ProcessTokens
<1>2. ASSUME NEW w \in Workers, WorkerStep(w) PROVE TokensInv'
  <2>1. MoveKind(w) \/ Stops(SessionOf[w]) \/ Withdraw(w)
    BY <1>0, <1>2, WorkerKinds DEF Watched
  <2>2. CASE Stops(SessionOf[w])
    BY <1>0, <2>2, HostType, FailLesser, FewerNames, TokensStay DEF Stops
  <2>3. CASE Withdraw(w)
    <3>1. /\ Others(w) /\ worker'[w] = Gone
          /\ box' \subseteq box /\ UNCHANGED <<vars, holder>>
      BY <1>0, <2>3, WithdrawFacts
    <3>2. worker'[w].at \notin Early \cup Executing
      BY <3>1, IdleFacts DEF Early, Executing
    <3>3. QED
      BY <1>0, <3>1, <3>2, RestLesser, FewerNames, TokensStay
  <2>4. QED
    BY <1>0, <2>1, <2>2, <2>3, MoveTokens
<1>3. ASSUME NEW b \in box, Daemon(b) PROVE TokensInv'
  <2>1. UNCHANGED <<vars, holder, worker>>
    BY <1>3 DEF Daemon
  <2>2. \A w \in Workers : Lesser(w)
    BY <2>1 DEF Lesser, SameAttempt
  <2>3. QED
    BY <1>0, <1>3, <2>1, <2>2, DaemonNames, TokensStay
<1>4. CASE Surroundings
  <2>1. StoreCalm /\ UNCHANGED <<worker, box, holder>>
    BY <1>0, <1>4, SurroundingsCalm DEF Surroundings
  <2>2. \A w \in Workers : Lesser(w)
    BY <2>1 DEF Lesser, SameAttempt
  <2>3. QED
    BY <1>0, <2>1, <2>2, FewerNames, TokensGoOn DEF StoreCalm
<1>5. CASE UNCHANGED allVars
  <2>1. UNCHANGED <<vars, worker, box, holder>>
    BY <1>5 DEF allVars, agentVars
  <2>2. \A w \in Workers : Lesser(w)
    BY <2>1 DEF Lesser, SameAttempt
  <2>3. QED
    BY <1>0, <2>1, <2>2, FewerNames, TokensStay
<1>6. QED
  BY <1>1, <1>2, <1>3, <1>4, <1>5 DEF NextWithAgents

----------------------------------------------------------------------------
(* What runs on a host is the attempt its node has.                        *)

Steady(j) ==
  job[j].status \in {"running", "canceling"} =>
    /\ job'[j].status \in {"running", "canceling"}
    /\ job'[j].attempts = job[j].attempts
    /\ job'[j].node = job[j].node
    /\ job'[j].session = job[j].session
    /\ job[j].claim = "held" => /\ job'[j].claim = "held"
                                /\ holder'[j] = holder[j]

LEMMA CalmSteady ==
  ASSUME TypeOK, NEW j \in Jobs, CalmStep(j), holder'[j] = holder[j]
  PROVE  Steady(j)
<1>1. job[j] \in JobRecord
  BY DEF TypeOK
<1>2. SUFFICES ASSUME job[j].status \in {"running", "canceling"}
               PROVE  Steady(j)
  BY DEF Steady
<1>3. CASE Untouched(j)
  BY <1>2, <1>3 DEF Untouched, Steady
<1>4. CASE CancelRequested(j) \/ Lapsed(j)
  BY <1>1, <1>2, <1>4 DEF CancelRequested, Lapsed, Steady, JobRecord
<1>5. ~(Submitted(j) \/ Withdrawn(j) \/ SentBack(j) \/ Placed(j) \/ Begun(j))
  BY <1>2 DEF Submitted, Withdrawn, SentBack, Placed, Begun
<1>6. QED
  BY <1>3, <1>4, <1>5 DEF CalmStep

LEMMA ClaimedSteady ==
  ASSUME TypeOK, NEW j \in Jobs, Claimed(j)
  PROVE  Steady(j)
BY ClaimedFields DEF Claimed, Steady

(* No process gets past its cleanup while something runs on its host.      *)
CleanedOnly ==
  \A s \in Sessions : agent'[s].phase \in {"cleaned", "ready"} =>
    \/ agent[s].phase \in {"cleaned", "ready"}
    \/ \A c \in box' : Runs(c) => HostOf(c.by) # Home[s]

NoNewLaunch ==
  \A w \in Workers : worker'[w].at = "launch" =>
    worker[w].at = "launch" /\ SameAttempt(worker'[w], worker[w])

LEMMA NodeLost ==
  ASSUME NodesGoOn, NEW w \in Workers, HasNode(w)'
  PROVE  HasNode(w)
<1>1. HostOf(w) \in Nodes /\ SessionOf[w] # NoSession
  BY HostType
<1>2. node'[HostOf(w)].session = SessionOf[w]
  BY DEF HasNode, HostOf
<1>3. QED
  BY <1>1, <1>2 DEF NodesGoOn, HasNode

LEMMA SteadyAttempt ==
  ASSUME NEW r, NEW q, NEW w, SameAttempt(q, r), OnNode(r, w), Steady(r.job)
  PROVE  /\ job'[q.job].status \in {"running", "canceling"}
         /\ job'[q.job].attempts = q.attempt
         /\ job'[q.job].node = HostOf(w)
         /\ Current(r, w) => /\ job'[q.job].claim = "held"
                             /\ holder'[q.job] = w
                             /\ job'[q.job].session = SessionOf[w]
BY DEF SameAttempt, OnNode, Current, Steady

LEMMA HostsGoOn ==
  ASSUME TypeOK, AgentTypes, HostsInv, NodesGoOn, \A j \in Jobs : Steady(j),
         \A c \in box' : Runs(c) => Remains(c), NoNewLaunch, CleanedOnly
  PROVE  HostsInv'
<1>1. ASSUME NEW c \in box', Runs(c)
      PROVE  OnNode(c, c.by)' /\ (HasNode(c.by)' => Current(c, c.by)')
  <2>1. PICK b \in box : b.by = c.by /\ SameAttempt(b, c) /\ Runs(b)
    BY <1>1 DEF Remains
  <2>2. /\ b.job \in Jobs /\ c.by \in Workers /\ SameAttempt(c, b)
        /\ OnNode(b, c.by) /\ (HasNode(c.by) => Current(b, c.by))
    BY <2>1, BoxKeeper DEF HostsInv, SameAttempt
  <2>3. /\ job'[c.job].status \in {"running", "canceling"}
        /\ job'[c.job].attempts = c.attempt
        /\ job'[c.job].node = HostOf(c.by)
        /\ Current(b, c.by) => /\ job'[c.job].claim = "held"
                               /\ holder'[c.job] = c.by
                               /\ job'[c.job].session = SessionOf[c.by]
    BY <2>2, SteadyAttempt
  <2>4. OnNode(c, c.by)'
    BY <2>3 DEF OnNode, HostOf
  <2>5. HasNode(c.by)' => Current(c, c.by)'
    BY <2>2, <2>3, NodeLost DEF Current
  <2>6. QED
    BY <2>4, <2>5
<1>2. ASSUME NEW w \in Workers, worker'[w].at = "launch", HasNode(w)'
      PROVE  OnNode(worker[w], w)' /\ Current(worker[w], w)'
  <2>1. worker[w].at = "launch" /\ SameAttempt(worker'[w], worker[w])
    BY <1>2 DEF NoNewLaunch
  <2>2. OnNode(worker[w], w) /\ Current(worker[w], w)
    BY <1>2, <2>1, NodeLost DEF HostsInv
  <2>3. worker[w].job \in Jobs
    BY <2>1 DEF AgentTypes, WorkerJob, Resting
  <2>4. /\ job'[worker'[w].job].status \in {"running", "canceling"}
        /\ job'[worker'[w].job].attempts = worker'[w].attempt
        /\ job'[worker'[w].job].node = HostOf(w)
        /\ job'[worker'[w].job].claim = "held"
        /\ holder'[worker'[w].job] = w
        /\ job'[worker'[w].job].session = SessionOf[w]
    BY <2>1, <2>2, <2>3, SteadyAttempt
  <2>5. QED
    BY <2>4 DEF OnNode, Current, HostOf
<1>3. ASSUME NEW s \in Sessions, NEW c \in box',
             agent'[s].phase \in {"cleaned", "ready"},
             node'[Home[s]].session = s, Runs(c), HostOf(c.by) = Home[s]
      PROVE  SessionOf[c.by] = s
  <2>1. agent[s].phase \in {"cleaned", "ready"}
    BY <1>3 DEF CleanedOnly
  <2>2. node[Home[s]].session = s
    BY <1>3, AgentAssumption, PolicyAssumption DEF NodesGoOn
  <2>3. PICK b \in box : b.by = c.by /\ Runs(b)
    BY <1>3 DEF Remains
  <2>4. QED
    BY <1>3, <2>1, <2>2, <2>3 DEF HostsInv
<1>4. QED
  BY <1>1, <1>2, <1>3 DEF HostsInv, HostOf, Runs

(* When the store stays as it is.                                          *)
LEMMA HostsStay ==
  ASSUME TypeOK, AgentTypes, HostsInv, UNCHANGED <<vars, holder>>,
         \A c \in box' : Runs(c) => Remains(c), NoNewLaunch, CleanedOnly
  PROVE  HostsInv'
<1>1. \A j \in Jobs : Steady(j)
  BY UnchangedCalm, CalmSteady DEF StoreCalm
<1>2. NodesGoOn
  BY UnchangedCalm DEF StoreCalm
<1>3. QED
  BY <1>1, <1>2, HostsGoOn

(* The confirmation before the launch was given to the owner.              *)
LEMMA ConfirmedHosts ==
  ASSUME LifeInv, AgentTypes, SessionsInv, TokensInv, HostsInv,
         NEW w \in Workers, Confirmed(w)
  PROVE  HostsInv'
<1>1. /\ worker[w].at = "confirm" /\ worker'[w].at = "launch" /\ Others(w)
      /\ SameAttempt(worker'[w], worker[w]) /\ OwnsAttempt(w)
      /\ UNCHANGED <<job, node, box, holder, agent>>
  BY DEF Confirmed, Turns, vars
<1>2. /\ worker[w].job \in Jobs /\ job[worker[w].job].claim = "held"
      /\ holder[worker[w].job] = w
      /\ worker[w].attempt = job[worker[w].job].attempts
  BY <1>1, ValidatedOwner DEF Executing
<1>3. /\ job[worker[w].job].status \in {"running", "canceling"}
      /\ job[worker[w].job].session = SessionOf[w]
      /\ job[worker[w].job].node # NoNode
      /\ node[job[worker[w].job].node].session = SessionOf[w]
  BY <1>1 DEF OwnsAttempt, HoldsToken, HoldsAttempt
<1>4. job[worker[w].job].node = HostOf(w)
  <2>1. job[worker[w].job].node \in Nodes
    BY <1>2, <1>3 DEF LifeInv, TypeOK, JobRecord
  <2>2. QED
    BY <1>3, <2>1, HostType DEF SessionsInv, HostOf
<1>5. OnNode(worker[w], w) /\ Current(worker[w], w)
  BY <1>2, <1>3, <1>4 DEF OnNode, Current
<1>6. OnNode(worker[w], w)' /\ Current(worker[w], w)'
  BY <1>1, <1>5 DEF OnNode, Current, SameAttempt, HostOf
<1>7. \A v \in Workers \ {w} : worker'[v] = worker[v]
  BY <1>1 DEF Others
<1>8. ASSUME NEW v \in Workers, worker'[v].at = "launch", HasNode(v)'
      PROVE  OnNode(worker[v], v)' /\ Current(worker[v], v)'
  <2>1. CASE v = w
    BY <1>6, <2>1
  <2>2. CASE v # w
    <3>1. worker'[v] = worker[v] /\ HasNode(v)
      BY <1>1, <1>7, <1>8, <2>2 DEF HasNode, HostOf
    <3>2. OnNode(worker[v], v) /\ Current(worker[v], v)
      BY <1>8, <3>1 DEF HostsInv
    <3>3. QED
      BY <1>1, <3>1, <3>2 DEF OnNode, Current, HostOf
  <2>3. QED
    BY <2>1, <2>2
<1>9. ASSUME NEW b \in box, Runs(b)
      PROVE  OnNode(b, b.by)' /\ (HasNode(b.by)' => Current(b, b.by)')
  BY <1>1, <1>9 DEF HostsInv, OnNode, HasNode, Current, HostOf
<1>10. QED
  BY <1>1, <1>8, <1>9 DEF HostsInv, HostOf, Runs

(* A launch under the lease is one on the process's own node.              *)
LEMMA LaunchedHosts ==
  ASSUME TypeOK, AgentTypes, SessionsInv, HostsInv, NEW w \in Workers, Launched(w)
  PROVE  HostsInv'
<1>1. /\ worker[w].at = "launch" /\ worker'[w].at = "monitor" /\ Others(w)
      /\ UNCHANGED <<job, node, holder, agent>>
      /\ box' = (box \ Own(w)) \cup {With(b, "starting") : b \in Own(w)}
      /\ agent[SessionOf[w]].lease
  BY DEF Launched, Turns, vars
<1>2. HasNode(w)
  BY <1>1, HostType DEF SessionsInv, HasNode, HostOf
<1>3. OnNode(worker[w], w) /\ Current(worker[w], w)
  BY <1>1, <1>2 DEF HostsInv
<1>4. ASSUME NEW c \in box'
      PROVE  \/ c \in box
             \/ c.by = w /\ SameAttempt(c, worker[w])
  <2>1. ASSUME NEW b \in Own(w)
        PROVE  /\ With(b, "starting").by = w
               /\ SameAttempt(With(b, "starting"), worker[w])
    <3>1. b \in Box /\ b.by = w /\ SameAttempt(b, worker[w])
      BY DEF Own, AgentTypes, SameAttempt
    <3>2. QED
      BY <3>1, BoxTypes DEF SameAttempt
  <2>2. QED
    BY <1>1, <2>1
<1>5. ASSUME NEW c \in box', Runs(c)
      PROVE  OnNode(c, c.by) /\ (HasNode(c.by) => Current(c, c.by))
  <2>1. CASE c \in box
    BY <1>5, <2>1 DEF HostsInv
  <2>2. CASE c.by = w /\ SameAttempt(c, worker[w])
    BY <1>3, <2>2 DEF OnNode, Current, SameAttempt
  <2>3. QED
    BY <1>4, <2>1, <2>2
<1>6. ASSUME NEW c \in box', Runs(c)
      PROVE  OnNode(c, c.by)' /\ (HasNode(c.by)' => Current(c, c.by)')
  BY <1>1, <1>5, <1>6 DEF OnNode, HasNode, Current, HostOf
<1>7. ASSUME NEW v \in Workers, worker'[v].at = "launch", HasNode(v)'
      PROVE  OnNode(worker[v], v)' /\ Current(worker[v], v)'
  <2>1. worker'[v] = worker[v] /\ HasNode(v)
    BY <1>1, <1>7 DEF Others, HasNode, HostOf
  <2>2. OnNode(worker[v], v) /\ Current(worker[v], v)
    BY <1>7, <2>1 DEF HostsInv
  <2>3. QED
    BY <1>1, <2>1, <2>2 DEF OnNode, Current, HostOf
<1>8. ASSUME NEW s \in Sessions, NEW c \in box',
             agent[s].phase \in {"cleaned", "ready"},
             node[Home[s]].session = s, Runs(c), HostOf(c.by) = Home[s]
      PROVE  SessionOf[c.by] = s
  BY <1>2, <1>4, <1>8 DEF HostsInv, HasNode
<1>9. QED
  BY <1>1, <1>6, <1>7, <1>8 DEF HostsInv, HostOf, Runs

(* A registration is that of a process that has nothing yet: the node is   *)
(* from now on no other process's.                                         *)
LEMMA RegisterHosts ==
  ASSUME TypeOK, AgentTypes, Watched, HostsInv, NEW s \in Sessions,
         NEW healthy \in BOOLEAN, NEW g \in Inventories, Register(s, healthy, g)
  PROVE  HostsInv'
<1>0. /\ agent[s].phase = "new" /\ agent'[s].phase \in {"registered", "stopped"}
      /\ \A z \in Sessions \ {s} : agent'[z] = agent[z]
      /\ node'[Home[s]].session = s
      /\ \A n \in Nodes \ {Home[s]} : node'[n].session = node[n].session
      /\ UNCHANGED <<worker, box, holder>>
      /\ Home[s] \in Nodes /\ s # NoSession
  BY RegisterFacts, AgentAssumption, PolicyAssumption DEF SameNode
<1>1. ASSUME NEW j \in Jobs
      PROVE  \/ job'[j] = job[j]
             \/ job[j].node = Home[s] /\ job'[j] = Recovered(j, s)
  BY RegisterFacts DEF Untouched
<1>2. ASSUME NEW j \in Jobs, job[j].status \in {"running", "canceling"}
      PROVE  /\ job'[j].status \in {"running", "canceling"}
             /\ job'[j].attempts = job[j].attempts
             /\ job'[j].node = job[j].node
             /\ job[j].node # Home[s] => job'[j] = job[j]
  <2>1. job[j] \in JobRecord
    BY DEF TypeOK
  <2>2. CASE job'[j] = Recovered(j, s) /\ job[j].node = Home[s]
    BY <1>2, <2>1, <2>2 DEF Recovered, Interrupted, JobRecord
  <2>3. QED
    BY <1>1, <1>2, <2>2
(* No worker of the new session is at work, and it launched nothing.       *)
<1>3. \A w \in Workers : worker[w].at # "idle" => SessionOf[w] # s
  BY <1>0 DEF Watched, WorkerInv
<1>4. \A b \in box : b.by \in Workers /\ b.job \in Jobs /\ SessionOf[b.by] # s
  BY <1>0, BoxKeeper DEF Watched, BoxInv
<1>5. ASSUME NEW w \in Workers, SessionOf[w] # s, HasNode(w)'
      PROVE  HasNode(w) /\ HostOf(w) # Home[s]
  BY <1>0, <1>5, HostType DEF HasNode, HostOf
<1>6. ASSUME NEW r, NEW w \in Workers, r.job \in Jobs, SessionOf[w] # s,
             OnNode(r, w), HasNode(w) => Current(r, w)
      PROVE  /\ job'[r.job].status \in {"running", "canceling"}
             /\ job'[r.job].attempts = r.attempt
             /\ job'[r.job].node = HostOf(w)
             /\ HasNode(w)' => /\ job'[r.job].claim = "held"
                               /\ holder'[r.job] = w
                               /\ job'[r.job].session = SessionOf[w]
  <2>1. /\ job'[r.job].status \in {"running", "canceling"}
        /\ job'[r.job].attempts = r.attempt
        /\ job'[r.job].node = HostOf(w)
    BY <1>2, <1>6 DEF OnNode
  <2>2. ASSUME HasNode(w)'
        PROVE  /\ job'[r.job].claim = "held"
               /\ holder'[r.job] = w
               /\ job'[r.job].session = SessionOf[w]
    <3>1. HasNode(w) /\ job[r.job].node # Home[s]
      BY <1>5, <1>6, <2>2 DEF OnNode
    <3>2. job'[r.job] = job[r.job]
      BY <1>2, <1>6, <3>1 DEF OnNode
    <3>3. QED
      BY <1>0, <1>6, <3>1, <3>2 DEF Current
  <2>3. QED
    BY <2>1, <2>2
<1>7. ASSUME NEW b \in box, Runs(b)
      PROVE  OnNode(b, b.by)' /\ (HasNode(b.by)' => Current(b, b.by)')
  <2>1. OnNode(b, b.by) /\ (HasNode(b.by) => Current(b, b.by))
    BY <1>7 DEF HostsInv
  <2>2. /\ job'[b.job].status \in {"running", "canceling"}
        /\ job'[b.job].attempts = b.attempt
        /\ job'[b.job].node = HostOf(b.by)
        /\ HasNode(b.by)' => /\ job'[b.job].claim = "held"
                             /\ holder'[b.job] = b.by
                             /\ job'[b.job].session = SessionOf[b.by]
    BY <1>4, <1>6, <2>1
  <2>3. QED
    BY <2>2 DEF OnNode, Current, HostOf
<1>8. ASSUME NEW w \in Workers, worker[w].at = "launch", HasNode(w)'
      PROVE  OnNode(worker[w], w)' /\ Current(worker[w], w)'
  <2>1. worker[w].job \in Jobs /\ SessionOf[w] # s
    BY <1>3, <1>8 DEF AgentTypes, WorkerJob, Resting
  <2>2. OnNode(worker[w], w) /\ Current(worker[w], w)
    BY <1>5, <1>8, <2>1 DEF HostsInv
  <2>3. /\ job'[worker[w].job].status \in {"running", "canceling"}
        /\ job'[worker[w].job].attempts = worker[w].attempt
        /\ job'[worker[w].job].node = HostOf(w)
        /\ job'[worker[w].job].claim = "held"
        /\ holder'[worker[w].job] = w
        /\ job'[worker[w].job].session = SessionOf[w]
    BY <1>6, <1>8, <2>1, <2>2
  <2>4. QED
    BY <1>0, <2>3 DEF OnNode, Current, HostOf
<1>9. ASSUME NEW z \in Sessions, NEW b \in box,
             agent'[z].phase \in {"cleaned", "ready"},
             node'[Home[z]].session = z, Runs(b), HostOf(b.by) = Home[z]
      PROVE  SessionOf[b.by] = z
  <2>1. z # s /\ agent[z].phase \in {"cleaned", "ready"}
    BY <1>0, <1>9
  <2>2. Home[z] \in Nodes /\ Home[z] # Home[s]
    BY <1>0, <1>9, <2>1, AgentAssumption
  <2>3. node[Home[z]].session = z
    BY <1>0, <1>9, <2>2
  <2>4. QED
    BY <1>9, <2>1, <2>3 DEF HostsInv
<1>10. QED
  BY <1>0, <1>7, <1>8, <1>9 DEF HostsInv, HostOf, Runs

(* A final report finds nothing of the attempt running: the reporter's own *)
(* container is gone, and there is no other.                               *)
LEMMA ReportedAlone ==
  ASSUME LifeInv, AgentTypes, Watched, SessionsInv, TokensInv, HostsInv,
         NEW w \in Workers, Reports(w)
  PROVE  /\ \A b \in box : Runs(b) => b.job # worker[w].job
         /\ \A v \in Workers : worker[v].at = "launch" /\ HasNode(v) =>
              worker[v].job # worker[w].job
<1> DEFINE j == worker[w].job
<1>1. /\ worker[w].at = "report" /\ agent[SessionOf[w]].phase = "ready"
      /\ HoldsToken(w) /\ j \in Jobs
  BY ReportsSteps DEF LifeInv, Reports, Turns, Renewed
<1>2. /\ holder[j] = w /\ job[j].session = SessionOf[w]
      /\ job[j].node # NoNode /\ job[j].claim # "none"
      /\ node[job[j].node].session = SessionOf[w]
  BY <1>1 DEF HoldsToken, HoldsAttempt
<1>3. job[j].node \in Nodes /\ job[j].node = HostOf(w)
  <2>1. job[j].node \in Nodes
    BY <1>1, <1>2 DEF LifeInv, TypeOK, JobRecord
  <2>2. QED
    BY <1>2, <2>1, HostType DEF SessionsInv, HostOf
<1>4. ASSUME NEW b \in box, Runs(b), b.job = j PROVE FALSE
  <2>1. /\ OnNode(b, b.by) /\ (HasNode(b.by) => Current(b, b.by))
        /\ b.by \in Workers
    BY <1>4, BoxKeeper DEF HostsInv
  <2>2. HostOf(b.by) = HostOf(w)
    BY <1>3, <1>4, <2>1 DEF OnNode
  <2>3. SessionOf[b.by] = SessionOf[w]
    BY <1>1, <1>2, <1>3, <1>4, <2>2, HostType DEF HostsInv, HostOf
  <2>4. HasNode(b.by)
    BY <1>2, <1>3, <2>2, <2>3 DEF HasNode
  <2>5. b.by = w
    BY <1>2, <1>4, <2>1, <2>4 DEF Current
  <2>6. worker[w].at \in {"monitor", "cleanup"}
    BY <1>1, <1>4, <2>5, RunsOwn
  <2>7. QED
    BY <1>1, <2>6
<1>5. ASSUME NEW v \in Workers, worker[v].at = "launch", HasNode(v),
             worker[v].job = j
      PROVE  FALSE
  <2>1. Current(worker[v], v)
    BY <1>5 DEF HostsInv
  <2>2. v = w
    BY <1>2, <1>5, <2>1 DEF Current
  <2>3. QED
    BY <1>1, <1>5, <2>2
<1>6. QED
  BY <1>4, <1>5

LEMMA ReportsHosts ==
  ASSUME LifeInv, AgentTypes, Watched, SessionsInv, TokensInv, HostsInv,
         NEW w \in Workers, Reports(w)
  PROVE  HostsInv'
<1>0. TypeOK
  BY DEF LifeInv
<1>1. /\ UNCHANGED <<box, holder, agent>> /\ Others(w)
      /\ worker'[w].at # "launch" /\ worker[w].at = "report"
  BY IdleFacts DEF Reports, Turns, Renewed
<1>2. \A j \in Jobs \ {worker[w].job} : job'[j] = job[j]
  BY <1>0, ReportsSteps DEF Untouched
<1>3. NodesGoOn
  BY <1>0, MoveStore DEF MoveKind
<1>4. ASSUME NEW b \in box, Runs(b)
      PROVE  OnNode(b, b.by)' /\ (HasNode(b.by)' => Current(b, b.by)')
  <2>1. job'[b.job] = job[b.job] /\ b.by \in Workers
    BY <1>2, <1>4, ReportedAlone, BoxKeeper
  <2>2. OnNode(b, b.by) /\ (HasNode(b.by) => Current(b, b.by))
    BY <1>4 DEF HostsInv
  <2>3. OnNode(b, b.by)'
    BY <2>1, <2>2 DEF OnNode, HostOf
  <2>4. HasNode(b.by)' => Current(b, b.by)'
    BY <1>1, <1>3, <2>1, <2>2, NodeLost DEF Current
  <2>5. QED
    BY <2>3, <2>4
<1>5. ASSUME NEW v \in Workers, worker'[v].at = "launch", HasNode(v)'
      PROVE  OnNode(worker[v], v)' /\ Current(worker[v], v)'
  <2>1. worker'[v] = worker[v] /\ HasNode(v)
    BY <1>1, <1>3, <1>5, NodeLost DEF Others
  <2>2. worker[v].job \in Jobs /\ worker[v].job # worker[w].job
    BY <1>5, <2>1, ReportedAlone DEF AgentTypes, WorkerJob, Resting
  <2>3. OnNode(worker[v], v) /\ Current(worker[v], v)
    BY <1>5, <2>1 DEF HostsInv
  <2>4. job'[worker[v].job] = job[worker[v].job]
    BY <1>2, <2>2
  <2>5. QED
    BY <1>1, <2>1, <2>3, <2>4 DEF OnNode, Current, HostOf
<1>6. ASSUME NEW s \in Sessions, NEW b \in box,
             agent[s].phase \in {"cleaned", "ready"},
             node'[Home[s]].session = s, Runs(b), HostOf(b.by) = Home[s]
      PROVE  SessionOf[b.by] = s
  <2>1. node[Home[s]].session = s
    BY <1>3, <1>6, AgentAssumption, PolicyAssumption DEF NodesGoOn
  <2>2. QED
    BY <1>6, <2>1 DEF HostsInv
<1>7. QED
  BY <1>1, <1>4, <1>5, <1>6 DEF HostsInv, HostOf, Runs

LEMMA HostsCalm ==
  ASSUME TypeOK, AgentTypes, HostsInv, StoreCalm, UNCHANGED holder,
         \A c \in box' : Runs(c) => Remains(c), NoNewLaunch, CleanedOnly
  PROVE  HostsInv'
<1>1. \A j \in Jobs : Steady(j)
  BY CalmSteady DEF StoreCalm
<1>2. NodesGoOn
  BY DEF StoreCalm
<1>3. QED
  BY <1>1, <1>2, HostsGoOn

LEMMA OthersLaunch ==
  ASSUME NEW w \in Workers, Others(w), worker'[w].at # "launch"
  PROVE  NoNewLaunch
BY DEF Others, NoNewLaunch, SameAttempt

LEMMA PollHosts ==
  ASSUME TypeOK, AgentTypes, HostsInv, NEW w \in Workers, Polled(w)
  PROVE  HostsInv'
<1>1. \A j \in Jobs : Steady(j)
  <2>1. ASSUME NEW j \in Jobs PROVE Steady(j)
    <3>1. CASE (Untouched(j) \/ SentBack(j)) /\ holder'[j] = holder[j]
      BY <3>1, CalmSteady DEF CalmStep
    <3>2. CASE Claimed(j)
      BY <3>2, ClaimedSteady
    <3>3. QED
      BY <3>1, <3>2 DEF Polled
  <2>2. QED
    BY <2>1
<1>2. NodesGoOn
  BY MoveStore DEF MoveKind
<1>3. UNCHANGED <<agent, box>> /\ Others(w) /\ worker'[w].at # "launch"
  BY IdleFacts DEF Polled, Renewed
<1>4. NoNewLaunch /\ CleanedOnly
  BY <1>3, OthersLaunch DEF CleanedOnly
<1>5. \A c \in box' : Runs(c) => Remains(c)
  BY <1>3, BoxKeeper
<1>6. QED
  BY <1>1, <1>2, <1>4, <1>5, HostsGoOn

LEMMA MoveHosts ==
  ASSUME LifeInv, AgentTypes, Watched, SessionsInv, TokensInv, HostsInv,
         NEW w \in Workers, MoveKind(w)
  PROVE  HostsInv'
<1>0. TypeOK
  BY DEF LifeInv
<1>1. CASE LocalMove(w) \/ Validated(w) \/ Requested(w)
  <2>1. /\ UNCHANGED <<vars, agent, holder>> /\ Others(w)
        /\ worker'[w].at # "launch"
    BY <1>1, IdleFacts DEF LocalMove, Progress, Validated, Requested, Turns
  <2>2. \A c \in box' : Runs(c) => c \in box
    BY <1>1 DEF LocalMove, Validated, Requested, NewBox, Runs
  <2>3. NoNewLaunch /\ CleanedOnly
    BY <2>1, OthersLaunch DEF CleanedOnly
  <2>4. \A c \in box' : Runs(c) => Remains(c)
    BY <2>2, BoxKeeper
  <2>5. QED
    BY <1>0, <2>1, <2>3, <2>4, UnchangedCalm, HostsCalm
<1>2. CASE Confirmed(w)
  BY <1>2, ConfirmedHosts
<1>3. CASE Launched(w)
  BY <1>0, <1>3, LaunchedHosts
<1>4. CASE Started(w)
  <2>1. PICK to \in {"prepare", "reread"} : Turns(w, "start", to)
    BY <1>4 DEF Started
  <2>2. worker[w].job \in Jobs
    BY <2>1 DEF Turns, AgentTypes, WorkerJob, Resting
  <2>3. UNCHANGED <<box, holder>> /\ StoreCalm
    BY <1>0, <1>4, <2>2, JobOperationsGoOn DEF Started
  <2>4. UNCHANGED agent /\ Others(w) /\ worker'[w].at # "launch"
    BY <2>1 DEF Turns
  <2>5. NoNewLaunch /\ CleanedOnly
    BY <2>4, OthersLaunch DEF CleanedOnly
  <2>6. \A c \in box' : Runs(c) => Remains(c)
    BY <2>3, BoxKeeper
  <2>7. QED
    BY <1>0, <2>3, <2>5, <2>6, HostsCalm
<1>5. CASE Reports(w)
  BY <1>5, ReportsHosts
<1>6. CASE Polled(w)
  BY <1>0, <1>6, PollHosts
<1>7. QED
  BY <1>1, <1>2, <1>3, <1>4, <1>5, <1>6 DEF MoveKind

(* A process that stops launches nothing, and the others are as before.    *)
LEMMA StopLaunches ==
  ASSUME AgentTypes, NEW s \in Sessions, FailStop(s)
  PROVE  NoNewLaunch /\ CleanedOnly
<1>1. /\ agent'[s].phase = "stopped"
      /\ \A z \in Sessions \ {s} : agent'[z] = agent[z]
      /\ \A w \in Workers : worker'[w] = worker[w] \/ worker'[w] = Gone
  BY FailStopFacts DEF AgentTypes
<1>2. NoNewLaunch
  BY <1>1, IdleFacts DEF NoNewLaunch, SameAttempt
<1>3. CleanedOnly
  BY <1>1 DEF CleanedOnly
<1>4. QED
  BY <1>2, <1>3

LEMMA ProcessHosts ==
  ASSUME TypeOK, AgentTypes, Watched, HostsInv, NEW s \in Sessions, Process(s)
  PROVE  HostsInv'
<1>0. agent \in [Sessions -> AgentRecord]
  BY DEF AgentTypes
<1>1. CASE \E healthy \in BOOLEAN, g \in Inventories : Register(s, healthy, g)
  BY <1>1, RegisterHosts
<1>2. ASSUME StoreCalm PROVE HostsInv'
  <2>1. CASE FailStop(s) /\ UNCHANGED <<box, holder>>
    <3>1. \A c \in box' : Runs(c) => Remains(c)
      BY <2>1, BoxKeeper
    <3>2. QED
      BY <1>2, <2>1, <3>1, StopLaunches, HostsCalm
  <2>2. CASE CleanManaged(s)
    <3>1. /\ UNCHANGED <<worker, holder>>
          /\ box' = {b \in box : OnHost(b, Home[s]) => ~Exists(b)}
          /\ \A z \in Sessions \ {s} : agent'[z] = agent[z]
      BY <1>0, <2>2 DEF CleanManaged
    <3>2. \A c \in box' : Runs(c) => HostOf(c.by) # Home[s]
      BY <3>1 DEF OnHost, Exists, Runs
    <3>3. NoNewLaunch
      BY <3>1 DEF NoNewLaunch, SameAttempt
    <3>4. CleanedOnly
      BY <3>1, <3>2 DEF CleanedOnly
    <3>5. \A c \in box' : Runs(c) => Remains(c)
      BY <3>1, BoxKeeper
    <3>6. QED
      BY <1>2, <3>1, <3>3, <3>4, <3>5, HostsCalm
  <2>3. CASE \/ \E healthy \in BOOLEAN, g \in Inventories,
                   hostChanged \in BOOLEAN :
                   ReportHealth(s, healthy, g, hostChanged)
             \/ (Confirm(s) /\ ~FailStop(s)) \/ LeaseRunsOut(s)
             \/ Quiesce(s) \/ AcknowledgeQuiesce(s) \/ Resume(s)
    <3>1. /\ UNCHANGED <<worker, box, holder>>
          /\ \A z \in Sessions \ {s} : agent'[z] = agent[z]
          /\ agent'[s].phase \in {"cleaned", "ready"} =>
               agent[s].phase \in {"cleaned", "ready"}
      BY <1>0, <2>3 DEF ReportHealth, Confirm, LeaseRunsOut, Quiesce,
                        AcknowledgeQuiesce, Resume, AgentRecord
    <3>2. NoNewLaunch
      BY <3>1 DEF NoNewLaunch, SameAttempt
    <3>3. CleanedOnly
      BY <3>1 DEF CleanedOnly
    <3>4. \A c \in box' : Runs(c) => Remains(c)
      BY <3>1, BoxKeeper
    <3>5. QED
      BY <1>2, <3>1, <3>2, <3>3, <3>4, HostsCalm
  <2>4. CASE \E healthy \in BOOLEAN, g \in Inventories : Register(s, healthy, g)
    BY <1>1, <2>4
  <2>5. QED
    BY <2>1, <2>2, <2>3, <2>4
       DEF Process, ProcessStep, StopExpired, Crash, SessionRefused, Confirm,
           RegisteredHealth, ReportedHealth
<1>3. QED
  BY <1>1, <1>2, ProcessCalm

LEMMA AgentsKeepHosts ==
  ASSUME BaseInv, LifeInv, SessionsInv, TokensInv, HostsInv,
         [NextWithAgents]_allVars
  PROVE  HostsInv'
<1>0. TypeOK /\ AgentTypes /\ Watched
  BY TypedSplit DEF BaseInv
<1>1. ASSUME NEW s \in Sessions, Process(s) PROVE HostsInv'
  BY <1>0, <1>1, ProcessHosts
<1>2. ASSUME NEW w \in Workers, WorkerStep(w) PROVE HostsInv'
  <2>1. MoveKind(w) \/ Stops(SessionOf[w]) \/ Withdraw(w)
    BY <1>0, <1>2, WorkerKinds DEF Watched
  <2>2. CASE Stops(SessionOf[w])
    <3>1. FailStop(SessionOf[w]) /\ UNCHANGED <<vars, box, holder>>
      BY <2>2 DEF Stops
    <3>2. NoNewLaunch /\ CleanedOnly
      BY <1>0, <3>1, HostType, StopLaunches
    <3>3. \A c \in box' : Runs(c) => Remains(c)
      BY <1>0, <3>1, BoxKeeper
    <3>4. QED
      BY <1>0, <3>1, <3>2, <3>3, UnchangedCalm, HostsCalm
  <2>3. CASE Withdraw(w)
    <3>1. /\ Others(w) /\ worker'[w] = Gone
          /\ box' \subseteq box /\ UNCHANGED <<vars, agent, holder>>
      BY <1>0, <2>3, WithdrawFacts
    <3>2. NoNewLaunch /\ CleanedOnly
      BY <3>1, IdleFacts, OthersLaunch DEF CleanedOnly
    <3>3. \A c \in box' : Runs(c) => Remains(c)
      BY <1>0, <3>1, BoxKeeper
    <3>4. QED
      BY <1>0, <3>1, <3>2, <3>3, UnchangedCalm, HostsCalm
  <2>4. QED
    BY <1>0, <2>1, <2>2, <2>3, MoveHosts
<1>3. ASSUME NEW b \in box, Daemon(b) PROVE HostsInv'
  <2>1. UNCHANGED <<vars, agent, worker, holder>>
    BY <1>3 DEF Daemon
  <2>2. NoNewLaunch /\ CleanedOnly
    BY <2>1 DEF NoNewLaunch, CleanedOnly, SameAttempt
  <2>3. \A c \in box' : Runs(c) => Remains(c)
    BY <1>0, <1>3, DaemonRemains
  <2>4. QED
    BY <1>0, <2>1, <2>2, <2>3, UnchangedCalm, HostsCalm
<1>4. CASE Surroundings \/ UNCHANGED allVars
  <2>1. UNCHANGED <<agent, worker, box, holder>>
    BY <1>4 DEF Surroundings, allVars, agentVars
  <2>2. NoNewLaunch /\ CleanedOnly
    BY <2>1 DEF NoNewLaunch, CleanedOnly, SameAttempt
  <2>3. \A c \in box' : Runs(c) => Remains(c)
    BY <1>0, <2>1, BoxKeeper
  <2>4. StoreCalm
    BY <1>0, <1>4, SurroundingsCalm, UnchangedCalm DEF allVars
  <2>5. QED
    BY <1>0, <2>1, <2>2, <2>3, <2>4, HostsCalm
<1>5. QED
  BY <1>1, <1>2, <1>3, <1>4 DEF NextWithAgents

----------------------------------------------------------------------------
(* The chain as a whole.                                                   *)

AgentInv == BaseInv /\ LifeInv /\ SessionsInv /\ TokensInv /\ HostsInv

LEMMA InitAgentInv == InitAgents => AgentInv
<1> SUFFICES ASSUME InitAgents PROVE AgentInv
  OBVIOUS
<1>1. /\ Init /\ box = {} /\ \A w \in Workers : worker[w].at = "idle"
      /\ \A s \in Sessions : agent[s].phase = "new" /\ ~agent[s].lease
  BY IdleFacts DEF InitAgents
<1>2. LifeInv
  BY <1>1, InitType, InitLife DEF LifeInv
<1>3. SessionsInv
  BY <1>1 DEF Init, UnknownNode, SessionsInv
<1>4. TokensInv
  BY <1>1 DEF Init, AbsentJob, TokensInv, ClaimInv, TokenInv, NamesInv, Early,
              Executing
<1>5. HostsInv
  BY <1>1 DEF HostsInv
<1>6. QED
  BY <1>2, <1>3, <1>4, <1>5, InitBase DEF AgentInv

LEMMA AgentInvariant == AgentSpec => []AgentInv
<1>1. InitAgents => AgentInv
  BY InitAgentInv
<1>2. AgentInv /\ [NextWithAgents]_allVars => AgentInv'
  <2> SUFFICES ASSUME AgentInv, [NextWithAgents]_allVars
               PROVE  AgentInv'
    OBVIOUS
  <2>1. BaseInv /\ LifeInv /\ SessionsInv /\ TokensInv /\ HostsInv
    BY DEF AgentInv
  <2>2. LifeInv'
    BY <2>1, StoreStep, NextLife DEF BaseInv
  <2>3. BaseInv' /\ SessionsInv' /\ TokensInv' /\ HostsInv'
    BY <2>1, NextBase, AgentsKeepSessions, AgentsKeepTokens, AgentsKeepHosts
  <2>4. QED
    BY <2>2, <2>3 DEF AgentInv
<1>3. QED
  BY <1>1, <1>2, PTL DEF AgentSpec

(* An attempt number that a requeue refunds is given out again (store.go), *)
(* and the container's name is made of it (agent.go, jobContainerName):    *)
(* still no container is asked for under a name that another one has.      *)
THEOREM NamesFreeHolds == AgentSpec => []NamesFree
<1>1. AgentInv => NamesFree
  BY DEF AgentInv, TokensInv, NamesInv, NamesFree, NameTaken, Exists, SameAttempt
<1>2. QED
  BY <1>1, AgentInvariant, PTL

(* What computes on a host is the current attempt of a job that the store  *)
(* shows on that node, and nothing computes a job twice: the checks before *)
(* the launch, the removal of containers and the fences of store.go add up *)
(* over lost requests and answers, failures, crashes and takeovers.        *)
THEOREM ContainersAccountedHolds == AgentSpec => []ContainersAccounted
<1>1. AgentInv => ContainersAccounted
  <2> SUFFICES ASSUME AgentInv, NEW b \in box, b.st = "computing"
               PROVE  /\ OnNode(b, b.by)
                      /\ \A c \in box \ {b} : c.st = "computing" => c.job # b.job
    BY DEF ContainersAccounted, OnNode
  <2>1. \A c \in box : c.st = "computing" => OnNode(c, c.by)
    BY DEF AgentInv, HostsInv, Runs
  <2>2. ASSUME NEW c \in box, c.st = "computing", c.job = b.job
        PROVE  c = b
    <3>1. SameAttempt(b, c)
      BY <2>1, <2>2 DEF OnNode, SameAttempt
    <3>2. QED
      BY <3>1 DEF AgentInv, TokensInv, NamesInv
  <2>3. QED
    BY <2>1, <2>2
<1>2. QED
  BY <1>1, AgentInvariant, PTL
=============================================================================
