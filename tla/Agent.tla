-------------------------------- MODULE Agent --------------------------------
(***************************************************************************)
(* The agents (internal/agent/agent.go) at work on the store of JobStore:  *)
(* agent processes, one for each session, with their workers, the          *)
(* containers on their hosts and the local handoff control.  Everything an *)
(* agent asks of the store happens here through a step of the agent; a     *)
(* request may be lost before the store sees it, and its answer may be     *)
(* lost afterwards.  Users, the scheduling pass and the passing of time    *)
(* are JobStore's.                                                         *)
(*                                                                         *)
(* That the server finds a session stale only after the agent's own lease  *)
(* has run out is SessionLease's theorem; HeartbeatMissed relies on it.    *)
(***************************************************************************)
EXTENDS JobStore

CONSTANTS
  Workers,    (* the workers of all agent processes                        *)
  NoWorker,
  SessionOf,  (* the process, named by its session, a worker belongs to    *)
  Home,       (* the node, that is the container host, of each session     *)
  Replaced,   (* bound: the sessions whose local control is used           *)
  MaxProcesses, (* bound: the processes that ever start, of Sessions       *)
  MaxFaults   (* bound: lost requests and answers, failures and degraded   *)
              (* health                                                    *)

ASSUME AgentAssumption ==
  /\ SessionOf \in [Workers -> Sessions]
  /\ Home \in [Sessions -> Nodes]
  /\ NoWorker \notin Workers
  /\ Replaced \subseteq Sessions
  /\ MaxProcesses \in Nat
  /\ MaxFaults \in Nat

VARIABLES
  agent,      (* the agent processes                                       *)
  worker,     (* where each worker is, and with which attempt              *)
  box,        (* the containers, those the daemon was asked for included   *)
  holder,     (* history: the worker that was sent the current token       *)
  faults      (* how many faults occurred                                  *)

agentVars == <<agent, worker, box, holder, faults>>
allVars   == <<vars, agentVars>>

NoJob == 0

(* Ready for workers once registered and cleaned; stopped by any failure.  *)
Phase == {"new", "registered", "cleaned", "ready", "stopped"}

(* Whether workers may take work, may not, or were reported to hold none.  *)
Handoff == {"open", "draining", "quiesced"}

AgentRecord == [phase : Phase, lease : BOOLEAN, handoff : Handoff]

(* The points of tick, updateJobStatusUntilAccepted and execute at which   *)
(* another actor can come between.                                         *)
At == {"idle", "poll", "start", "reread", "disowned", "prepare", "validate",
       "create", "creating", "confirm", "launch", "monitor", "cleanup",
       "report", "recheck", "gone"}

Outcome == {"none", "succeeded", "failed", "canceled"}

WorkerRecord == [at : At, job : Jobs \cup {NoJob}, attempt : Nat,
                 outcome : Outcome]

Box == [job : Jobs, attempt : Nat, by : Workers,
        st : {"requested", "created", "starting", "computing"}]

Idle == [at |-> "idle", job |-> NoJob, attempt |-> 0, outcome |-> "none"]

HostOf(w) == Home[SessionOf[w]]

Ready(s) == agent[s].phase = "ready"

Own(w) == {b \in box : /\ b.by = w
                       /\ b.job = worker[w].job
                       /\ b.attempt = worker[w].attempt}

Exists(b) == b.st # "requested"

OnHost(b, n) == HostOf(b.by) = n

(* The request carries the token of the current attempt.                   *)
HoldsToken(w) == holder[worker[w].job] = w /\ HoldsAttempt(worker[w].job)
                   /\ job[worker[w].job].session = SessionOf[w]

SessionAccepted(s) == SessionValid(Home[s]) /\ node[Home[s]].session = s

Fault == faults < MaxFaults /\ faults' = faults + 1

NoFault == UNCHANGED faults

Goto(w, at) == worker' = [worker EXCEPT ![w].at = at]

Conclude(w, at, outcome) ==
  worker' = [worker EXCEPT ![w].at = at, ![w].outcome = outcome]

Rest(w) == worker' = [worker EXCEPT ![w] = Idle]

Gone == [Idle EXCEPT !.at = "gone"]

HasContainerID(w) == worker[w].at \in {"confirm", "launch", "monitor", "cleanup"}

(* The context is canceled: no request is sent any more, and only a worker *)
(* that holds a container's ID has something left to do.                   *)
FailStop(s) ==
  /\ agent' = [agent EXCEPT ![s].phase = "stopped",
                            ![s].handoff = IF @ = "quiesced" THEN @ ELSE "open"]
  /\ worker' = [w \in Workers |-> IF SessionOf[w] = s /\ ~HasContainerID(w)
                                    THEN Gone ELSE worker[w]]

At_(w, at) == Ready(SessionOf[w]) /\ worker[w].at = at

----------------------------------------------------------------------------
(* The process.                                                            *)

(* The lease starts before the request is sent; a lost answer, or a store  *)
(* that refuses, ends the process.                                         *)
Register(s, healthy, g) ==
  /\ agent[s].phase = "new"
  /\ Cardinality({r \in Sessions : agent[r].phase # "new"}) < MaxProcesses
  /\ RegisterNode(Home[s], s, healthy, g)
  /\ \E phase \in {"registered", "stopped"} :
       /\ agent' = [agent EXCEPT ![s].phase = phase, ![s].lease = TRUE]
       /\ IF healthy /\ phase = "registered" THEN NoFault ELSE Fault
  /\ UNCHANGED <<worker, box, holder>>

(* Mistake: a container that computes is left to finish.                   *)
FaultyCleanManaged(s) ==
  /\ agent[s].phase = "registered"
  /\ agent[s].lease
  /\ box' = {b \in box : OnHost(b, Home[s]) => b.st \in {"requested", "computing"}}
  /\ agent' = [agent EXCEPT ![s].phase = "cleaned"]
  /\ UNCHANGED <<vars, worker, holder, faults>>

(* cleanupManagedContainers: all that exist when the second listing finds  *)
(* none; a container the daemon creates later is not among them.           *)
CleanManaged(s) ==
  /\ agent[s].phase = "registered"
  /\ agent[s].lease
  /\ box' = {b \in box : OnHost(b, Home[s]) => ~Exists(b)}
  /\ agent' = [agent EXCEPT ![s].phase = "cleaned"]
  /\ UNCHANGED <<vars, worker, holder, faults>>

Confirm(s) ==
  /\ agent[s].phase = "cleaned"
  /\ SessionAccepted(s)
  /\ ConfirmCleanup(Home[s])
  /\ \/ /\ NoFault
        /\ agent' = [agent EXCEPT ![s].phase = "ready"]
        /\ UNCHANGED worker
     \/ Fault /\ FailStop(s)
  /\ UNCHANGED <<box, holder>>

ReportHealth(s, healthy, g, hostChanged) ==
  /\ Ready(s)
  /\ SessionAccepted(s)
  /\ UpdateNodeHealth(Home[s], healthy, g, hostChanged)
  /\ IF healthy /\ ~hostChanged THEN NoFault ELSE Fault
  /\ UNCHANGED <<agent, worker, box, holder>>

LeaseRunsOut(s) ==
  /\ agent[s].phase # "new"
  /\ agent[s].lease
  /\ agent' = [agent EXCEPT ![s].lease = FALSE]
  /\ UNCHANGED <<vars, worker, box, holder, faults>>

(* The heartbeat loop, or requireLiveSession, notices.                     *)
StopExpired(s) ==
  /\ agent[s].phase \in {"registered", "cleaned", "ready"}
  /\ ~agent[s].lease
  /\ FailStop(s)
  /\ UNCHANGED <<vars, box, holder, faults>>

(* A process that dies looks like one that stops and whose workers cannot  *)
(* remove their containers; requests to the daemon survive it.             *)
Crash(s) ==
  /\ agent[s].phase \in {"registered", "cleaned", "ready"}
  /\ FailStop(s)
  /\ UNCHANGED <<vars, box, holder, faults>>

(* A worker of a stopped process reports nothing more, but removes the     *)
(* container whose ID it holds, if the daemon lets it.                     *)
Withdraw(w) ==
  /\ agent[SessionOf[w]].phase = "stopped"
  /\ HasContainerID(w)
  /\ worker' = [worker EXCEPT ![w] = Gone]
  /\ box' \in {box, box \ Own(w)}
  /\ UNCHANGED <<vars, agent, holder, faults>>

(* A request whose session is not, or no longer, the node's is refused; a  *)
(* session that missed its deadline is fenced in passing.                  *)
SessionRefused(s) ==
  LET n == Home[s]
  IN  /\ agent[s].phase \in {"cleaned", "ready"}
      /\ MutexFree
      /\ node[n].known
      /\ ~SessionAccepted(s)
      /\ IF node[n].stale /\ node[n].session # NoSession
           THEN FenceExpiredSession(n)
           ELSE UNCHANGED vars
      /\ FailStop(s)
      /\ UNCHANGED <<box, holder, faults>>

----------------------------------------------------------------------------
(* A worker claims work.                                                   *)

Active(w) == worker[w].at \notin {"idle", "gone"}

Tick(w) ==
  /\ At_(w, "idle")
  /\ agent[SessionOf[w]].handoff = "open"
  /\ Goto(w, "poll")
  /\ UNCHANGED <<vars, agent, box, holder, faults>>

Dispatched == {j \in Jobs : job[j].claim # "live" /\ job'[j].claim = "live"}

(* A dispatched job is claimed although the answer may not arrive.         *)
Poll(w) ==
  /\ At_(w, "poll")
  /\ SessionAccepted(SessionOf[w])
  /\ NextJob(HostOf(w))
  /\ \/ /\ NoFault
        /\ worker' = [worker EXCEPT ![w] =
             IF Dispatched = {} THEN Idle
             ELSE LET j == CHOOSE i \in Dispatched : TRUE
                  IN  IF job[j].status = "canceling"
                        THEN [at |-> "report", job |-> j,
                              attempt |-> job[j].attempts,
                              outcome |-> "canceled"]
                        ELSE [at |-> "start", job |-> j,
                              attempt |-> job[j].attempts,
                              outcome |-> "none"]]
        /\ holder' = [j \in Jobs |-> IF j \in Dispatched THEN w ELSE holder[j]]
     \/ /\ Fault
        /\ Rest(w)
        /\ holder' = [j \in Jobs |->
                        IF j \in Dispatched THEN NoWorker ELSE holder[j]]
  /\ UNCHANGED <<agent, box>>

PollInVain(w) ==
  /\ At_(w, "poll")
  /\ MutexFree
  /\ \/ Fault
     \/ /\ NoFault
        /\ SessionAccepted(SessionOf[w])
        /\ Startable(HostOf(w))
        /\ Dispatchable(HostOf(w), "canceling") = {}
        /\ Dispatchable(HostOf(w), "assigned") = {}
  /\ Rest(w)
  /\ UNCHANGED <<vars, agent, box, holder>>

----------------------------------------------------------------------------
(* The worker has the start of the attempt accepted                        *)
(* (updateJobStatusUntilAccepted with RUNNING).                            *)

PostRunning(w) ==
  LET j == worker[w].job
  IN  /\ At_(w, "start")
      /\ HoldsToken(w)
      /\ ReportRunning(j)
      /\ \/ /\ NoFault
            /\ Goto(w, IF job'[j].status = "running" THEN "prepare" ELSE "reread")
         \/ /\ Fault
            /\ job'[j].status = "running"
            /\ Goto(w, "reread")
      /\ UNCHANGED <<agent, box, holder>>

(* The job was requeued, and may be on another node by now: its updates    *)
(* are refused before the session and the token are looked at (409).       *)
Elsewhere(w) == job[worker[w].job].node # HostOf(w)

(* Refused for its token (412), for the job's node or status, or lost.     *)
PostRunningFails(w) ==
  /\ At_(w, "start")
  /\ MutexFree
  /\ \/ /\ SessionAccepted(SessionOf[w])
        /\ ~Elsewhere(w)
        /\ ~HoldsToken(w)
        /\ NoFault
        /\ Goto(w, "disowned")
     \/ /\ \/ Elsewhere(w)
           \/ HoldsToken(w) /\ job[worker[w].job].status # "assigned"
        /\ NoFault
        /\ Goto(w, "reread")
     \/ Fault /\ Goto(w, "reread")
  /\ UNCHANGED <<vars, agent, box, holder>>

(* Mistake: only an answered post counts, not a job that is found RUNNING.  *)
FaultyRereadStart(w) ==
  LET status == job[worker[w].job].status
  IN  /\ At_(w, "reread") \/ At_(w, "disowned")
      /\ MutexFree
      /\ \/ status = "assigned" /\ At_(w, "reread") /\ Goto(w, "start")
         \/ status # "assigned" /\ Rest(w)
      /\ UNCHANGED <<vars, agent, box, holder, faults>>

(* The job is read back, without proof of the attempt: RUNNING is taken as *)
(* acceptance, ASSIGNED is posted again unless the token was refused, and  *)
(* anything else, a cancellation included, is given up.  A job that stays  *)
(* ASSIGNED to another node is posted for 30 seconds; then the agent stops. *)
RereadStart(w) ==
  LET status == job[worker[w].job].status
  IN  /\ \/ At_(w, "reread") \/ At_(w, "disowned")
      /\ MutexFree
      /\ \/ /\ \/ status = "running" /\ Goto(w, "prepare")
               \/ status = "assigned" /\ At_(w, "reread") /\ Goto(w, "start")
               \/ status = "assigned" /\ At_(w, "disowned") /\ Rest(w)
               \/ status \notin {"running", "assigned"} /\ Rest(w)
            /\ UNCHANGED agent
         \/ /\ status = "assigned" /\ At_(w, "reread") /\ Elsewhere(w)
            /\ FailStop(SessionOf[w])
      /\ UNCHANGED <<vars, box, holder, faults>>

(* A failed read repeats the post; after 30 seconds the agent stops.       *)
RereadFails(w) ==
  /\ \/ At_(w, "reread") \/ At_(w, "recheck")
  /\ Fault
  /\ \/ /\ Goto(w, IF worker[w].at = "reread" THEN "start" ELSE "report")
        /\ UNCHANGED agent
     \/ FailStop(SessionOf[w])
  /\ UNCHANGED <<vars, box, holder>>

----------------------------------------------------------------------------
(* The worker executes the attempt.                                        *)

(* Mistake: the session and the job's status are enough.                   *)
FaultyOwnsAttempt(w) ==
  /\ SessionAccepted(SessionOf[w])
  /\ job[worker[w].job].status \in {"running", "canceling"}

(* The server still knows the attempt (validateAttemptOwnership).          *)
OwnsAttempt(w) ==
  /\ HoldsToken(w)
  /\ job[worker[w].job].status \in {"running", "canceling"}

(* The preceding attempt's container is removed by its name.               *)
Prepare(w) ==
  /\ At_(w, "prepare")
  /\ agent[SessionOf[w]].lease
  /\ box' = {b \in box : ~(/\ OnHost(b, HostOf(w))
                           /\ Exists(b)
                           /\ b.job = worker[w].job
                           /\ b.attempt = worker[w].attempt - 1)}
  /\ Goto(w, "validate")
  /\ UNCHANGED <<vars, agent, holder, faults>>

(* Mistake: the attempt's token is not looked at.                          *)
FaultyValidate(w) ==
  /\ At_(w, "validate")
  /\ MutexFree
  /\ SessionAccepted(SessionOf[w])
  /\ job[worker[w].job].status \in {"running", "canceling"}
  /\ Goto(w, "create")
  /\ UNCHANGED <<vars, agent, box, holder, faults>>

Validate(w) ==
  /\ At_(w, "validate")
  /\ MutexFree
  /\ OwnsAttempt(w)
  /\ Goto(w, "create")
  /\ UNCHANGED <<vars, agent, box, holder, faults>>

(* Before there is a container ID, a failure is reported at once: an       *)
(* unsupported accelerator, a refused or lost validation, a failing        *)
(* command, or a daemon that is too slow and creates the container later.  *)
ExecuteFails(w) ==
  /\ \/ Fault /\ (At_(w, "prepare") \/ At_(w, "validate") \/ At_(w, "creating"))
     \/ /\ NoFault
        /\ At_(w, "validate")
        /\ MutexFree
        /\ SessionAccepted(SessionOf[w])
        /\ ~OwnsAttempt(w)
  /\ Conclude(w, "report", "failed")
  /\ UNCHANGED <<vars, agent, box, holder>>

RequestCreate(w) ==
  /\ At_(w, "create")
  /\ box' = box \cup {[job |-> worker[w].job, attempt |-> worker[w].attempt,
                       by |-> w, st |-> "requested"]}
  /\ Goto(w, "creating")
  /\ UNCHANGED <<vars, agent, holder, faults>>

Created(w) ==
  /\ At_(w, "creating")
  /\ Own(w) = {} \/ \E b \in Own(w) : Exists(b)
  /\ Goto(w, "confirm")
  /\ UNCHANGED <<vars, agent, box, holder, faults>>

(* The check after the creation: refused or lost, the container is removed *)
(* by its ID without having been started.                                  *)
ValidateAgain(w) ==
  /\ At_(w, "confirm")
  /\ MutexFree
  /\ \/ OwnsAttempt(w) /\ NoFault /\ Goto(w, "launch")
     \/ /\ SessionAccepted(SessionOf[w])
        /\ ~OwnsAttempt(w)
        /\ NoFault
        /\ Conclude(w, "cleanup", "failed")
     \/ Fault /\ Conclude(w, "cleanup", "failed")
  /\ UNCHANGED <<vars, agent, box, holder>>

(* The start names the container's ID: it fails when that was removed.     *)
Launch(w) ==
  /\ At_(w, "launch")
  /\ agent[SessionOf[w]].lease
  /\ IF Own(w) # {}
       THEN /\ box' = (box \ Own(w))
                        \cup {[b EXCEPT !.st = "starting"] : b \in Own(w)}
            /\ Goto(w, "monitor")
       ELSE /\ Conclude(w, "cleanup", "failed")
            /\ UNCHANGED box
  /\ UNCHANGED <<vars, agent, holder, faults>>

(* The container ended, or the job's time is up and the worker stops it.   *)
Finishes(w) ==
  /\ At_(w, "monitor")
  /\ \/ /\ Own(w) = {}
        /\ \E outcome \in {"succeeded", "failed"} :
             Conclude(w, "cleanup", outcome)
     \/ Conclude(w, "cleanup", "failed")
  /\ UNCHANGED <<vars, agent, box, holder, faults>>

SeesCancellation(w) ==
  /\ At_(w, "monitor")
  /\ MutexFree
  /\ job[worker[w].job].status \in {"canceling", "canceled"}
  /\ Conclude(w, "cleanup", "canceled")
  /\ UNCHANGED <<vars, agent, box, holder, faults>>

(* cleanupContainerUntilDone: without the container's removal there is no  *)
(* report, the agent stops instead.                                        *)
RemoveBox(w) ==
  /\ At_(w, "cleanup")
  /\ \/ /\ NoFault
        /\ box' = box \ Own(w)
        /\ Goto(w, "report")
        /\ UNCHANGED agent
     \/ /\ Fault
        /\ FailStop(SessionOf[w])
        /\ UNCHANGED box
  /\ UNCHANGED <<vars, holder>>

----------------------------------------------------------------------------
(* The daemon.                                                             *)

Becomes(b, st) == box' = (box \ {b}) \cup {[b EXCEPT !.st = st]}

(* A container name belongs to one container at a time.                    *)
NameTaken(b) == \E c \in box : /\ Exists(c)
                               /\ HostOf(c.by) = HostOf(b.by)
                               /\ c.job = b.job
                               /\ c.attempt = b.attempt

Daemon(b) ==
  /\ \/ b.st = "requested" /\ ~NameTaken(b) /\ Becomes(b, "created")
     \/ b.st = "starting" /\ Becomes(b, "computing")
     \/ b.st = "computing" /\ box' = box \ {b}
  /\ UNCHANGED <<vars, agent, worker, holder, faults>>

----------------------------------------------------------------------------
(* The worker has the end of the attempt accepted.                         *)

(* What failed is the computation or the delivery of its results, which is *)
(* reported as not to be retried (Results has the delivery).               *)
ReportEnd(j, outcome) ==
  \/ outcome = "succeeded" /\ ReportSucceeded(j)
  \/ outcome = "failed" /\ \E retryable \in BOOLEAN : ReportFailed(j, retryable)
  \/ outcome = "canceled" /\ ReportCanceled(j)

PostEnd(w) ==
  /\ At_(w, "report")
  /\ HoldsToken(w)
  /\ ReportEnd(worker[w].job, worker[w].outcome)
  /\ \/ NoFault /\ Rest(w)
     \/ Fault /\ Goto(w, "recheck")
  /\ UNCHANGED <<agent, box, holder>>

(* A refused token ends the worker's interest in the attempt.              *)
PostEndFails(w) ==
  LET expected == IF worker[w].outcome = "canceled" THEN "canceling" ELSE "running"
  IN  /\ At_(w, "report")
      /\ MutexFree
      /\ \/ /\ SessionAccepted(SessionOf[w])
            /\ ~Elsewhere(w)
            /\ ~HoldsToken(w)
            /\ NoFault
            /\ Rest(w)
         \/ /\ \/ Elsewhere(w)
               \/ HoldsToken(w) /\ job[worker[w].job].status # expected
            /\ NoFault
            /\ Goto(w, "recheck")
         \/ Fault /\ Goto(w, "recheck")
      /\ UNCHANGED <<vars, agent, box, holder>>

(* jobStatusAccepted.                                                      *)
Accepted(outcome, status) ==
  CASE outcome = "succeeded" -> status = "succeeded"
    [] outcome = "canceled"  -> status = "canceled"
    [] OTHER                 -> status \in {"failed", "queued", "assigned"}

(* A cancellation that came between turns the report into its              *)
(* acknowledgement; a job that moved on needs no report any more.  One     *)
(* that another node runs is reported for 30 seconds; then the agent stops. *)
RecheckEnd(w) ==
  LET status  == job[worker[w].job].status
      outcome == worker[w].outcome
  IN  /\ At_(w, "recheck")
      /\ MutexFree
      /\ \/ /\ \/ /\ \/ Accepted(outcome, status)
                     \/ status \notin {"running", "canceling"}
                  /\ Rest(w)
               \/ status = "canceling" /\ Conclude(w, "report", "canceled")
               \/ status = "running" /\ Goto(w, "report")
            /\ UNCHANGED agent
         \/ /\ \/ status = "running"
               \/ status = "canceling" /\ outcome = "canceled"
            /\ Elsewhere(w)
            /\ FailStop(SessionOf[w])
      /\ UNCHANGED <<vars, box, holder, faults>>

----------------------------------------------------------------------------
(* The local control of an agent that is to be replaced.                   *)

Quiesce(s) ==
  /\ s \in Replaced
  /\ Ready(s)
  /\ agent[s].handoff = "open"
  /\ agent' = [agent EXCEPT ![s].handoff = "draining"]
  /\ UNCHANGED <<vars, worker, box, holder, faults>>

(* Mistake: a worker that is polling is not counted.                       *)
FaultyAcknowledgeQuiesce(s) ==
  /\ Ready(s)
  /\ agent[s].lease
  /\ agent[s].handoff = "draining"
  /\ \A w \in Workers : SessionOf[w] = s => ~Active(w) \/ worker[w].at = "poll"
  /\ agent' = [agent EXCEPT ![s].handoff = "quiesced"]
  /\ UNCHANGED <<vars, worker, box, holder, faults>>

AcknowledgeQuiesce(s) ==
  /\ Ready(s)
  /\ agent[s].lease
  /\ agent[s].handoff = "draining"
  /\ \A w \in Workers : SessionOf[w] = s => ~Active(w)
  /\ agent' = [agent EXCEPT ![s].handoff = "quiesced"]
  /\ UNCHANGED <<vars, worker, box, holder, faults>>

Resume(s) ==
  /\ Ready(s)
  /\ agent[s].handoff # "open"
  /\ agent' = [agent EXCEPT ![s].handoff = "open"]
  /\ UNCHANGED <<vars, worker, box, holder, faults>>

----------------------------------------------------------------------------
(* What the agents do not do themselves.                                   *)

HeartbeatMissed(n) ==
  /\ node[n].session # NoSession => ~agent[node[n].session].lease
  /\ HeartbeatLapses(n)

Surroundings ==
  /\ \/ /\ NoFault
        /\ \/ \E j \in Jobs : CreateJob(j) \/ CancelJob(j) \/ LeaseExpires(j)
           \/ SchedulingPass
           \/ \E n \in Nodes : HeartbeatMissed(n)
     \/ Fault /\ \E n \in Nodes : HealthReportLapses(n)
  /\ UNCHANGED <<agent, worker, box, holder>>

InitAgents ==
  /\ Init
  /\ agent = [s \in Sessions |-> [phase |-> "new", lease |-> FALSE,
                                  handoff |-> "open"]]
  /\ worker = [w \in Workers |-> Idle]
  /\ box = {}
  /\ holder = [j \in Jobs |-> NoWorker]
  /\ faults = 0

(* What a process does by itself once it is registered.                    *)
ProcessStep(s) ==
  CleanManaged(s) \/ Confirm(s) \/ StopExpired(s) \/ SessionRefused(s)

Process(s) ==
  \/ \E healthy \in RegisteredHealth, g \in Inventories : Register(s, healthy, g)
  \/ ProcessStep(s)
  \/ \E healthy \in ReportedHealth, g \in Inventories, hostChanged \in BOOLEAN :
       ReportHealth(s, healthy, g, hostChanged)
  \/ LeaseRunsOut(s) \/ Crash(s)
  \/ Quiesce(s) \/ AcknowledgeQuiesce(s) \/ Resume(s)

WorkerStep(w) ==
  \/ Tick(w) \/ Poll(w) \/ PollInVain(w)
  \/ PostRunning(w) \/ PostRunningFails(w) \/ RereadStart(w) \/ RereadFails(w)
  \/ Prepare(w) \/ Validate(w) \/ ExecuteFails(w) \/ RequestCreate(w)
  \/ Created(w) \/ ValidateAgain(w) \/ Launch(w) \/ Finishes(w)
  \/ SeesCancellation(w) \/ RemoveBox(w)
  \/ PostEnd(w) \/ PostEndFails(w) \/ RecheckEnd(w)
  \/ Withdraw(w)

NextWithAgents ==
  \/ Surroundings
  \/ \E s \in Sessions : Process(s)
  \/ \E w \in Workers : WorkerStep(w)
  \/ \E b \in box : Daemon(b)

AgentSpec == InitAgents /\ [][NextWithAgents]_allVars

(* Workers and processes go on, the daemon answers, a claim's lease runs   *)
(* out and a scheduling pass ends.  Workers compete for the store's mutex, *)
(* which Go hands over fairly.                                             *)
Fairness ==
  /\ \A w \in Workers : SF_allVars(WorkerStep(w))
  /\ \A s \in Sessions : WF_allVars(ProcessStep(s))
  /\ WF_allVars(\E b \in box : Daemon(b))
  /\ WF_allVars((\E j \in Jobs : LeaseExpires(j)) /\ UNCHANGED agentVars)
  /\ WF_allVars((ScheduleEnd \/ \E j \in Jobs, n \in Nodes : ScheduleAssign(j, n))
                  /\ UNCHANGED agentVars)

FairAgentSpec == AgentSpec /\ Fairness

----------------------------------------------------------------------------
(* Properties.                                                             *)

AgentTypeOK ==
  /\ TypeOK
  /\ agent \in [Sessions -> AgentRecord]
  /\ worker \in [Workers -> WorkerRecord]
  /\ box \subseteq Box
  /\ holder \in [Jobs -> Workers \cup {NoWorker}]
  /\ faults \in 0..MaxFaults

(* Whatever computes on a host is the current attempt of a job that the    *)
(* store shows running or canceling on that node, and nothing computes it  *)
(* twice, so the GPUs it uses are still the job's: over takeovers, crashes, *)
(* paused workers, late daemons and lost answers.                          *)
ContainersAccounted ==
  \A b \in box : b.st = "computing" =>
    /\ job[b.job].status \in {"running", "canceling"}
    /\ job[b.job].attempts = b.attempt
    /\ job[b.job].node = HostOf(b.by)
    /\ \A c \in box \ {b} : c.st = "computing" => c.job # b.job

(* Attempt numbers are refunded for unstarted work, yet no container is    *)
(* ever requested under a name that another one still has.                 *)
NamesFree ==
  \A b \in box : b.st = "requested" => ~NameTaken(b)

(* Once quiesce was acknowledged and until resume, the process computes    *)
(* nothing and holds no claim, so it can be replaced.                      *)
QuiescedHoldsNothing ==
  \A s \in Sessions : agent[s].handoff = "quiesced" =>
    /\ \A b \in box : SessionOf[b.by] = s => b.st \notin {"starting", "computing"}
    /\ \A w \in Workers : SessionOf[w] = s => ~Active(w)

(* The process of session s keeps its lease and takes work.                *)
Serving(s) == Ready(s) /\ agent[s].lease /\ agent[s].handoff = "open"

Owns(s, j) == job[j].node = Home[s] /\ job[j].session = s
                /\ node[Home[s]].session = s

(* A started job of a session that goes on serving ends or is canceled,    *)
(* although answers to its start or its report may be lost.                *)
RunsEnd ==
  \A s \in Sessions, j \in Jobs :
    <>[]Serving(s) => (job[j].status = "running" /\ Owns(s, j)
                         ~> job[j].status # "running")

(* Work that a takeover interrupted is cleaned up by the new session.      *)
InterruptedRecovered ==
  \A s \in Sessions, j \in Jobs :
    <>[]Serving(s) => (job[j].status = "canceling" /\ Owns(s, j)
                         /\ runner[j] # s
                         ~> job[j].status # "canceling")

(* Stopping a running job makes the agent stop its container and report    *)
(* the job canceled (README.md).                                           *)
CancelCompletes ==
  \A s \in Sessions, j \in Jobs :
    <>[]Serving(s) => (job[j].status = "canceling" /\ Owns(s, j)
                         ~> job[j].status # "canceling")
=============================================================================
