---------------------------- MODULE SessionLease ----------------------------
(***************************************************************************)
(* The lease an agent session holds on its node.  The agent counts         *)
(* AgentSessionFailStopTTL from the moment before it sent a request        *)
(* (internal/agent/agent.go), the server counts AgentSessionTTL from the   *)
(* moment it processed one (internal/store/store.go), and requests and     *)
(* answers may be late or lost.  Agent.tla relies on what holds here: the  *)
(* server finds a session stale only after its agent has stopped.          *)
(*                                                                         *)
(* There is one node, and one clock: the two machines' clocks advance at   *)
(* the same rate.  An agent process generates one session.                 *)
(***************************************************************************)
EXTENDS Naturals, FiniteSets

CONSTANTS
  Sessions,
  NoSession,
  AgentTTL,   (* AgentSessionFailStopTTL                                   *)
  ServerTTL,  (* AgentSessionTTL                                           *)
  MaxTime,    (* bound: the time at which the clock stops                  *)
  MaxNet      (* bound: requests and answers on their way at once          *)

ASSUME LeaseAssumption ==
  /\ NoSession \notin Sessions
  /\ AgentTTL \in Nat
  /\ ServerTTL \in Nat
  /\ MaxTime \in Nat
  /\ MaxNet \in Nat
  /\ AgentTTL <= ServerTTL

VARIABLES
  now,
  server,  (* SessionEpoch, CleanupPending and LastHeartbeat of the node   *)
  agent,   (* the agent processes                                          *)
  net,     (* requests and answers on their way                            *)
  past     (* history: sessions the node was taken from                    *)

vars == <<now, server, agent, net, past>>

Request == {"register", "confirm", "beat"}

(* "at" is the time that the agent took just before it sent the request.   *)
Message == [type : {"request", "answer"}, kind : Request, from : Sessions,
            at : Nat, ok : BOOLEAN]

(* "joining" waits for the answer to its registration, "over" has stopped. *)
(* "asked" is when the last request was made, which it may be waiting for. *)
AgentRecord == [phase : {"new", "joining", "cleaning", "ready", "over"},
                deadline : Nat, waiting : BOOLEAN, asked : Nat]

ServerRecord == [session : Sessions \cup {NoSession}, cleanup : BOOLEAN,
                 last : Nat]

----------------------------------------------------------------------------
(* The agent.                                                              *)

Send(s, kind) ==
  /\ Cardinality(net) < MaxNet
  /\ net' = net \cup {[type |-> "request", kind |-> kind, from |-> s,
                       at |-> now, ok |-> TRUE]}

Register(s) ==
  /\ agent[s].phase = "new"
  /\ Send(s, "register")
  /\ agent' = [agent EXCEPT ![s] =
                 [phase |-> "joining", deadline |-> now + AgentTTL,
                  waiting |-> TRUE, asked |-> now]]
  /\ UNCHANGED <<now, server, past>>

(* A request is made while the lease lasts, one at a time.                 *)
Ask(s, kind) ==
  /\ ~agent[s].waiting
  /\ now < agent[s].deadline
  /\ Send(s, kind)
  /\ agent' = [agent EXCEPT ![s].waiting = TRUE, ![s].asked = now]
  /\ UNCHANGED <<now, server, past>>

Confirm(s) == agent[s].phase = "cleaning" /\ Ask(s, "confirm")

Beat(s) == agent[s].phase = "ready" /\ Ask(s, "beat")

(* The answer to a request that was given up is not read.                  *)
Expects(s, m) ==
  /\ agent[s].waiting
  /\ agent[s].asked = m.at
  /\ agent[s].phase = CASE m.kind = "register" -> "joining"
                        [] m.kind = "confirm"  -> "cleaning"
                        [] m.kind = "beat"     -> "ready"

(* Mistake: the deadline counts from the answer.                           *)
FaultyRenewed(m) ==
  IF m.kind = "beat" THEN now + AgentTTL ELSE agent[m.from].deadline

(* Only a heartbeat moves the deadline; registration had set it.           *)
Renewed(m) ==
  IF m.kind = "beat" THEN m.at + AgentTTL ELSE agent[m.from].deadline

Answered(m) ==
  LET s == m.from
  IN  /\ m.type = "answer"
      /\ net' = net \ {m}
      /\ IF Expects(s, m)
           THEN agent' = [agent EXCEPT ![s] =
                  [phase |-> IF ~m.ok THEN "over"
                             ELSE IF m.kind = "register" THEN "cleaning"
                             ELSE "ready",
                   deadline |-> Renewed(m), waiting |-> FALSE,
                   asked |-> m.at]]
           ELSE UNCHANGED agent
      /\ UNCHANGED <<now, server, past>>

(* A heartbeat that times out is followed by another; a registration or a  *)
(* confirmation that fails ends the process.                               *)
GiveUp(s) ==
  /\ agent[s].waiting
  /\ agent' = [agent EXCEPT ![s].waiting = FALSE,
                 ![s].phase = IF @ = "ready" THEN @ ELSE "over"]
  /\ UNCHANGED <<now, server, net, past>>

Stop(s) ==
  /\ agent[s].phase \in {"cleaning", "ready"}
  /\ agent' = [agent EXCEPT ![s].phase = "over", ![s].waiting = FALSE]
  /\ UNCHANGED <<now, server, net, past>>

----------------------------------------------------------------------------
(* The server.                                                             *)

Stale == now > server.last + ServerTTL

Fenced == [server EXCEPT !.session = NoSession, !.cleanup = TRUE]

Lost == past' = past \cup ({server.session} \ {NoSession})

Reply(m, ok) ==
  net' = (net \ {m}) \cup {[m EXCEPT !.type = "answer", !.ok = ok]}

(* Another session is let in once the present one is stale or fenced.      *)
ReceiveRegister(m) ==
  /\ m.kind = "register"
  /\ IF server.session \notin {NoSession, m.from} /\ ~Stale
       THEN Reply(m, FALSE) /\ UNCHANGED <<server, past>>
       ELSE /\ Reply(m, TRUE)
            /\ server' = [session |-> m.from, cleanup |-> TRUE, last |-> now]
            /\ past' = past \cup ({server.session} \ {NoSession, m.from})

(* Mistake: a heartbeat revives the session that was fenced.               *)
FaultyReceiveAsk(m) ==
  /\ m.kind \in {"confirm", "beat"}
  /\ IF server.session \in {NoSession, m.from}
       THEN /\ Reply(m, TRUE)
            /\ server' = [session |-> m.from, cleanup |-> FALSE, last |-> now]
            /\ UNCHANGED past
       ELSE Reply(m, FALSE) /\ UNCHANGED <<server, past>>

(* validateAgentSessionLocked before the heartbeat is renewed: a stale     *)
(* session is fenced whoever asks.                                         *)
ReceiveAsk(m) ==
  /\ m.kind \in {"confirm", "beat"}
  /\ \/ /\ server.session # NoSession /\ Stale
        /\ Reply(m, FALSE)
        /\ server' = Fenced
        /\ Lost
     \/ /\ ~(server.session # NoSession /\ Stale)
        /\ server.session # m.from \/ server.cleanup # (m.kind = "confirm")
        /\ Reply(m, FALSE)
        /\ UNCHANGED <<server, past>>
     \/ /\ ~Stale
        /\ server.session = m.from
        /\ server.cleanup = (m.kind = "confirm")
        /\ Reply(m, TRUE)
        /\ server' = [server EXCEPT !.cleanup = FALSE, !.last = now]
        /\ UNCHANGED past

Receive(m) ==
  /\ m.type = "request"
  /\ ReceiveRegister(m) \/ ReceiveAsk(m)
  /\ UNCHANGED <<now, agent>>

(* The scheduling pass, or any other agent request, finds the node stale.  *)
Fence ==
  /\ server.session # NoSession
  /\ Stale
  /\ server' = Fenced
  /\ Lost
  /\ UNCHANGED <<now, agent, net>>

----------------------------------------------------------------------------
Lose(m) ==
  /\ net' = net \ {m}
  /\ UNCHANGED <<now, server, agent, past>>

Advance ==
  /\ now < MaxTime
  /\ now' = now + 1
  /\ UNCHANGED <<server, agent, net, past>>

Init ==
  /\ now = 0
  /\ server = [session |-> NoSession, cleanup |-> TRUE, last |-> 0]
  /\ agent = [s \in Sessions |-> [phase |-> "new", deadline |-> 0,
                                  waiting |-> FALSE, asked |-> 0]]
  /\ net = {}
  /\ past = {}

Next ==
  \/ \E s \in Sessions :
       Register(s) \/ Confirm(s) \/ Beat(s) \/ GiveUp(s) \/ Stop(s)
  \/ \E m \in net : Answered(m) \/ Receive(m) \/ Lose(m)
  \/ Fence
  \/ Advance

Spec == Init /\ [][Next]_vars

----------------------------------------------------------------------------
(* Properties.                                                             *)

TypeOK ==
  /\ now \in Nat
  /\ server \in ServerRecord
  /\ agent \in [Sessions -> AgentRecord]
  /\ net \subseteq Message
  /\ past \subseteq Sessions

(* The agent may start containers: it is registered and its lease lasts.   *)
Live(s) == agent[s].phase \in {"cleaning", "ready"} /\ now < agent[s].deadline

(* While an agent's own lease lasts, the node is still its: no other       *)
(* session is let in and nothing fences it, whatever is delayed or lost.   *)
LeaseProtected ==
  \A s \in Sessions : Live(s) => server.session = s /\ ~Stale

(* A session that lost its node never gets it back, however late its       *)
(* requests arrive.                                                        *)
NeverRevived == server.session \notin past
=============================================================================
