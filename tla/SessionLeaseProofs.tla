------------------------- MODULE SessionLeaseProofs -------------------------
(***************************************************************************)
(* The lease protects its agent for all TTLs, all sessions and all bounds. *)
(*                                                                         *)
(* What is inductive says for how long a deadline d may protect session s: *)
(* while the server still has s, no longer than the agent's TTL after the  *)
(* last heartbeat the server counted; once it has another session or none, *)
(* d is over.  It holds of the deadline of every registered agent and of   *)
(* the deadline that every positive answer on its way will set.            *)
(***************************************************************************)
EXTENDS SessionLease, TLAPS

Held(s, d) ==
  IF server.session = s THEN d <= server.last + AgentTTL ELSE d <= now

ClockOrder ==
  /\ server.last <= now
  /\ \A m \in net : m.at <= now

DeadlinesHeld ==
  \A s \in Sessions :
    agent[s].phase \in {"cleaning", "ready"} => Held(s, agent[s].deadline)

AnswersHeld ==
  \A m \in net : m.type = "answer" /\ m.ok => Held(m.from, m.at + AgentTTL)

Joining ==
  \A s \in Sessions :
    agent[s].phase = "joining" => agent[s].deadline = agent[s].asked + AgentTTL

LeaseInv == TypeOK /\ ClockOrder /\ DeadlinesHeld /\ AnswersHeld /\ Joining

----------------------------------------------------------------------------
(* A step of the server that keeps its session, or replaces one that is    *)
(* stale, leaves every deadline held.                                      *)
LEMMA HeldStays ==
  ASSUME LeaseInv, NEW s \in Sessions, NEW d \in Nat, Held(s, d),
         server' \in ServerRecord, now' = now, server'.last <= now,
         server.last <= server'.last,
         \/ server'.session = server.session
         \/ server.session = NoSession
         \/ Stale,
         server'.session \in {server.session, NoSession} \/ server'.last = now
  PROVE  Held(s, d)'
<1>1. server.last \in Nat /\ server'.last \in Nat /\ now \in Nat
  BY DEF LeaseInv, TypeOK, ServerRecord
<1>2. s # NoSession
  BY LeaseAssumption
<1>3. CASE server'.session = server.session
  BY <1>1, <1>3, LeaseAssumption DEF Held
<1>4. CASE server'.session # server.session
  <2>1. d <= now
    BY <1>1, <1>2, <1>4, LeaseAssumption DEF Held, Stale
  <2>2. server'.session = s => server'.last = now
    BY <1>2, <1>4
  <2> QED
    BY <2>1, <2>2, <1>1, LeaseAssumption DEF Held
<1> QED
  BY <1>3, <1>4

LEMMA TimeKeepsHeld ==
  ASSUME LeaseInv, NEW s \in Sessions, NEW d \in Nat, Held(s, d),
         server' = server, now' \in Nat, now <= now'
  PROVE  Held(s, d)'
BY LeaseAssumption DEF Held, LeaseInv, TypeOK, ServerRecord

(* An agent's own step leaves the server and the clock alone.              *)
LEMMA AgentKeepsHeld ==
  ASSUME NEW s, NEW d, Held(s, d), UNCHANGED <<server, now>>
  PROVE  Held(s, d)'
BY DEF Held

LEMMA SendKeeps ==
  ASSUME LeaseInv, NEW s \in Sessions, NEW kind \in Request, Send(s, kind),
         UNCHANGED <<now, server>>
  PROVE  net' \subseteq Message /\ ClockOrder' /\ AnswersHeld'
<1> DEFINE m == [type |-> "request", kind |-> kind, from |-> s,
                 at |-> now, ok |-> TRUE]
<1>1. net' = net \cup {m} /\ m \in Message
  BY DEF Send, Message, LeaseInv, TypeOK
<1>2. now <= now
  BY DEF LeaseInv, TypeOK
<1>3. m.at = now /\ m.type = "request"
  OBVIOUS
<1> HIDE DEF m
<1>4. net' \subseteq Message
  BY <1>1 DEF LeaseInv, TypeOK
<1>5. ClockOrder'
  BY <1>1, <1>2, <1>3 DEF ClockOrder, LeaseInv
<1>6. AnswersHeld'
  BY <1>1, <1>3 DEF AnswersHeld, LeaseInv, Held
<1> QED
  BY <1>4, <1>5, <1>6

LEMMA InitLease == Init => LeaseInv
<1> SUFFICES ASSUME Init PROVE LeaseInv
  OBVIOUS
<1>1. TypeOK
  BY DEF Init, TypeOK, ServerRecord, AgentRecord
<1>2. ClockOrder /\ DeadlinesHeld /\ AnswersHeld /\ Joining
  BY DEF Init, ClockOrder, DeadlinesHeld, AnswersHeld, Joining
<1> QED
  BY <1>1, <1>2 DEF LeaseInv

LEMMA RegisterKeeps ==
  ASSUME LeaseInv, NEW s \in Sessions, Register(s)
  PROVE  LeaseInv'
<1>1. net' \subseteq Message /\ ClockOrder' /\ AnswersHeld'
  BY SendKeeps DEF Register, Request
<1>2. now + AgentTTL \in Nat /\ now \in Nat
  BY LeaseAssumption DEF LeaseInv, TypeOK
<1>3. TypeOK'
  BY <1>1, <1>2 DEF Register, LeaseInv, TypeOK, AgentRecord
<1>4. \A t \in Sessions \ {s} : agent'[t] = agent[t]
  BY DEF Register, LeaseInv, TypeOK
<1>5. /\ agent'[s].phase = "joining"
      /\ agent'[s].deadline = now + AgentTTL
      /\ agent'[s].asked = now
  BY DEF Register, LeaseInv, TypeOK
<1>6. DeadlinesHeld'
  BY <1>4, <1>5, AgentKeepsHeld DEF Register, LeaseInv, DeadlinesHeld
<1>7. Joining'
  BY <1>4, <1>5 DEF Register, LeaseInv, Joining
<1> QED
  BY <1>1, <1>3, <1>6, <1>7 DEF LeaseInv

LEMMA AskKeeps ==
  ASSUME LeaseInv, NEW s \in Sessions, NEW kind \in Request, Ask(s, kind),
         agent[s].phase \in {"cleaning", "ready"}
  PROVE  LeaseInv'
<1>1. net' \subseteq Message /\ ClockOrder' /\ AnswersHeld'
  BY SendKeeps DEF Ask
<1>2. TypeOK'
  BY <1>1 DEF Ask, LeaseInv, TypeOK, AgentRecord
<1>3. \A t \in Sessions \ {s} : agent'[t] = agent[t]
  BY DEF Ask, LeaseInv, TypeOK
<1>4. /\ agent'[s].phase = agent[s].phase
      /\ agent'[s].deadline = agent[s].deadline
  BY DEF Ask, LeaseInv, TypeOK, AgentRecord
<1>5. DeadlinesHeld'
  BY <1>3, <1>4, AgentKeepsHeld DEF Ask, LeaseInv, DeadlinesHeld
<1>6. Joining'
  BY <1>3, <1>4 DEF LeaseInv, Joining
<1> QED
  BY <1>1, <1>2, <1>5, <1>6 DEF LeaseInv

LEMMA EndKeeps ==
  ASSUME LeaseInv, NEW s \in Sessions, GiveUp(s) \/ Stop(s)
  PROVE  LeaseInv'
<1>1. UNCHANGED <<now, server, net, past>>
  BY DEF GiveUp, Stop
<1>2. TypeOK'
  <2>1. agent[s] \in AgentRecord /\ DOMAIN agent = Sessions
    BY DEF LeaseInv, TypeOK
  <2>2. agent'[s] \in AgentRecord
    <3>1. CASE GiveUp(s)
      BY <2>1, <3>1 DEF GiveUp, AgentRecord
    <3>2. CASE Stop(s)
      BY <2>1, <3>2 DEF Stop, AgentRecord
    <3> QED
      BY <3>1, <3>2
  <2>3. /\ \A t \in Sessions \ {s} : agent'[t] = agent[t]
        /\ agent' = [t \in Sessions |-> agent'[t]]
    BY <2>1 DEF GiveUp, Stop
  <2>4. agent' \in [Sessions -> AgentRecord]
    BY <2>2, <2>3 DEF LeaseInv, TypeOK
  <2> QED
    BY <1>1, <2>4 DEF LeaseInv, TypeOK
<1>3. ClockOrder' /\ AnswersHeld'
  BY <1>1 DEF LeaseInv, ClockOrder, AnswersHeld, Held
<1>4. \A t \in Sessions :
        /\ agent'[t].phase \in {agent[t].phase, "over"}
        /\ agent'[t].deadline = agent[t].deadline
        /\ agent'[t].asked = agent[t].asked
  BY DEF GiveUp, Stop, LeaseInv, TypeOK, AgentRecord
<1>5. DeadlinesHeld' /\ Joining'
  BY <1>1, <1>4, AgentKeepsHeld DEF LeaseInv, DeadlinesHeld, Joining
<1> QED
  BY <1>2, <1>3, <1>5 DEF LeaseInv

LEMMA AnsweredKeeps ==
  ASSUME LeaseInv, NEW m \in net, Answered(m)
  PROVE  LeaseInv'
<1> DEFINE s == m.from
<1>1. m \in Message /\ s \in Sessions /\ m.at \in Nat /\ m.ok \in BOOLEAN
  BY DEF LeaseInv, TypeOK, Message
<1>2. UNCHANGED <<now, server, past>> /\ net' \subseteq net /\ m.type = "answer"
  BY DEF Answered
<1>3. ClockOrder' /\ AnswersHeld'
  BY <1>2 DEF LeaseInv, ClockOrder, AnswersHeld, Held
<1>4. CASE UNCHANGED agent
  BY <1>2, <1>3, <1>4
     DEF LeaseInv, TypeOK, DeadlinesHeld, Joining, Held
<1>5. CASE Expects(s, m)
  <2> DEFINE r == [phase |-> IF ~m.ok THEN "over"
                             ELSE IF m.kind = "register" THEN "cleaning"
                             ELSE "ready",
                   deadline |-> Renewed(m), waiting |-> FALSE,
                   asked |-> m.at]
  <2>1. agent' = [agent EXCEPT ![s] = r]
    BY <1>5 DEF Answered
  <2>2. Renewed(m) \in Nat
    BY <1>1, LeaseAssumption DEF Renewed, LeaseInv, TypeOK, AgentRecord
  <2>3. r \in AgentRecord
    BY <1>1, <2>2 DEF AgentRecord
  <2>4. /\ agent'[s] = r
        /\ \A t \in Sessions \ {s} : agent'[t] = agent[t]
    BY <1>1, <2>1 DEF LeaseInv, TypeOK
  <2>5. TypeOK'
    BY <1>1, <1>2, <2>1, <2>3 DEF LeaseInv, TypeOK
  <2>6. m.ok => Held(s, Renewed(m))
    <3> SUFFICES ASSUME m.ok PROVE Held(s, Renewed(m))
      OBVIOUS
    <3>1. Held(s, m.at + AgentTTL)
      BY <1>2 DEF LeaseInv, AnswersHeld
    <3>2. CASE m.kind = "beat"
      BY <3>1, <3>2 DEF Renewed
    <3>3. CASE m.kind = "register"
      BY <1>1, <1>5, <3>1, <3>3
         DEF Renewed, Expects, LeaseInv, Joining
    <3>4. CASE m.kind = "confirm"
      BY <1>1, <1>5, <3>4
         DEF Renewed, Expects, LeaseInv, DeadlinesHeld
    <3> QED
      BY <1>1, <3>2, <3>3, <3>4 DEF Message, Request
  <2>7. /\ r.phase # "joining"
        /\ r.phase \in {"cleaning", "ready"} => m.ok
        /\ r.deadline = Renewed(m)
    BY <1>1
  <2> HIDE DEF r
  <2>8. DeadlinesHeld'
    <3> SUFFICES ASSUME NEW t \in Sessions,
                        agent'[t].phase \in {"cleaning", "ready"}
                 PROVE  Held(t, agent[t].deadline)'
      BY DEF DeadlinesHeld
    <3>1. CASE t = s
      BY <2>4, <2>6, <2>7, <3>1, <1>2 DEF Held
    <3>2. CASE t # s
      BY <2>4, <3>2, <1>2 DEF LeaseInv, DeadlinesHeld, Held
    <3> QED
      BY <3>1, <3>2
  <2>9. Joining'
    BY <2>4, <2>7 DEF LeaseInv, Joining
  <2> QED
    BY <1>3, <2>5, <2>8, <2>9 DEF LeaseInv
<1> QED
  BY <1>4, <1>5 DEF Answered

(* What the server may do about a request or a missed deadline.            *)
ServerMoves ==
  /\ UNCHANGED <<now, agent>>
  /\ server' \in ServerRecord
  /\ past' \subseteq Sessions
  /\ server.last <= server'.last
  /\ server'.last <= now
  /\ \/ server'.session = server.session
     \/ server.session = NoSession
     \/ Stale
  /\ server'.session \in {server.session, NoSession} \/ server'.last = now

LEMMA ServerKeeps ==
  ASSUME LeaseInv, ServerMoves, net' \subseteq Message,
         \A m \in net' : \/ m \in net
                         \/ /\ m.at <= now
                            /\ m.type = "answer"
                            /\ m.ok => /\ server'.session = m.from
                                       /\ server'.last = now
  PROVE  LeaseInv'
<1>1. now \in Nat /\ server'.last \in Nat /\ server'.last <= now
  BY DEF ServerMoves, LeaseInv, TypeOK, ServerRecord
<1>2. TypeOK'
  BY DEF ServerMoves, LeaseInv, TypeOK
<1>3. ClockOrder'
  BY <1>1 DEF ServerMoves, LeaseInv, ClockOrder
<1>4. DeadlinesHeld'
  <2> SUFFICES ASSUME NEW s \in Sessions,
                      agent[s].phase \in {"cleaning", "ready"}
               PROVE  Held(s, agent[s].deadline)'
    BY DEF ServerMoves, DeadlinesHeld
  <2>1. agent[s].deadline \in Nat /\ Held(s, agent[s].deadline)
    BY DEF LeaseInv, TypeOK, AgentRecord, DeadlinesHeld
  <2>2. agent' = agent /\ now' = now
    BY DEF ServerMoves
  <2>3. \A d \in Nat : Held(s, d) => Held(s, d)'
    BY HeldStays DEF ServerMoves
  <2> QED
    BY <2>1, <2>2, <2>3 DEF Held
<1>5. AnswersHeld'
  <2> SUFFICES ASSUME NEW m \in net', m.type = "answer", m.ok
               PROVE  Held(m.from, m.at + AgentTTL)'
    BY DEF AnswersHeld
  <2>1. m.from \in Sessions /\ m.at \in Nat
    BY DEF Message
  <2>2. m.at + AgentTTL \in Nat
    BY <2>1, LeaseAssumption
  <2>3. CASE m \in net
    <3>1. Held(m.from, m.at + AgentTTL)
      BY <2>3 DEF LeaseInv, AnswersHeld
    <3> QED
      BY <2>1, <2>2, <3>1, HeldStays DEF ServerMoves
  <2>4. CASE m \notin net
    BY <1>1, <2>1, <2>4, LeaseAssumption DEF Held
  <2> QED
    BY <2>3, <2>4
<1>6. Joining'
  BY DEF ServerMoves, LeaseInv, Joining
<1> QED
  BY <1>2, <1>3, <1>4, <1>5, <1>6 DEF LeaseInv

LEMMA Replies ==
  ASSUME LeaseInv, NEW m \in net, NEW ok \in BOOLEAN, Reply(m, ok)
  PROVE  /\ net' \subseteq Message
         /\ \A a \in net' : \/ a \in net
                            \/ /\ a.at <= now
                               /\ a.type = "answer"
                               /\ a.from = m.from
                               /\ a.ok = ok
<1> DEFINE a == [m EXCEPT !.type = "answer", !.ok = ok]
<1>1. m \in Message /\ m.at <= now
  BY DEF LeaseInv, TypeOK, ClockOrder
<1>2. /\ a \in Message
      /\ a.at = m.at
      /\ a.type = "answer"
      /\ a.from = m.from
      /\ a.ok = ok
  BY <1>1 DEF Message
<1>3. net' = (net \ {m}) \cup {a}
  BY DEF Reply
<1> HIDE DEF a
<1> QED
  BY <1>1, <1>2, <1>3 DEF LeaseInv, TypeOK

LEMMA FencedIs ==
  ASSUME LeaseInv
  PROVE  /\ Fenced \in ServerRecord
         /\ Fenced.last = server.last
         /\ Fenced.session = NoSession
         /\ server.last <= server.last
<1>1. server \in ServerRecord /\ server.last \in Nat
  BY DEF LeaseInv, TypeOK, ServerRecord
<1>2. Fenced \in ServerRecord
  BY <1>1 DEF ServerRecord, Fenced
<1>3. Fenced.last = server.last /\ Fenced.session = NoSession
  BY <1>1 DEF ServerRecord, Fenced
<1> QED
  BY <1>1, <1>2, <1>3

LEMMA ReceiveKeeps ==
  ASSUME LeaseInv, NEW m \in net, Receive(m)
  PROVE  LeaseInv'
<1>1. /\ m.from \in Sessions
      /\ now \in Nat
      /\ server \in ServerRecord
      /\ server.last \in Nat
      /\ server.last <= now
      /\ past \subseteq Sessions
  BY DEF LeaseInv, TypeOK, ClockOrder, Message, ServerRecord
<1>2. UNCHANGED <<now, agent>>
  BY DEF Receive
<1>3. ASSUME NEW ok \in BOOLEAN, Reply(m, ok), ServerMoves,
             ok => server'.session = m.from /\ server'.last = now
      PROVE  LeaseInv'
  BY <1>3, Replies, ServerKeeps
<1>4. ASSUME UNCHANGED <<server, past>>
      PROVE  ServerMoves
  BY <1>1, <1>2, <1>4 DEF ServerMoves
<1>5. CASE ReceiveRegister(m)
  <2>1. CASE server.session \notin {NoSession, m.from} /\ ~Stale
    <3>1. Reply(m, FALSE) /\ UNCHANGED <<server, past>>
      BY <1>5, <2>1 DEF ReceiveRegister
    <3> QED
      BY <1>3, <1>4, <3>1
  <2>2. CASE ~(server.session \notin {NoSession, m.from} /\ ~Stale)
    <3>1. /\ Reply(m, TRUE)
          /\ server' = [session |-> m.from, cleanup |-> TRUE, last |-> now]
          /\ past' = past \cup ({server.session} \ {NoSession, m.from})
      BY <1>5, <2>2 DEF ReceiveRegister
    <3>2. server' \in ServerRecord /\ server'.session = m.from /\ server'.last = now
      BY <1>1, <3>1 DEF ServerRecord
    <3>3. past' \subseteq Sessions
      BY <1>1, <3>1 DEF ServerRecord
    <3>4. ServerMoves
      BY <1>1, <1>2, <2>2, <3>2, <3>3 DEF ServerMoves
    <3> QED
      BY <1>3, <3>1, <3>2, <3>4
  <2> QED
    BY <2>1, <2>2
<1>6. CASE ReceiveAsk(m)
  <2>1. CASE server.session # NoSession /\ Stale
    <3>1. Reply(m, FALSE) /\ server' = Fenced /\ Lost
      BY <1>6, <2>1 DEF ReceiveAsk
    <3>2. past' \subseteq Sessions
      BY <1>1, <3>1 DEF Lost, ServerRecord
    <3>3. ServerMoves
      BY <1>1, <1>2, <2>1, <3>1, <3>2, FencedIs DEF ServerMoves
    <3> QED
      BY <1>3, <3>1, <3>3
  <2>2. CASE ~(server.session # NoSession /\ Stale)
    <3>1. CASE Reply(m, FALSE) /\ UNCHANGED <<server, past>>
      BY <1>3, <1>4, <3>1
    <3>2. CASE /\ server.session = m.from
               /\ Reply(m, TRUE)
               /\ server' = [server EXCEPT !.cleanup = FALSE, !.last = now]
               /\ UNCHANGED past
      <4>1. /\ server' \in ServerRecord
            /\ server'.session = m.from
            /\ server'.last = now
        BY <1>1, <3>2 DEF ServerRecord
      <4>2. ServerMoves
        BY <1>1, <1>2, <3>2, <4>1 DEF ServerMoves
      <4> QED
        BY <1>3, <3>2, <4>1, <4>2
    <3> QED
      BY <1>6, <2>2, <3>1, <3>2 DEF ReceiveAsk
  <2> QED
    BY <2>1, <2>2
<1> QED
  BY <1>5, <1>6 DEF Receive

LEMMA FenceKeeps == LeaseInv /\ Fence => LeaseInv'
<1> SUFFICES ASSUME LeaseInv, Fence PROVE LeaseInv'
  OBVIOUS
<1>1. /\ server \in ServerRecord
      /\ server.last \in Nat
      /\ server.last <= now
      /\ past \subseteq Sessions
      /\ net \subseteq Message
  BY DEF LeaseInv, TypeOK, ClockOrder, ServerRecord
<1>2. past' \subseteq Sessions
  BY <1>1 DEF Fence, Lost, ServerRecord
<1>3. ServerMoves
  BY <1>1, <1>2, FencedIs DEF Fence, ServerMoves
<1> QED
  BY <1>1, <1>3, ServerKeeps DEF Fence

LEMMA LoseKeeps ==
  ASSUME LeaseInv, NEW m \in net, Lose(m)
  PROVE  LeaseInv'
BY DEF Lose, LeaseInv, TypeOK, ClockOrder, DeadlinesHeld, AnswersHeld,
       Joining, Held

LEMMA AdvanceKeeps == LeaseInv /\ Advance => LeaseInv'
<1> SUFFICES ASSUME LeaseInv, Advance PROVE LeaseInv'
  OBVIOUS
<1>1. /\ now \in Nat
      /\ now' = now + 1
      /\ now' \in Nat
      /\ now <= now'
      /\ server.last \in Nat
      /\ UNCHANGED <<server, agent, net, past>>
  BY DEF Advance, LeaseInv, TypeOK, ServerRecord
<1>2. TypeOK' /\ Joining'
  BY <1>1 DEF LeaseInv, TypeOK, Joining
<1>3. ClockOrder'
  BY <1>1 DEF LeaseInv, TypeOK, ClockOrder, Message
<1>4. DeadlinesHeld'
  <2> SUFFICES ASSUME NEW s \in Sessions,
                      agent[s].phase \in {"cleaning", "ready"}
               PROVE  Held(s, agent[s].deadline)'
    BY <1>1 DEF DeadlinesHeld
  <2>1. agent[s].deadline \in Nat /\ Held(s, agent[s].deadline)
    BY DEF LeaseInv, TypeOK, AgentRecord, DeadlinesHeld
  <2>2. \A d \in Nat : Held(s, d) => Held(s, d)'
    BY <1>1, TimeKeepsHeld
  <2> QED
    BY <1>1, <2>1, <2>2 DEF Held
<1>5. AnswersHeld'
  <2> SUFFICES ASSUME NEW m \in net, m.type = "answer", m.ok
               PROVE  Held(m.from, m.at + AgentTTL)'
    BY <1>1 DEF AnswersHeld
  <2>1. m.from \in Sessions /\ m.at + AgentTTL \in Nat
    BY LeaseAssumption DEF LeaseInv, TypeOK, Message
  <2> QED
    BY <1>1, <2>1, TimeKeepsHeld DEF LeaseInv, AnswersHeld
<1> QED
  BY <1>2, <1>3, <1>4, <1>5 DEF LeaseInv

LEMMA LeaseInductive == LeaseInv /\ [Next]_vars => LeaseInv'
<1> SUFFICES ASSUME LeaseInv, [Next]_vars PROVE LeaseInv'
  OBVIOUS
<1>1. ASSUME NEW s \in Sessions, Register(s) PROVE LeaseInv'
  BY <1>1, RegisterKeeps
<1>2. ASSUME NEW s \in Sessions, Confirm(s) \/ Beat(s) PROVE LeaseInv'
  BY <1>2, AskKeeps DEF Confirm, Beat, Request
<1>3. ASSUME NEW s \in Sessions, GiveUp(s) \/ Stop(s) PROVE LeaseInv'
  BY <1>3, EndKeeps
<1>4. ASSUME NEW m \in net, Answered(m) PROVE LeaseInv'
  BY <1>4, AnsweredKeeps
<1>5. ASSUME NEW m \in net, Receive(m) PROVE LeaseInv'
  BY <1>5, ReceiveKeeps
<1>6. ASSUME NEW m \in net, Lose(m) PROVE LeaseInv'
  BY <1>6, LoseKeeps
<1>7. CASE UNCHANGED vars
  BY <1>7 DEF vars, LeaseInv, TypeOK, ClockOrder, DeadlinesHeld, AnswersHeld,
              Joining, Held
<1> QED
  BY <1>1, <1>2, <1>3, <1>4, <1>5, <1>6, <1>7, FenceKeeps, AdvanceKeeps DEF Next

LEMMA LeaseInvProtects == LeaseInv => LeaseProtected
<1> SUFFICES ASSUME LeaseInv, NEW s \in Sessions, Live(s)
             PROVE  server.session = s /\ ~Stale
  BY DEF LeaseProtected
<1>1. /\ Held(s, agent[s].deadline)
      /\ now < agent[s].deadline
      /\ agent[s].deadline \in Nat
      /\ now \in Nat
      /\ server.last \in Nat
  BY DEF Live, LeaseInv, TypeOK, AgentRecord, ServerRecord, DeadlinesHeld
<1> QED
  BY <1>1, LeaseAssumption DEF Held, Stale

(* Whatever the TTLs, the delays and the losses: while an agent's own      *)
(* lease lasts, the node is its.                                           *)
THEOREM LeaseIsProtected == Spec => []LeaseProtected
<1>1. Spec => []LeaseInv
  BY InitLease, LeaseInductive, PTL DEF Spec
<1> QED
  BY <1>1, LeaseInvProtects, PTL

----------------------------------------------------------------------------
(* A session registers with one request; until the server has processed it *)
(* the session was never the node's, and afterwards there is no other.     *)

Registrations == {m \in net : m.kind = "register"}

Unregistered(s) == s \notin past /\ server.session # s

RegisteredOnce ==
  /\ \A s \in Sessions : agent[s].phase = "new" =>
       /\ Unregistered(s)
       /\ \A m \in Registrations : m.from # s
  /\ \A m \in Registrations : m.type = "request" => Unregistered(m.from)
  /\ \A m, k \in Registrations : m.from = k.from => m = k

RevivalInv == LeaseInv /\ RegisteredOnce /\ NeverRevived

LEMMA RegisterOnce ==
  ASSUME RevivalInv, NEW s \in Sessions, Register(s)
  PROVE  RegisteredOnce' /\ NeverRevived'
<1> DEFINE m == [type |-> "request", kind |-> "register", from |-> s,
                 at |-> now, ok |-> TRUE]
<1>1. net' = net \cup {m} /\ UNCHANGED <<server, past>>
  BY DEF Register, Send
<1>2. m.kind = "register" /\ m.from = s
  OBVIOUS
<1> HIDE DEF m
<1>3. Registrations' = Registrations \cup {m}
  BY <1>1, <1>2 DEF Registrations
<1>4. Unregistered(s) /\ \A k \in Registrations : k.from # s
  BY DEF Register, RevivalInv, RegisteredOnce
<1>5. /\ agent'[s].phase = "joining"
      /\ \A t \in Sessions \ {s} : agent'[t] = agent[t]
  BY DEF Register, RevivalInv, LeaseInv, TypeOK
<1>6. \A t : Unregistered(t)' <=> Unregistered(t)
  BY <1>1 DEF Unregistered
<1>7. RegisteredOnce'
  BY <1>2, <1>3, <1>4, <1>5, <1>6 DEF RevivalInv, RegisteredOnce
<1> QED
  BY <1>1, <1>7 DEF RevivalInv, NeverRevived

(* A step that registers nothing new and leaves the server alone.          *)
LEMMA QuietOnce ==
  ASSUME RevivalInv, UNCHANGED <<server, past>>,
         Registrations' \subseteq Registrations,
         \A s \in Sessions : agent'[s].phase = "new" => agent[s].phase = "new"
  PROVE  RegisteredOnce' /\ NeverRevived'
<1>1. \A t : Unregistered(t)' <=> Unregistered(t)
  BY DEF Unregistered
<1>2. RegisteredOnce'
  BY <1>1 DEF RevivalInv, RegisteredOnce
<1> QED
  BY <1>2 DEF RevivalInv, NeverRevived

(* The server takes the node from whoever has it, or gives it to the       *)
(* sender of the one registration it processes.                            *)
LEMMA ReceiveOnce ==
  ASSUME RevivalInv, NEW m \in net, NEW ok \in BOOLEAN, Reply(m, ok),
         m.type = "request", UNCHANGED agent,
         past' \subseteq past \cup ({server.session} \ {NoSession, server'.session}),
         \/ server'.session = server.session
         \/ server'.session = NoSession
         \/ m.kind = "register" /\ server'.session = m.from
  PROVE  RegisteredOnce' /\ NeverRevived'
<1> DEFINE a == [m EXCEPT !.type = "answer", !.ok = ok]
<1>1. m \in Message
  BY DEF RevivalInv, LeaseInv, TypeOK
<1>2. a.type = "answer" /\ a.kind = m.kind /\ a.from = m.from
  BY <1>1 DEF Message
<1>3. net' = (net \ {m}) \cup {a}
  BY DEF Reply
<1> HIDE DEF a
<1>4. m.from \in Sessions /\ NoSession \notin Sessions /\ past \subseteq Sessions
  BY <1>1, LeaseAssumption DEF Message, RevivalInv, LeaseInv, TypeOK
<1>5. NeverRevived'
  <2>1. CASE server'.session = m.from /\ m.kind = "register"
    <3>1. m.from \notin past
      BY <2>1 DEF RevivalInv, RegisteredOnce, Registrations, Unregistered
    <3> QED
      BY <2>1, <3>1 DEF NeverRevived
  <2>2. CASE server'.session = NoSession
    BY <1>4, <2>2 DEF NeverRevived
  <2>3. CASE server'.session = server.session
    BY <2>3 DEF RevivalInv, NeverRevived
  <2> QED
    BY <2>1, <2>2, <2>3
<1>6. ASSUME NEW s \in Sessions, Unregistered(s),
             m.kind = "register" => m.from # s
      PROVE  Unregistered(s)'
  BY <1>4, <1>6 DEF Unregistered
<1>7. \A k \in Registrations' :
        \/ k \in Registrations /\ k # m
        \/ m \in Registrations /\ k = a
  BY <1>2, <1>3 DEF Registrations
<1>8. ASSUME NEW k \in Registrations', k.type = "request"
      PROVE  Unregistered(k.from)'
  <2>1. k \in Registrations /\ k # m
    BY <1>2, <1>7, <1>8
  <2>2. k.from \in Sessions
    BY <2>1 DEF Registrations, RevivalInv, LeaseInv, TypeOK, Message
  <2>3. Unregistered(k.from)
    BY <1>8, <2>1 DEF RevivalInv, RegisteredOnce
  <2>4. m.kind = "register" => m.from # k.from
    BY <2>1 DEF RevivalInv, RegisteredOnce, Registrations
  <2> QED
    BY <1>6, <2>2, <2>3, <2>4
<1>9. ASSUME NEW s \in Sessions, agent'[s].phase = "new"
      PROVE  Unregistered(s)' /\ \A k \in Registrations' : k.from # s
  <2>1. Unregistered(s) /\ \A k \in Registrations : k.from # s
    BY <1>9 DEF RevivalInv, RegisteredOnce
  <2>2. m.kind = "register" => m.from # s
    BY <2>1 DEF Registrations
  <2>3. Unregistered(s)'
    BY <1>6, <2>1, <2>2
  <2> QED
    BY <1>2, <1>7, <2>1, <2>3
<1>10. ASSUME NEW k \in Registrations', NEW l \in Registrations', k.from = l.from
       PROVE  k = l
  BY <1>2, <1>7, <1>10 DEF RevivalInv, RegisteredOnce
<1> QED
  BY <1>5, <1>8, <1>9, <1>10 DEF RegisteredOnce

LEMMA RevivalInductive == RevivalInv /\ [Next]_vars => RevivalInv'
<1> SUFFICES ASSUME RevivalInv, [Next]_vars
             PROVE  RegisteredOnce' /\ NeverRevived'
  BY LeaseInductive DEF RevivalInv
<1>1. ASSUME NEW s \in Sessions, Register(s)
      PROVE  RegisteredOnce' /\ NeverRevived'
  BY <1>1, RegisterOnce
<1>2. ASSUME NEW s \in Sessions, Confirm(s) \/ Beat(s)
      PROVE  RegisteredOnce' /\ NeverRevived'
  <2>1. /\ UNCHANGED <<server, past>>
        /\ \A t \in Sessions : agent'[t].phase = agent[t].phase
    BY <1>2 DEF Confirm, Beat, Ask, RevivalInv, LeaseInv, TypeOK, AgentRecord
  <2>2. Registrations' \subseteq Registrations
    BY <1>2 DEF Confirm, Beat, Ask, Send, Registrations
  <2> QED
    BY <2>1, <2>2, QuietOnce
<1>3. ASSUME NEW s \in Sessions, GiveUp(s) \/ Stop(s)
      PROVE  RegisteredOnce' /\ NeverRevived'
  <2>1. /\ UNCHANGED <<server, past, net>>
        /\ \A t \in Sessions : agent'[t].phase \in {agent[t].phase, "over"}
    BY <1>3 DEF GiveUp, Stop, RevivalInv, LeaseInv, TypeOK, AgentRecord
  <2> QED
    BY <2>1, QuietOnce DEF Registrations
<1>4. ASSUME NEW m \in net, Answered(m)
      PROVE  RegisteredOnce' /\ NeverRevived'
  <2>1. UNCHANGED <<server, past>> /\ net' \subseteq net
    BY <1>4 DEF Answered
  <2>2. \A t \in Sessions : agent'[t].phase = "new" => agent[t].phase = "new"
    <3>1. CASE UNCHANGED agent
      BY <3>1
    <3>2. CASE ~UNCHANGED agent
      <4>1. /\ \A t \in Sessions \ {m.from} : agent'[t] = agent[t]
            /\ m.from \in Sessions => agent'[m.from].phase # "new"
        BY <1>4, <3>2 DEF Answered, RevivalInv, LeaseInv, TypeOK
      <4> QED
        BY <4>1
    <3> QED
      BY <3>1, <3>2
  <2> QED
    BY <2>1, <2>2, QuietOnce DEF Registrations
<1>5. ASSUME NEW m \in net, Receive(m)
      PROVE  RegisteredOnce' /\ NeverRevived'
  <2>1. m.type = "request" /\ UNCHANGED agent
    BY <1>5 DEF Receive
  <2>2. CASE ReceiveRegister(m)
    <3>1. CASE Reply(m, FALSE) /\ UNCHANGED <<server, past>>
      BY <2>1, <3>1, ReceiveOnce
    <3>2. CASE /\ Reply(m, TRUE)
               /\ server' = [session |-> m.from, cleanup |-> TRUE, last |-> now]
               /\ past' = past \cup ({server.session} \ {NoSession, m.from})
      <4>1. server'.session = m.from /\ m.kind = "register"
        BY <2>2, <3>2 DEF ReceiveRegister
      <4>2. past' \subseteq past \cup ({server.session} \ {NoSession, server'.session})
        BY <3>2, <4>1
      <4> QED
        BY <2>1, <3>2, <4>1, <4>2, ReceiveOnce
    <3> QED
      BY <2>2, <3>1, <3>2 DEF ReceiveRegister
  <2>3. CASE ReceiveAsk(m)
    <3>1. \/ Reply(m, FALSE) /\ server' = Fenced /\ Lost
          \/ Reply(m, FALSE) /\ UNCHANGED <<server, past>>
          \/ /\ Reply(m, TRUE)
             /\ server' = [server EXCEPT !.cleanup = FALSE, !.last = now]
             /\ UNCHANGED past
      BY <2>3 DEF ReceiveAsk
    <3>2. server \in ServerRecord
      BY DEF RevivalInv, LeaseInv, TypeOK
    <3>3. \/ server'.session = server.session /\ past' = past
          \/ server'.session = NoSession /\ Lost
      BY <3>1, <3>2 DEF Fenced, ServerRecord
    <3>4. past' \subseteq past \cup ({server.session} \ {NoSession, server'.session})
      BY <3>3 DEF Lost
    <3> QED
      BY <2>1, <3>1, <3>3, <3>4, ReceiveOnce
  <2> QED
    BY <1>5, <2>2, <2>3 DEF Receive
<1>6. ASSUME NEW m \in net, Lose(m)
      PROVE  RegisteredOnce' /\ NeverRevived'
  BY <1>6, QuietOnce DEF Lose, Registrations
<1>7. CASE Fence
  <2>1. server'.session = NoSession /\ UNCHANGED <<agent, net>> /\ Lost
    BY <1>7 DEF Fence, Fenced, RevivalInv, LeaseInv, TypeOK, ServerRecord
  <2>2. past' = past \cup ({server.session} \ {NoSession})
    BY <2>1 DEF Lost
  <2>3. \A s \in Sessions : Unregistered(s) => Unregistered(s)'
    BY <2>1, <2>2, LeaseAssumption DEF Unregistered
  <2>4. \A m \in Registrations : m.from \in Sessions
    BY DEF Registrations, RevivalInv, LeaseInv, TypeOK, Message
  <2>5. Registrations' = Registrations
    BY <2>1 DEF Registrations
  <2>6. RegisteredOnce'
    BY <2>1, <2>3, <2>4, <2>5 DEF RevivalInv, RegisteredOnce
  <2>7. NeverRevived'
    BY <2>1, <2>2, LeaseAssumption
       DEF NeverRevived, RevivalInv, LeaseInv, TypeOK
  <2> QED
    BY <2>6, <2>7
<1>8. CASE Advance
  BY <1>8, QuietOnce DEF Advance, Registrations
<1>9. CASE UNCHANGED vars
  BY <1>9, QuietOnce DEF vars, Registrations
<1> QED
  BY <1>1, <1>2, <1>3, <1>4, <1>5, <1>6, <1>7, <1>8, <1>9 DEF Next

(* A session that lost its node, by a fence or to another session, never   *)
(* has it again.                                                           *)
THEOREM SessionsNeverRevived == Spec => []NeverRevived
<1>1. Init => RevivalInv
  <2> SUFFICES ASSUME Init PROVE RegisteredOnce /\ NeverRevived
    BY InitLease DEF RevivalInv
  <2> QED
    BY LeaseAssumption
       DEF Init, RegisteredOnce, Registrations, Unregistered, NeverRevived
<1>2. RevivalInv => NeverRevived
  BY DEF RevivalInv
<1> QED
  BY <1>1, <1>2, RevivalInductive, PTL DEF Spec
=============================================================================
