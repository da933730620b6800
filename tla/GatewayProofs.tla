------------------------------ MODULE GatewayProofs ------------------------------
(***************************************************************************)
(* Theorems about Gateway, for every set of servers, tools, lines and      *)
(* responses, every ceiling and every pair of decay thresholds.            *)
(*                                                                         *)
(* The inductive invariant ties four records of one session to each other: *)
(* the lines read, the replies written, the audit log, and what tracker    *)
(* and connections remember.  It says what the log still owes the next     *)
(* record (the rule ids no approved call has taken), which state it        *)
(* explains, how many timeouts of each server it holds, and which of the   *)
(* lines read have their reply and their evaluation.                       *)
(***************************************************************************)
EXTENDS Gateway, SequenceTheorems, FiniteSetTheorems, TLAPS

(* The positions of Append(s, e) are those of s and one more.               *)
LEMMA AppendDomain ==
    ASSUME NEW S, NEW s \in Seq(S), NEW e \in S
    PROVE  /\ Append(s, e) \in Seq(S)
           /\ Len(s) \in Nat /\ Len(Append(s, e)) = Len(s) + 1
           /\ DOMAIN s = 1..Len(s)
           /\ DOMAIN Append(s, e) = 1..Len(s)+1
           /\ \A i \in 1..Len(s) : Append(s, e)[i] = s[i] /\ s[i] \in S
           /\ Append(s, e)[Len(s)+1] = e
<1>1. /\ Append(s, e) \in Seq(S) /\ Len(Append(s, e)) = Len(s) + 1
      /\ \A i \in 1..Len(s) : Append(s, e)[i] = s[i]
      /\ Append(s, e)[Len(s)+1] = e
  BY AppendProperties
<1>2. Len(s) \in Nat /\ DOMAIN s = 1..Len(s) /\ \A i \in 1..Len(s) : s[i] \in S
  BY LenProperties, ElementOfSeq
<1>3. DOMAIN Append(s, e) = 1..Len(s)+1
  BY <1>1, LenProperties
<1> QED
  BY <1>1, <1>2, <1>3

(* A set of positions of a history is finite, and counts no more than it.   *)
LEMMA CountBound ==
    ASSUME NEW n \in Nat, NEW P, P \subseteq 1..n
    PROVE  /\ IsFiniteSet(P) /\ Cardinality(P) \in Nat /\ Cardinality(P) <= n
           /\ n + 1 \notin P
<1>1. IsFiniteSet(1..n) /\ Cardinality(1..n) = n
  BY FS_Interval
<1>2. IsFiniteSet(P) /\ Cardinality(P) <= n
  BY <1>1, FS_Subset
<1> QED
  BY <1>2, FS_CardinalityType

(* One more position.                                                       *)
LEMMA CountAppend ==
    ASSUME NEW n \in Nat, NEW P, P \subseteq 1..n
    PROVE  Cardinality(P \cup {n + 1}) = Cardinality(P) + 1
  BY CountBound, FS_AddElement

(* Of two positions the earlier is not the new one.                         *)
LEMMA PairsAppend ==
    ASSUME NEW n \in Nat
    PROVE  \A i, j \in 1..n+1 : i < j => i \in 1..n /\ (j \in 1..n \/ j = n+1)
  OBVIOUS

USE DEF Clean, Elevated, Contaminated, Poisoned, ProvenanceState,
        LowRisk, MediumRisk, HighRisk, CriticalRisk, RiskClass

AllIds == UNION {rule_ids(r.hits) : r \in Responses}

LineRecord == [kind : LineKind, id : Nat, tool : Tools \cup {NoParams}]

TrackerRecord == [current_state : ProvenanceState, clean_calls : Nat,
                  poisoner : Servers \cup {NoServer}, rule_ids : SUBSET AllIds]

HealthRecord == [consecutive_timeouts : Nat, degraded : BOOLEAN]

ReplyCode == RejectionCode \cup
    {"result", "result with advisory", "Method not found", "Missing params", "UnknownTool",
     "ToolQuarantinedPinMismatch", "ToolExcludedNameCollision",
     "DownstreamConnectionDegraded", "DownstreamTimeout", "ExecutionFailed"}

ReplyRecord == [line : Nat, id : Nat, tool : Tools \cup {NoParams}, code : ReplyCode]

LogRecord == [event : {"evaluation", "advisory_injection", "downstream_timeout"},
              line : Nat, tool : Tools \cup {NoParams}, state : ProvenanceState,
              ids : SUBSET AllIds, verdict : Verdict \cup {"none"}, bp_consumed : Nat]

Types ==
    /\ sent \in Seq(LineRecord) /\ closed \in BOOLEAN
    /\ read \in 0..Len(sent)
    /\ phase \in {"listening", "forwarding", "stopped"}
    /\ tracker \in TrackerRecord
    /\ health \in [Servers -> HealthRecord]
    /\ replies \in Seq(ReplyRecord) /\ log \in Seq(LogRecord)

(* What the agent sends names a tool only in a call.                        *)
Sendable ==
    \A n \in DOMAIN sent : sent[n].kind # "tools/call" => sent[n].tool = NoParams

(* The session has the budget it started with, or what an approval left.    *)
Balance ==
    /\ agent_bp \in Nat /\ agent_bp >= SESSION_INIT_BP
    /\ agent_bp = SESSION_INIT_BP \/ agent_bp < MaxSessionRiskBp

Out == phase = "forwarding"

(* The call that is out is the last line read, and its approval the last    *)
(* record.                                                                  *)
OutIsApproved ==
    Out => /\ read \in DOMAIN sent /\ sent[read].kind = "tools/call"
           /\ Len(log) > 0 /\ Approval(log[Len(log)]) /\ log[Len(log)].line = read

-----------------------------------------------------------------------------
(* A session that a logged escalation poisoned is Poisoned.                 *)
PoisonSticks ==
    \A i \in DOMAIN log :
        Advisory(log[i]) /\ log[i].state = Poisoned => tracker.current_state = Poisoned

(* A state worse than that of an evaluation has an escalation after it.     *)
StateIsLogged ==
    \A i \in DOMAIN log : Evaluation(log[i]) /\ tracker.current_state > log[i].state =>
        \E k \in i+1..Len(log) : Advisory(log[k]) /\ log[k].state >= tracker.current_state

(* The tracker holds the ids of the escalations no approved call has taken. *)
NotTaken ==
    {i \in DOMAIN log : Advisory(log[i]) /\ \A k \in i+1..Len(log) : ~Approval(log[k])}

IdsAreHeld == tracker.rule_ids = UNION {log[i].ids : i \in NotTaken}

Story ==
    /\ PoisonSticks /\ StateIsLogged /\ IdsAreHeld
    /\ PoisonStopsEveryServer /\ EscalationsAreLogged /\ RulesAreAttributedOnce

-----------------------------------------------------------------------------
(* A connection's streak is on record, and a degraded one has its two.      *)
TimeoutsOf(s) ==
    {k \in DOMAIN log : log[k].event = "downstream_timeout" /\ tool_owner[log[k].tool] = s}

HealthIsOnRecord ==
    \A s \in Servers :
        /\ health[s].consecutive_timeouts <= Cardinality(TimeoutsOf(s))
        /\ health[s].degraded =>
             CONSECUTIVE_TIMEOUTS_TO_DEGRADE <= Cardinality(TimeoutsOf(s))

-----------------------------------------------------------------------------
(* Replies and records are about lines read; the call that is out is the    *)
(* one line read that asked for a reply and has none.                       *)
Labels ==
    /\ \A i \in DOMAIN replies :
         LET n == replies[i].line IN
         /\ n \in 1..read /\ Answered(sent[n]) /\ ~(Out /\ n = read)
         /\ replies[i].id = sent[n].id /\ replies[i].tool = sent[n].tool
    /\ \A j \in DOMAIN log :
         LET n == log[j].line IN
         /\ n \in 1..read /\ log[j].tool = sent[n].tool
         /\ log[j].tool \in DOMAIN tool_owner

Served ==
    \A n \in 1..read : Answered(sent[n]) /\ ~(Out /\ n = read) =>
        \E i \in DOMAIN replies : replies[i].line = n

Kept == Len(replies) <= read /\ (Out => Len(replies) < read)

IInv ==
    /\ Types /\ Sendable /\ Balance /\ OutIsApproved
    /\ Story
    /\ HealthIsOnRecord /\ OwnTimeoutsOnly
    /\ Labels /\ Served /\ Kept /\ AuditMatchesReplies

-----------------------------------------------------------------------------
USE DEF Clean, Elevated, Contaminated, Poisoned, ProvenanceState

(* What a result justifies is a state, whatever the server sent.            *)
LEMMA NewStateType ==
    ASSUME NEW r, NEW s, NEW state \in ProvenanceState
    PROVE  NewState(r, s, state) \in ProvenanceState
<1> DEFINE sig == classify_response(r.payload)
           structural == compute_new_state(Grade[s], sig.form, r.conformance, sig.bytes, sig.long)
           hit == state_from_rule_hits(r.hits, state)
<1>1. structural \in ProvenanceState
  BY DEF compute_new_state
<1>2. hit \in ProvenanceState
  BY DEF state_from_rule_hits
<1>3. NewState(r, s, state) = MaxState(structural, hit)
  BY DEF NewState
<1> HIDE DEF structural, hit
<1> QED
  BY <1>1, <1>2, <1>3 DEF MaxState

(* What one response does to the tracker: it escalates, to the state and    *)
(* the ids of the response, or leaves the ids alone and the state no worse; *)
(* Poisoned stays.                                                          *)
LEMMA Absorbing ==
    ASSUME NEW t \in TrackerRecord, NEW new \in ProvenanceState,
           NEW s \in Servers, NEW ids \in SUBSET AllIds
    PROVE  LET after == AbsorbResponse(t, new, s, ids) IN
           /\ after \in TrackerRecord
           /\ after.current_state > t.current_state => after.rule_ids = ids
           /\ after.current_state <= t.current_state => after.rule_ids = t.rule_ids
           /\ t.current_state = Poisoned => after.current_state = Poisoned
<1> DEFINE mid == record_response_outcome(t, new)
           after == AbsorbResponse(t, new, s, ids)
<1>1. /\ t.current_state \in ProvenanceState /\ t.clean_calls \in Nat
      /\ t.poisoner \in Servers \cup {NoServer} /\ t.rule_ids \in SUBSET AllIds
  BY DEF TrackerRecord
<1>2. /\ mid \in TrackerRecord /\ mid.rule_ids = t.rule_ids
      /\ \/ mid.current_state = t.current_state
         \/ /\ mid.current_state = t.current_state - 1 /\ new <= mid.current_state
            /\ t.current_state # Poisoned
  <2>1. CASE t.current_state \notin {Elevated, Contaminated}
    BY <2>1 DEF record_response_outcome
  <2>2. CASE t.current_state \in {Elevated, Contaminated} /\ new > t.current_state - 1
    <3>1. mid = [t EXCEPT !.clean_calls = 0]
      BY <2>2 DEF record_response_outcome
    <3> QED
      BY <1>1, <3>1 DEF TrackerRecord
  <2>3. CASE t.current_state \in {Elevated, Contaminated} /\ ~(new > t.current_state - 1)
    <3>1. \/ mid = [t EXCEPT !.current_state = t.current_state - 1, !.clean_calls = 0]
          \/ mid = [t EXCEPT !.clean_calls = t.clean_calls + 1]
      BY <2>3 DEF record_response_outcome
    <3>2. /\ t.current_state - 1 \in ProvenanceState /\ t.clean_calls + 1 \in Nat
          /\ new <= t.current_state - 1
      BY <1>1, <2>3
    <3> HIDE DEF mid
    <3>3. CASE mid = [t EXCEPT !.current_state = t.current_state - 1, !.clean_calls = 0]
      <4>1. /\ mid \in TrackerRecord /\ mid.rule_ids = t.rule_ids
            /\ mid.current_state = t.current_state - 1
        BY <1>1, <3>2, <3>3 DEF TrackerRecord
      <4> QED
        BY <2>3, <3>2, <4>1
    <3>4. CASE mid = [t EXCEPT !.clean_calls = t.clean_calls + 1]
      BY <1>1, <3>2, <3>4 DEF TrackerRecord
    <3> QED
      BY <3>1, <3>3, <3>4
  <2> QED
    BY <2>1, <2>2, <2>3
<1>3. after = ingest_signature(mid, new, s, ids)
  BY DEF AbsorbResponse
<1> HIDE DEF mid, after
<1>4. CASE new > mid.current_state
  <2>1. after = [mid EXCEPT !.current_state = new, !.rule_ids = ids,
                            !.poisoner = IF new = Poisoned THEN s ELSE @]
    BY <1>3, <1>4 DEF ingest_signature
  <2> DEFINE who == IF new = Poisoned THEN s ELSE mid.poisoner
  <2>2. who \in Servers \cup {NoServer}
    BY <1>2 DEF TrackerRecord
  <2>3. after = [mid EXCEPT !.current_state = new, !.rule_ids = ids, !.poisoner = who]
    BY <2>1
  <2> HIDE DEF who
  <2>4. after \in TrackerRecord /\ after.current_state = new /\ after.rule_ids = ids
    BY <1>2, <2>2, <2>3 DEF TrackerRecord
  <2> QED
    BY <1>1, <1>2, <1>4, <2>4 DEF after
<1>5. CASE ~(new > mid.current_state)
  <2>1. after = mid
    BY <1>3, <1>5 DEF ingest_signature
  <2> QED
    BY <1>1, <1>2, <1>5, <2>1 DEF after
<1> QED
  BY <1>4, <1>5

(* The proposal of a tool that can be called is one the gate takes.         *)
LEMMA ProposalType ==
    ASSUME NEW tool \in DOMAIN tool_owner
    PROVE  /\ tool \in Tools /\ tool_owner[tool] \in Servers
           /\ ProposalOf(tool) \in Proposal
<1>1. tool \in Tools /\ tool_owner[tool] \in Servers
  BY GatewayAssumption
<1>2. /\ Entry[tool].risk \in RiskClass /\ Entry[tool].authority \in AuthoritySource
      /\ Entry[tool].tagged \in BOOLEAN /\ Grade[tool_owner[tool]] \in SourceGrade
  BY <1>1, GatewayAssumption
<1> QED
  BY <1>1, <1>2 DEF ProposalOf, Proposal

(* The verdict is a rejection code or an approval, and a poisoned session   *)
(* gets the one for poisoning.                                              *)
LEMMA VerdictType ==
    ASSUME NEW tool
    PROVE  /\ VerdictOn(tool) \in RejectionCode \cup {"Approved"}
           /\ tracker.current_state = Poisoned =>
                VerdictOn(tool) = "InboundPoisoningDetected"
<1> DEFINE p == ProposalOf(tool)
           modulated == modulate_risk_class(p.risk, tracker.current_state, p.tagged)
<1>1. modulated \in {"InboundPoisoningDetected", "CriticalBlockedByProvenance", "Ok"}
  BY DEF modulate_risk_class
<1>2. tracker.current_state = Poisoned => modulated = "InboundPoisoningDetected"
  BY DEF modulate_risk_class
<1> HIDE DEF modulated
<1> QED
  BY <1>1, <1>2 DEF VerdictOn, VerdictOf, modulated, RejectionCode

(* What the gate charges: nothing for Low and something otherwise; at most  *)
(* the dearest call, unless it is Critical in a Contaminated session.       *)
LEMMA Price ==
    ASSUME NEW r \in RiskClass, NEW s \in ProvenanceState, NEW g \in SourceGrade
    PROVE  /\ contribution_bp(r, s, g) \in Nat
           /\ (r = CriticalRisk => s # Contaminated) => contribution_bp(r, s, g) <= DearestCall
           /\ contribution_bp(r, s, g) = 0 <=> r = LowRisk
<1>1. /\ base_bp(r) \in {0, 800, 2000, 4000} /\ (base_bp(r) = 0 <=> r = LowRisk)
      /\ base_bp(r) = 4000 => r = CriticalRisk
  BY DEF base_bp
<1> DEFINE inner == Surcharge(external_content_influence(s), base_bp(r), 135)
<1>2. inner \in {base_bp(r), (base_bp(r) * 135) \div 100}
  BY DEF Surcharge
<1>4. s # Contaminated => inner = base_bp(r)
  BY DEF Surcharge, external_content_influence
<1>3. contribution_bp(r, s, g) \in {inner, (inner * 150) \div 100}
  BY DEF contribution_bp, Surcharge
<1> HIDE DEF inner
<1> QED
  BY <1>1, <1>2, <1>3, <1>4 DEF DearestCall

(* An approval means that the price keeps a balance below the ceiling, or   *)
(* that the call is Low and free.                                           *)
LEMMA ApprovalMeans ==
    ASSUME NEW p \in Proposal, NEW s \in ProvenanceState, NEW bp \in Nat,
           VerdictOf(p, s, bp) = "Approved",
           effective_risk(p.risk, s, p.tagged) # LowRisk
    PROVE  /\ effective_risk(p.risk, s, p.tagged) = CriticalRisk => s = Clean
           /\ ~(AddU32(bp, contribution_bp(effective_risk(p.risk, s, p.tagged), s, p.grade))
                    >= MaxSessionRiskBp)
<1> DEFINE e == effective_risk(p.risk, s, p.tagged)
           cost == contribution_bp(e, s, p.grade)
<1> HIDE DEF e, cost
<1> QED
  BY DEF VerdictOf, modulate_risk_class, e, cost

(* An approval leaves the balance where the next call does not wrap.        *)
LEMMA Charging ==
    ASSUME NoWrap, Balance, NEW state \in ProvenanceState, NEW p \in Proposal,
           VerdictOf(p, state, agent_bp) = "Approved",
           NEW cost, cost = contribution_bp(effective_risk(p.risk, state, p.tagged), state, p.grade),
           agent_bp' = AddU32(agent_bp, cost)
    PROVE  cost \in Nat /\ Balance'
<1> DEFINE e == effective_risk(p.risk, state, p.tagged)
<1>1. p.risk \in RiskClass /\ p.grade \in SourceGrade
  BY DEF Proposal
<1>2. e \in RiskClass
  BY <1>1 DEF effective_risk, AfterState, AfterTag
<1>3. /\ cost \in Nat /\ (cost = 0 <=> e = LowRisk)
      /\ (e = CriticalRisk => state # Contaminated) => cost <= DearestCall
  BY <1>1, <1>2, Price
<1>4. agent_bp \in Nat /\ agent_bp + DearestCall < U32
  BY BudgetAssumption DEF Balance, NoWrap, DearestCall
<1>5. e # LowRisk => /\ e = CriticalRisk => state = Clean
                     /\ ~(AddU32(agent_bp, cost) >= MaxSessionRiskBp)
  BY <1>4, ApprovalMeans
<1>5a. cost <= DearestCall
  BY <1>3, <1>5
<1> HIDE DEF e
<1>6. cost \in Nat /\ agent_bp + cost < U32
  <2>1. U32 \in Nat /\ DearestCall \in Nat
    BY BudgetAssumption DEF DearestCall
  <2> QED
    BY ONLY <1>3, <1>4, <1>5a, <2>1
<1>7. agent_bp' = agent_bp + cost
  BY <1>4, <1>6, BudgetAssumption DEF AddU32
<1> QED
  BY <1>3, <1>4, <1>5, <1>6, <1>7, BudgetAssumption DEF Balance, AddU32

-----------------------------------------------------------------------------
(* What one more record leaves of the log.                                  *)
LEMMA LogGrows ==
    ASSUME Types, NEW e \in LogRecord, log' = Append(log, e)
    PROVE  /\ log' \in Seq(LogRecord)
           /\ Len(log) \in Nat /\ Len(log') = Len(log) + 1
           /\ DOMAIN log = 1..Len(log) /\ DOMAIN log' = 1..Len(log)+1
           /\ \A i \in 1..Len(log) : log'[i] = log[i] /\ log[i] \in LogRecord
           /\ log'[Len(log)+1] = e
  BY AppendDomain DEF Types

(* No record, and a tracker that is no worse and holds the same ids.        *)
LEMMA StoryKeeps ==
    ASSUME Types, Story, log' = log, tracker'.current_state \in ProvenanceState,
           tracker'.rule_ids = tracker.rule_ids,
           tracker'.current_state <= tracker.current_state,
           tracker.current_state = Poisoned => tracker'.current_state = Poisoned
    PROVE  Story'
<1>1. tracker.current_state \in ProvenanceState /\ Len(log) \in Nat /\ DOMAIN log = 1..Len(log)
  BY LenProperties DEF Types, TrackerRecord
<1>2. \A i \in DOMAIN log : log[i].state \in ProvenanceState
  <2>1. log \in Seq(LogRecord)
    BY DEF Types
  <2>2. \A i \in 1..Len(log) : log[i] \in LogRecord
    BY <2>1, ElementOfSeq
  <2> QED
    BY <1>1, <2>2 DEF LogRecord
<1>3. PoisonSticks'
  BY DEF Story, PoisonSticks, Advisory
<1>4. StateIsLogged'
  <2> SUFFICES ASSUME NEW i \in DOMAIN log, Evaluation(log[i]),
                      tracker'.current_state > log[i].state
               PROVE  \E k \in i+1..Len(log) :
                        Advisory(log[k]) /\ log[k].state >= tracker'.current_state
    BY DEF StateIsLogged, Evaluation, Advisory
  <2>1. PICK k \in i+1..Len(log) :
          Advisory(log[k]) /\ log[k].state >= tracker.current_state
    BY <1>1, <1>2 DEF Story, StateIsLogged
  <2>2. k \in DOMAIN log
    BY <1>1
  <2> QED
    BY <1>1, <1>2, <2>1, <2>2
<1>5. IdsAreHeld'
  BY DEF Story, IdsAreHeld, NotTaken, Advisory, Approval, Evaluation
<1>6. (PoisonStopsEveryServer /\ EscalationsAreLogged /\ RulesAreAttributedOnce)'
  BY DEF Story, PoisonStopsEveryServer, EscalationsAreLogged, RulesAreAttributedOnce,
         Owed, Advisory, Approval, Evaluation
<1> QED
  BY <1>3, <1>4, <1>5, <1>6 DEF Story

(* One more record of any kind leaves what an earlier call was owed.        *)
LEMMA OwedBefore ==
    ASSUME Types, NEW e \in LogRecord, log' = Append(log, e),
           NEW j \in 1..Len(log)+1
    PROVE  /\ {i \in 1..j-1 : Advisory(log'[i]) /\ \A k \in i+1..j-1 : ~Approval(log'[k])}
                = Owed(j)
           /\ UNION {log'[i].ids : i \in Owed(j)} = UNION {log[i].ids : i \in Owed(j)}
           /\ Owed(Len(log) + 1) = NotTaken
<1>1. /\ Len(log) \in Nat /\ DOMAIN log = 1..Len(log)
      /\ \A i \in 1..Len(log) : log'[i] = log[i]
  BY LogGrows
<1>2. \A i \in 1..j-1 : i \in 1..Len(log)
  BY <1>1
<1>3. \A i \in 1..j-1 : \A k \in i+1..j-1 : k \in 1..j-1
  BY <1>1
<1>4. {i \in 1..j-1 : Advisory(log'[i]) /\ \A k \in i+1..j-1 : ~Approval(log'[k])} = Owed(j)
  BY <1>1, <1>2, <1>3 DEF Owed
<1>5. UNION {log'[i].ids : i \in Owed(j)} = UNION {log[i].ids : i \in Owed(j)}
  BY <1>1, <1>2 DEF Owed
<1>6. Owed(Len(log) + 1) = NotTaken
  <2>1. Len(log) + 1 - 1 = Len(log)
    BY <1>1
  <2> QED
    BY <1>1, <2>1 DEF Owed, NotTaken
<1> QED
  BY <1>4, <1>5, <1>6

(* A call is evaluated: its record tells the state and the ids, and an      *)
(* approval takes the ids.                                                  *)
LEMMA StoryEvaluates ==
    ASSUME Types, Story, NEW e \in LogRecord, log' = Append(log, e), Evaluation(e),
           e.state = tracker.current_state, e.ids = tracker.rule_ids,
           e.state = Poisoned => e.verdict = "InboundPoisoningDetected",
           tracker'.current_state = tracker.current_state,
           tracker'.rule_ids = IF Approval(e) THEN {} ELSE tracker.rule_ids
    PROVE  Story'
<1> DEFINE n == Len(log) + 1
<1>1. /\ Len(log) \in Nat /\ Len(log') = n /\ DOMAIN log = 1..Len(log) /\ DOMAIN log' = 1..n
      /\ \A i \in 1..Len(log) : log'[i] = log[i] /\ log[i] \in LogRecord
      /\ log'[n] = e
  BY LogGrows
<1>2. \A i \in 1..n : i \in 1..Len(log) \/ i = n
  BY <1>1
<1>3. ~Advisory(e) /\ tracker.current_state \in ProvenanceState
  BY DEF Advisory, Evaluation, Types, TrackerRecord
<1>4. \A i \in 1..Len(log) : log[i].state \in ProvenanceState
  BY <1>1 DEF LogRecord
<1>5. PoisonSticks'
  BY <1>1, <1>2, <1>3 DEF Story, PoisonSticks, Advisory
<1>6. StateIsLogged'
  <2> SUFFICES ASSUME NEW i \in 1..n, Evaluation(log'[i]),
                      tracker.current_state > log'[i].state
               PROVE  \E k \in i+1..n : Advisory(log'[k]) /\ log'[k].state >= tracker.current_state
    BY <1>1 DEF StateIsLogged, Evaluation, Advisory
  <2>1. i \in 1..Len(log)
    BY <1>1, <1>2, <1>3
  <2>2. PICK k \in i+1..Len(log) :
          Advisory(log[k]) /\ log[k].state >= tracker.current_state
    BY <1>1, <2>1 DEF Story, StateIsLogged
  <2>3. k \in 1..Len(log) /\ k \in i+1..n
    BY <1>1, <2>1
  <2> QED
    BY <1>1, <2>2, <2>3
<1>7. IdsAreHeld'
  <2>1. CASE Approval(e)
    <3>1. \A i \in 1..n : Advisory(log'[i]) => n \in i+1..n
      BY <1>1, <1>2, <1>3
    <3>2. NotTaken' = {}
      BY <1>1, <2>1, <3>1 DEF NotTaken, Advisory, Approval, Evaluation
    <3> QED
      BY <2>1, <3>2 DEF IdsAreHeld
  <2>2. CASE ~Approval(e)
    <3>1. NotTaken' \subseteq 1..Len(log) /\ NotTaken \subseteq 1..Len(log)
      BY <1>1, <1>2, <1>3 DEF NotTaken, Advisory
    <3>2. \A i \in 1..Len(log) : (\A k \in i+1..n : ~Approval(log'[k]))
             <=> (\A k \in i+1..Len(log) : ~Approval(log[k]))
      <4> SUFFICES ASSUME NEW i \in 1..Len(log)
                   PROVE  (\A k \in i+1..n : ~Approval(log'[k]))
                            <=> (\A k \in i+1..Len(log) : ~Approval(log[k]))
        OBVIOUS
      <4>1. \A k \in i+1..n : k \in i+1..Len(log) \/ k = n
        BY <1>1
      <4>2. \A k \in i+1..Len(log) : k \in i+1..n /\ k \in 1..Len(log)
        BY <1>1
      <4>3. \A k \in i+1..Len(log) : log'[k] = log[k]
        BY <1>1, <4>2
      <4> QED
        BY <1>1, <2>2, <4>1, <4>2, <4>3
    <3>3. NotTaken' = NotTaken
      BY <1>1, <3>1, <3>2 DEF NotTaken, Advisory, Approval, Evaluation
    <3>4. tracker'.rule_ids = tracker.rule_ids
      BY <2>2
    <3>5. {log'[i].ids : i \in NotTaken} = {log[i].ids : i \in NotTaken}
      BY <1>1, <3>1
    <3> QED
      BY <3>3, <3>4, <3>5 DEF Story, IdsAreHeld
  <2> QED
    BY <2>1, <2>2
<1>8. PoisonStopsEveryServer'
  BY <1>1, <1>2, <1>3 DEF Story, PoisonStopsEveryServer, PoisonSticks, Advisory, Evaluation
<1>9. EscalationsAreLogged'
  <2> SUFFICES ASSUME NEW i \in 1..n, NEW j \in 1..n, i < j,
                      Evaluation(log'[i]), Evaluation(log'[j]), log'[j].state > log'[i].state
               PROVE  \E k \in i+1..j-1 : Advisory(log'[k]) /\ log'[k].state >= log'[j].state
    BY <1>1 DEF EscalationsAreLogged, Evaluation, Advisory
  <2>1. i \in 1..Len(log)
    BY <1>1
  <2>2. \A k \in i+1..j-1 : k \in 1..Len(log)
    BY <1>1
  <2>3. CASE j = n
    <3>1. \E k \in i+1..Len(log) : Advisory(log[k]) /\ log[k].state >= tracker.current_state
      BY <1>1, <2>1, <2>3 DEF Story, StateIsLogged
    <3>2. j - 1 = Len(log)
      BY <1>1, <2>3
    <3> QED
      BY <1>1, <2>2, <2>3, <3>1, <3>2
  <2>4. CASE j \in 1..Len(log)
    <3>1. \E k \in i+1..j-1 : Advisory(log[k]) /\ log[k].state >= log[j].state
      BY <1>1, <2>1, <2>4 DEF Story, EscalationsAreLogged
    <3> QED
      BY <1>1, <2>2, <2>4, <3>1
  <2> QED
    BY <1>2, <2>3, <2>4
<1>10. RulesAreAttributedOnce'
  <2>1. \A j \in 1..n : Owed(j)' = Owed(j)
    BY OwedBefore DEF Owed
  <2>2. \A j \in 1..n : UNION {log'[i].ids : i \in Owed(j)'}
                           = UNION {log[i].ids : i \in Owed(j)}
    BY <2>1, OwedBefore
  <2> SUFFICES ASSUME NEW j \in 1..n, Evaluation(log'[j])
               PROVE  log'[j].ids = UNION {log[i].ids : i \in Owed(j)}
    BY <1>1, <2>2 DEF RulesAreAttributedOnce, Evaluation
  <2>3. CASE j = n
    BY <1>1, <2>3, OwedBefore DEF Story, IdsAreHeld
  <2>4. CASE j \in 1..Len(log)
    BY <1>1, <2>4 DEF Story, RulesAreAttributedOnce
  <2> QED
    BY <1>2, <2>3, <2>4
<1> QED
  BY <1>5, <1>6, <1>7, <1>8, <1>9, <1>10 DEF Story

(* A record that is no evaluation changes nothing for the calls evaluated.  *)
LEMMA StoryOfEvent ==
    ASSUME Types, Story, NEW e \in LogRecord, log' = Append(log, e), ~Evaluation(e)
    PROVE  (PoisonStopsEveryServer /\ EscalationsAreLogged /\ RulesAreAttributedOnce)'
<1> DEFINE n == Len(log) + 1
<1>1. /\ Len(log) \in Nat /\ Len(log') = n /\ DOMAIN log = 1..Len(log) /\ DOMAIN log' = 1..n
      /\ \A i \in 1..Len(log) : log'[i] = log[i]
      /\ log'[n] = e
  BY LogGrows
<1>2. \A i \in 1..n : i \in 1..Len(log) \/ i = n
  BY <1>1
<1>3. \A j \in 1..n : Evaluation(log'[j]) => j \in 1..Len(log)
  BY <1>1, <1>2
<1>4. \A i, j \in 1..n : i < j /\ j \in 1..Len(log) => i \in 1..Len(log)
  BY <1>1
<1>5. PoisonStopsEveryServer'
  BY <1>1, <1>3, <1>4 DEF Story, PoisonStopsEveryServer, Advisory, Evaluation
<1>6. EscalationsAreLogged'
  <2> SUFFICES ASSUME NEW i \in 1..Len(log), NEW j \in 1..Len(log), i < j,
                      Evaluation(log[i]), Evaluation(log[j]), log[j].state > log[i].state
               PROVE  \E k \in i+1..j-1 : Advisory(log'[k]) /\ log'[k].state >= log[j].state
    BY <1>1, <1>3, <1>4 DEF EscalationsAreLogged, Evaluation, Advisory
  <2>1. \A k \in i+1..j-1 : k \in 1..Len(log)
    BY <1>1
  <2> QED
    BY <1>1, <2>1 DEF Story, EscalationsAreLogged
<1>7. RulesAreAttributedOnce'
  <2>1. \A j \in 1..n : Owed(j)' = Owed(j)
    BY OwedBefore DEF Owed
  <2>2. \A j \in 1..n : UNION {log'[i].ids : i \in Owed(j)'}
                          = UNION {log[i].ids : i \in Owed(j)}
    BY <2>1, OwedBefore
  <2> QED
    BY <1>1, <1>3, <2>2 DEF Story, RulesAreAttributedOnce, Evaluation
<1> QED
  BY <1>5, <1>6, <1>7

(* A result escalates: its record has the new state and the ids it left,    *)
(* and nothing was owed, as the approval that let the call out took it.     *)
LEMMA StoryEscalates ==
    ASSUME Types, Story, NEW e \in LogRecord, log' = Append(log, e), Advisory(e),
           Len(log) > 0, Approval(log[Len(log)]),
           tracker'.current_state \in ProvenanceState,
           tracker'.current_state > tracker.current_state,
           e.state = tracker'.current_state, e.ids = tracker'.rule_ids
    PROVE  Story'
<1> DEFINE n == Len(log) + 1
<1>1. /\ Len(log) \in Nat /\ Len(log') = n /\ DOMAIN log = 1..Len(log) /\ DOMAIN log' = 1..n
      /\ \A i \in 1..Len(log) : log'[i] = log[i]
      /\ log'[n] = e
  BY LogGrows
<1>2. \A i \in 1..n : i \in 1..Len(log) \/ i = n
  BY <1>1
<1>3. ~Evaluation(e) /\ ~Approval(e) /\ tracker.current_state \in ProvenanceState
  BY DEF Advisory, Approval, Evaluation, Types, TrackerRecord
<1>4. PoisonSticks'
  BY <1>1, <1>2, <1>3 DEF Story, PoisonSticks, Advisory
<1>5. StateIsLogged'
  <2> SUFFICES ASSUME NEW i \in 1..n, Evaluation(log'[i])
               PROVE  n \in i+1..n
    BY <1>1, <1>3 DEF StateIsLogged, Evaluation, Advisory
  <2> QED
    BY <1>1, <1>2, <1>3
<1>6. IdsAreHeld'
  <2>1. \A i \in 1..Len(log) : Advisory(log[i]) => Len(log) \in i+1..n
    <3> SUFFICES ASSUME NEW i \in 1..Len(log), Advisory(log[i])
                 PROVE  Len(log) \in i+1..n
      OBVIOUS
    <3>1. i # Len(log)
      BY DEF Advisory, Approval, Evaluation
    <3>2. i \in Nat /\ i < Len(log)
      <4>1. Len(log) \in Nat
        BY <1>1
      <4> QED
        BY <3>1, <4>1
    <3> QED
      BY <1>1, <3>2
  <2>2. n+1..n = {}
    BY <1>1
  <2>3. Len(log) \in 1..Len(log)
    BY <1>1
  <2>4. NotTaken' = {n}
    BY <1>1, <1>2, <1>3, <2>1, <2>2, <2>3 DEF NotTaken, Advisory, Approval, Evaluation
  <2>5. {log'[i].ids : i \in {n}} = {e.ids}
    BY <1>1
  <2> QED
    BY <2>4, <2>5 DEF IdsAreHeld
<1> QED
  BY <1>3, <1>4, <1>5, <1>6, StoryOfEvent DEF Story

(* A timeout is recorded, and the tracker left alone.                       *)
LEMMA StoryTimesOut ==
    ASSUME Types, Story, NEW e \in LogRecord, log' = Append(log, e),
           ~Evaluation(e), ~Advisory(e), tracker' = tracker
    PROVE  Story'
<1> DEFINE n == Len(log) + 1
<1>1. /\ Len(log) \in Nat /\ Len(log') = n /\ DOMAIN log = 1..Len(log) /\ DOMAIN log' = 1..n
      /\ \A i \in 1..Len(log) : log'[i] = log[i]
      /\ log'[n] = e
  BY LogGrows
<1>2. \A i \in 1..n : i \in 1..Len(log) \/ i = n
  BY <1>1
<1>3. \A i \in 1..Len(log) : \A k \in i+1..Len(log) : k \in i+1..n /\ k \in 1..Len(log)
  BY <1>1
<1>4. \A i \in 1..Len(log) : \A k \in i+1..n : k \in i+1..Len(log) \/ k = n
  BY <1>1
<1>5. PoisonSticks'
  BY <1>1, <1>2 DEF Story, PoisonSticks, Advisory
<1>6. StateIsLogged'
  <2> SUFFICES ASSUME NEW i \in 1..Len(log), Evaluation(log[i]),
                      tracker.current_state > log[i].state
               PROVE  \E k \in i+1..n : Advisory(log'[k]) /\ log'[k].state >= tracker.current_state
    BY <1>1, <1>2 DEF StateIsLogged, Evaluation, Advisory
  <2>1. PICK k \in i+1..Len(log) :
          Advisory(log[k]) /\ log[k].state >= tracker.current_state
    BY <1>1 DEF Story, StateIsLogged
  <2> QED
    BY <1>1, <1>3, <2>1
<1>7. IdsAreHeld'
  <2>1. ~Approval(e)
    BY DEF Approval
  <2>2. NotTaken' \subseteq 1..Len(log) /\ NotTaken \subseteq 1..Len(log)
    BY <1>1, <1>2 DEF NotTaken, Advisory
  <2>3. \A i \in 1..Len(log) : (\A k \in i+1..n : ~Approval(log'[k]))
           <=> (\A k \in i+1..Len(log) : ~Approval(log[k]))
    BY <1>1, <1>3, <1>4, <2>1
  <2>4. NotTaken' = NotTaken
    BY <1>1, <2>2, <2>3 DEF NotTaken, Advisory, Approval, Evaluation
  <2>5. {log'[i].ids : i \in NotTaken} = {log[i].ids : i \in NotTaken}
    BY <1>1, <2>2
  <2> QED
    BY <2>4, <2>5 DEF Story, IdsAreHeld
<1> QED
  BY <1>5, <1>6, <1>7, StoryOfEvent DEF Story

-----------------------------------------------------------------------------
(* One more record adds a timeout of its own server only.                   *)
LEMMA TimeoutsGrow ==
    ASSUME Types, NEW e \in LogRecord, log' = Append(log, e), NEW s
    PROVE  /\ Cardinality(TimeoutsOf(s)) \in Nat
           /\ IF e.event = "downstream_timeout" /\ tool_owner[e.tool] = s
              THEN Cardinality(TimeoutsOf(s)') = Cardinality(TimeoutsOf(s)) + 1
              ELSE TimeoutsOf(s)' = TimeoutsOf(s)
<1> DEFINE n == Len(log)
<1>1. /\ n \in Nat /\ DOMAIN log = 1..n /\ DOMAIN log' = 1..n+1
      /\ \A i \in 1..n : log'[i] = log[i]
      /\ log'[n+1] = e
  BY LogGrows
<1>2. \A i \in 1..n+1 : i \in 1..n \/ i = n+1
  BY <1>1
<1>3. TimeoutsOf(s) \subseteq 1..n
  BY <1>1 DEF TimeoutsOf
<1>4. CASE e.event = "downstream_timeout" /\ tool_owner[e.tool] = s
  <2>1. TimeoutsOf(s)' = TimeoutsOf(s) \cup {n+1}
    BY <1>1, <1>2, <1>4 DEF TimeoutsOf
  <2> HIDE DEF n
  <2> QED
    BY <1>1, <1>3, <1>4, <2>1, CountAppend, CountBound
<1>5. CASE ~(e.event = "downstream_timeout" /\ tool_owner[e.tool] = s)
  <2>1. TimeoutsOf(s)' = TimeoutsOf(s)
    BY <1>1, <1>2, <1>5 DEF TimeoutsOf
  <2> HIDE DEF n
  <2> QED
    BY <1>1, <1>3, <1>5, <2>1, CountBound
<1> QED
  BY <1>4, <1>5

(* How many timeouts of a server are on record is a number.                 *)
LEMMA TimeoutsType ==
    ASSUME Types, NEW s
    PROVE  Cardinality(TimeoutsOf(s)) \in Nat
<1>1. Len(log) \in Nat /\ DOMAIN log = 1..Len(log)
  BY LenProperties DEF Types
<1>2. TimeoutsOf(s) \subseteq 1..Len(log)
  BY <1>1 DEF TimeoutsOf
<1> QED
  BY <1>1, <1>2, CountBound

(* What one more reply leaves of the replies.                               *)
LEMMA RepliesGrow ==
    ASSUME Types, NEW r \in ReplyRecord, replies' = Append(replies, r)
    PROVE  /\ replies' \in Seq(ReplyRecord)
           /\ Len(replies) \in Nat /\ Len(replies') = Len(replies) + 1
           /\ DOMAIN replies = 1..Len(replies) /\ DOMAIN replies' = 1..Len(replies)+1
           /\ \A i \in 1..Len(replies) : replies'[i] = replies[i]
           /\ replies'[Len(replies)+1] = r
  BY AppendDomain DEF Types

(* The health of each connection stays on record when its streak grows only *)
(* with a timeout that is recorded, and the replies when a refusal for a    *)
(* degraded connection comes from one that is.                              *)
LEMMA HealthStays ==
    ASSUME Types, HealthIsOnRecord, OwnTimeoutsOnly,
           \A s : /\ Cardinality(TimeoutsOf(s)') \in Nat
                  /\ Cardinality(TimeoutsOf(s)) <= Cardinality(TimeoutsOf(s)'),
           \A s \in Servers :
             \/ health'[s] = health[s]
             \/ health'[s].consecutive_timeouts = 0
                /\ (health'[s].degraded => health[s].degraded)
             \/ /\ Cardinality(TimeoutsOf(s)') = Cardinality(TimeoutsOf(s)) + 1
                /\ health'[s] = health_after(health[s], "Timeout"),
           \/ replies' = replies
           \/ \E r \in ReplyRecord :
                /\ replies' = Append(replies, r)
                /\ r.code = "DownstreamConnectionDegraded" =>
                     /\ tool_owner[r.tool] \in Servers
                     /\ health[tool_owner[r.tool]].degraded
    PROVE  HealthIsOnRecord' /\ OwnTimeoutsOnly'
<1>1. \A s : Cardinality(TimeoutsOf(s)) \in Nat
  BY TimeoutsType
<1>2. \A s \in Servers : /\ health[s].consecutive_timeouts \in Nat
                         /\ health[s].degraded \in BOOLEAN
  BY DEF Types, HealthRecord
<1>3. HealthIsOnRecord'
  <2> SUFFICES ASSUME NEW s \in Servers
               PROVE  /\ health'[s].consecutive_timeouts <= Cardinality(TimeoutsOf(s)')
                      /\ health'[s].degraded =>
                           CONSECUTIVE_TIMEOUTS_TO_DEGRADE <= Cardinality(TimeoutsOf(s)')
    BY DEF HealthIsOnRecord
  <2> DEFINE before == Cardinality(TimeoutsOf(s))
             after == Cardinality(TimeoutsOf(s)')
             streak == health[s].consecutive_timeouts
             was == health[s].degraded
  <2>1. /\ before \in Nat /\ after \in Nat /\ before <= after /\ streak \in Nat
        /\ streak <= before
        /\ was => CONSECUTIVE_TIMEOUTS_TO_DEGRADE <= before
    BY <1>1, <1>2 DEF HealthIsOnRecord
  <2>2. CASE health'[s] = health[s]
    <3>1. health'[s].consecutive_timeouts = streak /\ (health'[s].degraded <=> was)
      BY <2>2
    <3> HIDE DEF before, after, streak, was
    <3>2. streak <= after /\ (was => CONSECUTIVE_TIMEOUTS_TO_DEGRADE <= after)
      BY <2>1 DEF CONSECUTIVE_TIMEOUTS_TO_DEGRADE
    <3> QED
      BY <3>1, <3>2 DEF after
  <2>3. CASE /\ health'[s].consecutive_timeouts = 0
             /\ health'[s].degraded => health[s].degraded
    <3>1. health'[s].consecutive_timeouts = 0 /\ (health'[s].degraded => was)
      BY <2>3
    <3> HIDE DEF before, after, streak, was
    <3>2. 0 <= after /\ (was => CONSECUTIVE_TIMEOUTS_TO_DEGRADE <= after)
      BY <2>1 DEF CONSECUTIVE_TIMEOUTS_TO_DEGRADE
    <3> QED
      BY <3>1, <3>2 DEF after
  <2>4. CASE after = before + 1 /\ health'[s] = health_after(health[s], "Timeout")
    <3>1. /\ health'[s].consecutive_timeouts = streak + 1
          /\ health'[s].degraded =>
               was \/ streak + 1 >= CONSECUTIVE_TIMEOUTS_TO_DEGRADE
      <4> DEFINE now == was \/ streak + 1 >= CONSECUTIVE_TIMEOUTS_TO_DEGRADE
      <4>1. health'[s] = [consecutive_timeouts |-> streak + 1, degraded |-> now]
        BY <2>4, Zenon DEF health_after
      <4> HIDE DEF now
      <4>2. health'[s].consecutive_timeouts = streak + 1 /\ (health'[s].degraded => now)
        BY <4>1
      <4> QED
        BY <4>2 DEF now
    <3> HIDE DEF before, after, streak, was
    <3>2. /\ streak + 1 <= after
          /\ was \/ streak + 1 >= CONSECUTIVE_TIMEOUTS_TO_DEGRADE
               => CONSECUTIVE_TIMEOUTS_TO_DEGRADE <= after
      BY <2>1, <2>4 DEF CONSECUTIVE_TIMEOUTS_TO_DEGRADE
    <3> QED
      BY <3>1, <3>2 DEF after
  <2> QED
    BY <2>2, <2>3, <2>4
<1>4. OwnTimeoutsOnly'
  <2>1. \A i \in DOMAIN replies : replies[i].code = "DownstreamConnectionDegraded" =>
          CONSECUTIVE_TIMEOUTS_TO_DEGRADE
            <= Cardinality(TimeoutsOf(tool_owner[replies[i].tool]))
    BY DEF OwnTimeoutsOnly, TimeoutsOf
  <2>2. \A i \in DOMAIN replies' : replies'[i].code = "DownstreamConnectionDegraded" =>
          CONSECUTIVE_TIMEOUTS_TO_DEGRADE
            <= Cardinality(TimeoutsOf(tool_owner[replies'[i].tool]))
    <3>1. CASE replies' = replies
      BY <2>1, <3>1
    <3>2. ASSUME NEW r \in ReplyRecord, replies' = Append(replies, r),
                 r.code = "DownstreamConnectionDegraded" =>
                   /\ tool_owner[r.tool] \in Servers
                   /\ health[tool_owner[r.tool]].degraded
          PROVE  \A i \in DOMAIN replies' :
                   replies'[i].code = "DownstreamConnectionDegraded" =>
                     CONSECUTIVE_TIMEOUTS_TO_DEGRADE
                       <= Cardinality(TimeoutsOf(tool_owner[replies'[i].tool]))
      <4>1. /\ Len(replies) \in Nat /\ DOMAIN replies = 1..Len(replies)
            /\ DOMAIN replies' = 1..Len(replies)+1
            /\ \A i \in 1..Len(replies) : replies'[i] = replies[i]
            /\ replies'[Len(replies)+1] = r
        BY <3>2, RepliesGrow
      <4>2. \A i \in 1..Len(replies)+1 : i \in 1..Len(replies) \/ i = Len(replies)+1
        BY <4>1
      <4>3. r.code = "DownstreamConnectionDegraded" =>
              CONSECUTIVE_TIMEOUTS_TO_DEGRADE <= Cardinality(TimeoutsOf(tool_owner[r.tool]))
        BY <3>2 DEF HealthIsOnRecord
      <4> QED
        BY <2>1, <4>1, <4>2, <4>3
    <3> QED
      BY <3>1, <3>2
  <2>3. \A s : CONSECUTIVE_TIMEOUTS_TO_DEGRADE <= Cardinality(TimeoutsOf(s))
           => CONSECUTIVE_TIMEOUTS_TO_DEGRADE <= Cardinality(TimeoutsOf(s)')
    BY <1>1 DEF CONSECUTIVE_TIMEOUTS_TO_DEGRADE
  <2>4. \A i \in DOMAIN replies' : replies'[i].code = "DownstreamConnectionDegraded" =>
          CONSECUTIVE_TIMEOUTS_TO_DEGRADE
            <= Cardinality({k \in DOMAIN log' :
                 /\ log'[k].event = "downstream_timeout"
                 /\ tool_owner[log'[k].tool] = tool_owner[replies'[i].tool]})
    BY <2>2, <2>3 DEF TimeoutsOf
  <2> QED
    BY <2>4 DEF OwnTimeoutsOnly
<1> QED
  BY <1>3, <1>4

-----------------------------------------------------------------------------
(* Lines, replies and records fit together.                                 *)
Told == Labels /\ Served /\ Kept /\ AuditMatchesReplies

\* Positions and labels are numbers.
LEMMA Positions ==
    ASSUME Types
    PROVE  /\ Len(sent) \in Nat /\ DOMAIN sent = 1..Len(sent)
           /\ Len(replies) \in Nat /\ DOMAIN replies = 1..Len(replies)
           /\ Len(log) \in Nat /\ DOMAIN log = 1..Len(log)
           /\ read \in Nat /\ read <= Len(sent)
           /\ \A i \in DOMAIN sent : sent[i] \in LineRecord
           /\ \A i \in DOMAIN replies : replies[i] \in ReplyRecord /\ replies[i].line \in Nat
           /\ \A j \in DOMAIN log : log[j] \in LogRecord /\ log[j].line \in Nat
<1>1. sent \in Seq(LineRecord) /\ replies \in Seq(ReplyRecord) /\ log \in Seq(LogRecord)
  BY DEF Types
<1>2. /\ Len(sent) \in Nat /\ DOMAIN sent = 1..Len(sent)
      /\ Len(replies) \in Nat /\ DOMAIN replies = 1..Len(replies)
      /\ Len(log) \in Nat /\ DOMAIN log = 1..Len(log)
  BY <1>1, LenProperties
<1>3. read \in Nat /\ read <= Len(sent)
  BY <1>2 DEF Types
<1>4. /\ \A i \in 1..Len(sent) : sent[i] \in LineRecord
      /\ \A i \in 1..Len(replies) : replies[i] \in ReplyRecord
      /\ \A j \in 1..Len(log) : log[j] \in LogRecord
  BY <1>1, ElementOfSeq
<1>5. /\ \A r \in ReplyRecord : r.line \in Nat
      /\ \A e \in LogRecord : e.line \in Nat
  BY DEF ReplyRecord, LogRecord
<1> QED
  BY <1>2, <1>3, <1>4, <1>5

(* A step that reads, answers and records nothing.                          *)
LEMMA TellsNothing ==
    ASSUME Types, Told, \A n \in 1..read : sent'[n] = sent[n],
           read' = read, Out' <=> Out, replies' = replies, log' = log
    PROVE  Told'
<1>1. Labels'
  BY DEF Told, Labels, Answered
<1>2. Served' /\ Kept'
  BY DEF Told, Served, Kept, Answered
<1>3. AuditMatchesReplies'
  BY DEF Told, AuditMatchesReplies, StillOut, TellsOf, Approval, Evaluation, Out
<1> QED
  BY <1>1, <1>2, <1>3 DEF Told

(* A line that asks for no reply is passed over.                            *)
LEMMA TellsSkipped ==
    ASSUME Types, Told, sent' = sent, ~Out, ~Out', read' = read + 1,
           ~Answered(sent[read + 1]), replies' = replies, log' = log
    PROVE  Told'
<1>1. read \in Nat /\ \A n \in 1..read+1 : n \in 1..read \/ n = read+1
  BY Positions
<1>2. 1..read \subseteq 1..read+1
  BY <1>1
<1>3. Labels'
  BY <1>2 DEF Told, Labels, Answered
<1>4. Served'
  BY <1>1 DEF Told, Served, Answered
<1>5. Kept'
  BY <1>1, Positions DEF Told, Kept
<1>6. AuditMatchesReplies'
  BY DEF Told, AuditMatchesReplies, StillOut, TellsOf, Approval, Evaluation, Out
<1> QED
  BY <1>3, <1>4, <1>5, <1>6 DEF Told

(* A line is answered that is not for the gate.                             *)
LEMMA TellsAnswered ==
    ASSUME Types, Told, sent' = sent, ~Out, ~Out', read' = read + 1,
           NEW r \in ReplyRecord, replies' = Append(replies, r), log' = log,
           r.line = read + 1, r.id = sent[read+1].id, r.tool = sent[read+1].tool,
           Answered(sent[read+1]), r.tool \notin DOMAIN tool_owner
    PROVE  Told'
<1> DEFINE n == Len(replies) + 1
<1>1. read \in Nat /\ \A i \in 1..read+1 : i \in 1..read \/ i = read+1
  BY Positions
<1>2. 1..read \subseteq 1..read+1 /\ read+1 \in 1..read+1
  BY <1>1
<1>3. /\ Len(replies) \in Nat /\ Len(replies') = n
      /\ DOMAIN replies = 1..Len(replies) /\ DOMAIN replies' = 1..n
      /\ \A i \in 1..Len(replies) : replies'[i] = replies[i]
      /\ replies'[n] = r
  BY RepliesGrow
<1>4. \A i \in 1..n : i \in 1..Len(replies) \/ i = n
  BY <1>3
<1>5. 1..Len(replies) \subseteq 1..n /\ n \in 1..n
  BY <1>3
<1>6. \A i \in 1..Len(replies) : replies[i].line \in 1..read /\ replies[i].line < read + 1
  BY <1>1, <1>3 DEF Told, Labels
<1>7. \A j \in DOMAIN log : log[j].line \in 1..read /\ log[j].line # read + 1
  BY <1>1 DEF Told, Labels
<1>8. Labels'
  BY <1>2, <1>3, <1>4 DEF Told, Labels, Answered
<1>9. Served'
  <2> SUFFICES ASSUME NEW m \in 1..read+1, Answered(sent[m])
               PROVE  \E i \in 1..n : replies'[i].line = m
    BY <1>3 DEF Served, Answered
  <2>1. CASE m = read + 1
    BY <1>3, <1>5, <2>1
  <2>2. CASE m \in 1..read
    BY <1>3, <1>5, <2>2 DEF Told, Served
  <2> QED
    BY <1>1, <2>1, <2>2
<1>10. Kept'
  BY <1>1, <1>3 DEF Told, Kept
<1>11. AuditMatchesReplies'
  <2>1. \A i, j \in 1..n : i < j => replies'[i].line < replies'[j].line
    <3>1. \A i, j \in 1..n : i < j => i \in 1..Len(replies) /\ (j \in 1..Len(replies) \/ j = n)
      BY <1>3
    <3> QED
      BY <1>3, <1>6, <3>1 DEF Told, AuditMatchesReplies
  <2>2. \A j \in DOMAIN log : ~TellsOf(r, log[j])
    BY <1>7 DEF TellsOf
  <2>3. \A j \in DOMAIN log : (\E i \in 1..n : TellsOf(replies'[i], log[j]))
                                <=> (\E i \in 1..Len(replies) : TellsOf(replies[i], log[j]))
    BY <1>3, <1>4, <1>5, <2>2
  <2>4. \A j \in DOMAIN log : Evaluation(log[j]) =>
          \E i \in 1..Len(replies) : TellsOf(replies[i], log[j])
    BY <1>3 DEF Told, AuditMatchesReplies, StillOut, Out
  <2>5. \A i \in 1..n : replies'[i].tool \in DOMAIN tool_owner => i \in 1..Len(replies)
    BY <1>3, <1>4
  <2>6. \A i \in 1..n : replies'[i].tool \in DOMAIN tool_owner =>
          \E j \in DOMAIN log : Evaluation(log[j]) /\ TellsOf(replies'[i], log[j])
    BY <1>3, <2>5 DEF Told, AuditMatchesReplies
  <2>7. \A j \in DOMAIN log : ~StillOut(log[j])'
    BY DEF StillOut, Out
  <2>8. \A i, j \in DOMAIN log :
         i < j /\ Evaluation(log[i]) /\ Evaluation(log[j]) => log[i].line < log[j].line
    BY DEF Told, AuditMatchesReplies
  <2> QED
    BY <1>3, <2>1, <2>3, <2>4, <2>6, <2>7, <2>8 DEF AuditMatchesReplies
<1> QED
  BY <1>8, <1>9, <1>10, <1>11 DEF Told

(* A call is evaluated and answered in one step: rejected, or approved for  *)
(* a connection that is degraded.                                           *)
LEMMA TellsEvaluated ==
    ASSUME Types, Told, sent' = sent, ~Out, ~Out', read' = read + 1,
           NEW r \in ReplyRecord, replies' = Append(replies, r),
           NEW e \in LogRecord, log' = Append(log, e), Evaluation(e),
           r.line = read + 1, r.id = sent[read+1].id, r.tool = sent[read+1].tool,
           e.line = read + 1, Answered(sent[read+1]),
           r.tool \in DOMAIN tool_owner, TellsOf(r, e)
    PROVE  Told'
<1> DEFINE n == Len(replies) + 1
           m == Len(log) + 1
<1>1. read \in Nat /\ \A i \in 1..read+1 : i \in 1..read \/ i = read+1
  BY Positions
<1>2. 1..read \subseteq 1..read+1 /\ read+1 \in 1..read+1
  BY <1>1
<1>3. /\ Len(replies) \in Nat /\ Len(replies') = n
      /\ DOMAIN replies = 1..Len(replies) /\ DOMAIN replies' = 1..n
      /\ \A i \in 1..Len(replies) : replies'[i] = replies[i]
      /\ replies'[n] = r
  BY RepliesGrow
<1>4. /\ Len(log) \in Nat /\ DOMAIN log = 1..Len(log) /\ DOMAIN log' = 1..m
      /\ \A i \in 1..Len(log) : log'[i] = log[i]
      /\ log'[m] = e
  BY LogGrows
<1>5. /\ \A i \in 1..n : i \in 1..Len(replies) \/ i = n
      /\ 1..Len(replies) \subseteq 1..n /\ n \in 1..n
  BY <1>3
<1>6. /\ \A j \in 1..m : j \in 1..Len(log) \/ j = m
      /\ 1..Len(log) \subseteq 1..m /\ m \in 1..m
  BY <1>4
<1>7. \A i \in 1..Len(replies) : /\ replies[i].line \in 1..read
                                 /\ replies[i].line < read + 1 /\ replies[i].line # read + 1
  BY <1>1, <1>3 DEF Told, Labels
<1>8. \A j \in 1..Len(log) : /\ log[j].line \in 1..read
                             /\ log[j].line < read + 1 /\ log[j].line # read + 1
  BY <1>1, <1>4 DEF Told, Labels
<1>9. e.tool = sent[read+1].tool
  BY DEF TellsOf
<1>10. Labels'
  <2>1. \A i \in 1..n : LET k == replies'[i].line IN
          /\ k \in 1..read+1 /\ Answered(sent[k])
          /\ replies'[i].id = sent[k].id /\ replies'[i].tool = sent[k].tool
    BY <1>2, <1>3, <1>5 DEF Told, Labels
  <2>2. \A j \in 1..m : LET k == log'[j].line IN
          /\ k \in 1..read+1 /\ log'[j].tool = sent[k].tool /\ log'[j].tool \in DOMAIN tool_owner
    BY <1>2, <1>4, <1>6, <1>9 DEF Told, Labels
  <2> QED
    BY <1>3, <1>4, <2>1, <2>2 DEF Labels, Answered
<1>11. Served'
  <2> SUFFICES ASSUME NEW l \in 1..read+1, Answered(sent[l])
               PROVE  \E i \in 1..n : replies'[i].line = l
    BY <1>3 DEF Served, Answered
  <2>1. CASE l = read + 1
    BY <1>3, <1>5, <2>1
  <2>2. CASE l \in 1..read
    BY <1>3, <1>5, <2>2 DEF Told, Served
  <2> QED
    BY <1>1, <2>1, <2>2
<1>12. Kept'
  BY <1>1, <1>3 DEF Told, Kept
<1>13. AuditMatchesReplies'
  <2>1. \A i, j \in 1..n : i < j => replies'[i].line < replies'[j].line
    <3>1. \A i, j \in 1..n : i < j => i \in 1..Len(replies) /\ (j \in 1..Len(replies) \/ j = n)
      BY <1>3, PairsAppend
    <3>2. \A i \in 1..Len(replies) : replies'[i].line < replies'[n].line
      BY <1>3, <1>7
    <3>3. \A i, j \in 1..Len(replies) : i < j => replies'[i].line < replies'[j].line
      BY <1>3 DEF Told, AuditMatchesReplies
    <3> QED
      BY <3>1, <3>2, <3>3
  <2>2. \A i, j \in 1..m :
          i < j /\ Evaluation(log'[i]) /\ Evaluation(log'[j]) => log'[i].line < log'[j].line
    <3>1. \A i, j \in 1..m : i < j => i \in 1..Len(log) /\ (j \in 1..Len(log) \/ j = m)
      BY <1>4, PairsAppend
    <3> QED
      BY <1>4, <1>8, <3>1 DEF Told, AuditMatchesReplies
  <2>3. \A j \in 1..m : Evaluation(log'[j]) => \E i \in 1..n : TellsOf(replies'[i], log'[j])
    <3>1. \A j \in 1..Len(log) : Evaluation(log[j]) =>
            \E i \in 1..Len(replies) : TellsOf(replies[i], log[j])
      BY <1>3, <1>4 DEF Told, AuditMatchesReplies, StillOut, Out
    <3> QED
      BY <1>3, <1>4, <1>5, <1>6, <3>1
  <2>4. \A i \in 1..n : replies'[i].tool \in DOMAIN tool_owner =>
          \E j \in 1..m : Evaluation(log'[j]) /\ TellsOf(replies'[i], log'[j])
    <3>1. \A i \in 1..Len(replies) : replies[i].tool \in DOMAIN tool_owner =>
            \E j \in 1..Len(log) : Evaluation(log[j]) /\ TellsOf(replies[i], log[j])
      BY <1>3, <1>4 DEF Told, AuditMatchesReplies
    <3>2. \A i \in 1..Len(replies) : replies'[i].tool \in DOMAIN tool_owner =>
            \E j \in 1..m : Evaluation(log'[j]) /\ TellsOf(replies'[i], log'[j])
      BY <1>3, <1>4, <1>6, <3>1
    <3>3. Evaluation(log'[m]) /\ TellsOf(replies'[n], log'[m])
      BY <1>3, <1>4
    <3> QED
      BY <1>5, <1>6, <3>2, <3>3
  <2>5. \A j \in 1..m : ~StillOut(log[j])'
    BY DEF StillOut, Out
  <2> QED
    BY <1>3, <1>4, <2>1, <2>2, <2>3, <2>4, <2>5
       DEF AuditMatchesReplies
<1> QED
  BY <1>10, <1>11, <1>12, <1>13 DEF Told

(* A call is approved and goes out: it has its record and no reply yet.     *)
LEMMA TellsForwarded ==
    ASSUME Types, Told, sent' = sent, ~Out, Out', read' = read + 1, replies' = replies,
           NEW e \in LogRecord, log' = Append(log, e), Approval(e),
           e.line = read + 1, e.tool = sent[read+1].tool, e.tool \in DOMAIN tool_owner
    PROVE  Told'
<1> DEFINE m == Len(log) + 1
<1>1. read \in Nat /\ \A i \in 1..read+1 : i \in 1..read \/ i = read+1
  BY Positions
<1>2. 1..read \subseteq 1..read+1 /\ read+1 \in 1..read+1
  BY <1>1
<1>3. Len(replies) \in Nat /\ DOMAIN replies = 1..Len(replies)
  BY Positions
<1>4. /\ Len(log) \in Nat /\ DOMAIN log = 1..Len(log) /\ DOMAIN log' = 1..m
      /\ \A i \in 1..Len(log) : log'[i] = log[i]
      /\ log'[m] = e
  BY LogGrows
<1>5. /\ \A j \in 1..m : j \in 1..Len(log) \/ j = m
      /\ 1..Len(log) \subseteq 1..m /\ m \in 1..m
  BY <1>4
<1>6. \A i \in 1..Len(replies) : replies[i].line \in 1..read /\ replies[i].line # read + 1
  BY <1>1, <1>3 DEF Told, Labels
<1>7. \A j \in 1..Len(log) : /\ log[j].line \in 1..read
                             /\ log[j].line < read + 1 /\ log[j].line # read + 1
  BY <1>1, <1>4 DEF Told, Labels
<1>8. Labels'
  <2>1. \A i \in 1..Len(replies) : LET k == replies[i].line IN
          /\ k \in 1..read+1 /\ k # read+1 /\ Answered(sent[k])
          /\ replies[i].id = sent[k].id /\ replies[i].tool = sent[k].tool
    BY <1>2, <1>3, <1>6 DEF Told, Labels
  <2>2. \A j \in 1..m : LET k == log'[j].line IN
          /\ k \in 1..read+1 /\ log'[j].tool = sent[k].tool /\ log'[j].tool \in DOMAIN tool_owner
    BY <1>2, <1>4, <1>5 DEF Told, Labels
  <2> QED
    BY <1>3, <1>4, <2>1, <2>2 DEF Labels, Answered
<1>9. Served'
  BY <1>1 DEF Told, Served, Answered
<1>10. Kept'
  BY <1>1, <1>3 DEF Told, Kept
<1>11. AuditMatchesReplies'
  <2>1. \A i, j \in 1..Len(replies) : i < j => replies[i].line < replies[j].line
    BY <1>3 DEF Told, AuditMatchesReplies
  <2>2. \A i, j \in 1..m :
          i < j /\ Evaluation(log'[i]) /\ Evaluation(log'[j]) => log'[i].line < log'[j].line
    <3>1. \A i, j \in 1..m : i < j => i \in 1..Len(log) /\ (j \in 1..Len(log) \/ j = m)
      BY <1>4, PairsAppend
    <3> QED
      BY <1>4, <1>7, <3>1 DEF Told, AuditMatchesReplies
  <2>3. \A j \in 1..Len(log) : /\ ~StillOut(log[j])'
                               /\ Evaluation(log'[j]) =>
                                    \E i \in 1..Len(replies) : TellsOf(replies[i], log'[j])
    <3>1. \A j \in 1..Len(log) : Evaluation(log[j]) =>
            \E i \in 1..Len(replies) : TellsOf(replies[i], log[j])
      BY <1>3, <1>4 DEF Told, AuditMatchesReplies, StillOut, Out
    <3> QED
      BY <1>4, <1>7, <3>1 DEF StillOut
  <2>4. \A j \in {m} : /\ StillOut(log[j])'
                      /\ \A i \in 1..Len(replies) : ~TellsOf(replies[i], log'[j])
    BY <1>4, <1>6 DEF StillOut, Out, TellsOf, Approval, Evaluation
  <2>5. \A i \in 1..Len(replies) : replies[i].tool \in DOMAIN tool_owner =>
          \E j \in 1..m : Evaluation(log'[j]) /\ TellsOf(replies[i], log'[j])
    <3>1. \A i \in 1..Len(replies) : replies[i].tool \in DOMAIN tool_owner =>
            \E j \in 1..Len(log) : Evaluation(log[j]) /\ TellsOf(replies[i], log[j])
      BY <1>3, <1>4 DEF Told, AuditMatchesReplies
    <3> QED
      BY <1>4, <1>5, <3>1
  <2>6. \A j \in 1..m : Evaluation(log'[j]) =>
          (StillOut(log[j])' <=> ~\E i \in 1..Len(replies) : TellsOf(replies[i], log'[j]))
    BY <1>5, <2>3, <2>4
  <2> QED
    BY <1>3, <1>4, <2>1, <2>2, <2>5, <2>6
       DEF AuditMatchesReplies
<1> QED
  BY <1>8, <1>9, <1>10, <1>11 DEF Told

(* The call that is out ends: it gets its reply, which is no rejection, and *)
(* the log at most a record of an event.                                    *)
LEMMA TellsEnded ==
    ASSUME Types, Told, OutIsApproved, sent' = sent, Out, ~Out', read' = read,
           NEW r \in ReplyRecord, replies' = Append(replies, r),
           r.line = read, r.id = sent[read].id, r.tool = sent[read].tool,
           r.code \notin RejectionCode,
           \/ log' = log
           \/ \E e \in LogRecord : /\ log' = Append(log, e) /\ ~Evaluation(e)
                                   /\ e.line = read /\ e.tool = sent[read].tool
    PROVE  Told'
<1> DEFINE n == Len(replies) + 1
           m == Len(log)
<1>1. /\ read \in Nat /\ read \in 1..read
      /\ sent[read].kind = "tools/call" /\ Answered(sent[read])
  <2>1. read \in DOMAIN sent /\ sent[read].kind = "tools/call"
    BY DEF OutIsApproved
  <2> QED
    BY <2>1, Positions DEF Answered
<1>2. /\ Len(replies) \in Nat /\ Len(replies') = n
      /\ DOMAIN replies = 1..Len(replies) /\ DOMAIN replies' = 1..n
      /\ \A i \in 1..Len(replies) : replies'[i] = replies[i]
      /\ replies'[n] = r
  BY RepliesGrow
<1>3. /\ \A i \in 1..n : i \in 1..Len(replies) \/ i = n
      /\ 1..Len(replies) \subseteq 1..n /\ n \in 1..n
  BY <1>2
<1>4. m \in Nat /\ DOMAIN log = 1..m /\ m \in 1..m
  BY Positions DEF OutIsApproved
<1>5. Approval(log[m]) /\ Evaluation(log[m]) /\ log[m].line = read
  BY DEF OutIsApproved, Approval
<1>6. log[m].tool = sent[read].tool /\ sent[read].tool \in DOMAIN tool_owner
  BY <1>4, <1>5 DEF Told, Labels
<1>7. /\ 1..m \subseteq DOMAIN log'
      /\ \A j \in 1..m : log'[j] = log[j]
      /\ \A j \in DOMAIN log' :
           j \in 1..m \/ (/\ ~Evaluation(log'[j]) /\ log'[j].line = read
                          /\ log'[j].tool = sent[read].tool)
  <2>1. CASE log' = log
    BY <1>4, <2>1
  <2>2. ASSUME NEW e \in LogRecord, log' = Append(log, e), ~Evaluation(e),
               e.line = read, e.tool = sent[read].tool
        PROVE  /\ 1..m \subseteq DOMAIN log'
               /\ \A j \in 1..m : log'[j] = log[j]
               /\ \A j \in DOMAIN log' : j \in 1..m \/ log'[j] = e
    <3>1. /\ DOMAIN log' = 1..m+1 /\ log'[m+1] = e
          /\ \A j \in 1..m : log'[j] = log[j]
      BY <2>2, LogGrows
    <3>2. \A j \in 1..m+1 : j \in 1..m \/ j = m+1
      BY <1>4
    <3>3. 1..m \subseteq 1..m+1
      BY <1>4
    <3> QED
      BY <3>1, <3>2, <3>3
  <2> QED
    BY <2>1, <2>2
<1>8. \A i \in 1..Len(replies) : /\ replies[i].line \in 1..read
                                 /\ replies[i].line < read /\ replies[i].line # read
  BY <1>1, <1>2 DEF Told, Labels
<1>9. \A j \in 1..m : Evaluation(log[j]) => j = m \/ log[j].line # read
  <2>1. \A j \in 1..m : Evaluation(log[j]) /\ j < m => log[j].line < read
    BY <1>4, <1>5 DEF Told, AuditMatchesReplies
  <2>2. \A j \in 1..m : j = m \/ j < m
    <3>1. m \in Nat
      BY <1>4
    <3> QED
      BY <3>1
  <2>3. \A j \in 1..m : log[j].line \in Nat
    BY <1>4, Positions
  <2> QED
    BY <1>1, <2>1, <2>2, <2>3
<1>10. Labels'
  <2>1. \A i \in 1..n : LET k == replies'[i].line IN
          /\ k \in 1..read /\ Answered(sent[k])
          /\ replies'[i].id = sent[k].id /\ replies'[i].tool = sent[k].tool
    BY <1>1, <1>2, <1>3 DEF Told, Labels
  <2>2. \A j \in DOMAIN log' : LET k == log'[j].line IN
          /\ k \in 1..read /\ log'[j].tool = sent[k].tool /\ log'[j].tool \in DOMAIN tool_owner
    BY <1>1, <1>4, <1>6, <1>7 DEF Told, Labels
  <2> QED
    BY <1>2, <2>1, <2>2 DEF Labels, Answered
<1>11. Served'
  <2> SUFFICES ASSUME NEW l \in 1..read, Answered(sent[l])
               PROVE  \E i \in 1..n : replies'[i].line = l
    BY <1>2 DEF Served, Answered
  <2>1. CASE l = read
    BY <1>2, <1>3, <2>1
  <2>2. CASE l # read
    BY <1>2, <1>3, <2>2 DEF Told, Served
  <2> QED
    BY <2>1, <2>2
<1>12. Kept'
  BY <1>1, <1>2 DEF Told, Kept
<1>13. AuditMatchesReplies'
  <2>1. \A i, j \in 1..n : i < j => replies'[i].line < replies'[j].line
    <3>1. \A i, j \in 1..n : i < j => i \in 1..Len(replies) /\ (j \in 1..Len(replies) \/ j = n)
      BY <1>2, PairsAppend
    <3>2. \A i \in 1..Len(replies) : replies'[i].line < replies'[n].line
      BY <1>2, <1>8
    <3>3. \A i, j \in 1..Len(replies) : i < j => replies'[i].line < replies'[j].line
      BY <1>2 DEF Told, AuditMatchesReplies
    <3> QED
      BY <3>1, <3>2, <3>3
  <2>2. \A i, j \in DOMAIN log' :
          i < j /\ Evaluation(log'[i]) /\ Evaluation(log'[j]) => log'[i].line < log'[j].line
    BY <1>4, <1>7 DEF Told, AuditMatchesReplies
  <2>3. TellsOf(r, log[m])
    BY <1>5, <1>6 DEF TellsOf
  <2>4. \A j \in DOMAIN log' :
          Evaluation(log'[j]) => \E i \in 1..n : TellsOf(replies'[i], log'[j])
    <3>1. \A j \in 1..m : Evaluation(log[j]) /\ j # m =>
            \E i \in 1..Len(replies) : TellsOf(replies[i], log[j])
      BY <1>2, <1>4, <1>9 DEF Told, AuditMatchesReplies, StillOut
    <3>2. \A j \in 1..m : Evaluation(log[j]) => \E i \in 1..n : TellsOf(replies'[i], log[j])
      BY <1>2, <1>3, <2>3, <3>1
    <3> QED
      BY <1>7, <3>2
  <2>5. \A i \in 1..n : replies'[i].tool \in DOMAIN tool_owner =>
          \E j \in DOMAIN log' : Evaluation(log'[j]) /\ TellsOf(replies'[i], log'[j])
    <3>1. \A i \in 1..Len(replies) : replies[i].tool \in DOMAIN tool_owner =>
            \E j \in 1..m : Evaluation(log[j]) /\ TellsOf(replies[i], log[j])
      BY <1>2, <1>4 DEF Told, AuditMatchesReplies
    <3> QED
      BY <1>2, <1>3, <1>4, <1>5, <1>7, <2>3, <3>1
  <2>6. \A j \in DOMAIN log' : ~StillOut(log[j])'
    BY DEF StillOut, Out
  <2> QED
    BY <1>2, <2>1, <2>2, <2>4, <2>5, <2>6 DEF AuditMatchesReplies
<1> QED
  BY <1>10, <1>11, <1>12, <1>13 DEF Told

-----------------------------------------------------------------------------
(* IInv, by the groups the lemmas above are about.                          *)
LEMMA Groups ==
    /\ IInv <=> /\ Types /\ Sendable /\ Balance /\ OutIsApproved
                /\ Story /\ HealthIsOnRecord /\ OwnTimeoutsOnly /\ Told
    /\ IInv' <=> /\ Types' /\ Sendable' /\ Balance' /\ OutIsApproved'
                 /\ Story' /\ HealthIsOnRecord' /\ OwnTimeoutsOnly' /\ Told'
  BY DEF IInv, Told

(* A new session.                                                           *)
LEMMA InitInv == Init => IInv
<1> SUFFICES ASSUME Init PROVE IInv
  OBVIOUS
<1> USE DEF Init, NewTracker, NewHealth
<1>1. /\ <<>> \in Seq(LineRecord) /\ <<>> \in Seq(ReplyRecord) /\ <<>> \in Seq(LogRecord)
      /\ Len(<<>>) = 0 /\ DOMAIN <<>> = {}
  OBVIOUS
<1>2. Types
  <2>1. tracker \in TrackerRecord
    BY DEF TrackerRecord
  <2>2. NewHealth \in HealthRecord
    BY DEF HealthRecord
  <2>3. health \in [Servers -> HealthRecord]
    <3> HIDE DEF NewHealth
    <3> QED
      BY <2>2
  <2>4. read \in 0..Len(sent)
    BY <1>1
  <2> HIDE DEF NewTracker, NewHealth
  <2> QED
    BY <1>1, <2>1, <2>3, <2>4 DEF Types
<1>3. Sendable /\ Balance /\ OutIsApproved
  BY <1>1, BudgetAssumption DEF Sendable, Balance, OutIsApproved, Out
<1>4. Story
  BY <1>1 DEF Story, PoisonSticks, StateIsLogged, IdsAreHeld, NotTaken,
              PoisonStopsEveryServer, EscalationsAreLogged, RulesAreAttributedOnce
<1>5. HealthIsOnRecord /\ OwnTimeoutsOnly
  BY <1>1, TimeoutsType, <1>2 DEF HealthIsOnRecord, OwnTimeoutsOnly
<1>6. Told
  BY <1>1 DEF Told, Labels, Served, Kept, AuditMatchesReplies, Out
<1> QED
  BY <1>2, <1>3, <1>4, <1>5, <1>6, Groups

(* Nothing but what waits to be read changes, or whether the loop runs.     *)
LEMMA IdleInv ==
    ASSUME IInv, Types', Sendable', \A n \in 1..read : sent'[n] = sent[n],
           read \in DOMAIN sent => read \in DOMAIN sent',
           read' = read, Out' <=> Out, UNCHANGED <<tracker, agent_bp, health, replies, log>>
    PROVE  IInv'
<1>1. /\ Types /\ Balance /\ OutIsApproved
      /\ Story /\ HealthIsOnRecord /\ OwnTimeoutsOnly /\ Told
  BY Groups
<1>2. Balance'
  BY <1>1 DEF Balance
<1>3. OutIsApproved'
  <2>1. read \in DOMAIN sent => read \in 1..read
    BY <1>1, Positions
  <2> QED
    BY <1>1, <2>1 DEF OutIsApproved, Approval, Evaluation
<1>4. Story'
  BY <1>1, StoryKeeps DEF Types, TrackerRecord
<1>5. HealthIsOnRecord' /\ OwnTimeoutsOnly'
  BY <1>1 DEF HealthIsOnRecord, OwnTimeoutsOnly, TimeoutsOf
<1>6. Told'
  BY <1>1, TellsNothing
<1> QED
  BY <1>2, <1>3, <1>4, <1>5, <1>6, Groups

\* The agent sends a line (external; the loop reads it later).
LEMMA SendInv == IInv /\ Send => IInv'
<1> SUFFICES ASSUME IInv, Send PROVE IInv'
  OBVIOUS
<1>1. Types /\ Sendable
  BY Groups
<1>2. PICK line \in Lines :
        sent' = Append(sent, [line EXCEPT !.id = IF @ = NoId THEN NoId ELSE Len(sent) + 1])
  BY DEF Send
<1> DEFINE new == [line EXCEPT !.id = IF @ = NoId THEN NoId ELSE Len(sent) + 1]
<1>3. /\ line \in LineRecord /\ (line.kind # "tools/call" => line.tool = NoParams)
  BY GatewayAssumption DEF LineRecord
<1>4. new \in LineRecord /\ new.kind = line.kind /\ new.tool = line.tool
  <2> DEFINE id == IF line.id = NoId THEN NoId ELSE Len(sent) + 1
  <2>1. id \in Nat
    BY <1>1, Positions DEF NoId
  <2>2. new = [line EXCEPT !.id = id]
    OBVIOUS
  <2> HIDE DEF new, id
  <2> QED
    BY <1>3, <2>1, <2>2 DEF LineRecord
<1> HIDE DEF new
<1>5. /\ sent' \in Seq(LineRecord) /\ Len(sent) \in Nat /\ Len(sent') = Len(sent) + 1
      /\ DOMAIN sent = 1..Len(sent) /\ DOMAIN sent' = 1..Len(sent)+1
      /\ \A n \in 1..Len(sent) : sent'[n] = sent[n]
      /\ sent'[Len(sent)+1] = new
  <2>1. sent \in Seq(LineRecord) /\ sent' = Append(sent, new)
    BY <1>1, <1>2 DEF Types, new
  <2> QED
    BY <1>4, <2>1, AppendDomain
<1>6. UNCHANGED <<closed, read, phase, tracker, agent_bp, health, replies, log>>
  BY DEF Send
<1>7. Types'
  BY <1>1, <1>5, <1>6 DEF Types
<1>8. Sendable'
  <2>1. \A n \in 1..Len(sent)+1 : n \in 1..Len(sent) \/ n = Len(sent)+1
    BY <1>5
  <2> QED
    BY <1>1, <1>3, <1>4, <1>5, <2>1 DEF Sendable
<1>9. read \in Nat /\ read <= Len(sent)
  BY <1>1, Positions
<1>10. \A n \in 1..read : sent'[n] = sent[n]
  BY <1>5, <1>9
<1>11. read \in DOMAIN sent => read \in DOMAIN sent'
  BY <1>5, <1>9
<1>12. Out' <=> Out
  BY <1>6 DEF Out
<1> QED
  BY <1>6, <1>7, <1>8, <1>10, <1>11, <1>12, IdleInv

\* The agent closes its end, and the loop ends when it has read everything.
LEMMA CloseInv == IInv /\ (Close \/ Shutdown \/ UNCHANGED vars) => IInv'
<1> SUFFICES ASSUME IInv, Close \/ Shutdown \/ UNCHANGED vars PROVE IInv'
  OBVIOUS
<1>1. Types /\ Sendable
  BY Groups
<1>2. /\ UNCHANGED <<sent, read, tracker, agent_bp, health, replies, log>>
      /\ closed' \in BOOLEAN
      /\ phase' = phase \/ (phase = "listening" /\ phase' = "stopped")
  BY <1>1 DEF Close, Shutdown, vars, governance, Types
<1>3. Types' /\ Sendable'
  BY <1>1, <1>2 DEF Types, Sendable
<1>4. Out' <=> Out
  BY <1>2 DEF Out
<1> QED
  BY <1>2, <1>3, <1>4, IdleInv

(* No timeout is recorded, and no streak grows.                             *)
LEMMA HealthQuiet ==
    ASSUME Types, HealthIsOnRecord, OwnTimeoutsOnly,
           \/ log' = log
           \/ \E e \in LogRecord : log' = Append(log, e) /\ e.event # "downstream_timeout",
           \A s \in Servers :
             \/ health'[s] = health[s]
             \/ health'[s].consecutive_timeouts = 0
                /\ (health'[s].degraded => health[s].degraded),
           \/ replies' = replies
           \/ \E r \in ReplyRecord :
                /\ replies' = Append(replies, r)
                /\ r.code = "DownstreamConnectionDegraded" =>
                     /\ tool_owner[r.tool] \in Servers
                     /\ health[tool_owner[r.tool]].degraded
    PROVE  HealthIsOnRecord' /\ OwnTimeoutsOnly'
<1>1. \A s : TimeoutsOf(s)' = TimeoutsOf(s)
  <2>1. CASE log' = log
    BY <2>1 DEF TimeoutsOf
  <2>2. CASE \E e \in LogRecord : log' = Append(log, e) /\ e.event # "downstream_timeout"
    BY <2>2, TimeoutsGrow
  <2> QED
    BY <2>1, <2>2
<1>2. \A s : /\ Cardinality(TimeoutsOf(s)') \in Nat
             /\ Cardinality(TimeoutsOf(s)) <= Cardinality(TimeoutsOf(s)')
  <2> SUFFICES ASSUME NEW s
               PROVE  /\ Cardinality(TimeoutsOf(s)') \in Nat
                      /\ Cardinality(TimeoutsOf(s)) <= Cardinality(TimeoutsOf(s)')
    OBVIOUS
  <2>1. Cardinality(TimeoutsOf(s)) \in Nat
    BY TimeoutsType
  <2>2. Cardinality(TimeoutsOf(s)') = Cardinality(TimeoutsOf(s))
    BY <1>1
  <2> QED
    BY ONLY <2>1, <2>2
<1> QED
  BY <1>2, HealthStays

(* The loop takes the next line only while no call is out.                  *)
LEMMA Taking ==
    ASSUME Types, Take
    PROVE  /\ read + 1 \in DOMAIN sent /\ sent[read+1] \in LineRecord
           /\ read' = read + 1 /\ read' \in 0..Len(sent) /\ read + 1 \in Nat
           /\ phase = "listening" /\ ~Out
<1>1. Len(sent) \in Nat /\ DOMAIN sent = 1..Len(sent) /\ read \in Nat
  BY Positions
<1>2. phase = "listening" /\ read < Len(sent) /\ read' = read + 1
  BY DEF Take
<1>3. read + 1 \in DOMAIN sent
  BY <1>1, <1>2
<1> QED
  BY <1>1, <1>2, <1>3, Positions DEF Out

\* Reply, on a line that was sent, writes a reply record about it.
LEMMA ReplyIs ==
    ASSUME Types, NEW n \in Nat, sent[n] \in LineRecord, NEW code \in ReplyCode, Reply(n, code)
    PROVE  \E r \in ReplyRecord :
             /\ replies' = Append(replies, r)
             /\ r.line = n /\ r.id = sent[n].id /\ r.tool = sent[n].tool /\ r.code = code
             /\ replies' \in Seq(ReplyRecord)
<1> DEFINE r == [line |-> n, id |-> sent[n].id, tool |-> sent[n].tool, code |-> code]
<1>1. r \in ReplyRecord
  BY DEF ReplyRecord, LineRecord
<1>2. replies' = Append(replies, r)
  BY DEF Reply
<1>3. r.line = n /\ r.id = sent[n].id /\ r.tool = sent[n].tool /\ r.code = code
  OBVIOUS
<1> HIDE DEF r
<1> QED
  BY <1>1, <1>2, <1>3, RepliesGrow

(* A line that asks for no reply, and one that is not text.                 *)
LEMMA SkipInv == IInv /\ (SkipLine \/ ReadFails) => IInv'
<1> SUFFICES ASSUME IInv, SkipLine \/ ReadFails PROVE IInv'
  OBVIOUS
<1>1. /\ Types /\ Sendable /\ Balance /\ OutIsApproved
      /\ Story /\ HealthIsOnRecord /\ OwnTimeoutsOnly /\ Told
  BY Groups
<1>2. /\ Take /\ ~Answered(sent[read+1])
      /\ UNCHANGED <<sent, closed, replies, tracker, agent_bp, health, log>>
      /\ phase' = phase \/ phase' = "stopped"
  BY DEF SkipLine, ReadFails, governance, Next_line, Answered
<1>3. read' = read + 1 /\ read' \in 0..Len(sent) /\ phase = "listening" /\ ~Out
  BY <1>1, <1>2, Taking
<1>4. ~Out'
  BY <1>2, <1>3 DEF Out
<1>5. Types'
  BY <1>1, <1>2, <1>3 DEF Types
<1>6. Sendable' /\ Balance' /\ OutIsApproved'
  BY <1>1, <1>2, <1>4 DEF Sendable, Balance, OutIsApproved
<1>7. Story'
  BY <1>1, <1>2, StoryKeeps DEF Types, TrackerRecord
<1>8. HealthIsOnRecord' /\ OwnTimeoutsOnly'
  BY <1>1, <1>2, HealthQuiet
<1>9. Told'
  BY <1>1, <1>2, <1>3, <1>4, TellsSkipped
<1> QED
  BY <1>5, <1>6, <1>7, <1>8, <1>9, Groups

(* A line answered without the gate: another method, or a call refused      *)
(* before it is evaluated.                                                  *)
LEMMA AnswerInv == IInv /\ (AnswerLine \/ RefuseCall) => IInv'
<1> SUFFICES ASSUME IInv, AnswerLine \/ RefuseCall PROVE IInv'
  OBVIOUS
<1>1. /\ Types /\ Sendable /\ Balance /\ OutIsApproved
      /\ Story /\ HealthIsOnRecord /\ OwnTimeoutsOnly /\ Told
  BY Groups
<1>2. Take /\ UNCHANGED <<sent, closed, phase, tracker, agent_bp, health, log>>
  BY DEF AnswerLine, RefuseCall, governance
<1>3. /\ read' = read + 1 /\ read' \in 0..Len(sent) /\ read + 1 \in Nat
      /\ sent[read+1] \in LineRecord /\ read + 1 \in DOMAIN sent /\ ~Out
  BY <1>1, <1>2, Taking
<1>4. /\ Answered(sent[read+1]) /\ sent[read+1].tool \notin DOMAIN tool_owner
      /\ \E code \in ReplyCode :
           Reply(read + 1, code) /\ code # "DownstreamConnectionDegraded"
  <2>1. CASE AnswerLine
    <3>1. sent[read+1].tool = NoParams
      BY <1>1, <1>3, <2>1 DEF AnswerLine, Next_line, Sendable
    <3> QED
      BY <2>1, <3>1, GatewayAssumption DEF AnswerLine, Next_line, ReplyCode
  <2>2. CASE RefuseCall
    <3>1. Refusal(sent[read+1].tool) \in
            {"Missing params", "UnknownTool",
             "ToolQuarantinedPinMismatch", "ToolExcludedNameCollision"}
      BY GatewayAssumption DEF Refusal
    <3> QED
      BY <2>2, <3>1 DEF RefuseCall, Next_line, Answered, ReplyCode
  <2> QED
    BY <2>1, <2>2, <1>1, <1>3 DEF AnswerLine, RefuseCall
<1>5. PICK code \in ReplyCode : Reply(read + 1, code) /\ code # "DownstreamConnectionDegraded"
  BY <1>4
<1>6. PICK r \in ReplyRecord :
        /\ replies' = Append(replies, r)
        /\ r.line = read + 1 /\ r.id = sent[read+1].id /\ r.tool = sent[read+1].tool
        /\ r.code = code /\ replies' \in Seq(ReplyRecord)
  BY <1>1, <1>3, <1>5, ReplyIs
<1>7. ~Out'
  BY <1>2, <1>3 DEF Out
<1>8. Types'
  BY <1>1, <1>2, <1>3, <1>6 DEF Types
<1>9. Sendable' /\ Balance' /\ OutIsApproved'
  BY <1>1, <1>2, <1>7 DEF Sendable, Balance, OutIsApproved
<1>10. Story'
  BY <1>1, <1>2, StoryKeeps DEF Types, TrackerRecord
<1>11. HealthIsOnRecord' /\ OwnTimeoutsOnly'
  BY <1>1, <1>2, <1>5, <1>6, HealthQuiet
<1>12. Told'
  BY <1>1, <1>2, <1>3, <1>4, <1>6, <1>7, TellsAnswered
<1> QED
  BY <1>8, <1>9, <1>10, <1>11, <1>12, Groups

(* A call is rejected by the gate.                                          *)
LEMMA RejectInv == IInv /\ RejectCall => IInv'
<1> SUFFICES ASSUME IInv, RejectCall PROVE IInv'
  OBVIOUS
<1>1. /\ Types /\ Sendable /\ Balance /\ OutIsApproved
      /\ Story /\ HealthIsOnRecord /\ OwnTimeoutsOnly /\ Told
  BY Groups
<1>2. PICK tool \in Tools :
        /\ Evaluates(tool) /\ VerdictOn(tool) # "Approved"
        /\ Record("evaluation", read + 1, tracker.current_state, tracker.rule_ids,
                  VerdictOn(tool), 0)
        /\ Reply(read + 1, VerdictOn(tool))
        /\ UNCHANGED <<sent, closed, phase, tracker, agent_bp, health>>
  BY DEF RejectCall
<1>3. /\ Take /\ sent[read+1].kind = "tools/call" /\ sent[read+1].tool = tool
      /\ tool \in DOMAIN tool_owner /\ Answered(sent[read+1])
  BY <1>2 DEF Evaluates, Next_line, Answered
<1>4. /\ read' = read + 1 /\ read' \in 0..Len(sent) /\ read + 1 \in Nat
      /\ sent[read+1] \in LineRecord /\ ~Out
  BY <1>1, <1>3, Taking
<1>5. /\ VerdictOn(tool) \in RejectionCode
      /\ tracker.current_state = Poisoned => VerdictOn(tool) = "InboundPoisoningDetected"
  BY <1>2, VerdictType
<1>6. /\ VerdictOn(tool) \in ReplyCode /\ VerdictOn(tool) \in Verdict \cup {"none"}
      /\ VerdictOn(tool) # "DownstreamConnectionDegraded"
  BY <1>5 DEF ReplyCode, Verdict, RejectionCode
<1>7. /\ tracker.current_state \in ProvenanceState /\ tracker.rule_ids \in SUBSET AllIds
  BY <1>1 DEF Types, TrackerRecord
<1>8. PICK e \in LogRecord :
        /\ log' = Append(log, e)
        /\ e.event = "evaluation" /\ e.line = read + 1 /\ e.tool = sent[read+1].tool
        /\ e.state = tracker.current_state /\ e.ids = tracker.rule_ids
        /\ e.verdict = VerdictOn(tool) /\ log' \in Seq(LogRecord)
  <2> DEFINE e == [event |-> "evaluation", line |-> read + 1, tool |-> sent[read+1].tool,
                   state |-> tracker.current_state, ids |-> tracker.rule_ids,
                   verdict |-> VerdictOn(tool), bp_consumed |-> 0]
  <2>1. e \in LogRecord
    BY <1>4, <1>6, <1>7 DEF LogRecord, LineRecord
  <2>2. log' = Append(log, e)
    BY <1>2 DEF Record
  <2> QED
    BY <1>1, <2>1, <2>2, LogGrows
<1>9. PICK r \in ReplyRecord :
        /\ replies' = Append(replies, r)
        /\ r.line = read + 1 /\ r.id = sent[read+1].id /\ r.tool = sent[read+1].tool
        /\ r.code = VerdictOn(tool) /\ replies' \in Seq(ReplyRecord)
  BY <1>1, <1>2, <1>4, <1>6, ReplyIs
<1>10. ~Out'
  BY <1>2, <1>4 DEF Out
<1>11. Evaluation(e) /\ ~Approval(e)
  BY <1>2, <1>8 DEF Evaluation, Approval
<1>12. Types'
  BY <1>1, <1>2, <1>4, <1>8, <1>9 DEF Types
<1>13. Sendable' /\ Balance' /\ OutIsApproved'
  BY <1>1, <1>2, <1>10 DEF Sendable, Balance, OutIsApproved
<1>14. Story'
  BY <1>1, <1>2, <1>5, <1>8, <1>11, StoryEvaluates
<1>15. HealthIsOnRecord' /\ OwnTimeoutsOnly'
  BY <1>1, <1>2, <1>6, <1>8, <1>9, HealthQuiet
<1>16. Told'
  <2>1. TellsOf(r, e)
    BY <1>8, <1>9, <1>11 DEF TellsOf
  <2> QED
    BY <1>1, <1>2, <1>3, <1>4, <1>8, <1>9, <1>10, <1>11, <2>1, TellsEvaluated
<1> QED
  BY <1>12, <1>13, <1>14, <1>15, <1>16, Groups

(* A call is approved, charged, and goes out or meets a connection that is  *)
(* degraded.                                                                *)
LEMMA ApproveInv == ASSUME NoWrap, IInv, ApproveCall PROVE IInv'
<1>1. /\ Types /\ Sendable /\ Balance /\ OutIsApproved
      /\ Story /\ HealthIsOnRecord /\ OwnTimeoutsOnly /\ Told
  BY Groups
<1> DEFINE state == tracker.current_state
           costOf(tool) == contribution_bp(
               effective_risk(ProposalOf(tool).risk, state, ProposalOf(tool).tagged),
               state, ProposalOf(tool).grade)
<1>2. PICK tool \in Tools :
        /\ Evaluates(tool) /\ VerdictOn(tool) = "Approved"
        /\ Record("evaluation", read + 1, state, tracker.rule_ids, "Approved", costOf(tool))
        /\ tracker' = taken(tracker)
        /\ agent_bp' = AddU32(agent_bp, costOf(tool))
        /\ \/ /\ health[tool_owner[tool]].degraded
              /\ Reply(read + 1, "DownstreamConnectionDegraded") /\ UNCHANGED phase
           \/ phase' = "forwarding" /\ UNCHANGED replies
        /\ UNCHANGED <<sent, closed, health>>
  BY DEF ApproveCall
<1> DEFINE cost == costOf(tool)
<1>3. /\ Take /\ sent[read+1].kind = "tools/call" /\ sent[read+1].tool = tool
      /\ tool \in DOMAIN tool_owner /\ Answered(sent[read+1])
  BY <1>2 DEF Evaluates, Next_line, Answered
<1>4. /\ read' = read + 1 /\ read' \in 0..Len(sent) /\ read + 1 \in Nat
      /\ sent[read+1] \in LineRecord /\ ~Out /\ phase = "listening"
      /\ read + 1 \in DOMAIN sent
  BY <1>1, <1>3, Taking
<1>5. tool_owner[tool] \in Servers /\ ProposalOf(tool) \in Proposal
  BY <1>3, ProposalType
<1>6. state \in ProvenanceState /\ tracker.rule_ids \in SUBSET AllIds
  BY <1>1 DEF Types, TrackerRecord
<1>7. cost \in Nat /\ Balance'
  <2>1. VerdictOf(ProposalOf(tool), state, agent_bp) = "Approved"
    BY <1>2 DEF VerdictOn
  <2>2. agent_bp' = AddU32(agent_bp, cost)
    BY <1>2
  <2> QED
    BY <1>1, <1>5, <1>6, <2>1, <2>2, Charging
<1>8. state # Poisoned
  BY <1>2, VerdictType
<1>9. /\ tracker' \in TrackerRecord
      /\ tracker'.current_state = state /\ tracker'.rule_ids = {}
  BY <1>1, <1>2 DEF Types, TrackerRecord, taken
<1> HIDE DEF state, cost, costOf
<1>10. PICK e \in LogRecord :
         /\ log' = Append(log, e)
         /\ e.event = "evaluation" /\ e.line = read + 1 /\ e.tool = sent[read+1].tool
         /\ e.state = state /\ e.ids = tracker.rule_ids
         /\ e.verdict = "Approved" /\ log' \in Seq(LogRecord)
  <2> DEFINE e == [event |-> "evaluation", line |-> read + 1, tool |-> sent[read+1].tool,
                   state |-> state, ids |-> tracker.rule_ids,
                   verdict |-> "Approved", bp_consumed |-> cost]
  <2>1. e \in LogRecord
    BY <1>4, <1>6, <1>7 DEF LogRecord, LineRecord, Verdict
  <2>2. log' = Append(log, e)
    BY <1>2 DEF Record, cost
  <2> QED
    BY <1>1, <2>1, <2>2, LogGrows
<1>11. Evaluation(e) /\ Approval(e)
  BY <1>10 DEF Evaluation, Approval
<1>12. Story'
  BY <1>1, <1>8, <1>9, <1>10, <1>11, StoryEvaluates DEF state
<1>13. Sendable'
  BY <1>1, <1>2 DEF Sendable
<1>14. CASE /\ health[tool_owner[tool]].degraded
            /\ Reply(read + 1, "DownstreamConnectionDegraded") /\ UNCHANGED phase
  <2>1. PICK r \in ReplyRecord :
          /\ replies' = Append(replies, r)
          /\ r.line = read + 1 /\ r.id = sent[read+1].id /\ r.tool = sent[read+1].tool
          /\ r.code = "DownstreamConnectionDegraded" /\ replies' \in Seq(ReplyRecord)
    <3>1. "DownstreamConnectionDegraded" \in ReplyCode
      BY DEF ReplyCode
    <3> QED
      BY <1>1, <1>4, <1>14, <3>1, ReplyIs
  <2>2. ~Out'
    BY <1>4, <1>14 DEF Out
  <2>3. Types'
    BY <1>1, <1>2, <1>4, <1>9, <1>10, <1>14, <2>1 DEF Types
  <2>4. OutIsApproved'
    BY <2>2 DEF OutIsApproved
  <2>5. HealthIsOnRecord' /\ OwnTimeoutsOnly'
    BY <1>1, <1>2, <1>3, <1>5, <1>10, <1>14, <2>1, HealthQuiet
  <2>6. Told'
    <3>1. TellsOf(r, e)
      BY <1>10, <1>11, <2>1 DEF TellsOf, RejectionCode
    <3> QED
      BY <1>1, <1>2, <1>3, <1>4, <1>10, <1>11, <2>1, <2>2, <3>1, TellsEvaluated
  <2> QED
    BY <1>7, <1>12, <1>13, <2>3, <2>4, <2>5, <2>6, Groups
<1>15. CASE phase' = "forwarding" /\ UNCHANGED replies
  <2>1. Out'
    BY <1>15 DEF Out
  <2>2. Types'
    BY <1>1, <1>2, <1>4, <1>9, <1>10, <1>15 DEF Types
  <2>3. OutIsApproved'
    <3>1. Len(log) \in Nat /\ Len(log') = Len(log) + 1 /\ log'[Len(log)+1] = e
      BY <1>1, <1>10, LogGrows
    <3>2. Len(log') > 0 /\ log'[Len(log')] = e
      BY <3>1
    <3>3. sent' = sent
      BY <1>2
    <3> QED
      BY <1>3, <1>4, <1>10, <1>11, <3>2, <3>3 DEF OutIsApproved, Approval, Evaluation
  <2>4. HealthIsOnRecord' /\ OwnTimeoutsOnly'
    BY <1>1, <1>2, <1>10, <1>15, HealthQuiet
  <2>5. Told'
    BY <1>1, <1>2, <1>3, <1>4, <1>10, <1>11, <1>15, <2>1, TellsForwarded
  <2> QED
    BY <1>7, <1>12, <1>13, <2>2, <2>3, <2>4, <2>5, Groups
<1> QED
  BY <1>2, <1>14, <1>15

(* What the end of a call makes of a connection.                            *)
LEMMA HealthAfter ==
    ASSUME NEW h \in HealthRecord, NEW outcome \in CallOutcome
    PROVE  /\ health_after(h, outcome) \in HealthRecord
           /\ outcome = "Ok" =>
                /\ health_after(h, outcome).consecutive_timeouts = 0
                /\ health_after(h, outcome).degraded => h.degraded
           /\ outcome = "Other" => health_after(h, outcome) = h
<1>1. h.consecutive_timeouts \in Nat /\ h.degraded \in BOOLEAN
  BY DEF HealthRecord
<1>2. CASE outcome = "Ok"
  <2>1. health_after(h, outcome) = [h EXCEPT !.consecutive_timeouts = 0]
    BY <1>2 DEF health_after
  <2> QED
    BY <1>2, <2>1 DEF HealthRecord
<1>3. CASE outcome = "Other"
  BY <1>3 DEF health_after
<1>4. CASE outcome = "Timeout"
  <2> DEFINE now == h.degraded \/ h.consecutive_timeouts + 1 >= CONSECUTIVE_TIMEOUTS_TO_DEGRADE
             streak == h.consecutive_timeouts + 1
  <2>1. health_after(h, outcome) = [consecutive_timeouts |-> streak, degraded |-> now]
    BY <1>4, Zenon DEF health_after
  <2>2. streak \in Nat /\ now \in BOOLEAN
    BY <1>1
  <2> HIDE DEF now, streak
  <2> QED
    BY <1>4, <2>1, <2>2 DEF HealthRecord
<1> QED
  BY <1>2, <1>3, <1>4 DEF CallOutcome

(* A call that ends was out: its line is the last read, its approval the    *)
(* last record, and only its own connection is judged.                      *)
LEMMA Ending ==
    ASSUME IInv, NEW outcome \in CallOutcome, EndCall(outcome)
    PROVE  /\ Out /\ ~Out' /\ phase' = "listening"
           /\ UNCHANGED <<sent, closed, read, agent_bp>>
           /\ read \in Nat /\ sent[read] \in LineRecord
           /\ sent[read].tool \in DOMAIN tool_owner
           /\ Callee = tool_owner[sent[read].tool] /\ Callee \in Servers
           /\ Len(log) > 0 /\ Approval(log[Len(log)])
           /\ health' \in [Servers -> HealthRecord]
           /\ \A s \in Servers : s # Callee => health'[s] = health[s]
           /\ health'[Callee] = health_after(health[Callee], outcome)
           /\ health[Callee] \in HealthRecord
<1>1. Types /\ OutIsApproved /\ Told
  BY Groups
<1>2. /\ Out /\ ~Out' /\ phase' = "listening" /\ UNCHANGED <<sent, closed, read, agent_bp>>
      /\ health' = [health EXCEPT ![Callee] = health_after(health[Callee], outcome)]
  BY DEF EndCall, Out, judged
<1>3. /\ read \in DOMAIN sent /\ Len(log) > 0
      /\ Approval(log[Len(log)]) /\ log[Len(log)].line = read
  BY <1>1, <1>2 DEF OutIsApproved
<1>4. read \in Nat /\ sent[read] \in LineRecord /\ Len(log) \in DOMAIN log
  BY <1>1, <1>3, Positions
<1>5. sent[read].tool \in DOMAIN tool_owner
  BY <1>1, <1>3, <1>4 DEF Told, Labels
<1>6. Callee = tool_owner[sent[read].tool] /\ Callee \in Servers
  BY <1>5, GatewayAssumption DEF Callee, Current
<1>7. health \in [Servers -> HealthRecord] /\ health[Callee] \in HealthRecord
  BY <1>1, <1>6 DEF Types
<1>8. health_after(health[Callee], outcome) \in HealthRecord
  BY <1>7, HealthAfter
<1> QED
  BY <1>2, <1>3, <1>4, <1>5, <1>6, <1>7, <1>8

(* The call failed for another reason than time.                            *)
LEMMA FailInv == IInv /\ Fail => IInv'
<1> SUFFICES ASSUME IInv, Fail PROVE IInv'
  OBVIOUS
<1>1. /\ Types /\ Sendable /\ Balance /\ OutIsApproved
      /\ Story /\ HealthIsOnRecord /\ OwnTimeoutsOnly /\ Told
  BY Groups
<1>2. EndCall("Other") /\ Reply(read, "ExecutionFailed") /\ UNCHANGED <<tracker, log>>
  BY DEF Fail
<1>3. "Other" \in CallOutcome /\ "ExecutionFailed" \in ReplyCode
  BY DEF CallOutcome, ReplyCode
<1>4. /\ Out /\ ~Out' /\ phase' = "listening"
      /\ UNCHANGED <<sent, closed, read, agent_bp>>
      /\ read \in Nat /\ sent[read] \in LineRecord
      /\ health' \in [Servers -> HealthRecord]
      /\ \A s \in Servers : s # Callee => health'[s] = health[s]
      /\ health'[Callee] = health_after(health[Callee], "Other")
      /\ health[Callee] \in HealthRecord
  BY <1>2, <1>3, Ending
<1>5. \A s \in Servers : health'[s] = health[s]
  BY <1>3, <1>4, HealthAfter
<1>6. PICK r \in ReplyRecord :
        /\ replies' = Append(replies, r)
        /\ r.line = read /\ r.id = sent[read].id /\ r.tool = sent[read].tool
        /\ r.code = "ExecutionFailed" /\ replies' \in Seq(ReplyRecord)
  BY <1>1, <1>2, <1>3, <1>4, ReplyIs
<1>7. Types'
  BY <1>1, <1>2, <1>4, <1>6 DEF Types
<1>8. Sendable' /\ Balance' /\ OutIsApproved'
  BY <1>1, <1>4 DEF Sendable, Balance, OutIsApproved
<1>9. Story'
  BY <1>1, <1>2, StoryKeeps DEF Types, TrackerRecord
<1>10. HealthIsOnRecord' /\ OwnTimeoutsOnly'
  BY <1>1, <1>2, <1>5, <1>6, HealthQuiet
<1>11. Told'
  BY <1>1, <1>2, <1>4, <1>6, TellsEnded DEF RejectionCode
<1> QED
  BY <1>7, <1>8, <1>9, <1>10, <1>11, Groups

(* The call ran out of time.                                                *)
LEMMA TimeOutInv == IInv /\ TimeOut => IInv'
<1> SUFFICES ASSUME IInv, TimeOut PROVE IInv'
  OBVIOUS
<1>1. /\ Types /\ Sendable /\ Balance /\ OutIsApproved
      /\ Story /\ HealthIsOnRecord /\ OwnTimeoutsOnly /\ Told
  BY Groups
<1>2. /\ EndCall("Timeout") /\ tracker' = tracker
      /\ Record("downstream_timeout", read, tracker.current_state, {}, "none", 0)
      /\ Reply(read, "DownstreamTimeout")
  BY DEF TimeOut, tracker_after_timeout
<1>3. "Timeout" \in CallOutcome /\ "DownstreamTimeout" \in ReplyCode
  BY DEF CallOutcome, ReplyCode
<1>4. /\ Out /\ ~Out' /\ phase' = "listening"
      /\ UNCHANGED <<sent, closed, read, agent_bp>>
      /\ read \in Nat /\ sent[read] \in LineRecord
      /\ Callee = tool_owner[sent[read].tool] /\ Callee \in Servers
      /\ health' \in [Servers -> HealthRecord]
      /\ \A s \in Servers : s # Callee => health'[s] = health[s]
      /\ health'[Callee] = health_after(health[Callee], "Timeout")
  BY <1>2, <1>3, Ending
<1>5. PICK e \in LogRecord :
        /\ log' = Append(log, e) /\ log' \in Seq(LogRecord)
        /\ e.event = "downstream_timeout" /\ e.line = read /\ e.tool = sent[read].tool
  <2> DEFINE e == [event |-> "downstream_timeout", line |-> read, tool |-> sent[read].tool,
                   state |-> tracker.current_state, ids |-> {},
                   verdict |-> "none", bp_consumed |-> 0]
  <2>1. e \in LogRecord
    BY <1>1, <1>4 DEF LogRecord, LineRecord, Types, TrackerRecord
  <2>2. log' = Append(log, e)
    BY <1>2 DEF Record
  <2> QED
    BY <1>1, <2>1, <2>2, LogGrows
<1>6. ~Evaluation(e) /\ ~Advisory(e)
  BY <1>5 DEF Evaluation, Advisory
<1>7. PICK r \in ReplyRecord :
        /\ replies' = Append(replies, r)
        /\ r.line = read /\ r.id = sent[read].id /\ r.tool = sent[read].tool
        /\ r.code = "DownstreamTimeout" /\ replies' \in Seq(ReplyRecord)
  BY <1>1, <1>2, <1>3, <1>4, ReplyIs
<1>8. Types'
  BY <1>1, <1>2, <1>4, <1>5, <1>7 DEF Types
<1>9. Sendable' /\ Balance' /\ OutIsApproved'
  BY <1>1, <1>4 DEF Sendable, Balance, OutIsApproved
<1>10. Story'
  BY <1>1, <1>2, <1>5, <1>6, StoryTimesOut
<1>11. HealthIsOnRecord' /\ OwnTimeoutsOnly'
  <2>1. \A s : /\ Cardinality(TimeoutsOf(s)) \in Nat
               /\ s = Callee =>
                    Cardinality(TimeoutsOf(s)') = Cardinality(TimeoutsOf(s)) + 1
               /\ s # Callee => TimeoutsOf(s)' = TimeoutsOf(s)
    BY <1>1, <1>4, <1>5, TimeoutsGrow
  <2>2. \A s : /\ Cardinality(TimeoutsOf(s)') \in Nat
               /\ Cardinality(TimeoutsOf(s)) <= Cardinality(TimeoutsOf(s)')
    <3> SUFFICES ASSUME NEW s
                 PROVE  /\ Cardinality(TimeoutsOf(s)') \in Nat
                        /\ Cardinality(TimeoutsOf(s)) <= Cardinality(TimeoutsOf(s)')
      OBVIOUS
    <3>1. /\ Cardinality(TimeoutsOf(s)) \in Nat
          /\ \/ Cardinality(TimeoutsOf(s)') = Cardinality(TimeoutsOf(s)) + 1
             \/ Cardinality(TimeoutsOf(s)') = Cardinality(TimeoutsOf(s))
      BY <2>1
    <3> QED
      BY ONLY <3>1
  <2> QED
    BY <1>1, <1>4, <1>7, <2>1, <2>2, HealthStays
<1>12. Told'
  BY <1>1, <1>4, <1>5, <1>6, <1>7, TellsEnded DEF RejectionCode
<1> QED
  BY <1>8, <1>9, <1>10, <1>11, <1>12, Groups

(* The call brought a result: the tracker takes it in, and an escalation is *)
(* recorded and told.                                                       *)
LEMMA AcceptInv == IInv /\ AcceptResult => IInv'
<1> SUFFICES ASSUME IInv, AcceptResult PROVE IInv'
  OBVIOUS
<1>1. /\ Types /\ Sendable /\ Balance /\ OutIsApproved
      /\ Story /\ HealthIsOnRecord /\ OwnTimeoutsOnly /\ Told
  BY Groups
<1> DEFINE before == tracker.current_state
<1>2. PICK result \in Responses :
        LET new == NewState(result, Callee, before)
            after == AbsorbResponse(tracker, new, Callee, rule_ids(result.hits))
            told == escalated(before, after.current_state)
        IN /\ tracker' = after
           /\ Reply(read, IF told THEN "result with advisory" ELSE "result")
           /\ IF told
              THEN Record("advisory_injection", read, after.current_state,
                          rule_ids(result.hits), "none", 0)
              ELSE UNCHANGED log
  BY DEF AcceptResult
<1> DEFINE new == NewState(result, Callee, before)
           ids == rule_ids(result.hits)
           told == escalated(before, tracker'.current_state)
           code == IF told THEN "result with advisory" ELSE "result"
<1>3. /\ EndCall("Ok") /\ "Ok" \in CallOutcome
      /\ tracker' = AbsorbResponse(tracker, new, Callee, ids)
      /\ Reply(read, code)
      /\ IF told THEN Record("advisory_injection", read, tracker'.current_state, ids, "none", 0)
                 ELSE UNCHANGED log
  BY <1>2 DEF AcceptResult, CallOutcome
<1>4. /\ Out /\ ~Out' /\ phase' = "listening"
      /\ UNCHANGED <<sent, closed, read, agent_bp>>
      /\ read \in Nat /\ sent[read] \in LineRecord
      /\ Callee \in Servers
      /\ Len(log) > 0 /\ Approval(log[Len(log)])
      /\ health' \in [Servers -> HealthRecord]
      /\ \A s \in Servers : s # Callee => health'[s] = health[s]
      /\ health'[Callee] = health_after(health[Callee], "Ok")
      /\ health[Callee] \in HealthRecord
  BY <1>3, Ending
<1>5. tracker \in TrackerRecord /\ before \in ProvenanceState /\ ids \in SUBSET AllIds
  BY <1>1, <1>2 DEF Types, TrackerRecord, AllIds
<1>6. new \in ProvenanceState
  BY <1>5, NewStateType
<1> HIDE DEF new, ids
<1>7. /\ tracker' \in TrackerRecord
      /\ tracker'.current_state > before => tracker'.rule_ids = ids
      /\ tracker'.current_state <= before => tracker'.rule_ids = tracker.rule_ids
      /\ before = Poisoned => tracker'.current_state = Poisoned
  BY <1>3, <1>4, <1>5, <1>6, Absorbing
<1>8. tracker'.current_state \in ProvenanceState
  BY <1>7 DEF TrackerRecord
<1>9. code \in ReplyCode /\ code # "DownstreamConnectionDegraded" /\ code \notin RejectionCode
  BY DEF ReplyCode, RejectionCode
<1>10. PICK r \in ReplyRecord :
         /\ replies' = Append(replies, r)
         /\ r.line = read /\ r.id = sent[read].id /\ r.tool = sent[read].tool
         /\ r.code = code /\ replies' \in Seq(ReplyRecord)
  BY <1>1, <1>3, <1>4, <1>9, ReplyIs
<1> HIDE DEF code
<1>11. told <=> tracker'.current_state > before
  BY DEF escalated
<1>12. /\ Story' /\ log' \in Seq(LogRecord)
       /\ \/ log' = log
          \/ \E e \in LogRecord : /\ log' = Append(log, e) /\ Advisory(e)
                                  /\ e.line = read /\ e.tool = sent[read].tool
  <2>1. CASE told
    <3> DEFINE e == [event |-> "advisory_injection", line |-> read, tool |-> sent[read].tool,
                     state |-> tracker'.current_state, ids |-> ids,
                     verdict |-> "none", bp_consumed |-> 0]
    <3>1. e \in LogRecord
      BY <1>4, <1>5, <1>8 DEF LogRecord, LineRecord
    <3>2. log' = Append(log, e)
      BY <1>3, <2>1 DEF Record
    <3>3. /\ Advisory(e) /\ e.state = tracker'.current_state /\ e.ids = ids
          /\ e.line = read /\ e.tool = sent[read].tool
      BY DEF Advisory
    <3> HIDE DEF e
    <3>4. log' \in Seq(LogRecord)
      BY <1>1, <3>1, <3>2, LogGrows
    <3>5. tracker'.current_state > tracker.current_state /\ tracker'.rule_ids = ids
      BY <1>7, <1>11, <2>1
    <3>6. Story'
      BY <1>1, <1>4, <1>8, <3>1, <3>2, <3>3, <3>5, StoryEscalates
    <3> QED
      BY <3>1, <3>2, <3>3, <3>4, <3>6
  <2>2. CASE ~told
    <3>1. log' = log
      BY <1>3, <2>2
    <3>2. tracker'.current_state <= tracker.current_state
      BY <1>5, <1>8, <1>11, <2>2
    <3>3. tracker'.rule_ids = tracker.rule_ids
      BY <1>7, <3>2
    <3>4. Story'
      BY <1>1, <1>7, <1>8, <3>1, <3>2, <3>3, StoryKeeps
    <3> QED
      BY <1>1, <3>1, <3>4 DEF Types
  <2> QED
    BY <2>1, <2>2
<1>13. Types'
  BY <1>1, <1>4, <1>7, <1>10, <1>12 DEF Types
<1>14. Sendable' /\ Balance' /\ OutIsApproved'
  BY <1>1, <1>4 DEF Sendable, Balance, OutIsApproved
<1>15. HealthIsOnRecord' /\ OwnTimeoutsOnly'
  <2>1. \A s \in Servers :
          \/ health'[s] = health[s]
          \/ health'[s].consecutive_timeouts = 0 /\ (health'[s].degraded => health[s].degraded)
    BY <1>3, <1>4, HealthAfter
  <2>2. \A e \in LogRecord : Advisory(e) => e.event # "downstream_timeout"
    BY DEF Advisory
  <2> QED
    BY <1>1, <1>9, <1>10, <1>12, <2>1, <2>2, HealthQuiet
<1>16. Told'
  <2>1. \A e : Advisory(e) => ~Evaluation(e)
    BY DEF Advisory, Evaluation
  <2> QED
    BY <1>1, <1>4, <1>9, <1>10, <1>12, <2>1, TellsEnded
<1> QED
  BY <1>12, <1>13, <1>14, <1>15, <1>16, Groups

-----------------------------------------------------------------------------
(* IInv is an invariant of every session, whatever lines the agent sends    *)
(* and whatever the servers answer or leave unanswered.                     *)
THEOREM Invariance == ASSUME NoWrap PROVE Spec => []IInv
<1>1. Init => IInv
  BY InitInv
<1>2. IInv /\ [Next]_vars => IInv'
  BY SendInv, CloseInv, SkipInv, AnswerInv, RejectInv, ApproveInv, AcceptInv, TimeOutInv, FailInv
     DEF Next, Agent, Loop, Ends
<1> QED
  BY <1>1, <1>2, PTL DEF Spec

(* The balance stays inside a u32, replies never outrun the lines read, and *)
(* a call is forwarded only on its own approval (main, handle_tools_call).  *)
THEOREM TypeCorrect == ASSUME NoWrap PROVE Spec => []TypeOK
<1>1. IInv => TypeOK
  <2> SUFFICES ASSUME IInv PROVE TypeOK
    OBVIOUS
  <2>1. Types /\ Balance /\ OutIsApproved /\ Told
    BY Groups
  <2>2. agent_bp \in SESSION_INIT_BP..U32-1
    BY <2>1, BudgetAssumption DEF Balance
  <2>3. tracker.current_state \in ProvenanceState
    BY <2>1 DEF Types, TrackerRecord
  <2>4. Len(replies) <= read
    BY <2>1 DEF Told, Kept
  <2>5. Out => log[Len(log)].tool = sent[read].tool
    BY <2>1, Positions DEF OutIsApproved, Told, Labels
  <2>6. Len(log) > 0 => log # <<>>
    OBVIOUS
  <2> QED
    BY <2>1, <2>2, <2>3, <2>4, <2>5, <2>6 DEF TypeOK, Types, OutIsApproved, Out, Current
<1> QED
  BY <1>1, Invariance, PTL

(* After a logged escalation to Poisoned every evaluation of the session,   *)
(* for any server and at any risk, rejects as poisoned.                     *)
THEOREM PoisonStops == ASSUME NoWrap PROVE Spec => []PoisonStopsEveryServer
<1>1. IInv => PoisonStopsEveryServer
  BY DEF IInv, Story
<1> QED
  BY <1>1, Invariance, PTL

(* Between two evaluations the later in a worse state, an advisory_injection *)
(* event has announced that state or a worse one.                           *)
THEOREM LogExplainsState == ASSUME NoWrap PROVE Spec => []EscalationsAreLogged
<1>1. IInv => EscalationsAreLogged
  BY DEF IInv, Story
<1> QED
  BY <1>1, Invariance, PTL

(* The ids in an evaluation's record are those of the escalations since the *)
(* last approval, all of them and no others.                                *)
THEOREM Attribution == ASSUME NoWrap PROVE Spec => []RulesAreAttributedOnce
<1>1. IInv => RulesAreAttributedOnce
  BY DEF IInv, Story
<1> QED
  BY <1>1, Invariance, PTL

(* A refusal for a degraded connection has two timeouts of that connection  *)
(* on record, whatever the other servers did.                               *)
THEOREM TimeoutsAreOwn == ASSUME NoWrap PROVE Spec => []OwnTimeoutsOnly
<1>1. IInv => OwnTimeoutsOnly
  BY DEF IInv
<1> QED
  BY <1>1, Invariance, PTL

(* Evaluations and replies are in one-to-one correspondence but for the     *)
(* call that is out.                                                        *)
THEOREM LogMatchesReplies == ASSUME NoWrap PROVE Spec => []AuditMatchesReplies
<1>1. IInv => AuditMatchesReplies
  BY DEF IInv
<1> QED
  BY <1>1, Invariance, PTL

-----------------------------------------------------------------------------
(* The requests that wait are those not read yet and the one that is out.   *)
StillWaits(n) ==
    n \in DOMAIN sent /\ Answered(sent[n]) /\ (n > read \/ (Out /\ n = read))

LEMMA WaitsFor ==
    ASSUME IInv
    PROVE  /\ \A n : StillWaits(n) => Question(n, sent[n]) \in Promise!Waiting
           /\ \A q \in Promise!Waiting :
                \E n : StillWaits(n) /\ q = Question(n, sent[n]) /\ q.line = n
<1>1. Types /\ Told
  BY Groups
<1>2. /\ Len(sent) \in Nat /\ DOMAIN sent = 1..Len(sent) /\ read \in Nat /\ read <= Len(sent)
  BY <1>1, Positions
<1>3. \A n : StillWaits(n) => Question(n, sent[n]) \in Promise!Waiting
  <2> SUFFICES ASSUME NEW n, StillWaits(n), NEW i \in DOMAIN replies,
                      Question(replies[i].line, replies[i]) = Question(n, sent[n])
               PROVE  FALSE
    BY DEF Promise!Waiting, Asked, Replied, StillWaits
  <2>1. replies[i].line = n
    BY DEF Question
  <2>2. n \in 1..read /\ ~(Out /\ n = read)
    BY <1>1, <2>1 DEF Told, Labels
  <2> QED
    BY <1>2, <2>2 DEF StillWaits
<1>4. \A q \in Promise!Waiting :
        \E n : StillWaits(n) /\ q = Question(n, sent[n]) /\ q.line = n
  <2> SUFFICES ASSUME NEW q \in Promise!Waiting
               PROVE  \E n : StillWaits(n) /\ q = Question(n, sent[n]) /\ q.line = n
    OBVIOUS
  <2>1. PICK n \in DOMAIN sent : Answered(sent[n]) /\ q = Question(n, sent[n])
    BY DEF Promise!Waiting, Asked
  <2>2. q.line = n
    BY <2>1 DEF Question
  <2>3. ~StillWaits(n) => n \in 1..read /\ ~(Out /\ n = read)
    BY <1>2, <2>1 DEF StillWaits
  <2>4. ~StillWaits(n) => FALSE
    <3> SUFFICES ASSUME ~StillWaits(n) PROVE FALSE
      OBVIOUS
    <3>1. PICK i \in DOMAIN replies : replies[i].line = n
      BY <1>1, <2>1, <2>3 DEF Told, Served
    <3>2. replies[i].id = sent[n].id
      BY <1>1, <3>1 DEF Told, Labels
    <3>3. Replied[i] = q /\ i \in DOMAIN Replied
      BY <2>1, <3>1, <3>2 DEF Replied, Question
    <3> QED
      BY <3>3 DEF Promise!Waiting
  <2> QED
    BY <2>1, <2>2, <2>4
<1> QED
  BY <1>3, <1>4

(* Replying to the oldest request that waits is the abstract answer.        *)
LEMMA AnswersOldest ==
    ASSUME IInv, NEW n, Answered(sent[n]), n \in DOMAIN sent,
           \/ ~Out /\ n = read + 1
           \/ Out /\ n = read,
           NEW code \in ReplyCode, Reply(n, code), UNCHANGED sent,
           phase # "stopped", phase' # "stopped"
    PROVE  Promise!Answer
<1>1. Types
  BY Groups
<1>2. /\ Len(sent) \in Nat /\ DOMAIN sent = 1..Len(sent) /\ read \in Nat /\ n \in Nat
      /\ sent[n] \in LineRecord
  BY <1>1, Positions
<1>3. StillWaits(n)
  BY <1>2 DEF StillWaits
<1>4. \A m : StillWaits(m) => n <= m
  BY <1>2 DEF StillWaits
<1> DEFINE q == Question(n, sent[n])
<1>5. q \in Promise!Waiting /\ \A p \in Promise!Waiting : q.line <= p.line
  <2>1. q \in Promise!Waiting
    BY <1>3, WaitsFor
  <2>2. q.line = n
    BY DEF Question
  <2>3. \A p \in Promise!Waiting : \E m : StillWaits(m) /\ p.line = m
    BY WaitsFor
  <2> HIDE DEF q
  <2> QED
    BY <1>4, <2>1, <2>2, <2>3
<1>6. PICK r \in ReplyRecord :
        /\ replies' = Append(replies, r)
        /\ r.line = n /\ r.id = sent[n].id
  BY <1>1, <1>2, ReplyIs
<1>7. Replied' = Append(Replied, q)
  <2> DEFINE k == Len(replies)
             S == {Question(replies[i].line, replies[i]) : i \in 1..k} \cup {q}
  <2>1. /\ k \in Nat /\ DOMAIN replies = 1..k /\ DOMAIN replies' = 1..k+1
        /\ \A i \in 1..k : replies'[i] = replies[i]
        /\ replies'[k+1] = r
    BY <1>1, <1>6, RepliesGrow
  <2>2. \A i \in 1..k+1 : i \in 1..k \/ i = k+1
    BY <2>1
  <2>3. Question(r.line, r) = q
    BY <1>6 DEF Question
  <2>4. Replied \in [1..k -> S]
    BY <2>1 DEF Replied
  <2>5. Replied' \in [1..k+1 -> S]
    BY <2>1, <2>2, <2>3 DEF Replied
  <2>6. /\ \A i \in 1..k : Replied'[i] = Replied[i]
        /\ Replied'[k+1] = q
    <3>1. \A i \in 1..k+1 : Replied'[i] = Question(replies'[i].line, replies'[i])
      BY <2>1 DEF Replied
    <3>2. \A i \in 1..k : Replied[i] = Question(replies[i].line, replies[i]) /\ i \in 1..k+1
      BY <2>1 DEF Replied
    <3>3. k+1 \in 1..k+1
      BY <2>1
    <3> QED
      BY <2>1, <2>3, <3>1, <3>2, <3>3
  <2>7. q \in S
    OBVIOUS
  <2> HIDE DEF k, S, q
  <2>8. /\ Replied \in Seq(S) /\ Len(Replied) = k
        /\ Replied' \in Seq(S) /\ Len(Replied') = k+1
    BY <2>1, <2>4, <2>5, SeqDef, LenProperties
  <2>9. /\ Append(Replied, q) \in Seq(S) /\ Len(Append(Replied, q)) = k+1
        /\ \A i \in 1..k : Append(Replied, q)[i] = Replied[i]
        /\ Append(Replied, q)[k+1] = q
    BY <2>7, <2>8, AppendDomain
  <2>10. \A i \in 1..k+1 : Replied'[i] = Append(Replied, q)[i]
    BY <2>2, <2>6, <2>9
  <2> QED
    BY <2>8, <2>9, <2>10, SeqEqual
<1>8. UNCHANGED <<Asked, Garbled, Serving>> /\ Serving
  BY DEF Asked, Garbled, Serving, Answered
<1> HIDE DEF q
<1> QED
  BY <1>5, <1>7, <1>8 DEF Promise!Answer

(* A line the agent sends is asked, or asks for nothing.                    *)
LEMMA SendIsAsk == IInv /\ Send => [Promise!Next]_(Promise!vars)
<1> SUFFICES ASSUME IInv, Send PROVE [Promise!Next]_(Promise!vars)
  OBVIOUS
<1>1. Types
  BY Groups
<1>2. PICK line \in Lines :
        sent' = Append(sent, [line EXCEPT !.id = IF @ = NoId THEN NoId ELSE Len(sent) + 1])
  BY DEF Send
<1> DEFINE new == [line EXCEPT !.id = IF @ = NoId THEN NoId ELSE Len(sent) + 1]
           k == Len(sent)
<1>3. /\ line \in LineRecord
  BY GatewayAssumption DEF LineRecord
<1>4. new \in LineRecord
  <2> DEFINE id == IF line.id = NoId THEN NoId ELSE Len(sent) + 1
  <2>1. id \in Nat
    BY <1>1, Positions DEF NoId
  <2>2. new = [line EXCEPT !.id = id]
    OBVIOUS
  <2> HIDE DEF new, id
  <2> QED
    BY <1>3, <2>1, <2>2 DEF LineRecord
<1> HIDE DEF new
<1>5. /\ k \in Nat /\ DOMAIN sent = 1..k /\ DOMAIN sent' = 1..k+1
      /\ \A n \in 1..k : sent'[n] = sent[n]
      /\ sent'[k+1] = new
  <2>1. sent \in Seq(LineRecord) /\ sent' = Append(sent, new)
    BY <1>1, <1>2 DEF Types, new
  <2> QED
    BY <1>4, <2>1, AppendDomain
<1> HIDE DEF k
<1>6. \A n \in 1..k+1 : n \in 1..k \/ n = k+1
  BY <1>5
<1>7. 1..k \subseteq 1..k+1 /\ k+1 \in 1..k+1 /\ \A n \in 1..k : n < k+1
  BY <1>5
<1>8. UNCHANGED <<Replied, Serving>>
  BY DEF Send, Replied, Serving
<1>9. Garbled => Garbled'
  BY <1>5, <1>7 DEF Garbled
<1> DEFINE q == Question(k+1, new)
<1>10. CASE Answered(new)
  <2>1. Asked' = Asked \cup {q}
    BY <1>5, <1>6, <1>7, <1>10 DEF Asked, Answered
  <2>2. \A p \in Asked : p.line < q.line
    <3>1. \A p \in Asked : \E n \in 1..k : p.line = n
      BY <1>5 DEF Asked, Question
    <3>2. q.line = k+1
      BY DEF Question
    <3> HIDE DEF q
    <3> QED
      BY <1>7, <3>1, <3>2
  <2>3. Garbled' = Garbled
    <3>1. new.kind # "binary"
      BY <1>10 DEF Answered
    <3>2. Garbled' <=> Garbled
      BY <1>5, <1>6, <1>7, <3>1 DEF Garbled
    <3> QED
      BY <3>2 DEF Garbled
  <2> HIDE DEF q
  <2> QED
    BY <1>8, <2>1, <2>2, <2>3 DEF Promise!Next, Promise!Ask
<1>11. CASE ~Answered(new)
  <2>1. Asked' = Asked
    BY <1>5, <1>6, <1>7, <1>11 DEF Asked, Answered
  <2>2. Garbled' = Garbled \/ Garbled' = TRUE
    BY <1>9 DEF Garbled
  <2> QED
    BY <1>8, <2>1, <2>2 DEF Promise!Next, Promise!Garble, Promise!vars
<1> QED
  BY <1>10, <1>11

(* What the gateway writes implements RequestReply: requests are answered   *)
(* once each, oldest first and with their own ids, and it ends only with    *)
(* none waiting or after a line that is not text.                           *)
THEOREM PromiseSafety ==
    ASSUME NoWrap PROVE Spec => Promise!Init /\ [][Promise!Next]_(Promise!vars)
<1>1. Init => Promise!Init
  BY DEF Init, Promise!Init, Asked, Replied, Garbled, Serving
<1>2. ASSUME IInv, [Next]_vars
      PROVE  [Promise!Next]_(Promise!vars)
  <2>1. /\ Types /\ Sendable
    BY <1>2, Groups
  <2>2. ASSUME UNCHANGED <<sent, replies>>, Serving' = Serving
        PROVE  UNCHANGED (Promise!vars)
    BY <2>2 DEF Promise!vars, Asked, Replied, Garbled, Serving, Answered
  <2>3. ASSUME Take
        PROVE  /\ ~Out /\ phase = "listening" /\ read + 1 \in DOMAIN sent
               /\ sent[read+1] \in LineRecord
    BY <2>1, <2>3, Taking
  <2>4. CASE Send
    BY <1>2, <2>4, SendIsAsk
  <2>5. CASE Close \/ SkipLine \/ UNCHANGED vars
    <3>1. UNCHANGED <<sent, replies>> /\ Serving' = Serving
      BY <2>5 DEF Close, SkipLine, vars, Serving
    <3> QED
      BY <2>2, <3>1
  <2>6. CASE AnswerLine
    <3>1. /\ Take /\ Answered(sent[read+1]) /\ UNCHANGED <<sent, phase>>
          /\ \E code \in ReplyCode : Reply(read + 1, code)
      BY <2>6 DEF AnswerLine, Next_line, ReplyCode
    <3>2. Promise!Answer
      BY <1>2, <2>3, <3>1, AnswersOldest
    <3> QED
      BY <3>2 DEF Promise!Next
  <2>7. CASE RefuseCall
    <3>1. Refusal(sent[read+1].tool) \in ReplyCode
      BY GatewayAssumption DEF Refusal, ReplyCode
    <3>2. /\ Take /\ Answered(sent[read+1]) /\ UNCHANGED <<sent, phase>>
          /\ \E code \in ReplyCode : Reply(read + 1, code)
      BY <2>7, <3>1 DEF RefuseCall, Next_line, Answered
    <3>3. Promise!Answer
      BY <1>2, <2>3, <3>2, AnswersOldest
    <3> QED
      BY <3>3 DEF Promise!Next
  <2>8. CASE RejectCall
    <3>1. \A tool : VerdictOn(tool) # "Approved" => VerdictOn(tool) \in ReplyCode
      BY VerdictType DEF ReplyCode
    <3>2. /\ Take /\ Answered(sent[read+1]) /\ UNCHANGED <<sent, phase>>
          /\ \E code \in ReplyCode : Reply(read + 1, code)
      BY <2>8, <3>1 DEF RejectCall, Evaluates, Next_line, Answered
    <3>3. Promise!Answer
      BY <1>2, <2>3, <3>2, AnswersOldest
    <3> QED
      BY <3>3 DEF Promise!Next
  <2>9. CASE ApproveCall
    <3>1. /\ Take /\ Answered(sent[read+1]) /\ UNCHANGED sent
          /\ \/ Reply(read + 1, "DownstreamConnectionDegraded") /\ UNCHANGED phase
             \/ phase' = "forwarding" /\ UNCHANGED replies
      BY <2>9 DEF ApproveCall, Evaluates, Next_line, Answered
    <3>2. CASE Reply(read + 1, "DownstreamConnectionDegraded") /\ UNCHANGED phase
      <4>1. "DownstreamConnectionDegraded" \in ReplyCode
        BY DEF ReplyCode
      <4>2. Promise!Answer
        BY <1>2, <2>3, <3>1, <3>2, <4>1, AnswersOldest
      <4> QED
        BY <4>2 DEF Promise!Next
    <3>3. CASE phase' = "forwarding" /\ UNCHANGED replies
      <4>1. Serving' = Serving
        BY <2>3, <3>1, <3>3 DEF Serving
      <4> QED
        BY <2>2, <3>1, <3>3, <4>1
    <3> QED
      BY <3>1, <3>2, <3>3
  <2>10. CASE ReadFails \/ Shutdown
    <3>1. /\ Serving /\ Serving' = FALSE /\ UNCHANGED <<sent, replies>>
      BY <2>10, <2>3 DEF ReadFails, Shutdown, Serving
    <3>2. Garbled \/ Promise!Waiting = {}
      <4>1. CASE ReadFails
        BY <2>3, <4>1 DEF ReadFails, Garbled, Next_line
      <4>2. CASE Shutdown
        <5>1. read = Len(sent) /\ ~Out
          BY <4>2 DEF Shutdown, Out
        <5>2. \A n : ~StillWaits(n)
          BY <2>1, <5>1, Positions DEF StillWaits
        <5> QED
          BY <1>2, <5>2, WaitsFor
      <4> QED
        BY <2>10, <4>1, <4>2
    <3>3. UNCHANGED <<Asked, Replied, Garbled>>
      BY <3>1 DEF Asked, Replied, Garbled, Answered
    <3> QED
      BY <3>1, <3>2, <3>3 DEF Promise!Next, Promise!Stop
  <2>11. CASE Ends
    <3>1. /\ \E outcome \in CallOutcome : EndCall(outcome)
          /\ \E code \in ReplyCode : Reply(read, code)
      BY <2>11 DEF Ends, AcceptResult, TimeOut, Fail, CallOutcome, ReplyCode
    <3>2. Out /\ phase' = "listening" /\ UNCHANGED sent
      BY <1>2, <3>1, Ending
    <3>3. read \in DOMAIN sent /\ Answered(sent[read])
      BY <1>2, <3>2, Groups DEF OutIsApproved, Answered
    <3>4. Promise!Answer
      BY <1>2, <3>1, <3>2, <3>3, AnswersOldest DEF Out
    <3> QED
      BY <3>4 DEF Promise!Next
  <2> QED
    BY <1>2, <2>4, <2>5, <2>6, <2>7, <2>8, <2>9, <2>10, <2>11 DEF Next, Agent, Loop
<1> QED
  BY <1>1, <1>2, Invariance, PTL DEF Spec

-----------------------------------------------------------------------------
(* Timeouts, failures, refusals and every line that is no call leave the    *)
(* provenance state and its streak as they are.                             *)
THEOREM ResultsAreEvidence == ASSUME NoWrap PROVE Spec => OnlyResultsAreEvidence
<1> DEFINE Moved == \/ tracker'.current_state # tracker.current_state
                    \/ tracker'.clean_calls # tracker.clean_calls
           Justified == Moved => phase = "forwarding" /\ IsResult(replies'[Len(replies')])
<1>1. ASSUME IInv, [Next]_vars
      PROVE  [Justified]_vars
  <2>1. Types
    BY <1>1, Groups
  <2>2. CASE AcceptResult
    <3>1. PICK code \in {"result", "result with advisory"} : Reply(read, code)
      BY <2>2 DEF AcceptResult
    <3>2. "Ok" \in CallOutcome /\ EndCall("Ok") /\ code \in ReplyCode
      BY <2>2 DEF AcceptResult, CallOutcome, ReplyCode
    <3>3. Out /\ read \in Nat /\ sent[read] \in LineRecord
      BY <1>1, <3>2, Ending
    <3> DEFINE r == [line |-> read, id |-> sent[read].id,
                     tool |-> sent[read].tool, code |-> code]
    <3>4. /\ r \in ReplyRecord /\ replies' = Append(replies, r)
          /\ r.code = code
      <4>1. r \in ReplyRecord
        BY <3>2, <3>3 DEF ReplyRecord, LineRecord
      <4>2. replies' = Append(replies, r)
        BY <3>1 DEF Reply
      <4> QED
        BY <4>1, <4>2
    <3> HIDE DEF r
    <3>5. replies'[Len(replies')] = r
      BY <2>1, <3>4, RepliesGrow
    <3> QED
      BY <3>1, <3>3, <3>4, <3>5 DEF IsResult, Out
  <2>3. CASE ApproveCall
    <3>1. tracker' = taken(tracker)
      BY <2>3 DEF ApproveCall
    <3>2. ~Moved
      BY <2>1, <3>1 DEF taken, Types, TrackerRecord
    <3> QED
      BY <3>2
  <2>4. CASE ~AcceptResult /\ ~ApproveCall
    <3>1. tracker' = tracker
      BY <1>1, <2>4
         DEF Next, Agent, Loop, Ends, Send, Close, SkipLine, AnswerLine, ReadFails, RefuseCall,
             RejectCall, Shutdown, TimeOut, tracker_after_timeout, Fail, governance, vars
    <3> QED
      BY <3>1
  <2> QED
    BY <2>2, <2>3, <2>4
<1> QED
  BY <1>1, Invariance, PTL DEF Spec, OnlyResultsAreEvidence
=============================================================================
