-------------------------------- MODULE Membrane --------------------------------
(***************************************************************************)
(* The Membrane of membrane.rs with its QuotaCounter (quota.rs): agents    *)
(* register and deregister, and every proposal of a registered agent is    *)
(* evaluated against the provenance state it comes with, the agent's risk  *)
(* budget and the monthly usage counter.                                   *)
(***************************************************************************)
EXTENDS RiskGate, FiniteSets

CONSTANTS
    Conns,             \* connection ids, each a fresh uuid used once
    max_agents,        \* how many may be registered at once
    quota_limit,       \* the monthly usage counter's limit
    Proposals,         \* proposals an agent may make
    LastMonth,         \* bound: months are 1..LastMonth
    MaxEvals           \* bound: evaluations in one month

ASSUME MembraneAssumption ==
    /\ max_agents \in Nat
    /\ quota_limit \in Nat
    /\ Proposals \subseteq Proposal
    /\ LastMonth \in Nat \ {0}
    /\ MaxEvals \in Nat

VARIABLES
    agent_accumulators,  \* basis points of each registered connection
    quota,               \* [count, period]: count_this_period, current_period
    exhaustion_notice,   \* budget_exhaustion_notice_fired
    now,                 \* the calendar month
    log                  \* what the audit log and the operator saw

vars == <<agent_accumulators, quota, exhaustion_notice, now, log>>

Registered == DOMAIN agent_accumulators
Months     == 1..LastMonth

(***************************************************************************)
(* log.used: ids seen so far.  log.charged[c]: the cost of c's approved    *)
(* calls.  log.refused[c]: the least cost c was refused for its budget, 0  *)
(* if never.  log.evals, log.quota_notices: per month.                     *)
(* log.budget_notices: session_risk_budget_exhausted events.               *)
(***************************************************************************)
InitLog == [used |-> {}, charged |-> [c \in Conns |-> 0], refused |-> [c \in Conns |-> 0],
            evals |-> [m \in Months |-> 0], quota_notices |-> [m \in Months |-> 0],
            budget_notices |-> 0]

Init ==
    /\ agent_accumulators = [c \in {} |-> 0]
    /\ quota = [count |-> 0, period |-> 1]
    /\ exhaustion_notice = FALSE
    /\ now = 1
    /\ log = InitLog

-----------------------------------------------------------------------------
Extend(f, x, y) == [z \in DOMAIN f \cup {x} |-> IF z = x THEN y ELSE f[z]]

(* Mutant: lets one agent too many in. *)
register_agent_off_by_one(c) ==
    /\ c \notin log.used
    /\ IF Cardinality(Registered) > max_agents
       THEN UNCHANGED agent_accumulators
       ELSE agent_accumulators' = Extend(agent_accumulators, c, SESSION_INIT_BP)
    /\ log' = [log EXCEPT !.used = @ \cup {c}]
    /\ UNCHANGED <<quota, exhaustion_notice, now>>

register_agent(c) ==
    /\ c \notin log.used
    /\ IF Cardinality(Registered) >= max_agents
       THEN UNCHANGED agent_accumulators
       ELSE agent_accumulators' = Extend(agent_accumulators, c, SESSION_INIT_BP)
    /\ log' = [log EXCEPT !.used = @ \cup {c}]
    /\ UNCHANGED <<quota, exhaustion_notice, now>>

deregister_agent(c) ==
    /\ c \in Registered
    /\ agent_accumulators' = [d \in Registered \ {c} |-> agent_accumulators[d]]
    /\ UNCHANGED <<quota, exhaustion_notice, now, log>>

(* The month is read, and the count reset, only when a call is evaluated.   *)
(* The mutant forgets to store the new period.                              *)
record_and_get_count_keeps_period(q, month) ==
    IF month # q.period THEN [count |-> 1, period |-> q.period]
                        ELSE [q EXCEPT !.count = @ + 1]

record_and_get_count(q, month) ==
    IF month # q.period THEN [count |-> 1, period |-> month]
                        ELSE [q EXCEPT !.count = @ + 1]

(* Mutant: starts every charge from the initial balance. *)
charge_from_init(bp, cost) == AddU32(SESSION_INIT_BP, cost)

charge(bp, cost) == AddU32(bp, cost)

(* The exhaustion notice is fired once; the mutant repeats it. *)
notice_fires_always(fired, exhausted) == exhausted

notice_fires(fired, exhausted) == exhausted /\ ~fired

evaluate(c, p, state) ==
    LET effective == effective_risk(p.risk, state, p.tagged)
        verdict == VerdictOf(p, state, agent_accumulators[c])
        price == contribution_bp(effective, state, p.grade)
        cost == IF verdict = "Approved" THEN price ELSE 0
        exhausted == verdict = "RiskFloorExceeded"
    IN /\ quota' = record_and_get_count(quota, now)
       /\ agent_accumulators' = [agent_accumulators EXCEPT ![c] = charge(@, cost)]
       /\ exhaustion_notice' = (exhaustion_notice \/ exhausted)
       /\ log' = [log EXCEPT
            !.charged[c] = @ + cost,
            !.refused[c] = IF exhausted /\ (@ = 0 \/ price < @) THEN price ELSE @,
            !.evals[now] = @ + 1,
            !.quota_notices[now] = IF quota'.count = quota_limit THEN @ + 1 ELSE @,
            !.budget_notices = IF notice_fires(exhaustion_notice, exhausted)
                               THEN @ + 1 ELSE @]
       /\ UNCHANGED now

Evaluate == \E c \in Registered, p \in Proposals, state \in ProvenanceState :
                log.evals[now] < MaxEvals /\ evaluate(c, p, state)

NextMonth ==
    /\ now < LastMonth
    /\ now' = now + 1
    /\ UNCHANGED <<agent_accumulators, quota, exhaustion_notice, log>>

Next ==
    \/ \E c \in Conns : register_agent(c) \/ deregister_agent(c)
    \/ Evaluate
    \/ NextMonth

Spec == Init /\ [][Next]_vars

-----------------------------------------------------------------------------
(* Well-formedness; no more agents than allowed are registered, each once.  *)
TypeOK ==
    /\ Registered \subseteq log.used /\ log.used \subseteq Conns
    /\ agent_accumulators \in [Registered -> 0..U32-1]
    /\ Cardinality(Registered) <= max_agents
    /\ quota.count \in 0..MaxEvals /\ quota.period \in 1..now
    /\ now \in Months
    /\ exhaustion_notice \in BOOLEAN

(* The budget is exact: what an agent's accumulator says is what its        *)
(* approved calls cost, nothing refused is charged, and the total of a      *)
(* session stays below the ceiling (evaluate's check and its insert use the *)
(* same price).                                                             *)
BudgetIsExact ==
    /\ \A c \in Registered : agent_accumulators[c] = SESSION_INIT_BP + log.charged[c]
    /\ \A c \in Conns : log.charged[c] > 0 => SESSION_INIT_BP + log.charged[c] < MaxSessionRiskBp

(* A refusal for the budget stands: nothing at that price or above is       *)
(* approved again for that connection, in any provenance state; there is no *)
(* way to have budget given back other than a new connection.               *)
RefusalsStand ==
    \A c \in Registered, p \in Proposals, state \in ProvenanceState :
        LET effective == effective_risk(p.risk, state, p.tagged) IN
        /\ log.refused[c] > 0
        /\ contribution_bp(effective, state, p.grade) >= log.refused[c]
        => VerdictOf(p, state, agent_accumulators[c]) # "Approved"

(* The exhaustion notice fires for the first refusal and never again, over  *)
(* all connections.                                                         *)
NoticeFiresOnce ==
    log.budget_notices = IF \E c \in Conns : log.refused[c] > 0 THEN 1 ELSE 0

(* The usage notice fires once in every month that reaches the limit, on    *)
(* that call, wherever the month boundary falls between two calls.          *)
QuotaNoticePerMonth ==
    \A m \in Months :
        log.quota_notices[m] = IF quota_limit > 0 /\ log.evals[m] >= quota_limit THEN 1 ELSE 0

(* Nothing that makes a call look worse can get it approved: raising its    *)
(* class, tagging it, taking its authority or its server's grade away,      *)
(* degrading the session or spending more of its budget never turns a       *)
(* rejection into an approval.                                              *)
AuthorityRank(a) == IF a = "External" THEN 1 ELSE 0
GradeRank(g)     == IF g = "Unvalidated" THEN 1 ELSE 0

Tighter(p, q) ==
    /\ q.risk >= p.risk
    /\ p.tagged => q.tagged
    /\ AuthorityRank(q.authority) >= AuthorityRank(p.authority)
    /\ GradeRank(q.grade) >= GradeRank(p.grade)

TighteningNeverUnlocks ==
    \A c, d \in Registered, p, q \in Proposals, s, t \in ProvenanceState :
        /\ Tighter(p, q) /\ t >= s
        /\ agent_accumulators[d] >= agent_accumulators[c]
        /\ VerdictOf(q, t, agent_accumulators[d]) = "Approved"
        => VerdictOf(p, s, agent_accumulators[c]) = "Approved"
=============================================================================
