----------------------------- MODULE MembraneProofs -----------------------------
(***************************************************************************)
(* Theorems about the Membrane, for every ceiling, limit, set of agents    *)
(* and set of proposals.                                                   *)
(***************************************************************************)
EXTENDS Membrane, FiniteSetTheorems, TLAPS

USE DEF Clean, Elevated, Contaminated, Poisoned, ProvenanceState,
        LowRisk, MediumRisk, HighRisk, CriticalRisk, RiskClass

(* The price of a call: nothing for Low and something otherwise; at most    *)
(* the dearest call, unless it is Critical in a Contaminated session.       *)
LEMMA Price ==
    ASSUME NEW r \in RiskClass, NEW s \in ProvenanceState, NEW g \in SourceGrade
    PROVE  /\ contribution_bp(r, s, g) \in Nat
           /\ (r = CriticalRisk => s # Contaminated) => contribution_bp(r, s, g) <= DearestCall
           /\ contribution_bp(r, s, g) = 0 <=> r = LowRisk
<1>1. /\ base_bp(r) \in {0, 800, 2000, 4000} /\ (base_bp(r) = 0 <=> r = LowRisk)
      /\ base_bp(r) = 4000 => r = CriticalRisk
  BY DEF base_bp
<1>2. CASE g = "Unvalidated" /\ s = Contaminated
  <2>1. contribution_bp(r, s, g) = (((base_bp(r) * 135) \div 100) * 150) \div 100
    BY <1>2 DEF contribution_bp, Surcharge, external_content_influence
  <2>2. <<base_bp(r), contribution_bp(r, s, g)>>
            \in {<<0, 0>>, <<800, 1620>>, <<2000, 4050>>, <<4000, 8100>>}
    <3>1. CASE base_bp(r) = 0
      BY <2>1, <3>1
    <3>2. CASE base_bp(r) = 800
      BY <2>1, <3>2
    <3>3. CASE base_bp(r) = 2000
      BY <2>1, <3>3
    <3>4. CASE base_bp(r) = 4000
      BY <2>1, <3>4
    <3> QED
      BY <1>1, <3>1, <3>2, <3>3, <3>4
  <2> QED
    BY <1>1, <1>2, <2>2 DEF DearestCall
<1>3. CASE g = "Unvalidated" /\ s # Contaminated
  <2>1. contribution_bp(r, s, g) = (base_bp(r) * 150) \div 100
    BY <1>3 DEF contribution_bp, Surcharge, external_content_influence
  <2> QED
    BY <1>1, <2>1 DEF DearestCall
<1>4. CASE g # "Unvalidated" /\ s = Contaminated
  <2>1. contribution_bp(r, s, g) = (base_bp(r) * 135) \div 100
    BY <1>4 DEF contribution_bp, Surcharge, external_content_influence
  <2> QED
    BY <1>1, <2>1 DEF DearestCall
<1>5. CASE g # "Unvalidated" /\ s # Contaminated
  <2>1. contribution_bp(r, s, g) = base_bp(r)
    BY <1>5 DEF contribution_bp, Surcharge, external_content_influence
  <2> QED
    BY <1>1, <2>1 DEF DearestCall
<1> QED
  BY <1>2, <1>3, <1>4, <1>5

\* Modulation of a declared class by state and tag (membrane.rs modulate_risk_class)
\* yields a risk class again.
LEMMA EffectiveType ==
    ASSUME NEW r \in RiskClass, NEW s \in ProvenanceState, NEW t
    PROVE  effective_risk(r, s, t) \in RiskClass
  BY DEF effective_risk, AfterState, AfterTag

\* Short of Poisoned, a call of a higher effective class, in a worse state, or from
\* an unvalidated source never costs less (the pricing of membrane.rs evaluate).
LEMMA PriceMonotonic ==
    ASSUME NEW r1 \in RiskClass, NEW r2 \in RiskClass, r1 <= r2,
           NEW s1 \in {Clean, Elevated, Contaminated},
           NEW s2 \in {Clean, Elevated, Contaminated}, s1 <= s2,
           NEW g1 \in SourceGrade, NEW g2 \in SourceGrade,
           g1 = "Unvalidated" => g2 = "Unvalidated"
    PROVE  contribution_bp(r1, s1, g1) <= contribution_bp(r2, s2, g2)
  BY DEF contribution_bp, Surcharge, base_bp, external_content_influence

\* Addition of u32 values is exact below 2^32.
LEMMA NoCarry ==
    ASSUME NEW m \in Nat, NEW n \in Nat, m + n < U32
    PROVE  AddU32(m, n) = m + n
BY BudgetAssumption DEF AddU32

(* What VerdictOf says of an approved call, spelled out.                     *)
LEMMA ApprovalMeans ==
    ASSUME NEW p \in Proposal, NEW s \in ProvenanceState, NEW bp \in Nat
    PROVE  VerdictOf(p, s, bp) = "Approved" <=>
             LET e == effective_risk(p.risk, s, p.tagged) IN
             /\ s # Poisoned
             /\ e = CriticalRisk => s = Clean /\ p.authority # "External"
             /\ e # LowRisk => ~(AddU32(bp, contribution_bp(e, s, p.grade)) >= MaxSessionRiskBp)
<1> DEFINE e == effective_risk(p.risk, s, p.tagged)
           c == contribution_bp(e, s, p.grade)
<1> HIDE DEF e, c
<1> QED
  BY DEF VerdictOf, modulate_risk_class, e, c

(* A higher class, a worse state, a worse grade or the tag never makes the   *)
(* effective class lower or the call cheaper.                                *)
LEMMA EffectiveMonotonic ==
    ASSUME NEW p \in Proposal, NEW q \in Proposal, Tighter(p, q),
           NEW s \in {Clean, Elevated, Contaminated},
           NEW t \in {Clean, Elevated, Contaminated}, s <= t
    PROVE  effective_risk(p.risk, s, p.tagged) <= effective_risk(q.risk, t, q.tagged)
<1>1. /\ p.risk \in RiskClass /\ q.risk \in RiskClass /\ p.risk <= q.risk
      /\ p.tagged => q.tagged
  BY DEF Tighter, Proposal
<1>2. AfterState(p.risk, s) \in RiskClass /\ AfterState(q.risk, t) \in RiskClass
  BY <1>1 DEF AfterState
<1>3. AfterState(p.risk, s) <= AfterState(q.risk, t)
  BY <1>1 DEF AfterState
<1>4. CASE p.tagged
  BY <1>1, <1>2, <1>3, <1>4 DEF AfterTag, effective_risk
<1>5. CASE ~p.tagged
  BY <1>1, <1>2, <1>3, <1>5 DEF AfterTag, effective_risk
<1> QED
  BY <1>4, <1>5

(* Without a wrap, nothing that makes a call look worse can get it approved. *)
THEOREM TighteningLemma ==
    ASSUME NEW p \in Proposal, NEW q \in Proposal, Tighter(p, q),
           NEW s \in ProvenanceState, NEW t \in ProvenanceState, t >= s,
           NEW a \in Nat, NEW b \in Nat, b >= a, b + DearestCall < U32,
           VerdictOf(q, t, b) = "Approved"
    PROVE  VerdictOf(p, s, a) = "Approved"
<1> DEFINE e == effective_risk(p.risk, s, p.tagged)
           f == effective_risk(q.risk, t, q.tagged)
           c == contribution_bp(e, s, p.grade)
           d == contribution_bp(f, t, q.grade)
<1>1. /\ p.risk \in RiskClass /\ q.risk \in RiskClass /\ p.risk <= q.risk
      /\ p.tagged \in BOOLEAN /\ q.tagged \in BOOLEAN /\ p.tagged => q.tagged
      /\ p.grade \in SourceGrade /\ q.grade \in SourceGrade
      /\ p.grade = "Unvalidated" => q.grade = "Unvalidated"
      /\ p.authority = "External" => q.authority = "External"
  BY DEF Tighter, Proposal, AuthorityRank, GradeRank
<1>2. /\ t # Poisoned
      /\ f = CriticalRisk => t = Clean /\ q.authority # "External"
      /\ f # LowRisk => ~(AddU32(b, d) >= MaxSessionRiskBp)
  BY ApprovalMeans, BudgetAssumption
<1>3. s \in {Clean, Elevated, Contaminated} /\ t \in {Clean, Elevated, Contaminated}
  BY <1>2
<1>4. e \in RiskClass /\ f \in RiskClass /\ e <= f
  <2>1. e \in RiskClass
    BY <1>1, EffectiveType
  <2>2. f \in RiskClass
    BY <1>1, EffectiveType
  <2>3. e <= f
    BY <1>3, EffectiveMonotonic
  <2> QED
    BY <2>1, <2>2, <2>3
<1>5. c \in Nat /\ d \in Nat /\ c <= d /\ d <= DearestCall
  BY <1>1, <1>2, <1>3, <1>4, Price, PriceMonotonic
<1> HIDE DEF e, f, c, d
<1>6. e # LowRisk => ~(AddU32(a, c) >= MaxSessionRiskBp)
  <2>1. a + c < U32 /\ b + d < U32 /\ a + c <= b + d
    BY <1>5, BudgetAssumption DEF DearestCall
  <2>2. AddU32(a, c) = a + c /\ AddU32(b, d) = b + d
    BY <1>5, <2>1, BudgetAssumption DEF AddU32, DearestCall
  <2>3. e # LowRisk => f # LowRisk
    BY <1>4
  <2>4. c \in Nat /\ d \in Nat
    BY <1>5 DEF DearestCall
  <2> QED
    BY <1>2, <2>1, <2>2, <2>3, <2>4, BudgetAssumption
<1>7. e = CriticalRisk => s = Clean /\ p.authority # "External"
  BY <1>1, <1>2, <1>4, <1>3
<1> QED
  BY <1>3, <1>6, <1>7, ApprovalMeans, BudgetAssumption DEF e, c

-----------------------------------------------------------------------------
(***************************************************************************)
(* The inductive invariant.  Apart from the properties themselves: a       *)
(* connection that was never seen has spent and been refused nothing, what *)
(* a connection was once refused still does not fit, and the usage counter *)
(* agrees with the evaluations of the month it was last read in.           *)
(***************************************************************************)
LogOK ==
    /\ log = [used |-> log.used, charged |-> log.charged, refused |-> log.refused,
              evals |-> log.evals, quota_notices |-> log.quota_notices,
              budget_notices |-> log.budget_notices]
    /\ log.charged \in [Conns -> Nat]
    /\ log.refused \in [Conns -> Nat]
    /\ log.evals \in [Months -> 0..MaxEvals]
    /\ log.quota_notices \in [Months -> Nat]

FreshIsEmpty == \A c \in Conns \ log.used : log.charged[c] = 0 /\ log.refused[c] = 0

QuotaAgrees ==
    /\ quota = [count |-> quota.count, period |-> quota.period]
    /\ log.evals[quota.period] = quota.count
    /\ \A m \in Months : m > quota.period => log.evals[m] = 0

StillTooDear ==
    \A c \in Registered : log.refused[c] > 0 =>
        agent_accumulators[c] + log.refused[c] >= MaxSessionRiskBp

NoticeAgrees == exhaustion_notice <=> \E c \in Conns : log.refused[c] > 0

MInv ==
    /\ TypeOK
    /\ IsFiniteSet(Registered)
    /\ LogOK
    /\ FreshIsEmpty
    /\ QuotaAgrees
    /\ BudgetIsExact
    /\ StillTooDear
    /\ NoticeAgrees
    /\ NoticeFiresOnce
    /\ QuotaNoticePerMonth

\* The membrane as new() builds it satisfies the inductive invariant.
LEMMA MInit == Init => MInv
<1> SUFFICES ASSUME Init
             PROVE  MInv
  OBVIOUS
<1>1. Registered = {}
  BY DEF Init, Registered
<1>2. IsFiniteSet(Registered) /\ Cardinality(Registered) = 0
  BY <1>1, FS_EmptySet
<1>3. LogOK /\ FreshIsEmpty /\ NoticeAgrees /\ NoticeFiresOnce
  BY MembraneAssumption DEF Init, InitLog, LogOK, FreshIsEmpty, NoticeAgrees, NoticeFiresOnce
<1>4. QuotaAgrees /\ QuotaNoticePerMonth
  BY MembraneAssumption DEF Init, InitLog, QuotaAgrees, QuotaNoticePerMonth, Months
<1>5. BudgetIsExact /\ StillTooDear
  BY <1>1 DEF Init, InitLog, BudgetIsExact, StillTooDear
<1>6. TypeOK
  <2>1. agent_accumulators \in [Registered -> 0..U32-1]
    BY DEF Init, Registered
  <2>2. Registered \subseteq log.used /\ log.used \subseteq Conns
    BY <1>1 DEF Init, InitLog
  <2>3. quota.count \in 0..MaxEvals /\ quota.period \in 1..now /\ now \in Months
    BY MembraneAssumption DEF Init, Months
  <2> QED
    <3>1. Cardinality(Registered) <= max_agents
      BY <1>2, MembraneAssumption
    <3>2. exhaustion_notice \in BOOLEAN
      BY DEF Init
    <3> QED
      BY <2>1, <2>2, <2>3, <3>1, <3>2 DEF TypeOK
<1> QED
  BY <1>2, <1>3, <1>4, <1>5, <1>6 DEF MInv

\* The turn of the month preserves the inductive invariant.
LEMMA MNextMonth == MInv /\ NextMonth => MInv'
<1> SUFFICES ASSUME MInv, NextMonth
             PROVE  MInv'
  OBVIOUS
<1>1. UNCHANGED <<agent_accumulators, quota, exhaustion_notice, log, Registered>>
  BY DEF NextMonth, Registered
<1>2. TypeOK'
  BY <1>1, MembraneAssumption DEF MInv, TypeOK, NextMonth, Months
<1>3. LogOK' /\ FreshIsEmpty' /\ NoticeAgrees' /\ NoticeFiresOnce'
  BY <1>1 DEF MInv, LogOK, FreshIsEmpty, NoticeAgrees, NoticeFiresOnce
<1>4. QuotaAgrees' /\ QuotaNoticePerMonth'
  BY <1>1 DEF MInv, QuotaAgrees, QuotaNoticePerMonth
<1>5. BudgetIsExact' /\ StillTooDear'
  BY <1>1 DEF MInv, BudgetIsExact, StillTooDear
<1> QED
  BY <1>1, <1>2, <1>3, <1>4, <1>5 DEF MInv

\* deregister_agent preserves the inductive invariant.
LEMMA MDeregister ==
    ASSUME MInv, NEW c \in Conns, deregister_agent(c)
    PROVE  MInv'
<1>1. /\ Registered' = Registered \ {c}
      /\ \A d \in Registered' : agent_accumulators'[d] = agent_accumulators[d]
      /\ UNCHANGED <<quota, exhaustion_notice, now, log>>
  BY DEF deregister_agent, Registered
<1>2. IsFiniteSet(Registered') /\ Cardinality(Registered') <= Cardinality(Registered)
  BY <1>1, FS_Subset DEF MInv
<1>3. Cardinality(Registered) \in Nat /\ Cardinality(Registered') \in Nat
  BY <1>2, FS_CardinalityType DEF MInv
<1>4. agent_accumulators' \in [Registered' -> 0..U32-1]
  BY <1>1 DEF MInv, TypeOK, deregister_agent
<1>5. TypeOK'
  BY <1>1, <1>2, <1>3, <1>4, MembraneAssumption DEF MInv, TypeOK
<1>6. BudgetIsExact' /\ StillTooDear'
  BY <1>1 DEF MInv, BudgetIsExact, StillTooDear
<1> QED
  BY <1>1, <1>2, <1>5, <1>6 DEF MInv, LogOK, FreshIsEmpty, QuotaAgrees,
     NoticeAgrees, NoticeFiresOnce, QuotaNoticePerMonth

\* register_agent preserves the inductive invariant.
LEMMA MRegister ==
    ASSUME MInv, NEW c \in Conns, register_agent(c)
    PROVE  MInv'
<1>1. /\ c \notin log.used /\ c \notin Registered
      /\ log'.used = log.used \cup {c}
      /\ log'.charged = log.charged /\ log'.refused = log.refused /\ log'.evals = log.evals
      /\ log'.quota_notices = log.quota_notices /\ log'.budget_notices = log.budget_notices
      /\ UNCHANGED <<quota, exhaustion_notice, now>>
  BY DEF register_agent, MInv, TypeOK, LogOK
<1>2. LogOK'
  BY <1>1 DEF register_agent, MInv, LogOK, Months
<1>3. FreshIsEmpty' /\ QuotaAgrees' /\ NoticeAgrees' /\ NoticeFiresOnce' /\ QuotaNoticePerMonth'
  BY <1>1 DEF MInv, FreshIsEmpty, QuotaAgrees, NoticeAgrees, NoticeFiresOnce,
     QuotaNoticePerMonth, Months
<1>4. log.charged[c] = 0 /\ log.refused[c] = 0
  BY <1>1 DEF MInv, FreshIsEmpty
<1>5. CASE Cardinality(Registered) >= max_agents
  <2>1. UNCHANGED <<agent_accumulators, Registered>>
    BY <1>5 DEF register_agent, Registered
  <2> QED
    BY <1>1, <1>2, <1>3, <2>1 DEF MInv, TypeOK, BudgetIsExact, StillTooDear, Months
<1>6. CASE ~(Cardinality(Registered) >= max_agents)
  <2>1. agent_accumulators' = Extend(agent_accumulators, c, SESSION_INIT_BP)
    BY <1>6 DEF register_agent
  <2>2. /\ Registered' = Registered \cup {c}
        /\ agent_accumulators'[c] = SESSION_INIT_BP
        /\ \A d \in Registered : agent_accumulators'[d] = agent_accumulators[d]
    BY <1>1, <2>1 DEF Registered, Extend
  <2>3. /\ IsFiniteSet(Registered')
        /\ Cardinality(Registered') = Cardinality(Registered) + 1
        /\ Cardinality(Registered) \in Nat
    BY <1>1, <2>2, FS_AddElement, FS_CardinalityType DEF MInv
  <2>4. agent_accumulators' \in [Registered' -> 0..U32-1]
    BY <2>1, <2>2, BudgetAssumption DEF MInv, TypeOK, Extend, Registered
  <2>5. TypeOK'
    BY <1>1, <1>6, <2>2, <2>3, <2>4, MembraneAssumption DEF MInv, TypeOK, Months
  <2>6. BudgetIsExact' /\ StillTooDear'
    BY <1>1, <1>4, <2>2, BudgetAssumption DEF MInv, BudgetIsExact, StillTooDear
  <2> QED
    BY <1>2, <1>3, <2>3, <2>5, <2>6 DEF MInv
<1> QED
  BY <1>5, <1>6

(* A budget refusal names a class above Low and a price that does not fit,  *)
(* of a call the gate let through.                                          *)
LEMMA Refusal ==
    ASSUME NEW p, NEW s, NEW a, VerdictOf(p, s, a) = "RiskFloorExceeded"
    PROVE  LET e == effective_risk(p.risk, s, p.tagged)
           IN /\ e # LowRisk
              /\ e = CriticalRisk => s = Clean
              /\ AddU32(a, contribution_bp(e, s, p.grade)) >= MaxSessionRiskBp
<1> DEFINE e == effective_risk(p.risk, s, p.tagged)
           m == modulate_risk_class(p.risk, s, p.tagged)
           sum == AddU32(a, contribution_bp(e, s, p.grade))
<1>1. m # "RiskFloorExceeded" /\ (m = "Ok" /\ e = CriticalRisk => s = Clean)
  BY DEF modulate_risk_class
<1>2. VerdictOf(p, s, a) =
        IF m # "Ok" THEN m
        ELSE IF p.authority = "External" /\ e = CriticalRisk THEN "ExternalAuthorityViolation"
        ELSE IF e # LowRisk /\ sum >= MaxSessionRiskBp THEN "RiskFloorExceeded"
        ELSE "Approved"
  BY Zenon DEF VerdictOf
<1> HIDE DEF e, m, sum
<1>3. e # LowRisk /\ sum >= MaxSessionRiskBp /\ (e = CriticalRisk => s = Clean)
  BY <1>1, <1>2
<1> QED
  BY <1>3 DEF e, sum

\* One evaluate, on any registered connection, preserves the inductive invariant
\* as long as no u32 sum wraps.
LEMMA MEvaluate ==
    ASSUME NoWrap, MInv, NEW c \in Registered, NEW p \in Proposals,
           NEW state \in ProvenanceState,
           log.evals[now] < MaxEvals, evaluate(c, p, state)
    PROVE  MInv'
<1> DEFINE effective == effective_risk(p.risk, state, p.tagged)
           verdict == VerdictOf(p, state, agent_accumulators[c])
           price == contribution_bp(effective, state, p.grade)
           cost == IF verdict = "Approved" THEN price ELSE 0
           exhausted == verdict = "RiskFloorExceeded"
<1>1. /\ c \in Conns /\ c \in log.used
      /\ p \in Proposal
  BY MembraneAssumption DEF MInv, TypeOK
<1>1f. /\ agent_accumulators \in [Registered -> 0..U32-1]
       /\ log.charged \in [Conns -> Nat] /\ log.refused \in [Conns -> Nat]
       /\ log.evals \in [Months -> 0..MaxEvals] /\ log.quota_notices \in [Months -> Nat]
       /\ now \in Months
  BY DEF MInv, TypeOK, LogOK
<1>1n. /\ agent_accumulators[c] \in Nat
       /\ log.charged[c] \in Nat /\ log.refused[c] \in Nat
  BY <1>1, <1>1f, BudgetAssumption
<1>1b. agent_accumulators[c] = SESSION_INIT_BP + log.charged[c]
  BY DEF MInv, BudgetIsExact
<1>1m. SESSION_INIT_BP \in Nat /\ MaxSessionRiskBp \in Nat /\ U32 \in Nat
  BY BudgetAssumption
<1>2. /\ effective \in RiskClass /\ price \in Nat /\ (price = 0 <=> effective = LowRisk)
      /\ (effective = CriticalRisk => state # Contaminated) => price <= DearestCall
  BY <1>1, EffectiveType, Price DEF Proposal
<1>3. /\ quota' = record_and_get_count(quota, now)
      /\ agent_accumulators' = [agent_accumulators EXCEPT ![c] = AddU32(@, cost)]
      /\ exhaustion_notice' = (exhaustion_notice \/ exhausted)
      /\ log'.used = log.used
      /\ log'.charged = [log.charged EXCEPT ![c] = @ + cost]
      /\ log'.refused = [log.refused EXCEPT
                           ![c] = IF exhausted /\ (@ = 0 \/ price < @) THEN price ELSE @]
      /\ log'.evals = [log.evals EXCEPT ![now] = @ + 1]
      /\ log'.quota_notices = [log.quota_notices EXCEPT
                                 ![now] = IF quota'.count = quota_limit THEN @ + 1 ELSE @]
      /\ log'.budget_notices = (IF exhausted /\ ~exhaustion_notice
                                THEN log.budget_notices + 1 ELSE log.budget_notices)
      /\ now' = now
      /\ log' = [used |-> log'.used, charged |-> log'.charged, refused |-> log'.refused,
                 evals |-> log'.evals, quota_notices |-> log'.quota_notices,
                 budget_notices |-> log'.budget_notices]
  BY DEF evaluate, charge, notice_fires, MInv, LogOK
<1>4. Registered' = Registered
  BY <1>3 DEF Registered, MInv, TypeOK
<1>5. /\ verdict = "Approved" /\ effective # LowRisk =>
             ~(AddU32(agent_accumulators[c], price) >= MaxSessionRiskBp)
      /\ exhausted => effective # LowRisk
                      /\ AddU32(agent_accumulators[c], price) >= MaxSessionRiskBp
      /\ verdict = "Approved" \/ exhausted => price <= DearestCall
  <2>1. verdict = "Approved" /\ effective # LowRisk =>
             ~(AddU32(agent_accumulators[c], price) >= MaxSessionRiskBp)
    BY <1>1, <1>1n, ApprovalMeans
  <2>2. exhausted => effective # LowRisk
                     /\ AddU32(agent_accumulators[c], price) >= MaxSessionRiskBp
    BY Refusal
  <2>3. verdict = "Approved" \/ exhausted => (effective = CriticalRisk => state # Contaminated)
    BY <1>1, <1>1n, ApprovalMeans, Refusal
  <2> QED
    BY <1>2, <2>1, <2>2, <2>3
<1> HIDE DEF effective, verdict, price, cost, exhausted
<1>6. cost > 0 => cost = price /\ verdict = "Approved" /\ effective # LowRisk
  BY <1>2 DEF cost
<1>6a. /\ cost \in Nat /\ cost <= 6000 /\ price \in Nat
       /\ verdict = "Approved" \/ exhausted => price <= 6000
  BY <1>2, <1>5 DEF cost, DearestCall
(* A balance is the initial one or below the ceiling, so no charge wraps.    *)
<1>7. agent_accumulators[c] + DearestCall < U32
  <2>1. log.charged[c] > 0 => SESSION_INIT_BP + log.charged[c] < MaxSessionRiskBp
    BY <1>1 DEF MInv, BudgetIsExact
  <2> QED
    BY <1>1n, <1>1b, <1>1m, <2>1 DEF NoWrap, DearestCall
<1>8. /\ AddU32(agent_accumulators[c], cost) = agent_accumulators[c] + cost
      /\ verdict = "Approved" \/ exhausted =>
             AddU32(agent_accumulators[c], price) = agent_accumulators[c] + price
  <2>1. agent_accumulators[c] + 6000 < U32
    BY <1>7 DEF DearestCall
  <2>2. /\ agent_accumulators[c] + cost < U32
        /\ verdict = "Approved" \/ exhausted => agent_accumulators[c] + price < U32
    BY <1>1n, <1>1m, <1>6a, <2>1
  <2> QED
    BY <1>1n, <1>6a, <2>2, NoCarry
<1>9. /\ agent_accumulators'[c] = agent_accumulators[c] + cost
      /\ log'.charged[c] = log.charged[c] + cost
      /\ log'.refused[c] = IF exhausted /\ (log.refused[c] = 0 \/ price < log.refused[c])
                           THEN price ELSE log.refused[c]
  <2>1. agent_accumulators'[c] = AddU32(agent_accumulators[c], cost)
    BY <1>1f, <1>3
  <2>2. log'.charged[c] = log.charged[c] + cost
    BY <1>1, <1>1f, <1>3
  <2>3. log'.refused[c] = IF exhausted /\ (log.refused[c] = 0 \/ price < log.refused[c])
                          THEN price ELSE log.refused[c]
    BY <1>1, <1>1f, <1>3
  <2> QED
    BY <1>8, <2>1, <2>2, <2>3
<1>9q. /\ \A d \in Registered : d # c => agent_accumulators'[d] = agent_accumulators[d]
       /\ \A d \in Conns : d # c => /\ log'.charged[d] = log.charged[d]
                                     /\ log'.refused[d] = log.refused[d]
  <2>1. \A d \in Registered : d # c => agent_accumulators'[d] = agent_accumulators[d]
    BY <1>1f, <1>3
  <2>2. \A d \in Conns : d # c => log'.charged[d] = log.charged[d]
    BY <1>1f, <1>3
  <2>3. \A d \in Conns : d # c => log'.refused[d] = log.refused[d]
    BY <1>1f, <1>3
  <2> QED
    BY <2>1, <2>2, <2>3
<1>10. LogOK'
  <2>a. log.charged[c] + cost \in Nat
    BY <1>1n, <1>6a
  <2>b. log'.charged \in [Conns -> Nat]
    BY <1>1f, <1>3, <2>a
  <2>c. log'.refused \in [Conns -> Nat]
    <3>1. (IF exhausted /\ (log.refused[c] = 0 \/ price < log.refused[c])
           THEN price ELSE log.refused[c]) \in Nat
      BY <1>1n, <1>6a
    <3>2. log'.refused = [log.refused EXCEPT ![c] =
             IF exhausted /\ (log.refused[c] = 0 \/ price < log.refused[c])
             THEN price ELSE log.refused[c]]
      BY <1>3
    <3> QED
      BY <1>1f, <3>1, <3>2
  <2>d. log.evals[now] + 1 \in 0..MaxEvals
    BY <1>1f, MembraneAssumption
  <2>e. log'.evals \in [Months -> 0..MaxEvals]
    BY <1>1f, <1>3, <2>d
  <2>f. log'.quota_notices \in [Months -> Nat]
    BY <1>1f, <1>3
  <2> QED
    BY <1>3, <2>b, <2>c, <2>e, <2>f DEF LogOK, Months
<1>11. FreshIsEmpty'
  BY <1>1, <1>3, <1>9q DEF MInv, FreshIsEmpty
<1>12. QuotaAgrees'
  <2>1. now \in Months /\ quota.period \in 1..now
    BY DEF MInv, TypeOK
  <2>2. log'.evals[now] = log.evals[now] + 1 /\ \A m \in Months : m # now => log'.evals[m] = log.evals[m]
    BY <1>3, <2>1 DEF MInv, LogOK
  <2>3. CASE now # quota.period
    BY <1>3, <2>1, <2>2, <2>3 DEF record_and_get_count, MInv, QuotaAgrees, Months
  <2>4. CASE now = quota.period
    BY <1>3, <2>1, <2>2, <2>4 DEF record_and_get_count, MInv, QuotaAgrees, Months
  <2> QED
    BY <2>3, <2>4
<1>13. BudgetIsExact'
  <2>1. agent_accumulators'[c] = SESSION_INIT_BP + log'.charged[c]
    BY <1>1n, <1>1b, <1>1m, <1>6a, <1>9
  <2>2. log'.charged[c] > 0 => SESSION_INIT_BP + log'.charged[c] < MaxSessionRiskBp
    <3>1. CASE cost = 0
      <4>1. log'.charged[c] = log.charged[c]
        BY <1>1n, <1>9, <3>1
      <4> QED
        BY <1>1, <4>1 DEF MInv, BudgetIsExact
    <3>2. CASE cost # 0
      <4>1. /\ cost = price /\ verdict = "Approved"
            /\ ~(AddU32(agent_accumulators[c], price) >= MaxSessionRiskBp)
        <5>1. cost > 0
          BY <1>6a, <3>2
        <5> QED
          BY <1>5, <1>6, <5>1
      <4> QED
        BY <1>1n, <1>1m, <1>6a, <1>8, <1>9, <2>1, <4>1
    <3> QED
      BY <3>1, <3>2
  <2>3. \A d \in Registered : d # c => agent_accumulators'[d] = SESSION_INIT_BP + log'.charged[d]
    <3>1. Registered \subseteq Conns
      BY DEF MInv, TypeOK
    <3> QED
      BY <1>9q, <3>1 DEF MInv, BudgetIsExact
  <2>4. \A d \in Conns : d # c =>
           (log'.charged[d] > 0 => SESSION_INIT_BP + log'.charged[d] < MaxSessionRiskBp)
    BY <1>9q DEF MInv, BudgetIsExact
  <2> QED
    BY <1>4, <2>1, <2>2, <2>3, <2>4 DEF BudgetIsExact
<1>14. StillTooDear'
  <2>1. log'.refused[c] > 0 => agent_accumulators'[c] + log'.refused[c] >= MaxSessionRiskBp
    <3>1. log.refused[c] > 0 => agent_accumulators[c] + log.refused[c] >= MaxSessionRiskBp
      BY DEF MInv, StillTooDear
    <3>2. exhausted => agent_accumulators[c] + price >= MaxSessionRiskBp
      BY <1>5, <1>8
    <3>3. agent_accumulators'[c] = agent_accumulators[c] + cost
      BY <1>9
    <3>4. CASE exhausted /\ (log.refused[c] = 0 \/ price < log.refused[c])
      <4>1. log'.refused[c] = price
        BY <1>9, <3>4
      <4> QED
        BY <1>1n, <1>1m, <1>6a, <3>2, <3>3, <3>4, <4>1
    <3>5. CASE ~(exhausted /\ (log.refused[c] = 0 \/ price < log.refused[c]))
      <4>1. log'.refused[c] = log.refused[c]
        BY <1>9, <3>5
      <4> QED
        BY <1>1n, <1>1m, <1>6a, <3>1, <3>3, <4>1
    <3> QED
      BY <3>4, <3>5
  <2> QED
    BY <1>4, <1>9q, <2>1 DEF MInv, StillTooDear, TypeOK
<1>15. /\ log'.refused[c] > 0 <=> (log.refused[c] > 0 \/ exhausted)
       /\ (\E d \in Conns : log'.refused[d] > 0) <=> ((\E d \in Conns : log.refused[d] > 0) \/ exhausted)
  <2>1. exhausted => price > 0
    <3>1. exhausted => effective # LowRisk
      BY <1>5
    <3>2. exhausted => price # 0
      BY <1>2, <3>1
    <3> QED
      BY <1>6a, <3>2
  <2>2. log'.refused[c] > 0 <=> (log.refused[c] > 0 \/ exhausted)
    BY <1>1n, <1>6a, <1>9, <2>1
  <2> QED
    BY <1>1, <1>9q, <2>2
<1>16. NoticeAgrees' /\ NoticeFiresOnce'
  <2>1. exhaustion_notice <=> \E d \in Conns : log.refused[d] > 0
    BY DEF MInv, NoticeAgrees
  <2>2. exhaustion_notice' <=> (exhaustion_notice \/ exhausted)
    BY <1>3
  <2>3. NoticeAgrees'
    BY <1>15, <2>1, <2>2 DEF NoticeAgrees
  <2>4. log.budget_notices = IF exhaustion_notice THEN 1 ELSE 0
    BY <2>1 DEF MInv, NoticeFiresOnce
  <2>5. log'.budget_notices = IF exhaustion_notice \/ exhausted THEN 1 ELSE 0
    BY <1>3, <2>4
  <2>6. NoticeFiresOnce'
    BY <1>15, <2>1, <2>5 DEF NoticeFiresOnce
  <2> QED
    BY <2>3, <2>6
<1>17. QuotaNoticePerMonth'
  <2>1. now \in Months /\ quota'.period = now /\ quota'.count = log'.evals[now]
    BY <1>3, <1>12 DEF MInv, TypeOK, QuotaAgrees, record_and_get_count
  <2>2. /\ log'.evals[now] = log.evals[now] + 1
        /\ log.evals[now] \in Nat
        /\ log'.quota_notices[now] = IF log'.evals[now] = quota_limit
                                     THEN log.quota_notices[now] + 1 ELSE log.quota_notices[now]
        /\ \A m \in Months : m # now => /\ log'.evals[m] = log.evals[m]
                                        /\ log'.quota_notices[m] = log.quota_notices[m]
    BY <1>3, <2>1 DEF MInv, LogOK
  <2>3. log'.quota_notices[now] = IF quota_limit > 0 /\ log'.evals[now] >= quota_limit THEN 1 ELSE 0
    BY <2>1, <2>2, MembraneAssumption DEF MInv, QuotaNoticePerMonth
  <2> QED
    BY <2>2, <2>3 DEF MInv, QuotaNoticePerMonth, Months
<1>18. TypeOK'
  <2>1. agent_accumulators' \in [Registered' -> 0..U32-1]
    <3>1. agent_accumulators[c] + cost \in 0..U32-1
      <4>1. DearestCall = 6000
        BY DEF DearestCall
      <4> QED
        BY <1>1n, <1>1m, <1>6a, <1>7, <4>1
    <3>2. agent_accumulators' = [agent_accumulators EXCEPT ![c] = agent_accumulators[c] + cost]
      BY <1>3, <1>8
    <3> QED
      BY <1>1f, <1>4, <3>1, <3>2
  <2>2. quota'.count \in 0..MaxEvals /\ quota'.period \in 1..now'
    BY <1>3, <1>10, <1>12 DEF MInv, TypeOK, LogOK, QuotaAgrees, record_and_get_count, Months
  <2>3. exhaustion_notice' \in BOOLEAN
    BY <1>3 DEF MInv, TypeOK, exhausted
  <2> QED
    BY <1>3, <1>4, <2>1, <2>2, <2>3 DEF MInv, TypeOK, Months
<1> QED
  BY <1>4, <1>10, <1>11, <1>12, <1>13, <1>14, <1>16, <1>17, <1>18 DEF MInv

-----------------------------------------------------------------------------
(* MInv is an invariant of the membrane, whatever proposals arrive and      *)
(* however registrations, evaluations and month changes interleave.         *)
THEOREM Invariance == ASSUME NoWrap PROVE Spec => []MInv
<1>1. Init => MInv
  BY MInit
<1>2. MInv /\ [Next]_vars => MInv'
  <2> SUFFICES ASSUME MInv, [Next]_vars
               PROVE  MInv'
    OBVIOUS
  <2>1. ASSUME NEW c \in Conns, register_agent(c)
        PROVE  MInv'
    BY <2>1, MRegister
  <2>2. ASSUME NEW c \in Conns, deregister_agent(c)
        PROVE  MInv'
    BY <2>2, MDeregister
  <2>3. CASE Evaluate
    <3>1. PICK c \in Registered, p \in Proposals, state \in ProvenanceState :
             log.evals[now] < MaxEvals /\ evaluate(c, p, state)
      BY <2>3 DEF Evaluate
    <3> QED
      BY <3>1, MEvaluate
  <2>4. CASE NextMonth
    BY <2>4, MNextMonth
  <2>5. CASE UNCHANGED vars
    BY <2>5 DEF vars, MInv, TypeOK, LogOK, FreshIsEmpty, QuotaAgrees, BudgetIsExact,
       StillTooDear, NoticeAgrees, NoticeFiresOnce, QuotaNoticePerMonth, Registered
  <2> QED
    BY <2>1, <2>2, <2>3, <2>4, <2>5 DEF Next
<1> QED
  BY <1>1, <1>2, PTL DEF Spec

(* Registrations never exceed max_agents and every field keeps its range.   *)
THEOREM TypeCorrect == ASSUME NoWrap PROVE Spec => []TypeOK
<1>1. MInv => TypeOK
  BY DEF MInv
<1> QED
  BY <1>1, Invariance, PTL

(* evaluate charges exactly what it approved, below the session ceiling.    *)
THEOREM ExactBudget == ASSUME NoWrap PROVE Spec => []BudgetIsExact
<1>1. MInv => BudgetIsExact
  BY DEF MInv
<1> QED
  BY <1>1, Invariance, PTL

(* The exhaustion notice fires on the first budget refusal and only there.  *)
THEOREM OneNotice == ASSUME NoWrap PROVE Spec => []NoticeFiresOnce
<1>1. MInv => NoticeFiresOnce
  BY DEF MInv
<1> QED
  BY <1>1, Invariance, PTL

(* The monthly usage notice fires exactly in the months that reach the      *)
(* limit, although the counter is only reset when a call is evaluated.      *)
THEOREM MonthlyNotice == ASSUME NoWrap PROVE Spec => []QuotaNoticePerMonth
<1>1. MInv => QuotaNoticePerMonth
  BY DEF MInv
<1> QED
  BY <1>1, Invariance, PTL

(* A balance leaves room for the dearest call below 2^32.                   *)
LEMMA RoomForACall ==
    ASSUME NoWrap, MInv, NEW c \in Registered
    PROVE  agent_accumulators[c] \in Nat /\ agent_accumulators[c] + DearestCall < U32
<1>1. /\ c \in Conns
      /\ agent_accumulators[c] \in 0..U32-1
      /\ agent_accumulators[c] = SESSION_INIT_BP + log.charged[c]
      /\ log.charged[c] \in Nat
  BY DEF MInv, TypeOK, BudgetIsExact, LogOK
<1>2. log.charged[c] > 0 => SESSION_INIT_BP + log.charged[c] < MaxSessionRiskBp
  BY <1>1 DEF MInv, BudgetIsExact
<1> QED
  BY <1>1, <1>2, BudgetAssumption DEF NoWrap, DearestCall

(* A price once refused to a connection is never approved for it again, in  *)
(* any provenance state: evaluate has no way to give budget back.           *)
THEOREM RefusalIsFinal == ASSUME NoWrap PROVE Spec => []RefusalsStand
<1>1. MInv => RefusalsStand
  <2> SUFFICES ASSUME MInv, NEW c \in Registered, NEW p \in Proposals,
                      NEW state \in ProvenanceState,
                      log.refused[c] > 0,
                      contribution_bp(effective_risk(p.risk, state, p.tagged), state, p.grade)
                          >= log.refused[c],
                      VerdictOf(p, state, agent_accumulators[c]) = "Approved"
               PROVE  FALSE
    BY DEF RefusalsStand
  <2> DEFINE e == effective_risk(p.risk, state, p.tagged)
             price == contribution_bp(e, state, p.grade)
  <2>1. p \in Proposal /\ p.risk \in RiskClass /\ p.grade \in SourceGrade
    BY MembraneAssumption DEF Proposal
  <2>2. e \in RiskClass
    BY <2>1, EffectiveType
  <2>3. /\ price \in Nat /\ (price = 0 <=> e = LowRisk)
        /\ (e = CriticalRisk => state # Contaminated) => price <= DearestCall
    BY <2>1, <2>2, Price
  <2>4. /\ e = CriticalRisk => state = Clean
        /\ e # LowRisk => ~(AddU32(agent_accumulators[c], price) >= MaxSessionRiskBp)
    <3>1. agent_accumulators[c] \in 0..U32-1
      BY DEF MInv, TypeOK
    <3> QED
      BY <2>1, <3>1, ApprovalMeans
  <2>5. log.refused[c] \in Nat /\ agent_accumulators[c] + log.refused[c] >= MaxSessionRiskBp
    BY DEF MInv, LogOK, TypeOK, StillTooDear
  <2>6. agent_accumulators[c] \in Nat /\ agent_accumulators[c] + DearestCall < U32
    BY RoomForACall
  <2> HIDE DEF e, price
  <2>7. price >= log.refused[c]
    BY DEF price, e
  <2>8. price \in Nat /\ price <= DearestCall /\ price # 0
    BY <2>3, <2>4, <2>5, <2>7 DEF DearestCall
  <2>9. AddU32(agent_accumulators[c], price) = agent_accumulators[c] + price
    <3>1. agent_accumulators[c] + price < U32
      BY <2>6, <2>8, BudgetAssumption DEF DearestCall
    <3> QED
      BY <2>6, <2>8, <3>1, NoCarry
  <2> QED
    BY <2>3, <2>4, <2>5, <2>6, <2>7, <2>8, <2>9, BudgetAssumption
<1> QED
  BY <1>1, Invariance, PTL

(* Nothing that makes a call look worse turns a rejection into an approval. *)
THEOREM Tightening == ASSUME NoWrap PROVE Spec => []TighteningNeverUnlocks
<1>1. MInv => TighteningNeverUnlocks
  <2> SUFFICES ASSUME MInv, NEW c \in Registered, NEW d \in Registered,
                      NEW p \in Proposals, NEW q \in Proposals,
                      NEW s \in ProvenanceState, NEW t \in ProvenanceState,
                      Tighter(p, q), t >= s,
                      agent_accumulators[d] >= agent_accumulators[c],
                      VerdictOf(q, t, agent_accumulators[d]) = "Approved"
               PROVE  VerdictOf(p, s, agent_accumulators[c]) = "Approved"
    BY DEF TighteningNeverUnlocks
  <2>1. p \in Proposal /\ q \in Proposal
    BY MembraneAssumption
  <2>2. /\ agent_accumulators[c] \in Nat /\ agent_accumulators[d] \in Nat
        /\ agent_accumulators[d] + DearestCall < U32
    BY RoomForACall
  <2> QED
    BY <2>1, <2>2, TighteningLemma
<1> QED
  BY <1>1, Invariance, PTL
=============================================================================
