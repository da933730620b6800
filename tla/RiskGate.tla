-------------------------------- MODULE RiskGate --------------------------------
(***************************************************************************)
(* The decision membrane.rs takes on one proposal, as pure operators: the  *)
(* effective risk class (modulate_risk_class), the basis points a call     *)
(* costs, and the verdict of Membrane::evaluate for a given budget.        *)
(*                                                                         *)
(* A proposal is [risk, authority, tagged, grade]: the registry's risk     *)
(* class, authority source and communicates_externally tag of the tool,    *)
(* and its server's grade.  Its external_content_influence is a function   *)
(* of the provenance state it is evaluated in (see main.rs).               *)
(***************************************************************************)
EXTENDS ProvenanceStates

CONSTANTS
    SESSION_INIT_BP,      \* 100 in the source
    MaxSessionRiskBp,     \* security_policy.max_session_risk_bp
    U32                   \* number of values of a u32: 2^32 in the source

ASSUME BudgetAssumption ==
    /\ U32 \in Nat
    /\ SESSION_INIT_BP \in 0..U32-1
    /\ MaxSessionRiskBp \in 0..U32-1

(* RiskClass of registry.rs, in its derived order. *)
LowRisk      == 0
MediumRisk   == 1
HighRisk     == 2
CriticalRisk == 3
RiskClass    == 0..3

AuthoritySource == {"User", "System", "External"}

Proposal == [risk : RiskClass, authority : AuthoritySource,
             tagged : BOOLEAN, grade : SourceGrade]

RejectionCode == {"InboundPoisoningDetected", "CriticalBlockedByProvenance",
                  "ExternalAuthorityViolation", "RiskFloorExceeded"}
Verdict == RejectionCode \cup {"Approved"}

-----------------------------------------------------------------------------
(* The state table: heuristic evidence raises Medium and High by a class. *)
AfterState(risk, state) ==
    IF state = Contaminated /\ risk \in {MediumRisk, HighRisk} THEN risk + 1 ELSE risk

(* The capability tag: one class up, saturating at Critical. *)
AfterTag(risk, tagged) ==
    IF tagged /\ risk < CriticalRisk THEN risk + 1 ELSE risk

effective_risk(risk, state, tagged) == AfterTag(AfterState(risk, state), tagged)

(* Mutant: lacks the Poisoned arm, so Poisoned falls through to no bump. *)
modulate_risk_class_no_poison(risk, state, tagged) ==
    IF effective_risk(risk, state, tagged) = CriticalRisk /\ state # Clean
    THEN "CriticalBlockedByProvenance"
    ELSE "Ok"

modulate_risk_class(risk, state, tagged) ==
    IF state = Poisoned THEN "InboundPoisoningDetected"
    ELSE IF effective_risk(risk, state, tagged) = CriticalRisk /\ state # Clean
         THEN "CriticalBlockedByProvenance"
         ELSE "Ok"

base_bp(risk) == CASE risk = LowRisk      -> 0
                   [] risk = MediumRisk   -> 800
                   [] risk = HighRisk     -> 2000
                   [] risk = CriticalRisk -> 4000

(* The heuristic-evidence and the ungraded-server surcharges, in integers. *)
Surcharge(applies, bp, percent) == IF applies THEN (bp * percent) \div 100 ELSE bp

external_content_influence(state) == state = Contaminated

contribution_bp(risk, state, grade) ==
    Surcharge(grade = "Unvalidated",
              Surcharge(external_content_influence(state), base_bp(risk), 135), 150)

(* The sum of two u32, as a release build computes it. *)
AddU32(m, n) == IF m + n >= U32 THEN m + n - U32 ELSE m + n

(* Mutant: lets a call reach the ceiling exactly. *)
VerdictOf_reaches(p, state, agent_bp) ==
    LET modulated == modulate_risk_class(p.risk, state, p.tagged)
        effective == effective_risk(p.risk, state, p.tagged)
    IN IF modulated # "Ok" THEN modulated
       ELSE IF p.authority = "External" /\ effective = CriticalRisk
            THEN "ExternalAuthorityViolation"
       ELSE IF /\ effective # LowRisk
               /\ AddU32(agent_bp, contribution_bp(effective, state, p.grade))
                      > MaxSessionRiskBp
            THEN "RiskFloorExceeded"
       ELSE "Approved"

VerdictOf(p, state, agent_bp) ==
    LET modulated == modulate_risk_class(p.risk, state, p.tagged)
        effective == effective_risk(p.risk, state, p.tagged)
    IN IF modulated # "Ok" THEN modulated
       ELSE IF p.authority = "External" /\ effective = CriticalRisk
            THEN "ExternalAuthorityViolation"
       ELSE IF /\ effective # LowRisk
               /\ AddU32(agent_bp, contribution_bp(effective, state, p.grade))
                      >= MaxSessionRiskBp
            THEN "RiskFloorExceeded"
       ELSE "Approved"

(* The dearest call that gets as far as the budget: Critical, of an ungraded *)
(* server, in a Clean session (in any other the gate has refused it).  It    *)
(* still fits on top of a balance below the ceiling, and on top of the       *)
(* opening balance, so that no sum wraps.  The default ceiling, 2,000,000,   *)
(* is far from 2^32.                                                         *)
DearestCall == 6000
NoWrap ==
    /\ MaxSessionRiskBp + DearestCall <= U32
    /\ SESSION_INIT_BP + DearestCall < U32
=============================================================================
