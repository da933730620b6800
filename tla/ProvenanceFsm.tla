----------------------------- MODULE ProvenanceFsm -----------------------------
(***************************************************************************)
(* The provenance tracker of provenance.rs as pure operators: what a       *)
(* response's rule hits justify (state_from_rule_hits) and the two updates *)
(* of AgentProvenanceTracker.  A hit is what rules_engine's HitDetail      *)
(* keeps of it: [id, category, severity, action]; a summary is a finite    *)
(* set of hits with at most one hit of a rule.                             *)
(***************************************************************************)
EXTENDS ResponseClassifier, FiniteSets

CONSTANTS
    CLEAN_CALLS_TO_DECAY_CONTAMINATED,   \* 5 in the source
    CLEAN_CALLS_TO_DECAY_ELEVATED,       \* 3 in the source
    SYNTHESIS_MIN_CATEGORIES,            \* 2 in the source
    SYNTHESIS_MIN_HITS,                  \* 3 in the source
    NoServer                             \* poisoning_server_id = None

ASSUME DecayAssumption ==
    /\ CLEAN_CALLS_TO_DECAY_CONTAMINATED \in Nat \ {0}
    /\ CLEAN_CALLS_TO_DECAY_ELEVATED \in Nat \ {0}

ASSUME SynthesisAssumption ==
    /\ SYNTHESIS_MIN_CATEGORIES \in Nat
    /\ SYNTHESIS_MIN_HITS \in Nat \ {0}

(* Severity and Action of rules_engine.rs, in their derived order. *)
Severity       == 0..3
SeverityMedium == 1
Action         == 0..2
FlagAction     == 0
ElevateAction  == 1
PoisonAction   == 2

medium_or_above(hits)   == {h \in hits : h.severity >= SeverityMedium}
medium_categories(hits) == {h.category : h \in medium_or_above(hits)}
rule_ids(hits)          == {h.id : h \in hits}

HasPoison(hits)  == \E h \in hits : h.action = PoisonAction
HasElevate(hits) == \E h \in hits : h.action = ElevateAction

(* Several medium hits across categories count as one elevate-strength signal. *)
Synthesized(hits) ==
    /\ Cardinality(medium_categories(hits)) >= SYNTHESIS_MIN_CATEGORIES
    /\ Cardinality(medium_or_above(hits)) >= SYNTHESIS_MIN_HITS

Heuristic(hits) == HasElevate(hits) \/ Synthesized(hits)

(* Mutant: corroborates from Elevated, the resting state of a session. *)
state_from_rule_hits_low_bar(hits, current) ==
    IF HasPoison(hits) THEN Poisoned
    ELSE IF Heuristic(hits)
         THEN IF current >= Elevated THEN Poisoned ELSE Contaminated
         ELSE Clean

state_from_rule_hits(hits, current) ==
    IF HasPoison(hits) THEN Poisoned
    ELSE IF Heuristic(hits)
         THEN IF current >= Contaminated THEN Poisoned ELSE Contaminated
         ELSE Clean

-----------------------------------------------------------------------------
(* AgentProvenanceTracker::new *)
NewTracker == [current_state |-> Clean, clean_calls |-> 0,
               poisoner |-> NoServer, rule_ids |-> {}]

(* Mutant: also takes a response that is no worse than the present state. *)
ingest_signature_not_strict(t, new, server, ids) ==
    IF new >= t.current_state
    THEN [t EXCEPT !.current_state = new,
                   !.rule_ids = ids,
                   !.poisoner = IF new = Poisoned THEN server ELSE @]
    ELSE t

ingest_signature(t, new, server, ids) ==
    IF new > t.current_state
    THEN [t EXCEPT !.current_state = new,
                   !.rule_ids = ids,
                   !.poisoner = IF new = Poisoned THEN server ELSE @]
    ELSE t

(* How many clean calls a tier takes to heal: Contaminated heals to Elevated, *)
(* Elevated to Clean.  The mutant swaps the two.                              *)
DecayThreshold_swapped(state) ==
    IF state = Contaminated THEN CLEAN_CALLS_TO_DECAY_ELEVATED
                            ELSE CLEAN_CALLS_TO_DECAY_CONTAMINATED

DecayThreshold(state) ==
    IF state = Contaminated THEN CLEAN_CALLS_TO_DECAY_CONTAMINATED
                            ELSE CLEAN_CALLS_TO_DECAY_ELEVATED

(* Mutants: the streak survives the decay it paid for; a call no worse than  *)
(* Elevated counts in both tiers; a call must be better than the target tier. *)
record_response_outcome_keep_streak(t, new) ==
    IF t.current_state \notin {Elevated, Contaminated} THEN t
    ELSE IF new > t.current_state - 1
         THEN [t EXCEPT !.clean_calls = 0]
         ELSE IF t.clean_calls + 1 >= DecayThreshold(t.current_state)
              THEN [t EXCEPT !.current_state = @ - 1, !.clean_calls = @ + 1]
              ELSE [t EXCEPT !.clean_calls = @ + 1]

record_response_outcome_same_bar(t, new) ==
    IF t.current_state \notin {Elevated, Contaminated} THEN t
    ELSE IF new > Elevated
         THEN [t EXCEPT !.clean_calls = 0]
         ELSE IF t.clean_calls + 1 >= DecayThreshold(t.current_state)
              THEN [t EXCEPT !.current_state = @ - 1, !.clean_calls = 0]
              ELSE [t EXCEPT !.clean_calls = @ + 1]

record_response_outcome_strict(t, new) ==
    IF t.current_state \notin {Elevated, Contaminated} THEN t
    ELSE IF new >= t.current_state - 1
         THEN [t EXCEPT !.clean_calls = 0]
         ELSE IF t.clean_calls + 1 >= DecayThreshold(t.current_state)
              THEN [t EXCEPT !.current_state = @ - 1, !.clean_calls = 0]
              ELSE [t EXCEPT !.clean_calls = @ + 1]

record_response_outcome(t, new) ==
    IF t.current_state \notin {Elevated, Contaminated} THEN t
    ELSE IF new > t.current_state - 1
         THEN [t EXCEPT !.clean_calls = 0]
         ELSE IF t.clean_calls + 1 >= DecayThreshold(t.current_state)
              THEN [t EXCEPT !.current_state = @ - 1, !.clean_calls = 0]
              ELSE [t EXCEPT !.clean_calls = @ + 1]

(* What main.rs does with the verdict on a response, in its order. *)
AbsorbResponse(t, new, server, ids) ==
    ingest_signature(record_response_outcome(t, new), new, server, ids)
=============================================================================
