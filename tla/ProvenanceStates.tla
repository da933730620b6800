---------------------------- MODULE ProvenanceStates ----------------------------
(* The ordered enumerations the components share: ProvenanceState of         *)
(* provenance.rs, and SourceGrade of registry.rs.                            *)
EXTENDS Integers

Clean        == 0
Elevated     == 1
Contaminated == 2
Poisoned     == 3
ProvenanceState == 0..3

MaxState(a, b) == IF a >= b THEN a ELSE b

SourceGrade == {"Attested", "Known", "Unvalidated", "Suspicious"}
=============================================================================
