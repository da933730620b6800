------------------------------- MODULE MCMembrane -------------------------------
(* Values for model checking Membrane. *)
EXTENDS Membrane, TLC

P(risk, authority, tagged, grade) ==
    [risk |-> risk, authority |-> authority, tagged |-> tagged, grade |-> grade]

(* A read; one that is tagged and of an ungraded server, for 1200 or 1620;   *)
(* an edit, for 800 or, raised a class by heuristic evidence, 2700; a call   *)
(* that no state lets through; and the dearest call, 6000.                   *)
MCProposals ==
    {P(LowRisk, "User", FALSE, "Known"), P(LowRisk, "User", TRUE, "Unvalidated"),
     P(MediumRisk, "User", FALSE, "Known"), P(HighRisk, "External", TRUE, "Known"),
     P(CriticalRisk, "User", FALSE, "Unvalidated")}

AnyConn == Permutations(Conns)
=============================================================================
