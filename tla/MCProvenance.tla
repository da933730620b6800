------------------------------ MODULE MCProvenance ------------------------------
(* Values for model checking Provenance. *)
EXTENDS Provenance

CONSTANTS known, ungraded, suspect

MCServers == {known, ungraded, suspect}
MCGrade == [s \in MCServers |-> IF s = known THEN "Known"
                                ELSE IF s = ungraded THEN "Unvalidated" ELSE "Suspicious"]

(* Short, one long string, many short ones over the cap, as many long ones  *)
(* as wrap the counter, and a payload that does not parse.                  *)
Object(lens) == [parses |-> TRUE, top |-> "object", strings |-> lens]
MCPayloads == {Object(<<20>>), Object(<<20, 200>>), Object(<<199, 199, 199, 199, 10>>),
               Object(<<200, 200, 200, 200, 200>>),
               [parses |-> FALSE, top |-> "scalar", strings |-> <<>>]}

Hit(id, category, severity, action) ==
    [id |-> id, category |-> category, severity |-> severity, action |-> action]
low     == Hit("low", "a", 0, FlagAction)
med1    == Hit("med1", "a", 1, FlagAction)
med2    == Hit("med2", "b", 1, FlagAction)
med3    == Hit("med3", "b", 1, FlagAction)
med4    == Hit("med4", "b", 1, FlagAction)
elevate == Hit("elevate", "c", 2, ElevateAction)
second  == Hit("second", "a", 2, ElevateAction)
poison  == Hit("poison", "c", 2, PoisonAction)

(* Nothing, one hit of each action, two elevating hits, and the edges of    *)
(* the synthesis: too few hits, enough hits in one category, enough in two. *)
MCSummaries == {{}, {elevate}, {poison}, {low, med1, med2}, {med2, med3, med4},
                {med1, med2, med3}, {elevate, second}}
=============================================================================
