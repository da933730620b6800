-------------------------------- MODULE MCGateway --------------------------------
(* Values for model checking Gateway. *)
EXTENDS Gateway

CONSTANTS known, ungraded

MCServers == {known, ungraded}
MCGrade == [s \in MCServers |-> IF s = known THEN "Known" ELSE "Unvalidated"]

(* A read, a write and a fetch over the network, a tool that is quarantined *)
(* and a name nobody owns.                                                  *)
MCTools == {"read", "write", "fetch", "pinned", "ghost"}
mc_tool_owner == [t \in {"read", "write", "fetch"} |-> IF t = "fetch" THEN ungraded ELSE known]
mc_excluded_tools == [t \in {"pinned"} |-> "ToolQuarantinedPinMismatch"]
MCEntry == [t \in {"read", "write", "fetch"} |->
    [risk |-> IF t = "write" THEN HighRisk ELSE LowRisk,
     authority |-> "User", tagged |-> t = "fetch"]]

Call(tool, id)  == [kind |-> "tools/call", id |-> id, tool |-> tool]
Other(kind, id) == [kind |-> kind, id |-> id, tool |-> NoParams]

(* For the loop: every kind of line, one tool of each fate, with and        *)
(* without an id.                                                           *)
EveryLine == {Other(kind, id) : kind \in LineKind, id \in {NoId, 1}}
             \cup {Call(t, id) : t \in {"fetch", "pinned", "ghost"}, id \in {NoId, 1}}

(* For the session: calls of the three tools that can be called. *)
CallLines == {Call(t, 1) : t \in {"read", "write", "fetch"}}

Result(lens, hits) ==
    [payload |-> [parses |-> TRUE, top |-> "object", strings |-> lens],
     conformance |-> "NotDeclared", hits |-> hits]
Hit(id, severity, action) == [id |-> id, category |-> "a", severity |-> severity, action |-> action]

(* Nothing; a rule that only flags; one that elevates; one that poisons. *)
MCResponses == {Result(<<20>>, {}), Result(<<20>>, {Hit("flag", 0, FlagAction)}),
                Result(<<20>>, {Hit("elevate", 2, ElevateAction)}),
                Result(<<20>>, {Hit("poison", 2, PoisonAction)})}
FewResponses == {Result(<<20>>, {}), Result(<<20>>, {Hit("poison", 2, PoisonAction)})}
=============================================================================
