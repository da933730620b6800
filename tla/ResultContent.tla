------------------------------ MODULE ResultContent ------------------------------
(***************************************************************************)
(* What handle_tools_call does with the content of one result: the check   *)
(* of structuredContent against the tool's outputSchema, which feeds the   *)
(* provenance state, and the notice put into the result when the state     *)
(* rose.  That the state rises is an input here (Gateway has it).          *)
(***************************************************************************)
EXTENDS SchemaCheck, Advisory, ProvenanceStates

CONSTANTS
    Schemas,    \* outputSchemas of the tools, JSON values
    NoSchema,
    Results,    \* results of servers, JSON values
    RuleIds     \* what rule_ids of a scan may be

(* What may be announced. *)
Notices == {build_advisory_text(new_state, rule_ids) :
               new_state \in ProvenanceState \ {Clean}, rule_ids \in RuleIds}

ASSUME ContentAssumption ==
    /\ Schemas \subseteq Values /\ Results \subseteq Values
    /\ NoSchema \notin Schemas /\ \A rule_ids \in RuleIds : IsText(rule_ids)
    /\ \A result \in Results, text \in Notices : inject_advisory(result, text).result \in Values

SchemaConformance == {"NotDeclared", "Conformant", "Violated"}

VARIABLES
    tool_output_schema,   \* of the tool called, or NoSchema
    real_result,          \* from the server, then with the notice
    received,             \* history: real_result as it came
    conformance,
    tier,                 \* of the injection, or "None"
    notice,               \* the text injected
    phase                 \* "received", "judged", "answered"

vars == <<tool_output_schema, real_result, received, conformance, tier, notice, phase>>

Init ==
    /\ tool_output_schema \in Schemas \cup {NoSchema}
    /\ real_result \in Results /\ received = real_result
    /\ conformance = "NotDeclared" /\ tier = "None" /\ notice = <<>>
    /\ phase = "received"

(* A declared schema and no structuredContent is not a violation. *)
schema_conformance ==
    IF tool_output_schema = NoSchema \/ ~Has(real_result, "structuredContent") THEN "NotDeclared"
    ELSE IF conforms(tool_output_schema, Get(real_result, "structuredContent")) THEN "Conformant"
    ELSE "Violated"

Judge ==
    /\ phase = "received" /\ phase' = "judged"
    /\ conformance' = schema_conformance
    /\ UNCHANGED <<tool_output_schema, real_result, received, tier, notice>>

Announce ==
    /\ phase = "judged" /\ phase' = "answered"
    /\ notice' \in Notices
    /\ tier' = inject_advisory(real_result, notice').tier
    /\ real_result' = inject_advisory(real_result, notice').result
    /\ UNCHANGED <<tool_output_schema, received, conformance>>

(* No escalation, no notice. *)
Forward ==
    /\ phase = "judged" /\ phase' = "answered"
    /\ UNCHANGED <<tool_output_schema, real_result, received, conformance, tier, notice>>

Next == Judge \/ Announce \/ Forward

Spec == Init /\ [][Next]_vars
-----------------------------------------------------------------------------
Meaning == INSTANCE SchemaMeaning WITH
    DeepestPlace <- MAX_SCHEMA_CHECK_DEPTH,
    MatchesPattern <- pattern_matches

(* The verdict that can poison a session (compute_new_state) is what the    *)
(* schema means, place by place: the recursion of check_rec, its early      *)
(* returns and its depth limit neither pass what some keyword forbids nor   *)
(* fail what all allow, whatever malformed or nested schema a server chose. *)
ConformanceIsMeant ==
    phase # "received" =>
        IF tool_output_schema = NoSchema \/ ~Has(received, "structuredContent")
        THEN conformance = "NotDeclared"
        ELSE conformance = IF Meaning!Conforms(tool_output_schema, Get(received, "structuredContent"))
                           THEN "Conformant" ELSE "Violated"

(* w is v but for one part, an item or a field, that has grown. *)
OnePartGrew(v, w, Grew(_, _)) ==
    \/ /\ IsKind(v, "array") /\ IsKind(w, "array") /\ Len(v.items) = Len(w.items)
       /\ \E i \in DOMAIN v.items :
             /\ Grew(v.items[i], w.items[i])
             /\ \A j \in DOMAIN v.items \ {i} : v.items[j] = w.items[j]
    \/ /\ IsKind(v, "object") /\ IsKind(w, "object") /\ DOMAIN v.fields = DOMAIN w.fields
       /\ \E k \in DOMAIN v.fields :
             /\ Grew(v.fields[k], w.fields[k])
             /\ \A l \in DOMAIN v.fields \ {k} : v.fields[l] = w.fields[l]

StringGrew(v, w, text) == IsKind(v, "string") /\ w = Str(v.str \o <<"\n">> \o text)
ChildGrew(v, w, text)  == OnePartGrew(v, w, LAMBDA x, y : StringGrew(x, y, text))
BelowGrew(v, w, text)  == OnePartGrew(v, w, LAMBDA x, y : ChildGrew(x, y, text))

(* One string of v, two or three levels down, has the text behind it in w,  *)
(* and all else is as it was.                                               *)
OneStringGrew(v, w, text) ==
    BelowGrew(v, w, text) \/ OnePartGrew(v, w, LAMBDA x, y : BelowGrew(x, y, text))

(* The keywords a longer string can stop meeting. *)
RestrictsContent(schema) ==
    /\ IsKind(schema, "object")
    /\ \/ Has(schema, "enum")
       \/ /\ "content" \in DOMAIN Properties(schema)
          /\ \/ Has(Properties(schema)["content"], "enum")
             \/ Has(Properties(schema)["content"], "pattern")

(* The notice of an escalation is nothing but text behind one text that the *)
(* result had: no key, no block and no other string changes, a tier is      *)
(* named exactly when something was delivered, and a structuredContent that *)
(* conformed still does (inject_advisory against the schema check), unless  *)
(* the schema restricts the very string by enum or pattern.                 *)
NoticeIsAnAppendix ==
    phase = "answered" =>
        /\ IF tier \in {"None", "NoSafeField"} THEN real_result = received
           ELSE real_result # received /\ OneStringGrew(received, real_result, notice)
        /\ conformance = "Conformant" /\ ~RestrictsContent(tool_output_schema)
            => conforms(tool_output_schema, Get(real_result, "structuredContent"))
=============================================================================
