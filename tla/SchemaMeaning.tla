------------------------------ MODULE SchemaMeaning ------------------------------
(***************************************************************************)
(* What conformance promises, without the recursion: every place of the    *)
(* data that the schema speaks of meets what is said of it, and none is    *)
(* deeper than the check looks.                                            *)
(***************************************************************************)
EXTENDS Json, Integers

CONSTANTS DeepestPlace, MatchesPattern(_, _)

TypeNames == {"object", "array", "string", "number", "boolean", "null", "integer"}

NamesOf(data) ==
    {data.kind} \cup (IF data.kind = "number" /\ data.num # "1.5" THEN {"integer"} ELSE {})

DeclaredNames(type) ==
    IF type.kind = "string" THEN {Head(type.str)}
    ELSE {Head(type.items[i].str) : i \in {j \in DOMAIN type.items : type.items[j].kind = "string"}}

TypeAllows(type, data) ==
    type.kind \in {"string", "array"} =>
        \E name \in DeclaredNames(type) : name \in NamesOf(data) \/ name \notin TypeNames

Declares(schema, keyword, kind) ==
    schema.kind = "object" /\ keyword \in DOMAIN schema.fields
        /\ schema.fields[keyword].kind = kind

Declared(schema, keyword) == schema.fields[keyword]

Keys(data) == IF data.kind = "object" THEN DOMAIN data.fields ELSE {}

KeysDeclared(schema) ==
    IF Declares(schema, "properties", "object") THEN DOMAIN Declared(schema, "properties").fields ELSE {}

(* What the schema says of one place, deeper places aside. *)
MetAt(schema, data) ==
    \/ schema = Bool(TRUE)
    \/ /\ schema.kind = "object"
       /\ "type" \in DOMAIN schema.fields => TypeAllows(Declared(schema, "type"), data)
       /\ Declares(schema, "enum", "array") => data \in Range(Declared(schema, "enum").items)
       /\ data.kind = "object" /\ Declares(schema, "required", "array") =>
             \A req \in Range(Declared(schema, "required").items) :
                 req.kind = "string" => Head(req.str) \in Keys(data)
       /\ data.kind = "object" /\ Declares(schema, "additionalProperties", "boolean") =>
             Declared(schema, "additionalProperties").bool \/ Keys(data) \subseteq KeysDeclared(schema)
       /\ data.kind = "string" /\ Declares(schema, "pattern", "string") =>
             MatchesPattern(Declared(schema, "pattern").str, data.str)

(* The places one step below, each with the schema that speaks of it. *)
Below(place) ==
    LET schema == place[1]
        data   == place[2]
    IN IF schema.kind # "object" THEN {}
       ELSE IF data.kind = "array" /\ "items" \in DOMAIN schema.fields
       THEN {<<Declared(schema, "items"), item>> : item \in Range(data.items)}
       ELSE {<<Declared(schema, "properties").fields[k], data.fields[k]>> :
                k \in Keys(data) \cap KeysDeclared(schema)}

(* From a place, those a number of steps below it. *)
Places[steps \in 0..DeepestPlace + 1] ==
    [place \in Values \X Values |->
        IF steps = 0 THEN {place} ELSE UNION {Below(p) : p \in Places[steps - 1][place]}]

Conforms(schema, data) ==
    /\ Places[DeepestPlace + 1][<<schema, data>>] = {}
    /\ \A steps \in 0..DeepestPlace : \A p \in Places[steps][<<schema, data>>] : MetAt(p[1], p[2])
=============================================================================
