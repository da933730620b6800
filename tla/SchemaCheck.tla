------------------------------- MODULE SchemaCheck -------------------------------
(***************************************************************************)
(* schema_check.rs: whether a value conforms to a declared outputSchema,   *)
(* for the keywords the gateway looks at.  The schema is a JSON value of   *)
(* the server's choosing, and so is a pattern in it.                       *)
(***************************************************************************)
EXTENDS Json, SequencesExt, Integers

CONSTANTS
    MAX_SCHEMA_CHECK_DEPTH,
    MAX_SCHEMA_PATTERN_SOURCE_LEN   \* in units

ASSUME SchemaCheckAssumption ==
    MAX_SCHEMA_CHECK_DEPTH \in Nat /\ MAX_SCHEMA_PATTERN_SOURCE_LEN \in Nat

(* The regex crate, for the patterns used here: "(" is a syntax error (or a *)
(* compiled form over its limit), "^" asks for the whole string, anything   *)
(* else for a part of it.                                                   *)
Compiles(pattern) == ~Contains(pattern, "(")

IsMatch(pattern, s) ==
    IF pattern # <<>> /\ Head(pattern) = "^" THEN s = Tail(pattern)
    ELSE \E i \in 0..Len(s) - Len(pattern) : SubSeq(s, i + 1, i + Len(pattern)) = pattern

pattern_matches(pattern, s) ==
    /\ Len(pattern) <= MAX_SCHEMA_PATTERN_SOURCE_LEN
    /\ Compiles(pattern) /\ IsMatch(pattern, s)

(* 1.0 is an integer, as 1 is. *)
Fractional(n) == n = "1.5"

type_matches(name, data) ==
    CASE name = "integer" -> IsKind(data, "number") /\ ~Fractional(data.num)
      [] name \in {"object", "array", "string", "number", "boolean", "null"} -> IsKind(data, name)
      [] OTHER -> TRUE

(* The name of a type is a string of one unit here. *)
check_type(type, data) ==
    CASE IsKind(type, "string") -> type_matches(Head(type.str), data)
      [] IsKind(type, "array")  ->
            \E i \in DOMAIN type.items : /\ IsKind(type.items[i], "string")
                                         /\ type_matches(Head(type.items[i].str), data)
      [] OTHER -> TRUE

RequiredPresent(schema, data) ==
    HasKind(schema, "required", "array") =>
        \A i \in DOMAIN Get(schema, "required").items :
            LET req == Get(schema, "required").items[i]
            IN IsKind(req, "string") => Has(data, Head(req.str))

Properties(schema) ==
    IF HasKind(schema, "properties", "object") THEN Get(schema, "properties").fields
    ELSE [k \in {} |-> Null]

(* The mutant takes a schema without properties to have declared nothing. *)
NoExtraKeys_if_properties(schema, data) ==
    (HasKind(schema, "properties", "object") /\ Has(schema, "additionalProperties")
        /\ Get(schema, "additionalProperties") = Bool(FALSE))
        => DOMAIN data.fields \subseteq DOMAIN Properties(schema)

NoExtraKeys(schema, data) ==
    (Has(schema, "additionalProperties") /\ Get(schema, "additionalProperties") = Bool(FALSE))
        => DOMAIN data.fields \subseteq DOMAIN Properties(schema)

(* What the schema asks of a value, given which values one level further    *)
(* down meet which schemas.  One that is neither an object nor a boolean is *)
(* not met.                                                                 *)
MeetsSchema(schema, data, below) ==
    \/ IsKind(schema, "boolean") /\ schema.bool
    \/ /\ IsKind(schema, "object")
       /\ Has(schema, "type") => check_type(Get(schema, "type"), data)
       /\ HasKind(schema, "enum", "array") => Contains(Get(schema, "enum").items, data)
       /\ IsKind(data, "object") =>
             /\ RequiredPresent(schema, data)
             /\ \A key \in DOMAIN Properties(schema) \cap DOMAIN data.fields :
                    below[Properties(schema)[key]][data.fields[key]]
             /\ NoExtraKeys(schema, data)
       /\ IsKind(data, "array") /\ Has(schema, "items") =>
             \A i \in DOMAIN data.items : below[Get(schema, "items")][data.items[i]]
       /\ IsKind(data, "string") /\ HasKind(schema, "pattern", "string") =>
             pattern_matches(Get(schema, "pattern").str, data.str)

(* Too deep for the limit, no schema is met. *)
check_rec[depth \in Nat] ==
    [schema \in Values |-> [data \in Values |->
        depth <= MAX_SCHEMA_CHECK_DEPTH /\ MeetsSchema(schema, data, check_rec[depth + 1])]]

conforms(schema, data) == check_rec[0][schema][data]
=============================================================================
