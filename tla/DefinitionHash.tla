----------------------------- MODULE DefinitionHash -----------------------------
(***************************************************************************)
(* hasher.rs: the bytes that are fed to blake3 for a tool definition.      *)
(* blake3 itself is taken to tell any two byte strings apart, so a hash is *)
(* its byte string.  A length, eight bytes in the code, is one byte here   *)
(* (strings and lists are short).  The bytes of strings are the same       *)
(* numbers as tags and lengths: nothing but their place tells them apart.  *)
(*                                                                         *)
(* An object is a sequence of <<key, value>> in the order its Map yields,  *)
(* which a build with preserve_order takes from the server.                *)
(***************************************************************************)
EXTENDS Sequences, SequencesExt, Integers, FiniteSets

CONSTANTS
    MAX_HASH_RECURSION_DEPTH,
    Values                      \* the JSON values a server may send

Null    == [kind |-> "null"]
Bool(b) == [kind |-> "boolean", bool |-> b]
Num(s)  == [kind |-> "number", str |-> s]     \* as to_string prints it
Str(s)  == [kind |-> "string", str |-> s]
Arr(s)  == [kind |-> "array", items |-> s]
Obj(s)  == [kind |-> "object", entries |-> s]

(* With a value come its parts; no object has a key twice.                  *)
IsValue(v) ==
    \/ v = Null
    \/ v \in {Bool(FALSE), Bool(TRUE)}
    \/ v.kind = "number" /\ v = Num(v.str) /\ v.str \in Seq(Nat)
    \/ v.kind = "string" /\ v = Str(v.str) /\ v.str \in Seq(Nat)
    \/ v.kind = "array" /\ v = Arr(v.items) /\ v.items \in Seq(Values)
    \/ /\ v.kind = "object" /\ v = Obj(v.entries)
       /\ v.entries \in Seq(Seq(Nat) \X Values)
       /\ \A i, j \in DOMAIN v.entries : v.entries[i][1] = v.entries[j][1] => i = j

ASSUME HashAssumption ==
    MAX_HASH_RECURSION_DEPTH \in Nat /\ \A v \in Values : IsValue(v)

None    == [kind |-> "none"]                  \* an absent outputSchema

(* inputSchema is {} and description empty where the server gives none.     *)
McpToolDefinition(name, description, input_schema, output_schema) ==
    [name |-> name, description |-> description,
     input_schema |-> input_schema, output_schema |-> output_schema]

(* Bytewise, a prefix first: at the first place where they differ a has a  *)
(* smaller byte, or none.                                                   *)
KeyBefore(a, b) ==
    \E i \in DOMAIN b :
        /\ i <= Len(a) + 1 /\ \A j \in 1..(i - 1) : a[j] = b[j]
        /\ i \in DOMAIN a => a[i] < b[i]

Sorted_as_given(entries) == entries

(* A key comes after those before it: no key occurs twice.                  *)
Place(key, keys) == Cardinality({k \in keys : KeyBefore(k, key)}) + 1

Keys(entries) == {e[1] : e \in Range(entries)}

Sorted(entries) ==
    [i \in DOMAIN entries |-> CHOOSE e \in Range(entries) : Place(e[1], Keys(entries)) = i]

(* The mutant writes the bytes alone. *)
Prefixed_bare(s) == s

Prefixed(s) == <<Len(s)>> \o s

(* The bytes of a value, given those of each value as they are one level    *)
(* further down.                                                            *)
Canonical(value, below) ==
    CASE value.kind = "null"    -> <<0>>
      [] value.kind = "boolean" -> <<1, IF value.bool THEN 1 ELSE 0>>
      [] value.kind = "number"  -> <<2>> \o Prefixed(value.str)
      [] value.kind = "string"  -> <<3>> \o Prefixed(value.str)
      [] value.kind = "array"   ->
           <<4, Len(value.items)>>
               \o FlattenSeq([i \in DOMAIN value.items |-> below[value.items[i]]])
      [] value.kind = "object"  ->
           LET sorted == Sorted(value.entries)
           IN <<5, Len(sorted)>> \o FlattenSeq(
                  [i \in DOMAIN sorted |-> Prefixed(sorted[i][1]) \o below[sorted[i][2]]])

hash_canonical_value[depth \in Nat] ==
    [value \in Values |->
        IF depth > MAX_HASH_RECURSION_DEPTH THEN <<255>>
        ELSE Canonical(value, hash_canonical_value[depth + 1])]

compute_definition_hash(tool) ==
    Prefixed(tool.name) \o Prefixed(tool.description)
        \o hash_canonical_value[0][tool.input_schema]
        \o (IF tool.output_schema = None THEN <<0>>
            ELSE <<1>> \o hash_canonical_value[0][tool.output_schema])
=============================================================================
