---------------------------------- MODULE Json ----------------------------------
(***************************************************************************)
(* JSON values as serde_json::Value holds them: a record whose kind says   *)
(* which of its fields there is.  A string is a sequence of units, an      *)
(* object a function from keys (so that, as in a Map, order says nothing). *)
(***************************************************************************)
EXTENDS Sequences, Functions, FiniteSets

CONSTANT Values         \* the JSON values there may be

Null      == [kind |-> "null"]
Bool(b)   == [kind |-> "boolean", bool |-> b]
Num(n)    == [kind |-> "number", num |-> n]
Str(s)    == [kind |-> "string", str |-> s]
Arr(s)    == [kind |-> "array", items |-> s]
Obj(f)    == [kind |-> "object", fields |-> f]
EmptyObj  == Obj([k \in {} |-> Null])

IsText(s) == s \in Seq(Range(s))

(* With a value come its parts.                                             *)
IsValue(v) ==
    \/ v = Null
    \/ v \in {Bool(FALSE), Bool(TRUE)}
    \/ v.kind = "number" /\ v = Num(v.num)
    \/ v.kind = "string" /\ v = Str(v.str) /\ IsText(v.str)
    \/ v.kind = "array" /\ v = Arr(v.items) /\ v.items \in Seq(Values)
    \/ v.kind = "object" /\ v = Obj(v.fields) /\ v.fields \in [DOMAIN v.fields -> Values]

ASSUME JsonAssumption == \A v \in Values : IsValue(v)

IsKind(v, kind) == v.kind = kind

(* Value::get with a string: nothing unless v is an object that has the key. *)
Has(v, key) == IsKind(v, "object") /\ key \in DOMAIN v.fields
Get(v, key) == v.fields[key]

HasKind(v, key, kind) == Has(v, key) /\ IsKind(Get(v, key), kind)

(* IndexMut with a string on an object. *)
Put(v, key, x) ==
    Obj([k \in DOMAIN v.fields \cup {key} |-> IF k = key THEN x ELSE v.fields[k]])
=============================================================================
