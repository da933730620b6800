--------------------------- MODULE ResponseClassifier ---------------------------
(***************************************************************************)
(* The structural reading of one downstream response: classify_response    *)
(* and compute_new_state of provenance.rs.  Pure definitions, no state.    *)
(*                                                                         *)
(* A payload is abstracted to what the classification looks at: whether    *)
(* the bytes parse as UTF-8 JSON, the type of the top-level value, and the *)
(* byte length of every string value in the document, in document order.   *)
(***************************************************************************)
EXTENDS ProvenanceStates, Sequences, FiniteSets

CONSTANTS
    LONG_STRING_THRESHOLD,        \* 200 in the source
    AGGREGATE_STRING_BYTES_CAP,   \* 800 in the source
    U16,                          \* number of values of a u16: 2^16 in the source
    U32_MAX                       \* greatest u32: 2^32 - 1 in the source

(* The two counters are wide enough for the limits they are compared with. *)
ASSUME ClassifierAssumption ==
    /\ LONG_STRING_THRESHOLD \in Nat \ {0}
    /\ AGGREGATE_STRING_BYTES_CAP \in Nat
    /\ U16 \in Nat \ {0}
    /\ U32_MAX \in Nat
    /\ AGGREGATE_STRING_BYTES_CAP < U32_MAX
    /\ AGGREGATE_STRING_BYTES_CAP < LONG_STRING_THRESHOLD * U16

SchemaConformance == {"NotDeclared", "Conformant", "Violated"}
ResponseForm      == {"PrimitiveData", "StructuredContainer", "BareString",
                      "BareArray", "Malformed"}

Payload == [parses : BOOLEAN,
            top    : {"string", "array", "object", "scalar"},
            strings : Seq(Nat)]

Saturate(n) == IF n > U32_MAX THEN U32_MAX ELSE n

(* total_string_bytes: the sum of the string lengths, saturating at every    *)
(* addition.  The mutant wraps, as the other two counters do.                *)
TotalStringBytes_wraps(lens) ==
    LET total[n \in 0..Len(lens)] ==
            IF n = 0 THEN 0 ELSE (total[n - 1] + lens[n]) % (U32_MAX + 1)
    IN total[Len(lens)]

TotalStringBytes(lens) ==
    LET total[n \in 0..Len(lens)] ==
            IF n = 0 THEN 0 ELSE Saturate(total[n - 1] + lens[n])
    IN total[Len(lens)]

(* long_string_count: a u16, so it wraps in a release build. *)
LongStringCount(lens) ==
    Cardinality({n \in DOMAIN lens : lens[n] >= LONG_STRING_THRESHOLD}) % U16

FormOf(p, long) ==
    IF long > 0 THEN "StructuredContainer"
    ELSE CASE p.top = "string" -> "BareString"
           [] p.top = "array"  -> "BareArray"
           [] OTHER            -> "PrimitiveData"

classify_response(p) ==
    IF ~p.parses
    THEN [form |-> "Malformed", long |-> 0, bytes |-> 0]
    ELSE LET long == LongStringCount(p.strings) IN
         [form |-> FormOf(p, long), long |-> long,
          bytes |-> TotalStringBytes(p.strings)]

compute_new_state(grade, form, conformance, bytes, long) ==
    IF \/ form = "Malformed"
       \/ conformance = "Violated"
       \/ grade = "Suspicious"
    THEN Poisoned
    ELSE IF \/ grade = "Unvalidated"
            \/ bytes > AGGREGATE_STRING_BYTES_CAP
            \/ long > 0
         THEN Elevated
         ELSE Clean
=============================================================================
