--------------------------------- MODULE Pinning ---------------------------------
(***************************************************************************)
(* The life of one pin: the gateway starts and prints the hash of a first- *)
(* seen definition, the operator copies it into config.yaml, and later     *)
(* starts compare it with whatever the server advertises then.             *)
(***************************************************************************)
EXTENDS DefinitionHash

CONSTANT Definitions    \* what a server may advertise

ASSUME DefinitionsAssumption ==
    Definitions \subseteq [name : Seq(Nat), description : Seq(Nat),
                          input_schema : Values, output_schema : Values \cup {None}]

VARIABLES
    pinned_definition_hash_hex,   \* of config.yaml: [hash, upper], or NoPin
    pinned,                       \* history: the definition the pin was taken from
    advertised,                   \* the definition of this start, or Nothing
    pin_status                    \* its PinStatus, or "stopped"

vars == <<pinned_definition_hash_hex, pinned, advertised, pin_status>>

NoPin   == [upper |-> FALSE]
Nothing == [name |-> <<>>]

Init ==
    /\ pinned_definition_hash_hex = NoPin /\ pinned = Nothing
    /\ advertised = Nothing /\ pin_status = "stopped"

(* Two digits a byte, in lower case; the operator may have typed capitals.  *)
hash_to_hex(hash) == [hash |-> hash, upper |-> FALSE]

from_pin(pin, actual_hex) ==
    IF pin = NoPin THEN "NotYetPinned"
    ELSE IF pin.hash = actual_hex.hash THEN "Matched" ELSE "Mismatched"

(* A start, as far as it concerns this tool: the config is read and the     *)
(* definition compared once, whatever the server advertises later.          *)
Start ==
    /\ pin_status = "stopped"
    /\ advertised' \in Definitions
    /\ pin_status' = from_pin(pinned_definition_hash_hex,
                              hash_to_hex(compute_definition_hash(advertised')))
    /\ UNCHANGED <<pinned_definition_hash_hex, pinned>>

Stop ==
    /\ pin_status # "stopped" /\ pin_status' = "stopped" /\ advertised' = Nothing
    /\ UNCHANGED <<pinned_definition_hash_hex, pinned>>

(* The operator pins, or pins anew, the hash that this start printed, for   *)
(* the starts to come.                                                      *)
PinAndStop ==
    /\ pin_status \in {"NotYetPinned", "Mismatched"} /\ pin_status' = "stopped"
    /\ pinned' = advertised /\ advertised' = Nothing
    /\ \E upper \in BOOLEAN :
          pinned_definition_hash_hex' =
              [hash_to_hex(compute_definition_hash(advertised)) EXCEPT !.upper = upper]

Next == Start \/ Stop \/ PinAndStop

Spec == Init /\ [][Next]_vars
-----------------------------------------------------------------------------
(* Equal as JSON, given which values are equal one level further down: keys *)
(* in any order.                                                            *)
EqualAsJson(v, w, below) ==
    /\ v.kind = w.kind
    /\ v.kind = "array" =>
          /\ Len(v.items) = Len(w.items)
          /\ \A i \in DOMAIN v.items : below[v.items[i]][w.items[i]]
    /\ v.kind = "object" =>
          /\ Len(v.entries) = Len(w.entries)
          /\ \A i \in DOMAIN v.entries : \E j \in DOMAIN w.entries :
                /\ v.entries[i][1] = w.entries[j][1]
                /\ below[v.entries[i][2]][w.entries[j][2]]
    /\ v.kind \notin {"array", "object"} => v = w

(* Equal as JSON, as far down as the hash looks: below the limit anything   *)
(* for anything.                                                            *)
Alike[depth \in Nat] ==
    [v \in Values |-> [w \in Values |->
        depth > MAX_HASH_RECURSION_DEPTH \/ EqualAsJson(v, w, Alike[depth + 1])]]

SameDefinition(d, e) ==
    /\ d.name = e.name /\ d.description = e.description
    /\ Alike[0][d.input_schema][e.input_schema]
    /\ (d.output_schema = None) <=> (e.output_schema = None)
    /\ d.output_schema # None => Alike[0][d.output_schema][e.output_schema]

(* A pin matches what a server advertises at a later start exactly when it  *)
(* is the definition that was reviewed: no way of moving bytes between      *)
(* name, description, keys, values and their nesting leaves the hash as it  *)
(* was (no ambiguity of the encoding), and no reordering of keys breaks it  *)
(* (no false alarm), down to the depth limit.                               *)
PinTellsChange ==
    pin_status \in {"Matched", "Mismatched"} =>
        ((pin_status = "Matched") <=> SameDefinition(pinned, advertised))
=============================================================================
