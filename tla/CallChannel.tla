------------------------------- MODULE CallChannel -------------------------------
(***************************************************************************)
(* What a DownstreamConnection promises its caller, without its pipes: one *)
(* call at a time, every call ends in one outcome, and once two calls have *)
(* timed out with no success between them no call is let through again.    *)
(***************************************************************************)
EXTENDS Sequences, Integers

VARIABLES
    outcomes,    \* how the calls so far ended, in order
    in_flight    \* whether a call is let through and not ended

vars == <<outcomes, in_flight>>

(* Two timeouts and no success between them. *)
Wedged(seq) ==
    \E i, k \in 1..Len(seq) :
        /\ i < k
        /\ seq[i] = "Timeout" /\ seq[k] = "Timeout"
        /\ \A j \in i..k : seq[j] # "Ok"

Init == outcomes = <<>> /\ in_flight = FALSE

LetThrough ==
    /\ ~in_flight /\ ~Wedged(outcomes)
    /\ in_flight' = TRUE
    /\ UNCHANGED outcomes

Refuse ==
    /\ ~in_flight /\ Wedged(outcomes)
    /\ outcomes' = Append(outcomes, "Degraded")
    /\ UNCHANGED in_flight

End(outcome) ==
    /\ in_flight
    /\ outcomes' = Append(outcomes, outcome)
    /\ in_flight' = FALSE

Next == LetThrough \/ Refuse \/ \E outcome \in {"Ok", "Timeout", "Other"} : End(outcome)

Spec == Init /\ [][Next]_vars /\ WF_vars(\E outcome \in {"Ok", "Timeout", "Other"} : End(outcome))
=============================================================================
