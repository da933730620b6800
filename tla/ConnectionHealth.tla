---------------------------- MODULE ConnectionHealth ----------------------------
(***************************************************************************)
(* How call_tool of downstream.rs judges a connection from the outcomes of *)
(* the calls made on it.  Pure definitions, shared by the connection and   *)
(* by the gateway that owns one connection per server.                     *)
(***************************************************************************)
EXTENDS Integers

CONSECUTIVE_TIMEOUTS_TO_DEGRADE == 2

(* How one forwarded call can end; a degraded connection refuses instead. *)
CallOutcome == {"Ok", "Timeout", "Other"}

NewHealth == [consecutive_timeouts |-> 0, degraded |-> FALSE]

(* Mutant: any error but a timeout also starts the streak afresh. *)
health_after_reset_on_error(h, outcome) ==
    IF outcome # "Timeout" THEN [h EXCEPT !.consecutive_timeouts = 0]
    ELSE [consecutive_timeouts |-> h.consecutive_timeouts + 1,
          degraded |-> h.degraded \/ h.consecutive_timeouts + 1 >= CONSECUTIVE_TIMEOUTS_TO_DEGRADE]

(* Mutant: a success does not start the streak afresh. *)
health_after_no_reset(h, outcome) ==
    IF outcome # "Timeout" THEN h
    ELSE [consecutive_timeouts |-> h.consecutive_timeouts + 1,
          degraded |-> h.degraded \/ h.consecutive_timeouts + 1 >= CONSECUTIVE_TIMEOUTS_TO_DEGRADE]

(* Mutant: the connection degrades after one timeout too many. *)
health_after_off_by_one(h, outcome) ==
    CASE outcome = "Ok"      -> [h EXCEPT !.consecutive_timeouts = 0]
      [] outcome = "Other"   -> h
      [] outcome = "Timeout" ->
           [consecutive_timeouts |-> h.consecutive_timeouts + 1,
            degraded |-> h.degraded \/ h.consecutive_timeouts + 1 > CONSECUTIVE_TIMEOUTS_TO_DEGRADE]

health_after(h, outcome) ==
    CASE outcome = "Ok"      -> [h EXCEPT !.consecutive_timeouts = 0]
      [] outcome = "Other"   -> h
      [] outcome = "Timeout" ->
           [consecutive_timeouts |-> h.consecutive_timeouts + 1,
            degraded |-> h.degraded \/ h.consecutive_timeouts + 1 >= CONSECUTIVE_TIMEOUTS_TO_DEGRADE]
=============================================================================
