------------------------------- MODULE Provenance -------------------------------
(***************************************************************************)
(* AgentProvenanceTracker as a state machine: any sequence of responses,   *)
(* each read by the classifier and the rules and absorbed by the tracker,  *)
(* interleaved with approved calls, which take the recorded rule ids for   *)
(* their audit record.  The history variable hist follows the responses    *)
(* themselves: it reads their text (Shown), not the classifier's counters, *)
(* and of the tracker only what state_from_rule_hits reads of it, so that  *)
(* the properties relate what the tracker says to what was observed.       *)
(***************************************************************************)
EXTENDS ProvenanceFsm

CONSTANTS
    Servers,     \* downstream server ids
    Grade,       \* Grade[s]: the operator's source_grade of server s
    Payloads,    \* response payloads a server may return
    Summaries    \* what the rules may find in a response: sets of hits

Hits == UNION Summaries

ASSUME InputsAssumption ==
    /\ NoServer \notin Servers
    /\ Grade \in [Servers -> SourceGrade]
    /\ Payloads \subseteq Payload
    /\ \A h \in Hits : h.severity \in Severity /\ h.action \in Action

VARIABLES
    tracker,   \* the AgentProvenanceTracker
    hist       \* history of the responses, for the properties

vars == <<tracker, hist>>

FullRecovery == CLEAN_CALLS_TO_DECAY_CONTAMINATED + CLEAN_CALLS_TO_DECAY_ELEVATED

UpTo(bound, n) == IF n > bound THEN bound ELSE n

(* How many responses no worse than b, without a gap, heal down to b. *)
Healing(b) == IF b = Clean THEN CLEAN_CALLS_TO_DECAY_ELEVATED
                           ELSE CLEAN_CALLS_TO_DECAY_CONTAMINATED

(* What the structure of a response shows, read off the response itself:    *)
(* all the bytes of its strings, and whether one of them is long, with no   *)
(* counter that could be full.                                              *)
AllBytes(lens) ==
    LET sum[n \in 0..Len(lens)] == IF n = 0 THEN 0 ELSE sum[n - 1] + lens[n]
    IN sum[Len(lens)]

HasBulk(lens) ==
    \/ AllBytes(lens) > AGGREGATE_STRING_BYTES_CAP
    \/ \E n \in DOMAIN lens : lens[n] >= LONG_STRING_THRESHOLD

Shown(grade, p, conformance) ==
    IF ~p.parses \/ conformance = "Violated" \/ grade = "Suspicious" THEN Poisoned
    ELSE IF grade = "Unvalidated" \/ HasBulk(p.strings) THEN Elevated
    ELSE Clean

(***************************************************************************)
(* run[b]: how many of the latest responses, without a gap, were no worse  *)
(* than b.  calm: how many responses since the last one that showed        *)
(* evidence of tampering (both full, when there was none).  strikes: how   *)
(* many responses carried heuristic evidence.  breach: whether one was a   *)
(* deterministic violation, and culprit the server that first poisoned.    *)
(* The counts saturate where the properties stop looking.  beat toggles,   *)
(* so that no response is a stuttering step.                               *)
(***************************************************************************)
InitHist == [run |-> [b \in {Clean, Elevated} |-> Healing(b)], calm |-> FullRecovery,
             strikes |-> 0, breach |-> FALSE, culprit |-> NoServer, beat |-> FALSE]

Observe(h, structural, hitState, heuristic, server) ==
    LET new == MaxState(structural, hitState)
        deterministic == structural = Poisoned \/ (hitState = Poisoned /\ ~heuristic)
    IN [run |-> [b \in {Clean, Elevated} |->
                    IF new > b THEN 0 ELSE UpTo(Healing(b), h.run[b] + 1)],
        calm |-> IF new > Elevated THEN 0 ELSE UpTo(FullRecovery, h.calm + 1),
        strikes |-> IF heuristic THEN UpTo(2, h.strikes + 1) ELSE h.strikes,
        breach |-> h.breach \/ deterministic,
        culprit |-> IF h.culprit = NoServer /\ new = Poisoned THEN server ELSE h.culprit,
        beat |-> ~h.beat]

-----------------------------------------------------------------------------
Init == tracker = NewTracker /\ hist = InitHist

(* Only a response that is an object can carry a structuredContent to check. *)
Respond(s, p, conformance, hits) ==
    LET sig == classify_response(p)
        structural == compute_new_state(Grade[s], sig.form, conformance, sig.bytes, sig.long)
        hitState == state_from_rule_hits(hits, tracker.current_state)
    IN /\ conformance # "NotDeclared" => p.parses /\ p.top = "object"
       /\ tracker' = AbsorbResponse(tracker, MaxState(structural, hitState), s, rule_ids(hits))
       /\ hist' = Observe(hist, Shown(Grade[s], p, conformance), hitState,
                          Heuristic(hits) /\ ~HasPoison(hits), s)

(* An approved call: evaluate takes the rule ids for its audit record. *)
TakeRuleIds ==
    /\ tracker.rule_ids # {}
    /\ tracker' = [tracker EXCEPT !.rule_ids = {}]
    /\ UNCHANGED hist

AnyResponse == \E s \in Servers, p \in Payloads, c \in SchemaConformance, hits \in Summaries :
                   Respond(s, p, c, hits)

Next == AnyResponse \/ TakeRuleIds

Spec == Init /\ [][Next]_vars

-----------------------------------------------------------------------------
(* The tracker and its history are well formed, and the streak of clean     *)
(* calls stays inside the tier it counts for: none at Clean or Poisoned.    *)
TypeOK ==
    /\ tracker.current_state \in ProvenanceState
    /\ tracker.clean_calls \in Nat
    /\ tracker.poisoner \in Servers \cup {NoServer}
    /\ tracker.rule_ids \subseteq rule_ids(Hits)
    /\ tracker.current_state \in {Clean, Poisoned} => tracker.clean_calls = 0
    /\ tracker.current_state \in {Elevated, Contaminated} =>
           tracker.clean_calls < DecayThreshold(tracker.current_state)

(* The full way back from evidence of tampering to Clean takes both decay   *)
(* tiers, one after the other: whatever mix of elevating and clean          *)
(* responses comes in, a session that reads Clean has seen at least         *)
(* 5 + 3 calm responses since the last evidence, one that reads Elevated    *)
(* at least 5 plus its present streak (record_response_outcome).  And a     *)
(* session that reads Clean has seen 3 responses in a row that showed       *)
(* nothing since the last one with bulk text or from an ungraded server,    *)
(* also when that response overran the counters of classify_response.       *)
RecoveryIsPaidFor ==
    /\ tracker.current_state = Clean =>
           /\ hist.calm = FullRecovery
           /\ hist.run[Clean] = CLEAN_CALLS_TO_DECAY_ELEVATED
    /\ tracker.current_state = Elevated =>
           hist.calm >= CLEAN_CALLS_TO_DECAY_CONTAMINATED + tracker.clean_calls
    /\ tracker.current_state = Contaminated => hist.calm >= tracker.clean_calls

(* The state falls by one tier at a time, only when the latest responses,   *)
(* as many as that tier's threshold and without a gap, were all no worse    *)
(* than the tier it falls to, and never out of Poisoned.                    *)
DecayIsEarned ==
    [][tracker'.current_state < tracker.current_state =>
         /\ tracker.current_state # Poisoned
         /\ tracker'.current_state = tracker.current_state - 1
         /\ hist'.run[tracker'.current_state] >= Healing(tracker'.current_state)]_vars

(* Heuristic evidence alone never poisons on its own: a session poisoned    *)
(* without a deterministic violation (a poison rule, a malformed response,  *)
(* a broken schema, a Suspicious server) has seen two responses with        *)
(* heuristic evidence, and one that is Contaminated has seen at least one;  *)
(* a server's grade or a response's shape never contaminates                *)
(* (state_from_rule_hits, compute_new_state).                               *)
PoisonIsCorroborated ==
    /\ tracker.current_state = Poisoned /\ ~hist.breach => hist.strikes >= 2
    /\ tracker.current_state = Contaminated => hist.strikes >= 1

(* Every deterministic violation poisons whatever the session's state, and  *)
(* the server blamed for it is the one whose response did it, for good.     *)
BlameIsRight ==
    /\ hist.breach => tracker.current_state = Poisoned
    /\ tracker.poisoner = hist.culprit
    /\ (tracker.poisoner # NoServer) <=> (tracker.current_state = Poisoned)

(* Recovery is possible: if from some point on every response is clean and  *)
(* responses keep coming, the session ends up Clean for good, unless it is  *)
(* Poisoned.                                                                *)
CleanTraffic == <>[](hist.run[Clean] > 0) /\ []<><<AnyResponse>>_vars
Recovers == CleanTraffic => <>[](tracker.current_state \in {Clean, Poisoned})
=============================================================================
