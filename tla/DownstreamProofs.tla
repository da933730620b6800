---------------------------- MODULE DownstreamProofs ----------------------------
(***************************************************************************)
(* Theorems about Downstream, for every number of calls, every number of   *)
(* lines the server sends of its own, and every set of ids it may use.     *)
(*                                                                         *)
(* The inductive invariant follows a request and a line through the pipes: *)
(* an id is in at most one place, a request that is owed or answered ran,  *)
(* and a first part of a line is followed by its rest.                     *)
(***************************************************************************)
EXTENDS Downstream, SequenceTheorems, FiniteSetTheorems, TLAPS

(* The positions of Append(s, e) are those of s and one more.               *)
LEMMA AppendDomain ==
    ASSUME NEW S, NEW s \in Seq(S), NEW e \in S
    PROVE  /\ Append(s, e) \in Seq(S)
           /\ Len(s) \in Nat /\ Len(Append(s, e)) = Len(s) + 1
           /\ DOMAIN s = 1..Len(s)
           /\ DOMAIN Append(s, e) = 1..Len(s)+1
           /\ \A i \in 1..Len(s) : Append(s, e)[i] = s[i] /\ s[i] \in S
           /\ Append(s, e)[Len(s)+1] = e
<1>1. /\ Append(s, e) \in Seq(S) /\ Len(Append(s, e)) = Len(s) + 1
      /\ \A i \in 1..Len(s) : Append(s, e)[i] = s[i]
      /\ Append(s, e)[Len(s)+1] = e
  BY AppendProperties
<1>2. Len(s) \in Nat /\ DOMAIN s = 1..Len(s) /\ \A i \in 1..Len(s) : s[i] \in S
  BY LenProperties, ElementOfSeq
<1>3. DOMAIN Append(s, e) = 1..Len(s)+1
  BY <1>1, LenProperties
<1> QED
  BY <1>1, <1>2, <1>3

(* Taking the first element moves the others up.                            *)
LEMMA TailDomain ==
    ASSUME NEW S, NEW s \in Seq(S), s # <<>>
    PROVE  /\ Tail(s) \in Seq(S)
           /\ Len(s) \in Nat \ {0} /\ Len(Tail(s)) = Len(s) - 1
           /\ DOMAIN s = 1..Len(s) /\ DOMAIN Tail(s) = 1..Len(s)-1
           /\ \A i \in 1..Len(s)-1 : Tail(s)[i] = s[i+1]
           /\ Head(s) = s[1] /\ s[1] \in S
           /\ Tail(s) = <<>> <=> Len(s) = 1
<1>1. Len(s) \in Nat \ {0}
  BY EmptySeq
<1>2. /\ Tail(s) \in Seq(S) /\ Len(Tail(s)) = Len(s) - 1
      /\ \A i \in 1..Len(Tail(s)) : Tail(s)[i] = s[i+1]
  BY HeadTailProperties
<1>3. DOMAIN s = 1..Len(s) /\ DOMAIN Tail(s) = 1..Len(s)-1
  BY <1>2, LenProperties
<1>4. Head(s) = s[1] /\ s[1] \in S
  BY <1>1, ElementOfSeq
<1>5. Tail(s) = <<>> <=> Len(Tail(s)) = 0
  BY <1>2, EmptySeq
<1> QED
  BY <1>1, <1>2, <1>3, <1>4, <1>5

(* A set of positions of a history is finite, and counts no more than it.   *)
LEMMA CountBound ==
    ASSUME NEW n \in Nat, NEW P, P \subseteq 1..n
    PROVE  /\ IsFiniteSet(P) /\ Cardinality(P) \in Nat /\ Cardinality(P) <= n
           /\ n + 1 \notin P
<1>1. IsFiniteSet(1..n) /\ Cardinality(1..n) = n
  BY FS_Interval
<1>2. IsFiniteSet(P) /\ Cardinality(P) <= n
  BY <1>1, FS_Subset
<1> QED
  BY <1>2, FS_CardinalityType

(* One more position.                                                       *)
LEMMA CountAppend ==
    ASSUME NEW n \in Nat, NEW P, P \subseteq 1..n
    PROVE  Cardinality(P \cup {n + 1}) = Cardinality(P) + 1
  BY CountBound, FS_AddElement

Part    == {"whole", "head", "tail"}
Request == [id : Nat, torn : BOOLEAN]
Piece   == [line : Line, part : Part]
Call    == [id : Nat, outcome : CallOutcome \cup {"Degraded"},
            cause : Line \cup {NoLine, StrayTail}]

(* Types, and the bounds of the health counter. *)
Types ==
    /\ next_id \in Nat
    /\ health \in [consecutive_timeouts : 0..CONSECUTIVE_TIMEOUTS_TO_DEGRADE, degraded : BOOLEAN]
    /\ health.degraded <=> health.consecutive_timeouts = CONSECUTIVE_TIMEOUTS_TO_DEGRADE
    /\ phase \in {"idle", "writing", "reading"}
    /\ pulled \in BOOLEAN
    /\ unfinished \in {"no", "own", "stale"}
    /\ stdin \in Seq(Request)
    /\ stdout \in Seq(Piece)
    /\ server \in [up : BOOLEAN, owed : SUBSET Ids, half : Line \cup {NoLine},
                   ran : [Ids -> Nat], spoken : Nat]
    /\ calls \in Seq(Call)

(* What the phase of the call in flight says of the rest.  *)
Phases ==
    /\ phase # "idle" => ~health.degraded /\ Len(calls) < MaxCalls
    /\ pulled => phase = "reading"
    /\ unfinished = "own" => phase = "writing"

(* Ids are given out one by one. *)
Called == {i \in DOMAIN calls : calls[i].id # 0}

Numbering ==
    /\ Len(calls) <= MaxCalls
    /\ next_id = FirstId + Cardinality(Called) + (IF phase = "idle" THEN 0 ELSE 1)

(* A request is in the pipe at most once and before it ran; its id is given *)
(* out by then.                                                             *)
Unseen(id) == id > Current \/ (id = Current /\ phase = "writing")

RequestsMove ==
    /\ \A i \in DOMAIN stdin : stdin[i].id \in Ids /\ ~Unseen(stdin[i].id)
    /\ \A i \in DOMAIN stdin : server.ran[stdin[i].id] = 0
    /\ \A i, j \in DOMAIN stdin : i < j => stdin[i].id # stdin[j].id
    /\ \A id \in Ids : server.ran[id] <= 1
    /\ \A id \in Ids : Unseen(id) => server.ran[id] = 0

(* What is answered, or owed, ran. *)
HasRun(line) == line.kind = "reply" => line.id \in Ids /\ server.ran[line.id] = 1

AnswersRan ==
    /\ \A id \in server.owed : server.ran[id] = 1
    /\ HasRun(server.half)
    /\ \A i \in DOMAIN stdout : HasRun(stdout[i].line)
    /\ \A i \in DOMAIN calls : HasRun(calls[i].cause)
    /\ \A i \in DOMAIN calls : calls[i].cause.kind = "reply" => calls[i].cause.id = calls[i].id

(* In the pipe the first part of a line and its rest stand side by side. *)
PartsAlternate ==
    /\ \A i \in 1..Len(stdout)-1 : stdout[i].part = "head" <=> stdout[i+1].part = "tail"
    /\ stdout # <<>> => (stdout[Len(stdout)].part = "head" <=> server.half # NoLine)

(* The next thing to be read is the rest of a line whose first part is gone. *)
RestIsNext ==
    IF stdout = <<>> THEN server.half # NoLine ELSE stdout[1].part = "tail"

(* ... and no call holds that first part, and the rest will still come. *)
StrayIsNext ==
    /\ ~pulled /\ RestIsNext
    /\ stdout = <<>> => server.up

Hits     == {i \in DOMAIN calls : HitTail(calls[i])}
Timeouts == {i \in DOMAIN calls : TimedOut(calls[i])}

TailsArePaid ==
    /\ pulled => RestIsNext
    /\ Cardinality(Hits) + (IF StrayIsNext THEN 1 ELSE 0) <= Cardinality(Timeouts)
    /\ DesyncIsPaidOnce

(* The counter is what the outcomes so far say. *)
NoOkAfter(i) == \A j \in i..Len(calls) : calls[j].outcome # "Ok"

HealthExplained ==
    /\ health.degraded <=> Channel!Wedged(Outcomes)
    /\ health.consecutive_timeouts = 0 =>
           \A i \in DOMAIN calls : TimedOut(calls[i]) => ~NoOkAfter(i)
    /\ health.consecutive_timeouts = 1 =>
           \E i \in DOMAIN calls : TimedOut(calls[i]) /\ NoOkAfter(i)

IInv ==
    /\ Types
    /\ Phases
    /\ Numbering
    /\ RequestsMove
    /\ AnswersRan
    /\ OwnAnswer
    /\ PartsAlternate
    /\ TailsArePaid
    /\ HealthExplained

-----------------------------------------------------------------------------
(* health_after, case by case. *)
LEMMA HealthAfter ==
    ASSUME Types, ~health.degraded, NEW outcome \in CallOutcome,
           health' = health_after(health, outcome)
    PROVE  /\ health' \in [consecutive_timeouts : 0..CONSECUTIVE_TIMEOUTS_TO_DEGRADE,
                           degraded : BOOLEAN]
           /\ health'.consecutive_timeouts =
                IF outcome = "Ok" THEN 0
                ELSE IF outcome = "Other" THEN health.consecutive_timeouts
                ELSE health.consecutive_timeouts + 1
           /\ health'.degraded <=> health'.consecutive_timeouts = CONSECUTIVE_TIMEOUTS_TO_DEGRADE
<1> USE DEF CONSECUTIVE_TIMEOUTS_TO_DEGRADE
<1>0. /\ health \in [consecutive_timeouts : 0..2, degraded : BOOLEAN]
      /\ health.degraded <=> health.consecutive_timeouts = 2
  BY DEF Types
<1>1. CASE outcome = "Ok"
  <2>1. health' = [health EXCEPT !.consecutive_timeouts = 0]
    BY <1>1 DEF health_after
  <2>2. health'.consecutive_timeouts = 0
    BY <1>0, <2>1
  <2>3. health'.degraded = health.degraded
    BY <1>0, <2>1
  <2>4. health' \in [consecutive_timeouts : 0..2, degraded : BOOLEAN]
    BY <1>0, <2>1
  <2> QED
    BY <1>0, <1>1, <2>2, <2>3, <2>4
<1>2. CASE outcome = "Other"
  <2>1. health' = health
    BY <1>2 DEF health_after
  <2> QED
    BY <1>0, <1>2, <2>1
<1>3. CASE outcome = "Timeout"
  <2> DEFINE enough == health.degraded \/ health.consecutive_timeouts + 1 >= 2
  <2>1. health' = [consecutive_timeouts |-> health.consecutive_timeouts + 1, degraded |-> enough]
    BY <1>3 DEF health_after
  <2>2. health'.consecutive_timeouts = health.consecutive_timeouts + 1
    BY <2>1
  <2>3. health'.degraded = enough
    <3> HIDE DEF enough
    <3> QED
      BY <2>1
  <2>4. health.consecutive_timeouts \in 0..1 /\ health.degraded = FALSE
    BY <1>0
  <2>5. health.consecutive_timeouts + 1 \in 0..2 /\ enough \in BOOLEAN
    BY <2>4
  <2>6. health' \in [consecutive_timeouts : 0..2, degraded : BOOLEAN]
    <3> HIDE DEF enough
    <3> QED
      BY <2>1, <2>5
  <2> QED
    BY <1>3, <2>2, <2>3, <2>4, <2>6
<1> QED
  BY <1>1, <1>2, <1>3 DEF CallOutcome

(* While a call is in flight its id is one of Ids.                          *)
LEMMA CurrentId ==
    ASSUME Types, Phases, Numbering
    PROVE  /\ Called \subseteq 1..Len(calls) /\ Len(calls) \in Nat
           /\ Cardinality(Called) \in 0..Len(calls)
           /\ Current \in Int
           /\ phase # "idle" => Current \in Ids
           /\ \A id \in Ids : id \in Nat /\ id >= 3
<1>1. Called \subseteq 1..Len(calls) /\ Len(calls) \in Nat
  BY LenProperties DEF Types, Called
<1>2. Cardinality(Called) \in 0..Len(calls)
  <2>1. Cardinality(Called) \in Nat /\ Cardinality(Called) <= Len(calls)
    BY ONLY <1>1, CountBound
  <2> QED
    BY <1>1, <2>1
<1>3. \A id \in Ids : id \in Nat /\ id >= 3
  BY DownstreamAssumption DEF Ids, FirstId
<1>4. Current = 3 + Cardinality(Called) - (IF phase = "idle" THEN 1 ELSE 0)
  BY <1>2 DEF Numbering, Current, FirstId
<1>5. phase # "idle" => Cardinality(Called) < MaxCalls
  BY <1>1, <1>2, DownstreamAssumption DEF Phases
<1>6. Current \in Int
  BY <1>2, <1>4
<1>7. phase # "idle" => Current \in Ids
  BY <1>2, <1>4, <1>5, DownstreamAssumption DEF Ids, FirstId
<1> QED
  BY <1>1, <1>2, <1>3, <1>6, <1>7

(* What the end of a call does, whatever ended it.                          *)
LEMMA EndOfCall ==
    ASSUME Types, Phases, Numbering, phase # "idle",
           NEW outcome \in CallOutcome, NEW cause \in Line \cup {NoLine, StrayTail},
           EndCall(outcome, cause)
    PROVE  LET n == Len(calls) IN
           /\ n \in Nat /\ Len(calls') = n + 1 /\ calls' \in Seq(Call)
           /\ DOMAIN calls = 1..n /\ DOMAIN calls' = 1..n+1
           /\ \A i \in 1..n : calls'[i] = calls[i] /\ calls[i] \in Call
           /\ calls'[n+1] = [id |-> Current, outcome |-> outcome, cause |-> cause]
           /\ Current \in Ids
           /\ Called' = Called \cup {n+1}
<1>1. Current \in Ids /\ Current \in Nat /\ Current >= 3
  BY CurrentId
<1>2. [id |-> Current, outcome |-> outcome, cause |-> cause] \in Call
  BY <1>1 DEF Call
<1>3. calls \in Seq(Call)
      /\ calls' = Append(calls, [id |-> Current, outcome |-> outcome, cause |-> cause])
  BY DEF Types, EndCall
<1> QED
  BY <1>1, <1>2, <1>3, AppendDomain DEF Called

(* What a refusal does. *)
LEMMA Refusal ==
    ASSUME Types,
           calls' = Append(calls, [id |-> 0, outcome |-> "Degraded", cause |-> NoLine])
    PROVE  LET n == Len(calls) IN
           /\ n \in Nat /\ Len(calls') = n + 1 /\ calls' \in Seq(Call)
           /\ DOMAIN calls = 1..n /\ DOMAIN calls' = 1..n+1
           /\ \A i \in 1..n : calls'[i] = calls[i] /\ calls[i] \in Call
           /\ calls'[n+1] = [id |-> 0, outcome |-> "Degraded", cause |-> NoLine]
           /\ Called' = Called
<1>1. [id |-> 0, outcome |-> "Degraded", cause |-> NoLine] \in Call
  BY DEF Call
<1>2. calls \in Seq(Call)
  BY DEF Types
<1> QED
  BY <1>1, <1>2, AppendDomain DEF Called

(* The wedge of CallChannel in terms of a history of calls.                 *)
Stuck(history, i, k) ==
    /\ i < k /\ history[i].outcome = "Timeout" /\ history[k].outcome = "Timeout"
    /\ \A j \in i..k : history[j].outcome # "Ok"

\* Wedged, over calls.
LEMMA WedgedOutcomes ==
    ASSUME NEW history \in Seq(Call)
    PROVE  Channel!Wedged([i \in DOMAIN history |-> history[i].outcome]) <=>
             \E i, k \in 1..Len(history) : Stuck(history, i, k)
<1> DEFINE seq == [i \in DOMAIN history |-> history[i].outcome]
<1>1. Len(history) \in Nat /\ DOMAIN history = 1..Len(history)
  BY LenProperties
<1>2. seq \in Seq({history[i].outcome : i \in 1..Len(history)})
  BY <1>1, SeqDef
<1>3. Len(seq) = Len(history)
  BY <1>1, <1>2, LenProperties
<1>4. \A i \in 1..Len(history) : seq[i] = history[i].outcome
  BY <1>1
<1> HIDE DEF seq
<1>5. \A i, k \in 1..Len(history) :
        (\A j \in i..k : seq[j] # "Ok") <=> (\A j \in i..k : history[j].outcome # "Ok")
  <2> SUFFICES ASSUME NEW i \in 1..Len(history), NEW k \in 1..Len(history), NEW j \in i..k
               PROVE  seq[j] = history[j].outcome
    OBVIOUS
  <2>1. j \in 1..Len(history)
    BY <1>1
  <2> QED
    BY <1>4, <2>1
<1>6. \A i, k \in 1..Len(history) :
        Stuck(history, i, k) <=> /\ i < k /\ seq[i] = "Timeout" /\ seq[k] = "Timeout"
                                 /\ \A j \in i..k : seq[j] # "Ok"
  BY <1>4, <1>5 DEF Stuck
<1>7. Channel!Wedged(seq) <=>
        \E i, k \in 1..Len(history) : /\ i < k /\ seq[i] = "Timeout" /\ seq[k] = "Timeout"
                                      /\ \A j \in i..k : seq[j] # "Ok"
  BY <1>3 DEF Channel!Wedged
<1>8. Channel!Wedged(seq) <=> \E i, k \in 1..Len(history) : Stuck(history, i, k)
  BY <1>6, <1>7
<1> QED
  BY <1>8 DEF seq

-----------------------------------------------------------------------------
(* What each part of the invariant depends on. *)
LEMMA Frames ==
    ASSUME IInv
    PROVE  /\ UNCHANGED vars => IInv'
           /\ UNCHANGED <<phase, health, calls, pulled, unfinished>> => Phases'
           /\ UNCHANGED <<calls, next_id, phase>> => Numbering'
           /\ UNCHANGED <<stdin, next_id, phase>> /\ server'.ran = server.ran => RequestsMove'
           /\ UNCHANGED <<stdout, server, calls>> => AnswersRan'
           /\ UNCHANGED calls => OwnAnswer'
           /\ UNCHANGED stdout /\ server'.half = server.half => PartsAlternate'
           /\ UNCHANGED <<pulled, stdout, server, calls>> => TailsArePaid'
           /\ UNCHANGED <<health, calls>> => HealthExplained'
<1>1. UNCHANGED <<phase, health, calls, pulled, unfinished>> => Phases'
  BY DEF IInv, Phases
<1>2. UNCHANGED <<calls, next_id, phase>> => Numbering'
  BY DEF IInv, Numbering, Called
<1>3. UNCHANGED <<stdin, next_id, phase>> /\ server'.ran = server.ran => RequestsMove'
  BY DEF IInv, RequestsMove, Unseen, Current
<1>4. UNCHANGED <<stdout, server, calls>> => AnswersRan'
  BY DEF IInv, AnswersRan, HasRun
<1>5. UNCHANGED calls => OwnAnswer'
  BY DEF IInv, OwnAnswer
<1>6. UNCHANGED stdout /\ server'.half = server.half => PartsAlternate'
  BY DEF IInv, PartsAlternate
<1>7. UNCHANGED <<pulled, stdout, server, calls>> => TailsArePaid'
  BY DEF IInv, TailsArePaid, RestIsNext, StrayIsNext, Hits, Timeouts, DesyncIsPaidOnce,
         CallsWith, HitTail, TimedOut
<1>8. UNCHANGED <<health, calls>> => HealthExplained'
  <2> SUFFICES ASSUME health' = health, calls' = calls
               PROVE  HealthExplained'
    OBVIOUS
  <2>1. Channel!Wedged(Outcomes)' <=> Channel!Wedged(Outcomes)
    BY DEF Outcomes
  <2> QED
    BY <2>1 DEF IInv, HealthExplained, NoOkAfter, TimedOut
<1>9. UNCHANGED vars => Types'
  BY DEF IInv, Types, vars
<1> QED
  BY <1>1, <1>2, <1>3, <1>4, <1>5, <1>6, <1>7, <1>8, <1>9 DEF IInv, vars

-----------------------------------------------------------------------------
(* A call that ends keeps the account of the health counter.                *)
LEMMA HealthAtEnd ==
    ASSUME IInv, phase # "idle",
           NEW outcome \in CallOutcome, NEW cause \in Line \cup {NoLine, StrayTail},
           EndCall(outcome, cause)
    PROVE  HealthExplained'
<1> DEFINE n == Len(calls)
<1>1. /\ n \in Nat /\ Len(calls') = n + 1 /\ calls' \in Seq(Call)
      /\ DOMAIN calls = 1..n /\ DOMAIN calls' = 1..n+1
      /\ \A i \in 1..n : calls'[i] = calls[i]
      /\ calls'[n+1] = [id |-> Current, outcome |-> outcome, cause |-> cause]
  BY EndOfCall DEF IInv
<1>2. calls'[n+1].outcome = outcome
  BY <1>1
<1> USE DEF CONSECUTIVE_TIMEOUTS_TO_DEGRADE
<1>3. /\ ~health.degraded
      /\ health.consecutive_timeouts \in 0..1
  BY DEF IInv, Phases, Types
<1>4. /\ health'.consecutive_timeouts \in 0..2
      /\ health'.consecutive_timeouts =
                IF outcome = "Ok" THEN 0
                ELSE IF outcome = "Other" THEN health.consecutive_timeouts
                ELSE health.consecutive_timeouts + 1
      /\ health'.degraded <=> health'.consecutive_timeouts = 2
  <2>1. health' = health_after(health, outcome)
    BY DEF EndCall
  <2> QED
    BY <2>1, <1>3, HealthAfter DEF IInv
<1>5. /\ ~Channel!Wedged(Outcomes)
      /\ health.consecutive_timeouts = 0 =>
           \A i \in 1..n : calls[i].outcome = "Timeout" => \E j \in i..n : calls[j].outcome = "Ok"
      /\ health.consecutive_timeouts = 1 =>
           \E i \in 1..n : calls[i].outcome = "Timeout" /\ \A j \in i..n : calls[j].outcome # "Ok"
  BY <1>1, <1>3 DEF IInv, HealthExplained, TimedOut, NoOkAfter
<1>6. ~ \E i, k \in 1..n : Stuck(calls, i, k)
  BY <1>5, WedgedOutcomes DEF IInv, Types, Outcomes
<1>7. Channel!Wedged(Outcomes)' <=> \E i, k \in 1..n+1 : Stuck(calls', i, k)
  BY <1>1, WedgedOutcomes DEF Outcomes
<1> HIDE DEF n
<1>8. CASE outcome = "Ok"
  <2>1. ~Channel!Wedged(Outcomes)'
    BY <1>1, <1>2, <1>6, <1>7, <1>8 DEF Stuck
  <2>2. \A i \in 1..n+1 : calls'[i].outcome = "Timeout" =>
            \E j \in i..n+1 : calls'[j].outcome = "Ok"
    BY <1>1, <1>2, <1>8
  <2> QED
    BY <1>1, <1>4, <1>8, <2>1, <2>2 DEF HealthExplained, TimedOut, NoOkAfter
<1>9. CASE outcome = "Other"
  <2>1. ~Channel!Wedged(Outcomes)'
    BY <1>1, <1>2, <1>6, <1>7, <1>9 DEF Stuck
  <2>2. health.consecutive_timeouts = 0 =>
           \A i \in 1..n+1 : calls'[i].outcome = "Timeout" => \E j \in i..n+1 : calls'[j].outcome = "Ok"
    BY <1>1, <1>2, <1>5, <1>9
  <2>3. health.consecutive_timeouts = 1 =>
           \E i \in 1..n+1 : calls'[i].outcome = "Timeout" /\ \A j \in i..n+1 : calls'[j].outcome # "Ok"
    BY <1>1, <1>2, <1>5, <1>9
  <2> QED
    BY <1>1, <1>3, <1>4, <1>9, <2>1, <2>2, <2>3 DEF HealthExplained, TimedOut, NoOkAfter
<1>10. CASE outcome = "Timeout" /\ health.consecutive_timeouts = 0
  <2>1. ~Channel!Wedged(Outcomes)'
    BY <1>1, <1>2, <1>5, <1>6, <1>7, <1>10 DEF Stuck
  <2>2. calls'[n+1].outcome = "Timeout" /\ \A j \in n+1..n+1 : calls'[j].outcome # "Ok"
    BY <1>1, <1>2, <1>10
  <2> QED
    BY <1>1, <1>4, <1>10, <2>1, <2>2 DEF HealthExplained, TimedOut, NoOkAfter
<1>11. CASE outcome = "Timeout" /\ health.consecutive_timeouts = 1
  <2>1. PICK i \in 1..n : calls[i].outcome = "Timeout" /\ \A j \in i..n : calls[j].outcome # "Ok"
    BY <1>5, <1>11
  <2>2. i < n+1 /\ calls'[i].outcome = "Timeout" /\ \A j \in i..n+1 : calls'[j].outcome # "Ok"
    BY <1>1, <1>2, <1>11, <2>1
  <2>3. Channel!Wedged(Outcomes)'
    BY <1>1, <1>2, <1>7, <1>11, <2>2 DEF Stuck
  <2> QED
    BY <1>1, <1>4, <1>11, <2>3 DEF HealthExplained
<1> QED
  BY <1>3, <1>8, <1>9, <1>10, <1>11 DEF CallOutcome

(* The account of torn lines, when the history grows by one call.           *)
LEMMA DesyncAtEnd ==
    ASSUME DesyncIsPaidOnce, NEW n \in Nat,
           DOMAIN calls = 1..n, DOMAIN calls' = 1..n+1,
           \A i \in 1..n : calls'[i] = calls[i],
           HitTail(calls'[n+1]) => Cardinality(Hits') <= Cardinality(Timeouts')
    PROVE  DesyncIsPaidOnce'
<1>1. ASSUME NEW i \in 1..n, HitTail(calls'[i])
      PROVE  Cardinality({j \in 1..i : HitTail(calls'[j])})
                <= Cardinality({j \in 1..i : TimedOut(calls'[j])})
  <2>1. /\ {j \in 1..i : HitTail(calls'[j])} = {j \in 1..i : HitTail(calls[j])}
        /\ {j \in 1..i : TimedOut(calls'[j])} = {j \in 1..i : TimedOut(calls[j])}
    OBVIOUS
  <2>2. HitTail(calls[i])
    BY <1>1
  <2> QED
    BY <2>1, <2>2 DEF DesyncIsPaidOnce, CallsWith
<1>2. ASSUME HitTail(calls'[n+1])
      PROVE  Cardinality({j \in 1..n+1 : HitTail(calls'[j])})
                <= Cardinality({j \in 1..n+1 : TimedOut(calls'[j])})
  BY <1>2 DEF Hits, Timeouts
<1>3. ASSUME NEW i \in DOMAIN calls', HitTail(calls'[i])
      PROVE  Cardinality({j \in 1..i : HitTail(calls'[j])})
                <= Cardinality({j \in 1..i : TimedOut(calls'[j])})
  <2>1. i \in 1..n \/ i = n+1
    OBVIOUS
  <2> QED
    BY <1>1, <1>2, <1>3, <2>1
<1> QED
  BY <1>3 DEF DesyncIsPaidOnce, CallsWith, HitTail, TimedOut

(* A call that ends without a line: the server is gone, or the timeout      *)
(* fired.                                                                   *)
LEMMA SilentEnd ==
    ASSUME IInv, phase # "idle", NEW outcome \in {"Other", "Timeout"},
           EndCall(outcome, NoLine),
           UNCHANGED <<stdin, stdout, server>>,
           unfinished' \in {"no", "stale"},
           outcome = "Other" /\ pulled => stdout = <<>> /\ ~server.up
    PROVE  IInv'
<1> DEFINE n == Len(calls)
<1>1. /\ n \in Nat /\ Len(calls') = n + 1 /\ calls' \in Seq(Call)
      /\ DOMAIN calls = 1..n /\ DOMAIN calls' = 1..n+1
      /\ \A i \in 1..n : calls'[i] = calls[i]
      /\ calls'[n+1] = [id |-> Current, outcome |-> outcome, cause |-> NoLine]
      /\ Current \in Ids
      /\ Called' = Called \cup {n+1}
  BY EndOfCall DEF IInv, CallOutcome
<1>2. /\ phase' = "idle" /\ pulled' = FALSE /\ next_id' = next_id
      /\ health' = health_after(health, outcome)
  BY DEF EndCall
<1>3. /\ calls'[n+1].outcome = outcome /\ calls'[n+1].cause = NoLine
      /\ NoLine.kind = "none"
  BY <1>1 DEF NoLine
<1>4. Types'
  <2>1. /\ health' \in [consecutive_timeouts : 0..CONSECUTIVE_TIMEOUTS_TO_DEGRADE, degraded : BOOLEAN]
        /\ health'.degraded <=> health'.consecutive_timeouts = CONSECUTIVE_TIMEOUTS_TO_DEGRADE
    BY <1>2, HealthAfter DEF IInv, Phases, CallOutcome
  <2> QED
    BY <1>1, <1>2, <2>1 DEF IInv, Types
<1>5. Phases'
  BY <1>2 DEF IInv, Phases
<1>6. Numbering'
  <2>1. Called \subseteq 1..n
    BY CurrentId DEF IInv
  <2>2. Cardinality(Called') = Cardinality(Called) + 1
    BY <1>1, <2>1, CountAppend
  <2>3. Cardinality(Called) \in Nat /\ n + 1 <= MaxCalls
    <3>1. Len(calls) < MaxCalls
      BY DEF IInv, Phases
    <3>2. Cardinality(Called) \in Nat
      BY <1>1, <2>1, CountBound
    <3> QED
      BY <1>1, <3>1, <3>2, DownstreamAssumption
  <2>4. next_id = FirstId + Cardinality(Called) + 1
    BY DEF IInv, Numbering
  <2> QED
    BY <1>1, <1>2, <2>2, <2>3, <2>4 DEF Numbering, FirstId
<1>7. RequestsMove'
  BY <1>2 DEF IInv, RequestsMove, Unseen, Current
<1>8. AnswersRan'
  BY <1>1, <1>3 DEF IInv, AnswersRan, HasRun
<1>9. OwnAnswer'
  BY <1>1, <1>3 DEF IInv, OwnAnswer
<1>10. PartsAlternate'
  BY Frames
<1>11. TailsArePaid'
  <2>1. Hits' = Hits /\ Hits \subseteq 1..n /\ Timeouts \subseteq 1..n
    BY <1>1, <1>3 DEF Hits, Timeouts, HitTail
  <2>2. Timeouts' = IF outcome = "Timeout" THEN Timeouts \cup {n+1} ELSE Timeouts
    BY <1>1, <1>3 DEF Timeouts, TimedOut
  <2>3. /\ Cardinality(Hits) \in Nat /\ Cardinality(Timeouts) \in Nat
        /\ outcome = "Timeout" => Cardinality(Timeouts') = Cardinality(Timeouts) + 1
    BY <1>1, <2>1, <2>2, CountBound, CountAppend
  <2>4. RestIsNext' <=> RestIsNext
    BY DEF RestIsNext
  <2>5. outcome = "Other" => (StrayIsNext' => StrayIsNext)
    BY <1>2, <2>4 DEF StrayIsNext
  <2>6. Cardinality(Hits') + (IF StrayIsNext' THEN 1 ELSE 0) <= Cardinality(Timeouts')
    BY <2>1, <2>2, <2>3, <2>5 DEF IInv, TailsArePaid
  <2>7. DesyncIsPaidOnce'
    BY <1>1, <1>3, DesyncAtEnd DEF IInv, TailsArePaid, HitTail
  <2> QED
    BY <1>2, <2>6, <2>7 DEF TailsArePaid
<1>12. HealthExplained'
  BY HealthAtEnd DEF CallOutcome, IInv
<1> QED
  BY <1>4, <1>5, <1>6, <1>7, <1>8, <1>9, <1>10, <1>11, <1>12 DEF IInv

(* Taking a piece from the pipe: after a first part the rest is next, and   *)
(* after anything else it is not.                                           *)
LEMMA PieceTaken ==
    ASSUME IInv, stdout # <<>>, stdout' = Tail(stdout), server' = server
    PROVE  /\ stdout' \in Seq(Piece)
           /\ Head(stdout) = stdout[1] /\ stdout[1] \in Piece /\ HasRun(stdout[1].line)
           /\ \A i \in DOMAIN stdout' : HasRun(stdout'[i].line)
           /\ PartsAlternate'
           /\ RestIsNext' <=> stdout[1].part = "head"
<1> DEFINE m == Len(stdout)
<1>1. /\ stdout' \in Seq(Piece)
      /\ m \in Nat \ {0} /\ Len(stdout') = m - 1
      /\ DOMAIN stdout = 1..m /\ DOMAIN stdout' = 1..m-1
      /\ \A i \in 1..m-1 : stdout'[i] = stdout[i+1]
      /\ Head(stdout) = stdout[1] /\ stdout[1] \in Piece
      /\ stdout' = <<>> <=> m = 1
  BY TailDomain DEF IInv, Types
<1>2. /\ \A i \in 1..m-1 : stdout[i].part = "head" <=> stdout[i+1].part = "tail"
      /\ stdout[m].part = "head" <=> server.half # NoLine
  BY DEF IInv, PartsAlternate
<1> HIDE DEF m
<1>3. PartsAlternate'
  <2>1. \A i \in 1..m-2 : stdout'[i].part = "head" <=> stdout'[i+1].part = "tail"
    BY <1>1, <1>2
  <2>2. stdout' # <<>> => (stdout'[m-1].part = "head" <=> server'.half # NoLine)
    BY <1>1, <1>2
  <2> QED
    BY <1>1, <2>1, <2>2 DEF PartsAlternate
<1>4. RestIsNext' <=> stdout[1].part = "head"
  <2>1. CASE m = 1
    BY <1>1, <1>2, <2>1 DEF RestIsNext
  <2>2. CASE m # 1
    BY <1>1, <1>2, <2>2 DEF RestIsNext
  <2> QED
    BY <2>1, <2>2
<1>5. /\ HasRun(stdout[1].line)
      /\ \A i \in DOMAIN stdout' : HasRun(stdout'[i].line)
  BY <1>1 DEF IInv, AnswersRan
<1> QED
  BY <1>1, <1>3, <1>4, <1>5

(* A call that ends on a line it read. *)
LEMMA JudgedEnd ==
    ASSUME IInv, phase = "reading", stdout # <<>>, stdout' = Tail(stdout),
           Head(stdout).part # "head",
           NEW line, line = LineRead(pulled, Head(stdout)),
           Judge(Current, line) # "skip",
           EndCall(Judge(Current, line), line),
           UNCHANGED <<stdin, unfinished, server>>
    PROVE  IInv'
<1> DEFINE n == Len(calls)
           outcome == Judge(Current, line)
<1>1. /\ stdout' \in Seq(Piece)
      /\ Head(stdout) = stdout[1] /\ stdout[1] \in Piece /\ HasRun(stdout[1].line)
      /\ \A i \in DOMAIN stdout' : HasRun(stdout'[i].line)
      /\ PartsAlternate' /\ ~RestIsNext'
  BY PieceTaken
<1>2. /\ line = StrayTail \/ line \in Line
      /\ HasRun(line)
      /\ line.kind = "tail" <=> stdout[1].part = "tail" /\ ~pulled
  <2>1. StrayTail.kind = "tail" /\ \A l \in Line : l.kind # "tail"
    BY DEF StrayTail, Line, OwnLines, Reply, OwnRequest, Notification, Noise
  <2>2. stdout[1].line \in Line
    BY <1>1 DEF Piece
  <2> QED
    BY <1>1, <2>1, <2>2 DEF LineRead, HasRun
<1>3. /\ outcome \in {"Ok", "Other"}
      /\ line.kind = "tail" => outcome = "Other"
      /\ line.kind = "reply" => line.id = Current
      /\ outcome = "Ok" => line.kind \in {"reply", "request"} /\ line.id = Current
  <2>1. CASE line.kind \in {"noise", "tail"}
    BY <2>1 DEF Judge
  <2>2. CASE line.kind \notin {"noise", "tail"} /\ line.id = Current
    <3>1. line \in Line
      BY <1>2, <2>2 DEF StrayTail
    <3>2. line.kind \in {"reply", "request"}
      <4>1. Current # 0
        BY CurrentId DEF IInv
      <4>2. /\ \A id, ok : Reply(id, ok).kind = "reply" /\ OwnRequest(id).kind = "request"
            /\ Notification.id = 0 /\ Noise.kind = "noise"
        BY DEF Reply, OwnRequest, Notification, Noise
      <4> QED
        BY <2>2, <3>1, <4>1, <4>2 DEF Line, OwnLines
    <3>3. outcome = (IF line.ok THEN "Ok" ELSE "Other")
      BY <2>2 DEF Judge
    <3> QED
      BY <2>2, <3>2, <3>3
  <2> QED
    BY <2>1, <2>2 DEF Judge
<1> HIDE DEF outcome
<1>4. /\ n \in Nat /\ Len(calls') = n + 1 /\ calls' \in Seq(Call)
      /\ DOMAIN calls = 1..n /\ DOMAIN calls' = 1..n+1
      /\ \A i \in 1..n : calls'[i] = calls[i]
      /\ calls'[n+1] = [id |-> Current, outcome |-> outcome, cause |-> line]
      /\ Current \in Ids
      /\ Called' = Called \cup {n+1}
  BY <1>2, <1>3, EndOfCall DEF IInv, CallOutcome, outcome
<1>5. /\ phase' = "idle" /\ pulled' = FALSE /\ next_id' = next_id
      /\ health' = health_after(health, outcome)
  BY DEF EndCall, outcome
<1>6. /\ calls'[n+1].outcome = outcome /\ calls'[n+1].cause = line
      /\ calls'[n+1].id = Current
  BY <1>4
<1>7. Types'
  <2>1. /\ health' \in [consecutive_timeouts : 0..CONSECUTIVE_TIMEOUTS_TO_DEGRADE, degraded : BOOLEAN]
        /\ health'.degraded <=> health'.consecutive_timeouts = CONSECUTIVE_TIMEOUTS_TO_DEGRADE
    BY <1>3, <1>5, HealthAfter DEF IInv, Phases, CallOutcome
  <2> QED
    BY <1>1, <1>4, <1>5, <2>1 DEF IInv, Types
<1>8. Phases'
  BY <1>5 DEF IInv, Phases
<1>9. Numbering'
  <2>1. Called \subseteq 1..n
    BY CurrentId DEF IInv
  <2>2. Cardinality(Called') = Cardinality(Called) + 1
    BY <1>4, <2>1, CountAppend
  <2>3. Cardinality(Called) \in Nat /\ n + 1 <= MaxCalls
    <3>1. Len(calls) < MaxCalls
      BY DEF IInv, Phases
    <3>2. Cardinality(Called) \in Nat
      BY <1>4, <2>1, CountBound
    <3> QED
      BY <1>4, <3>1, <3>2, DownstreamAssumption
  <2>4. next_id = FirstId + Cardinality(Called) + 1
    BY DEF IInv, Numbering
  <2> QED
    BY <1>4, <1>5, <2>2, <2>3, <2>4 DEF Numbering, FirstId
<1>10. RequestsMove'
  BY <1>5 DEF IInv, RequestsMove, Unseen, Current
<1>11. AnswersRan'
  <2>1. \A i \in 1..n+1 : HasRun(calls'[i].cause)
    <3>1. \A i \in 1..n : HasRun(calls[i].cause)
      BY <1>4 DEF IInv, AnswersRan
    <3>2. HasRun(calls'[n+1].cause)
      BY <1>2, <1>6
    <3>3. \A i \in 1..n+1 : i \in 1..n \/ i = n+1
      BY <1>4
    <3> QED
      BY <1>4, <3>1, <3>2, <3>3
  <2>2. \A i \in 1..n+1 : calls'[i].cause.kind = "reply" => calls'[i].cause.id = calls'[i].id
    BY <1>3, <1>4, <1>6 DEF IInv, AnswersRan
  <2> QED
    BY <1>1, <1>4, <2>1, <2>2 DEF IInv, AnswersRan, HasRun
<1>12. OwnAnswer'
  BY <1>3, <1>4, <1>6 DEF IInv, OwnAnswer
<1>13. TailsArePaid'
  <2>1. Timeouts' = Timeouts /\ Hits \subseteq 1..n /\ Timeouts \subseteq 1..n
    BY <1>3, <1>4, <1>6 DEF Hits, Timeouts, TimedOut
  <2>2. Hits' = IF line.kind = "tail" THEN Hits \cup {n+1} ELSE Hits
    BY <1>4, <1>6 DEF Hits, HitTail
  <2>3. /\ Cardinality(Hits) \in Nat /\ Cardinality(Timeouts) \in Nat
        /\ line.kind = "tail" => Cardinality(Hits') = Cardinality(Hits) + 1
    BY <1>4, <2>1, <2>2, CountBound, CountAppend
  <2>4. line.kind = "tail" => StrayIsNext
    BY <1>2 DEF StrayIsNext, RestIsNext
  <2>5. ~StrayIsNext'
    BY <1>1 DEF StrayIsNext
  <2>6. Cardinality(Hits') <= Cardinality(Timeouts')
    BY <2>1, <2>2, <2>3, <2>4 DEF IInv, TailsArePaid
  <2>7. DesyncIsPaidOnce'
    BY <1>4, <2>6, DesyncAtEnd DEF IInv, TailsArePaid
  <2>8. Cardinality(Hits') + (IF StrayIsNext' THEN 1 ELSE 0) <= Cardinality(Timeouts')
    BY <2>2, <2>3, <2>5, <2>6
  <2> QED
    BY <1>5, <2>7, <2>8 DEF TailsArePaid
<1>14. HealthExplained'
  BY <1>2, <1>3, HealthAtEnd DEF CallOutcome, IInv, outcome
<1> QED
  BY <1>1, <1>7, <1>8, <1>9, <1>10, <1>11, <1>12, <1>13, <1>14 DEF IInv

(* What a line that is read and skipped, or half read, does.                *)
LEMMA ReadsOn ==
    ASSUME IInv, phase = "reading", stdout # <<>>, stdout' = Tail(stdout),
           UNCHANGED <<next_id, health, phase, calls, stdin, unfinished, server>>,
           pulled' = (Head(stdout).part = "head"),
           Head(stdout).part = "head" \/ pulled \/ Head(stdout).part # "tail"
    PROVE  IInv'
<1>1. /\ stdout' \in Seq(Piece)
      /\ Head(stdout) = stdout[1] /\ stdout[1] \in Piece
      /\ \A i \in DOMAIN stdout' : HasRun(stdout'[i].line)
      /\ PartsAlternate'
      /\ RestIsNext' <=> stdout[1].part = "head"
  BY PieceTaken
<1>2. Types'
  BY <1>1 DEF IInv, Types
<1>3. Phases'
  BY DEF IInv, Phases
<1>4. Numbering' /\ RequestsMove' /\ OwnAnswer' /\ HealthExplained'
  BY Frames
<1>5. AnswersRan'
  BY <1>1 DEF IInv, AnswersRan, HasRun
<1>6. TailsArePaid'
  <2>1. Hits' = Hits /\ Timeouts' = Timeouts
    BY DEF Hits, Timeouts, HitTail, TimedOut
  <2>2. DesyncIsPaidOnce'
    BY DEF IInv, TailsArePaid, DesyncIsPaidOnce, CallsWith, HitTail, TimedOut
  <2>3. ~StrayIsNext' /\ (pulled' => RestIsNext')
    BY <1>1 DEF StrayIsNext
  <2>4. Cardinality(Hits) \in Nat /\ Cardinality(Timeouts) \in Nat
    <3>1. Hits \subseteq 1..Len(calls) /\ Timeouts \subseteq 1..Len(calls) /\ Len(calls) \in Nat
      BY LenProperties DEF IInv, Types, Hits, Timeouts
    <3> QED
      BY <3>1, CountBound
  <2>5. Cardinality(Hits) + (IF StrayIsNext THEN 1 ELSE 0) <= Cardinality(Timeouts)
    BY DEF IInv, TailsArePaid
  <2>6. Cardinality(Hits') + (IF StrayIsNext' THEN 1 ELSE 0) <= Cardinality(Timeouts')
    BY <2>1, <2>3, <2>4, <2>5
  <2> QED
    BY <2>2, <2>3, <2>6 DEF TailsArePaid
<1> QED
  BY <1>1, <1>2, <1>3, <1>4, <1>5, <1>6 DEF IInv

(* The gateway's steps.                                                     *)
LEMMA CallToolInv ==
    ASSUME IInv, CallTool
    PROVE  IInv'
<1>1. CASE refuses(health)
  <2> DEFINE n == Len(calls)
  <2>1. /\ calls' = Append(calls, [id |-> 0, outcome |-> "Degraded", cause |-> NoLine])
        /\ phase = "idle" /\ n < MaxCalls
        /\ UNCHANGED <<next_id, phase, health, pulled, stdin, unfinished, stdout, server>>
    BY <1>1 DEF CallTool
  <2>2. /\ n \in Nat /\ Len(calls') = n + 1 /\ calls' \in Seq(Call)
        /\ DOMAIN calls = 1..n /\ DOMAIN calls' = 1..n+1
        /\ \A i \in 1..n : calls'[i] = calls[i]
        /\ calls'[n+1] = [id |-> 0, outcome |-> "Degraded", cause |-> NoLine]
        /\ Called' = Called
    BY <2>1, Refusal DEF IInv
  <2>3. /\ calls'[n+1].outcome = "Degraded" /\ calls'[n+1].cause = NoLine
        /\ NoLine.kind = "none"
    BY <2>2 DEF NoLine
  <2>4. Types'
    BY <2>1, <2>2 DEF IInv, Types
  <2>5. Phases'
    BY <2>1 DEF IInv, Phases
  <2>6. Numbering'
    BY <2>1, <2>2, DownstreamAssumption DEF IInv, Numbering
  <2>7. RequestsMove' /\ PartsAlternate'
    BY <2>1, Frames
  <2>8. AnswersRan'
    BY <2>1, <2>2, <2>3 DEF IInv, AnswersRan, HasRun
  <2>9. OwnAnswer'
    BY <2>2, <2>3 DEF IInv, OwnAnswer
  <2>10. TailsArePaid'
    <3>1. Hits' = Hits /\ Timeouts' = Timeouts
      BY <2>2, <2>3 DEF Hits, Timeouts, HitTail, TimedOut
    <3>2. StrayIsNext' = StrayIsNext /\ RestIsNext' = RestIsNext
      BY <2>1 DEF StrayIsNext, RestIsNext
    <3>3. DesyncIsPaidOnce'
      BY <2>2, <2>3, DesyncAtEnd DEF IInv, TailsArePaid, HitTail
    <3> QED
      BY <2>1, <3>1, <3>2, <3>3 DEF IInv, TailsArePaid
  <2>11. HealthExplained'
    <3>1. health.degraded
      BY <1>1 DEF refuses
    <3>2. health.consecutive_timeouts = 2
      BY <3>1 DEF IInv, Types, CONSECUTIVE_TIMEOUTS_TO_DEGRADE
    <3>3. Channel!Wedged(Outcomes)
      BY <3>1 DEF IInv, HealthExplained
    <3>4. PICK i, k \in 1..n : Stuck(calls, i, k)
      BY <3>3, WedgedOutcomes DEF IInv, Types, Outcomes
    <3>5. i \in 1..n+1 /\ k \in 1..n+1 /\ Stuck(calls', i, k)
      BY <2>2, <3>4 DEF Stuck
    <3>6. Channel!Wedged(Outcomes)'
      BY <2>2, <3>5, WedgedOutcomes DEF Outcomes
    <3> QED
      BY <2>1, <3>1, <3>2, <3>6 DEF HealthExplained
  <2> QED
    BY <2>4, <2>5, <2>6, <2>7, <2>8, <2>9, <2>10, <2>11 DEF IInv
<1>2. CASE ~refuses(health)
  <2>1. /\ phase = "idle" /\ phase' = "writing" /\ next_id' = next_id + 1 /\ Len(calls) < MaxCalls
        /\ ~health.degraded
        /\ UNCHANGED <<calls, health, pulled, stdin, unfinished, stdout, server>>
    BY <1>2 DEF CallTool, refuses
  <2>2. Types'
    BY <2>1 DEF IInv, Types
  <2>3. Phases'
    BY <2>1 DEF IInv, Phases
  <2>4. Numbering'
    <3>1. Cardinality(Called) \in Nat /\ Called' = Called
      BY <2>1, CurrentId DEF IInv, Called
    <3> QED
      BY <2>1, <3>1 DEF IInv, Numbering, FirstId
  <2>5. RequestsMove'
    <3>1. \A id \in Ids : Unseen(id)' <=> Unseen(id)
      BY <2>1, CurrentId DEF IInv, Types, Unseen, Current
    <3> QED
      BY <2>1, <3>1 DEF IInv, RequestsMove
  <2> QED
    BY <2>1, <2>2, <2>3, <2>4, <2>5, Frames DEF IInv
<1> QED
  BY <1>1, <1>2

LEMMA WriteSomeInv ==
    ASSUME IInv, WriteSome
    PROVE  IInv'
<1>1. /\ phase = "writing" /\ unfinished' = "own"
      /\ UNCHANGED <<next_id, health, phase, pulled, calls, stdin, stdout, server>>
  BY DEF WriteSome, gateway
<1>2. Types' /\ Phases'
  BY <1>1 DEF IInv, Types, Phases
<1> QED
  BY <1>1, <1>2, Frames DEF IInv

LEMMA WriteLineInv ==
    ASSUME IInv, WriteLine
    PROVE  IInv'
<1>1. CASE server.up
  <2> DEFINE m == Len(stdin)
             request == [id |-> Current, torn |-> unfinished = "stale"]
  <2>1. /\ phase = "writing" /\ phase' = "reading" /\ unfinished' = "no"
        /\ stdin' = Append(stdin, request)
        /\ UNCHANGED <<next_id, health, pulled, calls, stdout, server>>
    BY <1>1 DEF WriteLine
  <2>2. Current \in Ids /\ Current \in Nat
    BY <2>1, CurrentId DEF IInv
  <2>3. request \in Request /\ request.id = Current
    BY <2>2 DEF Request
  <2> HIDE DEF request
  <2>4. /\ m \in Nat /\ Len(stdin') = m + 1 /\ stdin' \in Seq(Request)
        /\ DOMAIN stdin = 1..m /\ DOMAIN stdin' = 1..m+1
        /\ \A i \in 1..m : stdin'[i] = stdin[i]
        /\ stdin'[m+1] = request
    BY <2>1, <2>3, AppendDomain DEF IInv, Types
  <2>5. Types' /\ Phases'
    BY <2>1, <2>4 DEF IInv, Types, Phases
  <2>6. Numbering'
    BY <2>1 DEF IInv, Numbering, Called
  <2>7. RequestsMove'
    <3> HIDE DEF m
    <3>1. \A id \in Ids : Unseen(id)' <=> id > Current
      BY <2>1 DEF Unseen, Current
    <3>2. \A id \in Ids : Unseen(id) <=> id >= Current
      BY <2>1, <2>2, CurrentId DEF IInv, Unseen
    <3>3. \A i \in 1..m : stdin[i].id \in Ids /\ stdin[i].id < Current
      BY <2>2, <2>4, <3>2, CurrentId DEF IInv, RequestsMove
    <3>4. server.ran[Current] = 0
      BY <2>2, <3>2 DEF IInv, RequestsMove
    <3>5. \A i \in DOMAIN stdin' : stdin'[i].id \in Ids /\ ~(stdin'[i].id > Current)
      <4>0. \A id \in Ids : id \in Nat
        BY CurrentId DEF IInv
      <4>1. \A i \in 1..m : ~(stdin[i].id > Current)
        <5> SUFFICES ASSUME NEW i \in 1..m PROVE ~(stdin[i].id > Current)
          OBVIOUS
        <5> DEFINE own == stdin[i].id
        <5>1. own \in Nat /\ own < Current
          BY <3>3, <4>0
        <5> HIDE DEF own
        <5>2. ~(own > Current)
          BY <2>2, <5>1
        <5> QED
          BY <5>2 DEF own
      <4>2. ~(Current > Current)
        BY <2>2
      <4>3. \A i \in 1..m+1 : i \in 1..m \/ i = m+1
        BY <2>4
      <4> SUFFICES ASSUME NEW i \in 1..m+1
                   PROVE  stdin'[i].id \in Ids /\ ~(stdin'[i].id > Current)
        BY <2>4
      <4>4. CASE i \in 1..m
        BY <2>4, <3>3, <4>1, <4>4
      <4>5. CASE i = m+1
        BY <2>2, <2>3, <2>4, <4>2, <4>5
      <4> QED
        BY <4>3, <4>4, <4>5
    <3>6. \A i \in DOMAIN stdin' : server'.ran[stdin'[i].id] = 0
      BY <2>1, <2>3, <2>4, <3>4 DEF IInv, RequestsMove
    <3>7. \A i, j \in DOMAIN stdin' : i < j => stdin'[i].id # stdin'[j].id
      BY <2>2, <2>3, <2>4, <3>3 DEF IInv, RequestsMove
    <3>8. \A id \in Ids : Unseen(id)' => Unseen(id)
      BY <2>2, <3>1, <3>2, CurrentId DEF IInv
    <3>9. \A i \in DOMAIN stdin' : ~(stdin'[i].id > Current' \/ (stdin'[i].id = Current' /\ phase' = "writing"))
      BY <2>1, <3>5 DEF Current
    <3> QED
      BY <2>1, <3>5, <3>6, <3>7, <3>8, <3>9 DEF IInv, RequestsMove, Unseen
  <2> QED
    BY <2>1, <2>5, <2>6, <2>7, Frames DEF IInv
<1>2. CASE ~server.up
  <2>1. /\ phase = "writing" /\ EndCall("Other", NoLine) /\ unfinished' = LeftUnfinished
        /\ UNCHANGED <<stdin, stdout, server>>
    BY <1>2 DEF WriteLine
  <2>2. unfinished' \in {"no", "stale"} /\ ~pulled
    BY <2>1 DEF IInv, Types, Phases, LeftUnfinished
  <2> QED
    BY <2>1, <2>2, SilentEnd
<1> QED
  BY <1>1, <1>2

LEMMA ReadPieceInv ==
    ASSUME IInv, ReadPiece
    PROVE  IInv'
<1> DEFINE line == LineRead(pulled, Head(stdout))
<1>1. /\ phase = "reading" /\ stdout # <<>> /\ stdout' = Tail(stdout)
      /\ UNCHANGED <<stdin, unfinished, server>>
  BY DEF ReadPiece
<1>2. CASE Head(stdout).part = "head"
  <2>1. pulled' = TRUE /\ UNCHANGED <<next_id, health, phase, calls>>
    BY <1>2 DEF ReadPiece
  <2> QED
    BY <1>1, <1>2, <2>1, ReadsOn
<1>3. CASE Head(stdout).part # "head" /\ Judge(Current, line) = "skip"
  <2>1. pulled' = FALSE /\ UNCHANGED <<next_id, health, phase, calls>>
    BY <1>3 DEF ReadPiece, Consume
  <2>2. line # StrayTail
    BY <1>3 DEF Judge, StrayTail
  <2>3. pulled \/ Head(stdout).part # "tail"
    BY <2>2 DEF LineRead
  <2> QED
    BY <1>1, <1>3, <2>1, <2>3, ReadsOn
<1>4. CASE Head(stdout).part # "head" /\ Judge(Current, line) # "skip"
  <2>1. EndCall(Judge(Current, line), line)
    BY <1>4 DEF ReadPiece, Consume
  <2> QED
    BY <1>1, <1>4, <2>1, JudgedEnd
<1> QED
  BY <1>2, <1>3, <1>4

LEMMA ReadEofInv ==
    ASSUME IInv, ReadEof
    PROVE  IInv'
<1>1. /\ phase = "reading" /\ stdout = <<>> /\ ~server.up /\ EndCall("Other", NoLine)
      /\ UNCHANGED <<stdin, unfinished, stdout, server>>
  BY DEF ReadEof
<1>2. unfinished' \in {"no", "stale"}
  BY <1>1 DEF IInv, Types, Phases
<1> QED
  BY <1>1, <1>2, SilentEnd

LEMMA TimeoutInv ==
    ASSUME IInv, Timeout
    PROVE  IInv'
<1>1. /\ phase # "idle" /\ EndCall("Timeout", NoLine) /\ unfinished' = LeftUnfinished
      /\ UNCHANGED <<stdin, stdout, server>>
  BY DEF Timeout, may_time_out
<1>2. unfinished' \in {"no", "stale"}
  BY <1>1 DEF IInv, Types, LeftUnfinished
<1> QED
  BY <1>1, <1>2, SilentEnd

(* The server's steps. *)
LEMMA ServerTakesInv ==
    ASSUME IInv, ServerTakes
    PROVE  IInv'
<1> DEFINE m == Len(stdin)
           h == stdin[1].id
<1>1. /\ stdin # <<>> /\ stdin' = Tail(stdin)
      /\ UNCHANGED <<next_id, health, phase, pulled, calls, unfinished, stdout>>
      /\ server' = IF Head(stdin).torn THEN server
                   ELSE [server EXCEPT !.owed = @ \cup {Head(stdin).id},
                                       !.ran[Head(stdin).id] = @ + 1]
  BY DEF ServerTakes, gateway
<1>2. /\ stdin' \in Seq(Request)
      /\ m \in Nat \ {0} /\ DOMAIN stdin = 1..m /\ DOMAIN stdin' = 1..m-1
      /\ \A i \in 1..m-1 : stdin'[i] = stdin[i+1]
      /\ Head(stdin) = stdin[1] /\ stdin[1] \in Request
  BY <1>1, TailDomain DEF IInv, Types
<1>3. h \in Ids /\ server.ran[h] = 0 /\ ~Unseen(h)
  BY <1>2 DEF IInv, RequestsMove
<1>4. \A i \in 1..m-1 : stdin'[i].id \in Ids /\ stdin'[i].id # h
  BY <1>2 DEF IInv, RequestsMove
<1> DEFINE ran == server.ran
<1>5. server \in [up : BOOLEAN, owed : SUBSET Ids, half : Line \cup {NoLine},
                  ran : [Ids -> Nat], spoken : Nat]
  BY DEF IInv, Types
<1>6. /\ server'.up = server.up /\ server'.half = server.half /\ server'.spoken = server.spoken
      /\ server'.owed = IF Head(stdin).torn THEN server.owed ELSE server.owed \cup {h}
      /\ server'.ran = IF Head(stdin).torn THEN ran ELSE [ran EXCEPT ![h] = 1]
      /\ server' \in [up : BOOLEAN, owed : SUBSET Ids, half : Line \cup {NoLine},
                      ran : [Ids -> Nat], spoken : Nat]
  <2>1. CASE Head(stdin).torn
    BY <1>1, <1>5, <2>1
  <2>2. CASE ~Head(stdin).torn
    <3>1. server' = [server EXCEPT !.owed = server.owed \cup {h}, !.ran = [ran EXCEPT ![h] = 1]]
      <4>1. server' = [server EXCEPT !.owed = server.owed \cup {h},
                                     !.ran = [server.ran EXCEPT ![h] = server.ran[h] + 1]]
        BY <1>1, <1>2, <2>2
      <4> QED
        BY <1>3, <4>1
    <3>2. [ran EXCEPT ![h] = 1] \in [Ids -> Nat]
      BY <1>3, <1>5
    <3> HIDE DEF h, ran
    <3> QED
      BY <1>3, <1>5, <2>2, <3>1, <3>2
  <2> QED
    BY <2>1, <2>2
<1> HIDE DEF h, m
<1>7. \A id \in Ids : /\ id # h => server'.ran[id] = server.ran[id]
                      /\ server'.ran[id] >= server.ran[id] /\ server'.ran[id] <= 1
                      /\ ~Head(stdin).torn => server'.ran[h] = 1
  BY <1>3, <1>5, <1>6 DEF IInv, RequestsMove
<1>8. Types'
  BY <1>1, <1>2, <1>6 DEF IInv, Types
<1>9. RequestsMove'
  <2>1. \A id : Unseen(id)' <=> Unseen(id)
    BY <1>1 DEF Unseen, Current
  <2>2. \A i \in 1..m-1 : ~Unseen(stdin[i+1].id) /\ server.ran[stdin[i+1].id] = 0
    <3>1. \A i \in 1..m : ~Unseen(stdin[i].id) /\ server.ran[stdin[i].id] = 0
      BY <1>2 DEF IInv, RequestsMove
    <3> QED
      BY <1>2, <3>1
  <2>3. \A i \in DOMAIN stdin' : server'.ran[stdin'[i].id] = 0
    BY <1>2, <1>4, <1>7, <2>2
  <2>4. \A i, j \in DOMAIN stdin' : i < j => stdin'[i].id # stdin'[j].id
    <3>1. \A i, j \in 1..m : i < j => stdin[i].id # stdin[j].id
      BY <1>2 DEF IInv, RequestsMove
    <3> QED
      BY <1>2, <3>1
  <2>5. \A id \in Ids : Unseen(id) => server'.ran[id] = 0
    BY <1>3, <1>7 DEF IInv, RequestsMove
  <2>6. \A i \in DOMAIN stdin' : stdin'[i].id \in Ids
            /\ ~(stdin'[i].id > Current \/ (stdin'[i].id = Current /\ phase = "writing"))
    BY <1>2, <1>4, <2>2 DEF Unseen
  <2> QED
    BY <1>1, <1>7, <2>3, <2>4, <2>5, <2>6 DEF RequestsMove, Unseen, Current
<1>10. AnswersRan'
  <2>1. \A id \in Ids : server.ran[id] = 1 => server'.ran[id] = 1
    BY <1>3, <1>7
  <2>2. \A id \in server'.owed : server'.ran[id] = 1
    BY <1>3, <1>5, <1>6, <1>7, <2>1 DEF IInv, AnswersRan
  <2> QED
    BY <1>1, <1>6, <2>1, <2>2 DEF IInv, AnswersRan, HasRun
<1>11. TailsArePaid'
  <2>1. StrayIsNext' = StrayIsNext /\ RestIsNext' = RestIsNext
    BY <1>1, <1>6 DEF StrayIsNext, RestIsNext
  <2>2. Hits' = Hits /\ Timeouts' = Timeouts /\ DesyncIsPaidOnce'
    BY <1>1 DEF IInv, TailsArePaid, Hits, Timeouts, DesyncIsPaidOnce, CallsWith, HitTail, TimedOut
  <2> QED
    BY <1>1, <2>1, <2>2 DEF IInv, TailsArePaid
<1> QED
  BY <1>1, <1>6, <1>8, <1>9, <1>10, <1>11, Frames DEF IInv

(* Adding a piece to the pipe: the rest of a line follows its first part.   *)
LEMMA PiecePut ==
    ASSUME IInv, NEW line \in Line, HasRun(line), NEW part \in Part,
           Put(line, part), part = "tail" <=> server.half # NoLine,
           server'.half = IF part = "head" THEN line ELSE NoLine,
           server'.ran = server.ran, server'.up = server.up,
           part = "tail" => server.up,
           server' \in [up : BOOLEAN, owed : SUBSET server.owed, half : Line \cup {NoLine},
                        ran : [Ids -> Nat], spoken : Nat],
           UNCHANGED <<next_id, health, phase, pulled, calls, stdin, unfinished>>
    PROVE  IInv'
<1> DEFINE m == Len(stdout)
           piece == [line |-> line, part |-> part]
<1>1. piece \in Piece /\ piece.line = line /\ piece.part = part
  BY DEF Piece
<1>2. stdout' = Append(stdout, piece)
  BY DEF Put
<1> HIDE DEF piece
<1>3. /\ m \in Nat /\ Len(stdout') = m + 1 /\ stdout' \in Seq(Piece)
      /\ DOMAIN stdout = 1..m /\ DOMAIN stdout' = 1..m+1
      /\ \A i \in 1..m : stdout'[i] = stdout[i]
      /\ stdout'[m+1] = piece
      /\ stdout = <<>> <=> m = 0
      /\ stdout' # <<>>
  <2>1. stdout \in Seq(Piece)
    BY DEF IInv, Types
  <2>2. stdout = <<>> <=> m = 0
    BY <2>1, EmptySeq
  <2> QED
    BY <1>1, <1>2, <2>1, <2>2, AppendDomain, AppendProperties
<1>4. NoLine \notin Line
  <2>1. \A l \in Line : l.kind # "none"
    BY DEF Line, OwnLines, Reply, OwnRequest, Notification, Noise
  <2> QED
    BY <2>1 DEF NoLine
<1>5. Types'
  BY <1>3 DEF IInv, Types
<1>6. PartsAlternate'
  <2>1. /\ \A i \in 1..m-1 : stdout[i].part = "head" <=> stdout[i+1].part = "tail"
        /\ m # 0 => (stdout[m].part = "head" <=> server.half # NoLine)
    BY <1>3 DEF IInv, PartsAlternate
  <2> HIDE DEF m
  <2>2. \A i \in 1..m : stdout'[i].part = "head" <=> stdout'[i+1].part = "tail"
    BY <1>1, <1>3, <2>1
  <2>3. stdout'[m+1].part = "head" <=> server'.half # NoLine
    BY <1>1, <1>3, <1>4
  <2> QED
    BY <1>3, <2>2, <2>3 DEF PartsAlternate
<1>7. AnswersRan'
  BY <1>1, <1>3, <1>4 DEF IInv, AnswersRan, HasRun, NoLine
<1>8. TailsArePaid'
  <2> HIDE DEF m
  <2>1. RestIsNext' <=> RestIsNext
    <3>1. CASE m = 0
      BY <1>1, <1>3, <3>1 DEF RestIsNext
    <3>2. CASE m # 0
      BY <1>3, <3>2 DEF RestIsNext
    <3> QED
      BY <3>1, <3>2
  <2>2. StrayIsNext' <=> StrayIsNext
    <3>1. CASE m = 0
      BY <1>3, <2>1, <3>1 DEF StrayIsNext, RestIsNext
    <3>2. CASE m # 0
      BY <1>3, <2>1, <3>2 DEF StrayIsNext
    <3> QED
      BY <3>1, <3>2
  <2>3. Hits' = Hits /\ Timeouts' = Timeouts /\ DesyncIsPaidOnce'
    BY DEF IInv, TailsArePaid, Hits, Timeouts, DesyncIsPaidOnce, CallsWith, HitTail, TimedOut
  <2> QED
    BY <2>1, <2>2, <2>3 DEF IInv, TailsArePaid
<1> QED
  BY <1>5, <1>6, <1>7, <1>8, Frames DEF IInv

LEMMA ServerWritesInv ==
    ASSUME IInv, ServerWrites
    PROVE  IInv'
<1>1. PICK line \in Writable, part \in {"whole", "head"} :
         /\ Put(line, part)
         /\ server' = [server EXCEPT
              !.owed = IF line.kind = "reply" THEN @ \ {line.id} ELSE @,
              !.half = IF part = "head" THEN line ELSE NoLine,
              !.spoken = IF line.kind = "reply" THEN @ ELSE @ + 1]
  BY DEF ServerWrites
<1>2. /\ server.up /\ server.half = NoLine
      /\ UNCHANGED <<next_id, health, phase, pulled, calls, stdin, unfinished>>
  BY DEF ServerWrites, gateway
<1>3. server \in [up : BOOLEAN, owed : SUBSET Ids, half : Line \cup {NoLine},
                  ran : [Ids -> Nat], spoken : Nat]
  BY DEF IInv, Types
<1>4. line \in Line /\ HasRun(line)
  <2>1. ASSUME NEW id \in server.owed, NEW ok \in BOOLEAN, line = Reply(id, ok)
        PROVE  line \in Line /\ HasRun(line)
    BY <1>3, <2>1 DEF IInv, AnswersRan, HasRun, Line, Reply
  <2>2. ASSUME line \in OwnLines
        PROVE  line \in Line /\ HasRun(line)
    BY <2>2 DEF HasRun, Line, OwnLines, OwnRequest, Notification, Noise
  <2>3. line \in OwnLines \/ \E id \in server.owed, ok \in BOOLEAN : line = Reply(id, ok)
    BY DEF Writable
  <2> QED
    BY <2>1, <2>2, <2>3
<1>5. /\ server'.half = IF part = "head" THEN line ELSE NoLine
      /\ server'.ran = server.ran /\ server'.up = server.up
      /\ server' \in [up : BOOLEAN, owed : SUBSET server.owed, half : Line \cup {NoLine},
                      ran : [Ids -> Nat], spoken : Nat]
  <2> DEFINE owed == IF line.kind = "reply" THEN server.owed \ {line.id} ELSE server.owed
             half == IF part = "head" THEN line ELSE NoLine
             spoken == IF line.kind = "reply" THEN server.spoken ELSE server.spoken + 1
  <2>1. server' = [server EXCEPT !.owed = owed, !.half = half, !.spoken = spoken]
    BY <1>1
  <2>2. owed \in SUBSET server.owed /\ half \in Line \cup {NoLine} /\ spoken \in Nat
    BY <1>3, <1>4
  <2>3. half = IF part = "head" THEN line ELSE NoLine
    OBVIOUS
  <2> HIDE DEF owed, half, spoken
  <2> QED
    BY <1>3, <2>1, <2>2, <2>3
<1> QED
  BY <1>1, <1>2, <1>4, <1>5, PiecePut DEF Part

LEMMA ServerFinishesInv ==
    ASSUME IInv, ServerFinishes
    PROVE  IInv'
<1>1. /\ server.up /\ server.half # NoLine /\ Put(server.half, "tail")
      /\ server' = [server EXCEPT !.half = NoLine]
      /\ UNCHANGED <<next_id, health, phase, pulled, calls, stdin, unfinished>>
  BY DEF ServerFinishes, gateway
<1>2. server \in [up : BOOLEAN, owed : SUBSET Ids, half : Line \cup {NoLine},
                  ran : [Ids -> Nat], spoken : Nat]
  BY DEF IInv, Types
<1>3. server.half \in Line /\ HasRun(server.half)
  BY <1>1, <1>2 DEF IInv, AnswersRan
<1>4. /\ server'.half = NoLine
      /\ server'.ran = server.ran /\ server'.up = server.up
      /\ server' \in [up : BOOLEAN, owed : SUBSET server.owed, half : Line \cup {NoLine},
                      ran : [Ids -> Nat], spoken : Nat]
  BY <1>1, <1>2
<1> QED
  BY <1>1, <1>3, <1>4, PiecePut DEF Part

LEMMA ServerExitsInv ==
    ASSUME IInv, ServerExits
    PROVE  IInv'
<1>1. /\ server' = [server EXCEPT !.up = FALSE]
      /\ UNCHANGED <<next_id, health, phase, pulled, calls, stdin, unfinished, stdout>>
  BY DEF ServerExits, gateway
<1>2. server \in [up : BOOLEAN, owed : SUBSET Ids, half : Line \cup {NoLine},
                  ran : [Ids -> Nat], spoken : Nat]
  BY DEF IInv, Types
<1>3. /\ server'.owed = server.owed /\ server'.half = server.half /\ server'.ran = server.ran
      /\ ~server'.up
      /\ server' \in [up : BOOLEAN, owed : SUBSET Ids, half : Line \cup {NoLine},
                      ran : [Ids -> Nat], spoken : Nat]
  BY <1>1, <1>2
<1>4. Types'
  BY <1>1, <1>3 DEF IInv, Types
<1>5. AnswersRan'
  BY <1>1, <1>3 DEF IInv, AnswersRan, HasRun
<1>6. TailsArePaid'
  <2>1. (StrayIsNext' => StrayIsNext) /\ (RestIsNext' <=> RestIsNext)
    BY <1>1, <1>3 DEF StrayIsNext, RestIsNext
  <2>2. Hits' = Hits /\ Timeouts' = Timeouts /\ DesyncIsPaidOnce'
    BY <1>1 DEF IInv, TailsArePaid, Hits, Timeouts, DesyncIsPaidOnce, CallsWith, HitTail, TimedOut
  <2>3. Cardinality(Hits) \in Nat /\ Cardinality(Timeouts) \in Nat
    <3>1. Hits \subseteq 1..Len(calls) /\ Timeouts \subseteq 1..Len(calls) /\ Len(calls) \in Nat
      BY LenProperties DEF IInv, Types, Hits, Timeouts
    <3> QED
      BY <3>1, CountBound
  <2> QED
    BY <1>1, <2>1, <2>2, <2>3 DEF IInv, TailsArePaid
<1> QED
  BY <1>1, <1>3, <1>4, <1>5, <1>6, Frames DEF IInv

-----------------------------------------------------------------------------
\* A connection as discovery leaves it satisfies the inductive invariant.
LEMMA InitInv == Init => IInv
<1> SUFFICES ASSUME Init
             PROVE  IInv
  OBVIOUS
<1> USE DEF Init
<1>1. /\ calls = <<>> /\ stdin = <<>> /\ stdout = <<>>
      /\ Len(calls) = 0 /\ DOMAIN calls = {} /\ DOMAIN stdin = {} /\ DOMAIN stdout = {}
      /\ calls \in Seq(Call) /\ stdin \in Seq(Request) /\ stdout \in Seq(Piece)
  BY EmptySeq
<1>2. server \in [up : BOOLEAN, owed : SUBSET Ids, half : Line \cup {NoLine},
                  ran : [Ids -> Nat], spoken : Nat]
  <2>1. [id \in Ids |-> 0] \in [Ids -> Nat]
    OBVIOUS
  <2> QED
    BY <2>1 DEF InitServer
<1>3. /\ server.owed = {} /\ server.half = NoLine /\ server.up
      /\ \A id \in Ids : server.ran[id] = 0
  BY DEF InitServer
<1>4. /\ health \in [consecutive_timeouts : 0..2, degraded : BOOLEAN]
      /\ health.consecutive_timeouts = 0 /\ ~health.degraded
  BY DEF NewHealth
<1>5. Types
  <2>1. /\ next_id \in Nat /\ phase = "idle" /\ pulled = FALSE /\ unfinished = "no"
    BY DEF FirstId
  <2>2. health.degraded <=> health.consecutive_timeouts = 2
    BY <1>4
  <2> QED
    BY ONLY <1>1, <1>2, <1>4, <2>1, <2>2 DEF Types, CONSECUTIVE_TIMEOUTS_TO_DEGRADE
<1>6. Called = {} /\ Hits = {} /\ Timeouts = {}
  BY <1>1 DEF Called, Hits, Timeouts
<1>7. Cardinality({}) = 0
  BY FS_EmptySet
<1>8. Phases /\ Numbering
  BY <1>1, <1>4, <1>6, <1>7, DownstreamAssumption DEF Phases, Numbering, FirstId
<1>9. RequestsMove
  BY <1>1, <1>3 DEF RequestsMove
<1>10. AnswersRan /\ OwnAnswer
  BY <1>1, <1>3 DEF AnswersRan, OwnAnswer, HasRun, NoLine
<1>11. PartsAlternate /\ ~RestIsNext
  BY <1>1, <1>3 DEF PartsAlternate, RestIsNext
<1>12. TailsArePaid
  BY <1>1, <1>6, <1>7, <1>11 DEF TailsArePaid, StrayIsNext, DesyncIsPaidOnce
<1>13. HealthExplained
  <2>1. ~Channel!Wedged(Outcomes)
    <3>1. \A i \in 1..Len(calls) : FALSE
      BY <1>1
    <3> QED
      BY <1>1, <3>1, WedgedOutcomes DEF Outcomes
  <2>2. \A i \in DOMAIN calls : FALSE
    BY <1>1
  <2> QED
    BY <1>4, <2>1, <2>2 DEF HealthExplained
<1> QED
  BY <1>5, <1>8, <1>9, <1>10, <1>11, <1>12, <1>13 DEF IInv

(* The invariant holds in every state.                                      *)
THEOREM Invariance == Spec => []IInv
<1>1. IInv /\ [Next]_vars => IInv'
  <2> SUFFICES ASSUME IInv, [Next]_vars
               PROVE  IInv'
    OBVIOUS
  <2>1. CASE Gateway
    BY <2>1, CallToolInv, WriteSomeInv, WriteLineInv, ReadPieceInv, ReadEofInv, TimeoutInv
       DEF Gateway
  <2>2. CASE Server
    BY <2>2, ServerTakesInv, ServerWritesInv, ServerFinishesInv, ServerExitsInv DEF Server
  <2>3. CASE UNCHANGED vars
    BY <2>3, Frames
  <2> QED
    BY <2>1, <2>2, <2>3 DEF Next
<1> QED
  BY InitInv, <1>1, PTL DEF Spec

(* Ids are consecutive and the streak of timeouts stays within its limit    *)
(* (call_tool), in every run of any length.                                 *)
THEOREM TypeCorrect == Spec => []TypeOK
<1>1. ASSUME IInv
      PROVE  TypeOK
  <2>1. next_id = FirstId + Cardinality({i \in DOMAIN calls : calls[i].id # 0})
                          + (IF phase = "idle" THEN 0 ELSE 1)
    BY <1>1 DEF IInv, Numbering, Called
  <2>2. \A i \in DOMAIN calls : calls[i].outcome \in CallOutcome \cup {"Degraded"}
    <3>1. calls \in Seq(Call)
      BY <1>1 DEF IInv, Types
    <3>2. \A i \in DOMAIN calls : calls[i] \in Call
      BY <3>1, LenProperties, ElementOfSeq
    <3> QED
      BY <3>2 DEF Call
  <2> QED
    BY <1>1, <2>1, <2>2 DEF IInv, TypeOK, Types, Phases
<1> QED
  BY <1>1, Invariance, PTL

(* No call returns what a line with another id brought, however many        *)
(* answers came late (request).                                             *)
THEOREM AnswersAreOwn == Spec => []OwnAnswer
  BY Invariance, PTL DEF IInv

(* No request runs twice, and one that was answered ran (call_tool).        *)
THEOREM NothingRunsTwice == Spec => []RunsAtMostOnce
<1>1. IInv => RunsAtMostOnce
  BY DEF IInv, RunsAtMostOnce, RequestsMove, AnswersRan, HasRun
<1> QED
  BY <1>1, Invariance, PTL

(* A torn line costs at most one later call its answer (call_tool).         *)
THEOREM TornLinesArePaid == Spec => []DesyncIsPaidOnce
  BY Invariance, PTL DEF IInv, TailsArePaid

-----------------------------------------------------------------------------
(* Step by step, the connection does what CallChannel allows: it refuses a  *)
(* call if and only if two timeouts with no success between them are in its *)
(* history, and every call let through ends in one outcome (call_tool).     *)
THEOREM ChannelSafety == Spec => Channel!Init /\ [][Channel!Next]_(Channel!vars)
<1>1. Init => Channel!Init
  <2>1. ASSUME calls = <<>>
        PROVE  Outcomes = <<>>
    BY <2>1 DEF Outcomes
  <2> QED
    BY <2>1 DEF Init, Channel!Init
<1>2. ASSUME IInv, [Next]_vars
      PROVE  [Channel!Next]_(Channel!vars)
  <2>1. ASSUME NEW call \in Call, calls' = Append(calls, call)
        PROVE  Outcomes' = Append(Outcomes, call.outcome)
    <3> DEFINE n == Len(calls)
    <3>1. calls \in Seq(Call)
      BY <1>2 DEF IInv, Types
    <3>2. /\ n \in Nat /\ DOMAIN calls = 1..n /\ DOMAIN calls' = 1..n+1
          /\ \A i \in 1..n : calls'[i] = calls[i]
          /\ calls'[n+1] = call
      BY <2>1, <3>1, AppendDomain
    <3>3. Outcomes \in Seq({calls[i].outcome : i \in 1..n} \cup {call.outcome}) /\ Len(Outcomes) = n
      <4>1. Outcomes \in [1..n -> {calls[i].outcome : i \in 1..n} \cup {call.outcome}]
        BY <3>2 DEF Outcomes
      <4> QED
        BY <3>2, <4>1, SeqDef, LenProperties
    <3>4. /\ DOMAIN Append(Outcomes, call.outcome) = 1..n+1
          /\ \A i \in 1..n : Append(Outcomes, call.outcome)[i] = Outcomes[i]
          /\ Append(Outcomes, call.outcome)[n+1] = call.outcome
          /\ Append(Outcomes, call.outcome) \in Seq({calls[i].outcome : i \in 1..n} \cup {call.outcome})
          /\ Len(Append(Outcomes, call.outcome)) = n+1
      BY <3>3, AppendDomain
    <3>5. Outcomes' \in Seq({calls[i].outcome : i \in 1..n} \cup {call.outcome}) /\ Len(Outcomes') = n+1
      <4>1. Outcomes' \in [1..n+1 -> {calls[i].outcome : i \in 1..n} \cup {call.outcome}]
        BY <3>2 DEF Outcomes
      <4> QED
        BY <3>2, <4>1, SeqDef, LenProperties
    <3>6. \A i \in 1..n+1 : Outcomes'[i] = Append(Outcomes, call.outcome)[i]
      BY <3>2, <3>4 DEF Outcomes
    <3> HIDE DEF n
    <3> QED
      BY <3>3, <3>4, <3>5, <3>6, SeqEqual
  <2>2. ASSUME NEW outcome \in CallOutcome, NEW cause \in Line \cup {NoLine, StrayTail},
               phase # "idle", EndCall(outcome, cause)
        PROVE  Channel!Next
    <3>1. [id |-> Current, outcome |-> outcome, cause |-> cause] \in Call
      BY <1>2, <2>2, CurrentId DEF Call, IInv
    <3>2. Outcomes' = Append(Outcomes, outcome) /\ phase' = "idle"
      BY <2>1, <2>2, <3>1 DEF EndCall
    <3>3. Channel!End(outcome)
      BY <2>2, <3>2 DEF Channel!End
    <3> QED
      BY <3>3 DEF Channel!Next, CallOutcome
  <2>3. ASSUME UNCHANGED calls, phase # "idle" <=> phase' # "idle"
        PROVE  UNCHANGED (Channel!vars)
    BY <2>3 DEF Channel!vars, Outcomes
  <2>4. CASE CallTool
    <3>1. CASE refuses(health)
      <4>1. calls' = Append(calls, [id |-> 0, outcome |-> "Degraded", cause |-> NoLine])
            /\ phase = "idle" /\ phase' = "idle"
        BY <2>4, <3>1 DEF CallTool
      <4>2. [id |-> 0, outcome |-> "Degraded", cause |-> NoLine] \in Call
        BY DEF Call
      <4>3. Outcomes' = Append(Outcomes, "Degraded")
        BY <2>1, <4>1, <4>2
      <4>4. Channel!Wedged(Outcomes)
        BY <1>2, <3>1 DEF refuses, IInv, HealthExplained
      <4>5. Channel!Refuse
        BY <4>1, <4>3, <4>4 DEF Channel!Refuse
      <4> QED
        BY <4>5 DEF Channel!Next
    <3>2. CASE ~refuses(health)
      <4>1. phase = "idle" /\ phase' = "writing" /\ calls' = calls
        BY <2>4, <3>2 DEF CallTool
      <4>2. ~Channel!Wedged(Outcomes)
        BY <1>2, <3>2 DEF refuses, IInv, HealthExplained
      <4>3. Outcomes' = Outcomes
        BY <4>1 DEF Outcomes
      <4>4. Channel!LetThrough
        BY <4>1, <4>2, <4>3 DEF Channel!LetThrough
      <4> QED
        BY <4>4 DEF Channel!Next
    <3> QED
      BY <3>1, <3>2
  <2>5. CASE WriteSome
    BY <2>3, <2>5 DEF WriteSome, gateway
  <2>6. CASE WriteLine
    <3>1. CASE server.up
      BY <2>3, <2>6, <3>1 DEF WriteLine
    <3>2. CASE ~server.up
      BY <2>2, <2>6, <3>2 DEF WriteLine, CallOutcome
    <3> QED
      BY <3>1, <3>2
  <2>7. CASE ReadPiece
    <3> DEFINE line == LineRead(pulled, Head(stdout))
    <3>1. phase = "reading" /\ stdout # <<>>
      BY <2>7 DEF ReadPiece
    <3>2. line \in Line \cup {StrayTail}
      <4>1. stdout \in Seq(Piece)
        BY <1>2 DEF IInv, Types
      <4>2. Head(stdout) \in Piece
        BY <3>1, <4>1, HeadTailProperties
      <4> QED
        BY <4>2 DEF LineRead, Piece
    <3>3. Judge(Current, line) \in CallOutcome \cup {"skip"}
      BY DEF Judge, CallOutcome
    <3>4. CASE Head(stdout).part = "head" \/ Judge(Current, line) = "skip"
      BY <2>3, <2>7, <3>4 DEF ReadPiece, Consume
    <3>5. CASE Head(stdout).part # "head" /\ Judge(Current, line) # "skip"
      <4>1. EndCall(Judge(Current, line), line)
        BY <2>7, <3>5 DEF ReadPiece, Consume
      <4> QED
        BY <2>2, <3>1, <3>2, <3>3, <3>5, <4>1
    <3> QED
      BY <3>4, <3>5
  <2>8. CASE ReadEof
    BY <2>2, <2>8 DEF ReadEof, CallOutcome
  <2>9. CASE Timeout
    BY <2>2, <2>9 DEF Timeout, may_time_out, CallOutcome
  <2>10. CASE Server
    BY <2>3, <2>10 DEF Server, ServerTakes, ServerWrites, ServerFinishes, ServerExits, gateway
  <2>11. CASE UNCHANGED vars
    BY <2>3, <2>11 DEF vars
  <2> QED
    BY <1>2, <2>4, <2>5, <2>6, <2>7, <2>8, <2>9, <2>10, <2>11 DEF Next, Gateway
<1> QED
  BY <1>1, <1>2, Invariance, PTL DEF Spec
=============================================================================
