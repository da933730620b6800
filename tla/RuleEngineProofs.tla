--------------------------- MODULE RuleEngineProofs ---------------------------
(***************************************************************************)
(* Theorems about RuleEngine, for any built-in rules, operator's files,     *)
(* texts, servers and limit on occurrences.                                *)
(*                                                                         *)
(* The inductive invariant says of each literal rule that has no hit yet   *)
(* that none of its occurrences was counted, and that each of them either  *)
(* still lies ahead of the search or is overlapped by a match of another   *)
(* rule.  A second one, on top of it, says of each regex rule which of its  *)
(* matches have been evaluated and that the hit kept is the strongest's.   *)
(***************************************************************************)
EXTENDS RuleEngine, SequenceTheorems, FiniteSetTheorems, WellFoundedInduction, TLAPS

BestIsFunction == best = [i \in DOMAIN Rules |-> best[i]]

(* Only rules that passed load() are ever scanned with. *)
LoadedIsClean == phase \notin {"load", "refused"} => ~DuplicateId /\ ~ForbiddenSuppression

Ahead(m) == phase \in {"load", "refused", "literals"} /\ m.first >= pos

Masked(i, m) == \E n \in taken : n.rule # i /\ n.first <= m.last /\ m.first <= n.last

NotYetFound ==
    \A i \in DueLiterals : best[i] = NoHit =>
        /\ seen[i] = 0
        /\ \A m \in LiteralOccurrences(i) : Ahead(m) \/ Masked(i, m)

IInv ==
    /\ TypeOK
    /\ BestIsFunction
    /\ CriticalIsNeverSuppressed
    /\ LoadedIsClean
    /\ NotYetFound

-----------------------------------------------------------------------------
(* The rules in force are a sequence of rules. *)
LEMMA RulesType ==
    ASSUME TypeOK
    PROVE  /\ Rules \in Seq(Rule)
           /\ Len(Rules) \in Nat /\ DOMAIN Rules = 1..Len(Rules)
           /\ \A i \in DOMAIN Rules : Rules[i] \in Rule
<1>1. Locked.rules \in Seq(Rule) /\ job.user.rules \in Seq(Rule)
  BY RulesAssumption DEF RulesFile, TypeOK
<1>2. Rules \in Seq(Rule)
  BY <1>1 DEF Rules
<1> QED
  BY <1>2

(* What evaluate_occurrence returns, as far as the invariant asks. *)
LEMMA OccurrenceType ==
    ASSUME NEW rule \in Rule, NEW span
    PROVE  LET hit == evaluate_occurrence(rule, span) IN
           /\ Exempted(rule, span) <=> hit = NoHit
           /\ hit # NoHit => hit.id = rule.id
           /\ hit # NoHit /\ Applicable(rule.id) = {} =>
                  hit.severity = rule.severity /\ hit.suppressed_from = NotSuppressed
<1>1. rule.severity \in 0..3
  BY DEF Rule, Severity
<1>2. ASSUME NEW action
      PROVE  /\ Hit(rule, action).id = rule.id
             /\ Hit(rule, action).severity >= 0
             /\ Applicable(rule.id) = {} =>
                    /\ Hit(rule, action).severity = rule.severity
                    /\ Hit(rule, action).suppressed_from = NotSuppressed
  BY <1>1 DEF Hit, downgrade_severity
<1>3. NoHit.severity = -1
  BY DEF NoHit
<1> QED
  BY <1>2, <1>3 DEF evaluate_occurrence

(* No suppression covers a Critical rule once load() has accepted the files. *)
LEMMA CriticalIsUncovered ==
    ASSUME TypeOK, ~DuplicateId, ~ForbiddenSuppression,
           NEW i \in DOMAIN Rules, Rules[i].severity = Critical
    PROVE  Applicable(Rules[i].id) = {}
<1>1. SUFFICES ASSUME NEW k \in DOMAIN Suppressions, Suppressions[k].rule_id = Rules[i].id
               PROVE  FALSE
  BY DEF Applicable
<1>2. Named(Rules[i].id) = {i}
  BY DEF Named, DuplicateId
<1>3. i <= i
  BY RulesType
<1>4. SeverityOf(Rules[i].id) = Critical
  BY <1>2, <1>3 DEF SeverityOf
<1> QED
  BY <1>1, <1>4 DEF ForbiddenSuppression

(* One occurrence considered: what it does to its own rule and to others. *)
LEMMA ConsiderLemma ==
    ASSUME IInv, phase \notin {"load", "refused"},
           NEW i \in DOMAIN Rules, NEW span, ~Capped(i), Consider(i, span)
    PROVE  /\ seen' \in [DOMAIN Rules -> 0..MAX_OCCURRENCES_PER_RULE]
           /\ DOMAIN best' = DOMAIN Rules
           /\ best' = [j \in DOMAIN Rules |-> best'[j]]
           /\ \A j \in DOMAIN Rules \ {i} : best'[j] = best[j] /\ seen'[j] = seen[j]
           /\ best'[i] # NoHit => best'[i].id = Rules[i].id
           /\ ~Exempted(Rules[i], span) => best'[i] # NoHit
           /\ best'[i] # NoHit /\ Rules[i].severity = Critical =>
                  best'[i].suppressed_from = NotSuppressed /\ best'[i].severity = Critical
<1> DEFINE hit == evaluate_occurrence(Rules[i], span)
<1>1. /\ Exempted(Rules[i], span) <=> hit = NoHit
      /\ hit # NoHit => hit.id = Rules[i].id
      /\ hit # NoHit /\ Applicable(Rules[i].id) = {} =>
             hit.severity = Rules[i].severity /\ hit.suppressed_from = NotSuppressed
  BY RulesType, OccurrenceType DEF IInv
<1>2. best'[i] = strongest(best[i], hit)
  BY DEF Consider, IInv, TypeOK
<1>3. best'[i] \in {best[i], hit} /\ (hit # NoHit => best'[i] # NoHit)
  <2> HIDE DEF hit
  <2> QED  BY <1>2 DEF strongest
<1>4. \A j \in DOMAIN Rules \ {i} : best'[j] = best[j] /\ seen'[j] = seen[j]
  BY DEF Consider, IInv, TypeOK
<1>5. seen[i] + 1 \in 0..MAX_OCCURRENCES_PER_RULE
  BY RulesAssumption DEF Capped, IInv, TypeOK
<1>6. seen' \in [DOMAIN Rules -> 0..MAX_OCCURRENCES_PER_RULE]
  BY <1>5 DEF Consider, IInv, TypeOK
<1>7. DOMAIN best' = DOMAIN Rules /\ best' = [j \in DOMAIN Rules |-> best'[j]]
  BY DEF Consider, IInv, BestIsFunction, TypeOK
<1>8. best'[i] # NoHit => best'[i].id = Rules[i].id
  BY <1>1, <1>3 DEF IInv, TypeOK
<1>9. ASSUME best'[i] # NoHit, Rules[i].severity = Critical
      PROVE  best'[i].suppressed_from = NotSuppressed /\ best'[i].severity = Critical
  <2>1. Applicable(Rules[i].id) = {}
    BY <1>9, CriticalIsUncovered DEF IInv, LoadedIsClean
  <2>2. CASE best'[i] = best[i]
    BY <1>9, <2>2 DEF IInv, CriticalIsNeverSuppressed
  <2>3. CASE best'[i] = hit
    <3> HIDE DEF hit
    <3> QED  BY <1>1, <1>9, <2>1, <2>3
  <2> QED  BY <1>3, <2>2, <2>3
<1> QED
  BY <1>1, <1>3, <1>4, <1>6, <1>7, <1>8, <1>9

(* Steps that leave job alone leave alone what is computed from it. *)
LEMMA SameJob ==
    ASSUME job' = job
    PROVE  /\ Rules' = Rules /\ DuplicateId' = DuplicateId
           /\ ForbiddenSuppression' = ForbiddenSuppression
           /\ DueLiterals' = DueLiterals
           /\ \A i \in DOMAIN Rules : LiteralOccurrences(i)' = LiteralOccurrences(i)
<1>1. Rules' = Rules /\ Suppressions' = Suppressions
  BY DEF Rules, Suppressions
<1>2. DuplicateId' = DuplicateId
  BY <1>1 DEF DuplicateId
<1>3. ForbiddenSuppression' = ForbiddenSuppression
  BY <1>1 DEF ForbiddenSuppression, SeverityOf, Named
<1>4. DueLiterals' = DueLiterals
  BY <1>1 DEF DueLiterals, rule_applies, Exempted
<1>5. \A i \in DOMAIN Rules : LiteralOccurrences(i)' = LiteralOccurrences(i)
  BY <1>1 DEF LiteralOccurrences, Occurs
<1> QED
  BY <1>1, <1>2, <1>3, <1>4, <1>5

(* The invariant holds initially and every step of load() and scan() keeps it. *)
THEOREM Invariance == Spec => []IInv
<1>1. Init => IInv
  <2> SUFFICES ASSUME Init PROVE IInv
    OBVIOUS
  <2>1. job.user \in UserFiles /\ job.text \in Texts /\ job.server \in RuleServers
        /\ job.scope \in {"ToolOutputOnly", "ToolDescription"}
    BY DEF Init
  <2>2. Len(job.text) \in Nat
    BY <2>1, RulesAssumption
  <2>3. Locked.rules \in Seq(Rule) /\ job.user.rules \in Seq(Rule)
    BY <2>1, RulesAssumption DEF RulesFile
  <2>4. Rules \in Seq(Rule)
    BY <2>3 DEF Rules
  <2>5. Len(Rules) \in Nat
    BY <2>4
  <2>6. TypeOK
    BY <2>1, <2>2, <2>5, RulesAssumption DEF TypeOK, Init
  <2>7. \A i \in DueLiterals : \A m \in LiteralOccurrences(i) : Ahead(m)
    BY <2>2 DEF LiteralOccurrences, Ahead, Init
  <2>8. NotYetFound
    BY <2>7 DEF NotYetFound, DueLiterals, Init
  <2> QED
    BY <2>6, <2>8 DEF IInv, BestIsFunction, CriticalIsNeverSuppressed, LoadedIsClean, Init
<1>2. IInv /\ [Next]_vars => IInv'
  <2> SUFFICES ASSUME IInv, [Next]_vars PROVE IInv'
    OBVIOUS
  <2>1. job' = job
    BY DEF Next, vars, Load, ScanLiteral, EndLiterals, ScanRegex, NextRegex, Return
  <2>2. /\ Rules' = Rules /\ DuplicateId' = DuplicateId
        /\ ForbiddenSuppression' = ForbiddenSuppression
        /\ DueLiterals' = DueLiterals
        /\ \A i \in DOMAIN Rules : LiteralOccurrences(i)' = LiteralOccurrences(i)
    BY <2>1, SameJob
  <2>3. DueLiterals \subseteq DOMAIN Rules
    BY DEF DueLiterals
  <2>4. /\ Len(job.text) \in Nat /\ Len(Rules) \in Nat /\ DOMAIN Rules = 1..Len(Rules)
        /\ DOMAIN job.text = 1..Len(job.text)
    BY RulesType, RulesAssumption DEF IInv, TypeOK
  <2>5. CASE Load
    <3>1. UNCHANGED <<pos, at, seen, best, taken>> /\ phase = "load"
          /\ phase' \in {"refused", "literals"}
      BY <2>5 DEF Load
    <3>2. LoadedIsClean'
      BY <2>2, <2>5 DEF Load, LoadedIsClean
    <3>3. TypeOK' /\ BestIsFunction' /\ CriticalIsNeverSuppressed'
      BY <2>1, <2>2, <3>1 DEF IInv, TypeOK, BestIsFunction, CriticalIsNeverSuppressed
    <3>4. NotYetFound'
      BY <2>2, <2>3, <3>1 DEF IInv, NotYetFound, Ahead, Masked
    <3> QED
      BY <3>2, <3>3, <3>4 DEF IInv
  <2>6. CASE ScanLiteral
    <3>1. PICK m \in Found :
              /\ Reported(m) /\ pos' = m.last + 1 /\ taken' = taken \cup {m}
              /\ IF rule_applies(Rules[m.rule]) /\ ~Capped(m.rule)
                 THEN Consider(m.rule, SubSeq(job.text, m.first, m.last))
                 ELSE UNCHANGED <<seen, best>>
      BY <2>6 DEF ScanLiteral
    <3>2. phase = "literals" /\ UNCHANGED <<phase, at>>
      BY <2>6 DEF ScanLiteral
    <3>3. /\ m \in [rule : DOMAIN Rules, first : Nat, last : Nat]
          /\ m.rule \in DOMAIN Rules
          /\ m.first \in pos..Len(job.text) /\ m.last \in pos..Len(job.text)
          /\ m.first <= m.last
          /\ Rules[m.rule].kind = "literal"
          /\ SubSeq(job.text, m.first, m.last) = Rules[m.rule].pattern
      BY <2>4 DEF Found, Occurs, IInv, TypeOK
    <3> DEFINE span == Rules[m.rule].pattern
    <3>4. /\ seen' \in [DOMAIN Rules -> 0..MAX_OCCURRENCES_PER_RULE]
          /\ DOMAIN best' = DOMAIN Rules /\ best' = [j \in DOMAIN Rules |-> best'[j]]
          /\ \A j \in DOMAIN Rules \ {m.rule} : best'[j] = best[j] /\ seen'[j] = seen[j]
          /\ best'[m.rule] # NoHit => best'[m.rule].id = Rules[m.rule].id
          /\ best'[m.rule] # NoHit /\ Rules[m.rule].severity = Critical =>
                 /\ best'[m.rule].suppressed_from = NotSuppressed
                 /\ best'[m.rule].severity = Critical
          /\ m.rule \in DueLiterals => best'[m.rule] # NoHit
      <4>1. CASE rule_applies(Rules[m.rule]) /\ ~Capped(m.rule)
        <5>1. Consider(m.rule, span)
          BY <3>1, <3>3, <4>1
        <5>2. phase \notin {"load", "refused"}
          BY <3>2
        <5> QED
          BY <3>3, <4>1, <5>1, <5>2, ConsiderLemma DEF DueLiterals
      <4>2. CASE ~(rule_applies(Rules[m.rule]) /\ ~Capped(m.rule))
        <5>1. UNCHANGED <<seen, best>>
          BY <3>1, <4>2
        <5>2. m.rule \in DueLiterals => seen[m.rule] # 0
          BY <3>3, <4>2, RulesAssumption DEF DueLiterals, Capped, IInv, TypeOK
        <5>3. m.rule \in DueLiterals => best[m.rule] # NoHit
          BY <5>2 DEF IInv, NotYetFound
        <5> QED
          BY <3>3, <5>1, <5>3 DEF IInv, TypeOK, BestIsFunction, CriticalIsNeverSuppressed
      <4> QED
        BY <4>1, <4>2
    <3>5. TypeOK'
      <4>1. m.last + 1 \in 1..Len(job.text) + 1
        BY <2>4, <3>3 DEF IInv, TypeOK
      <4>2. \A i \in DOMAIN Rules : best'[i] # NoHit => best'[i].id = Rules[i].id
        BY <3>4 DEF IInv, TypeOK
      <4> QED
        BY <2>1, <2>2, <3>1, <3>2, <3>3, <3>4, <4>1, <4>2 DEF IInv, TypeOK
    <3>6. BestIsFunction' /\ CriticalIsNeverSuppressed' /\ LoadedIsClean'
      BY <2>2, <3>2, <3>4 DEF IInv, BestIsFunction, CriticalIsNeverSuppressed, LoadedIsClean
    <3>7. NotYetFound'
      <4>1. SUFFICES ASSUME NEW i \in DueLiterals, best'[i] = NoHit
                     PROVE  /\ seen'[i] = 0
                            /\ \A o \in LiteralOccurrences(i) : Ahead(o)' \/ Masked(i, o)'
        BY <2>2, <2>3 DEF NotYetFound
      <4>2. i \in DOMAIN Rules /\ i # m.rule
        BY <2>3, <3>4, <4>1
      <4>3. best[i] = NoHit /\ seen'[i] = seen[i]
        BY <3>4, <4>1, <4>2
      <4>4. seen[i] = 0 /\ \A o \in LiteralOccurrences(i) : Ahead(o) \/ Masked(i, o)
        BY <4>3 DEF IInv, NotYetFound
      <4>5. ASSUME NEW o \in LiteralOccurrences(i) PROVE Ahead(o)' \/ Masked(i, o)'
        <5>1. CASE Masked(i, o)
          BY <3>1, <5>1 DEF Masked
        <5>2. CASE Ahead(o)
          <6>1. /\ o.first >= pos /\ o.first <= o.last
                /\ o.first \in 1..Len(job.text) /\ o.last \in 1..Len(job.text)
            BY <2>4, <5>2 DEF Ahead, LiteralOccurrences
          <6>2. o \in Found
            BY <2>4, <4>2, <5>2, <6>1 DEF Found, LiteralOccurrences, IInv, TypeOK
          <6>3. m.last <= o.last
            BY <3>1, <3>3, <6>1, <6>2 DEF Reported
          <6>4. CASE o.first > m.last
            BY <3>1, <3>2, <3>3, <6>1, <6>4 DEF Ahead
          <6>5. CASE o.first <= m.last
            <7>1. m.first <= o.last
              BY <2>4, <3>3, <6>1, <6>3 DEF IInv, TypeOK
            <7> QED
              BY <3>1, <4>2, <6>5, <7>1 DEF Masked
          <6> QED
            BY <2>4, <3>3, <6>1, <6>4, <6>5 DEF IInv, TypeOK
        <5> QED
          BY <4>4, <5>1, <5>2
      <4> QED
        BY <4>3, <4>4, <4>5
    <3> QED
      BY <3>5, <3>6, <3>7 DEF IInv
  <2>7. CASE EndLiterals
    <3>1. /\ phase = "literals" /\ Found = {} /\ phase' = "regexes" /\ pos' = 1
          /\ UNCHANGED <<at, seen, best, taken>>
      BY <2>7 DEF EndLiterals
    <3>2. TypeOK' /\ BestIsFunction' /\ CriticalIsNeverSuppressed' /\ LoadedIsClean'
      BY <2>1, <2>2, <2>4, <3>1
         DEF IInv, TypeOK, BestIsFunction, CriticalIsNeverSuppressed, LoadedIsClean
    <3>3. ASSUME NEW i \in DueLiterals, NEW o \in LiteralOccurrences(i), Ahead(o)
          PROVE  FALSE
      <4>1. /\ o.first >= pos /\ o.first <= o.last
            /\ o.first \in 1..Len(job.text) /\ o.last \in 1..Len(job.text)
        BY <2>4, <3>3 DEF Ahead, LiteralOccurrences
      <4>2. o \in Found
        BY <2>3, <2>4, <3>3, <4>1 DEF Found, LiteralOccurrences, IInv, TypeOK
      <4> QED
        BY <3>1, <4>2
    <3>4. NotYetFound'
      BY <2>2, <2>3, <3>1, <3>3 DEF IInv, NotYetFound, Masked
    <3> QED
      BY <3>2, <3>4 DEF IInv
  <2>8. CASE ScanRegex
    <3>1. PICK p \in Matches(at) : pos' = p + 1 /\ Consider(at, <<job.text[p]>>)
      BY <2>8 DEF ScanRegex
    <3>2. /\ phase = "regexes" /\ UNCHANGED <<phase, at, taken>>
          /\ at <= Len(Rules) /\ Rules[at].kind = "regex" /\ ~Capped(at)
      BY <2>8 DEF ScanRegex, Searching
    <3>3. at \in DOMAIN Rules /\ at \notin DueLiterals
      BY <2>4, <3>2 DEF IInv, TypeOK, DueLiterals
    <3>4. p + 1 \in 1..Len(job.text) + 1
      BY <2>4, <3>1 DEF Matches, IInv, TypeOK
    <3>5. /\ seen' \in [DOMAIN Rules -> 0..MAX_OCCURRENCES_PER_RULE]
          /\ DOMAIN best' = DOMAIN Rules /\ best' = [j \in DOMAIN Rules |-> best'[j]]
          /\ \A j \in DOMAIN Rules \ {at} : best'[j] = best[j] /\ seen'[j] = seen[j]
          /\ best'[at] # NoHit => best'[at].id = Rules[at].id
          /\ best'[at] # NoHit /\ Rules[at].severity = Critical =>
                 best'[at].suppressed_from = NotSuppressed /\ best'[at].severity = Critical
      <4>1. phase \notin {"load", "refused"}
        BY <3>2
      <4> QED
        BY <3>1, <3>2, <3>3, <4>1, ConsiderLemma
    <3>6. TypeOK'
      BY <2>1, <2>2, <3>1, <3>2, <3>4, <3>5 DEF IInv, TypeOK
    <3>7. BestIsFunction' /\ CriticalIsNeverSuppressed' /\ LoadedIsClean'
      BY <2>2, <3>2, <3>5 DEF IInv, BestIsFunction, CriticalIsNeverSuppressed, LoadedIsClean
    <3>8. NotYetFound'
      BY <2>2, <2>3, <3>2, <3>3, <3>5 DEF IInv, NotYetFound, Ahead, Masked
    <3> QED
      BY <3>6, <3>7, <3>8 DEF IInv
  <2>9. CASE NextRegex \/ Return
    <3>1. /\ phase = "regexes" /\ phase' \in {"regexes", "done"} /\ UNCHANGED <<seen, best, taken>>
          /\ pos' \in {1, pos} /\ (at' = at \/ (at <= Len(Rules) /\ at' = at + 1))
      BY <2>9 DEF NextRegex, Return
    <3>2. TypeOK'
      BY <2>1, <2>2, <2>4, <3>1 DEF IInv, TypeOK
    <3>3. BestIsFunction' /\ CriticalIsNeverSuppressed' /\ LoadedIsClean'
      BY <2>2, <3>1 DEF IInv, BestIsFunction, CriticalIsNeverSuppressed, LoadedIsClean
    <3>4. NotYetFound'
      BY <2>2, <2>3, <3>1 DEF IInv, NotYetFound, Ahead, Masked
    <3> QED
      BY <3>2, <3>3, <3>4 DEF IInv
  <2>10. CASE UNCHANGED vars
    <3>1. UNCHANGED <<phase, pos, at, seen, best, taken>>
      BY <2>10 DEF vars
    <3>2. TypeOK' /\ BestIsFunction' /\ CriticalIsNeverSuppressed' /\ LoadedIsClean'
      BY <2>1, <2>2, <3>1
         DEF IInv, TypeOK, BestIsFunction, CriticalIsNeverSuppressed, LoadedIsClean
    <3>3. NotYetFound'
      BY <2>2, <2>3, <3>1 DEF IInv, NotYetFound, Ahead, Masked
    <3> QED
      BY <3>2, <3>3 DEF IInv
  <2> QED
    BY <2>5, <2>6, <2>7, <2>8, <2>9, <2>10 DEF Next
<1> QED
  BY <1>1, <1>2, PTL DEF Spec

-----------------------------------------------------------------------------
(* The engine's state is well formed; no rule has more occurrences evaluated *)
(* than the limit.                                                           *)
THEOREM TypeCorrect == Spec => []TypeOK
<1>1. IInv => TypeOK
  BY DEF IInv
<1> QED
  BY <1>1, Invariance, PTL

(* Hits of Critical rules are never suppressed, whatever the operator's file. *)
THEOREM CriticalStands == Spec => []CriticalIsNeverSuppressed
<1>1. IInv => CriticalIsNeverSuppressed
  BY DEF IInv
<1> QED
  BY <1>1, Invariance, PTL

(* A literal that is in the text and has no hit is overlapped by a match of   *)
(* another rule, for any rules, scopes, texts and limit.                      *)
THEOREM OnlyMaskedIsMissed == Spec => []MissesAreMasked
<1>1. IInv => MissesAreMasked
  BY DEF IInv, MissesAreMasked, NotYetFound, Ahead, Masked
<1> QED
  BY <1>1, Invariance, PTL

-----------------------------------------------------------------------------
(***************************************************************************)
(* What is kept of the occurrences of a rule.  The second invariant tells  *)
(* for each regex rule which of its matches have been evaluated so far and *)
(* that the hit kept is that of the strongest of them.                     *)
(***************************************************************************)
Raw(i, span) == EffectiveAction(Rules[i], span)

All(i) == {p \in DOMAIN job.text : job.text[p] \in Rules[i].shapes}

UpTo(i, p) == {q \in All(i) : q <= p}

(* The matches the limit lets in, less the exempted ones, as Judged has it. *)
LetIn(i) == {p \in All(i) : Cardinality(UpTo(i, p)) <= MAX_OCCURRENCES_PER_RULE}

Evaluated(i) ==
    IF phase \notin {"regexes", "done"} \/ at < i THEN {}
    ELSE IF at = i THEN {p \in All(i) : p < pos} ELSE LetIn(i)

RawOf(i, P) ==
    {Raw(i, <<job.text[p]>>) : p \in {q \in P : ~Exempted(Rules[i], <<job.text[q]>>)}}

IsStrongest(i, hit, raw) ==
    \/ raw = {} /\ hit = NoHit
    \/ \E a \in raw : (\A b \in raw : b <= a) /\ hit = Hit(Rules[i], a)

Due(i) == Rules[i].kind = "regex" /\ rule_applies(Rules[i])

KeptFor(i) ==
    /\ Rules[i].kind = "literal" => best[i] \in {NoHit, Hit(Rules[i], Raw(i, Rules[i].pattern))}
    /\ Rules[i].kind # "literal" /\ ~Due(i) => best[i] = NoHit
    /\ Due(i) => /\ at <= i => seen[i] = Cardinality(Evaluated(i))
                 /\ IsStrongest(i, best[i], RawOf(i, Evaluated(i)))

Kept == \A i \in DOMAIN Rules : KeptFor(i)

(* The regexes are taken up after the literals and one after the other to the last. *)
Turns ==
    /\ phase \in {"load", "refused", "literals"} => at = 1
    /\ phase = "done" => at > Len(Rules)

(* A set of numbers has a least one. *)
LEMMA Least ==
    ASSUME NEW S, S \subseteq Nat, S # {}
    PROVE  \E x \in S : \A y \in S : x <= y
<1>1. PICK x \in S : \A y \in S : ~(<<y, x>> \in OpToRel(<, Nat))
  BY NatLessThanWellFounded, WFMin
<1>2. \A y \in S : ~(y < x)
  BY <1>1 DEF OpToRel
<1> QED
  BY <1>2

(* A suppression's floor is an action. *)
LEMMA FloorType ==
    ASSUME TypeOK, NEW id, Applicable(id) # {}
    PROVE  Floor(id) \in Action
<1>1. Suppressions \in Seq(Suppression)
  <2>1. Locked.suppressions \in Seq(Suppression) /\ job.user.suppressions \in Seq(Suppression)
    BY RulesAssumption DEF RulesFile, TypeOK
  <2> QED
    BY <2>1 DEF Suppressions
<1>2. Applicable(id) \subseteq DOMAIN Suppressions /\ DOMAIN Suppressions \subseteq Nat
  BY <1>1, LenProperties DEF Applicable
<1>3. \E k \in Applicable(id) : \A l \in Applicable(id) : k <= l
  BY <1>2, Least
<1> DEFINE k == CHOOSE k \in Applicable(id) : \A l \in Applicable(id) : k <= l
<1>4. k \in DOMAIN Suppressions
  BY <1>2, <1>3
<1> HIDE DEF k
<1>5. Suppressions[k] \in Suppression
  BY <1>1, <1>4, ElementOfSeq, LenProperties
<1> QED
  BY <1>5 DEF Floor, k, Suppression

(* A hit is decided by its rule and its raw action, and grows with it.      *)
LEMMA HitGrows ==
    ASSUME TypeOK, NEW i \in DOMAIN Rules, NEW a \in Action
    PROVE  /\ Hit(Rules[i], a) # NoHit
           /\ Hit(Rules[i], a).id = Rules[i].id /\ Hit(Rules[i], a).category = Rules[i].category
           /\ Hit(Rules[i], a).action \in Action /\ Hit(Rules[i], a).action <= a
           /\ Hit(Rules[i], a).severity \in Severity
           /\ Hit(Rules[i], a).severity <= Rules[i].severity
           /\ \A b \in Action :
                 /\ a <= b => Hit(Rules[i], a).action <= Hit(Rules[i], b).action
                 /\ Hit(Rules[i], a).action = Hit(Rules[i], b).action
                        => Hit(Rules[i], a) = Hit(Rules[i], b)
                 /\ Hit(Rules[i], a).severity = Hit(Rules[i], b).severity
<1> DEFINE rule == Rules[i]
<1>1. rule.severity \in Severity
  BY RulesType DEF Rule
<1>2. NoHit.severity = -1
  BY DEF NoHit
<1>3. CASE Applicable(rule.id) = {}
  <2> HIDE DEF rule
  <2>1. \A b \in Action :
           Hit(rule, b) = [id |-> rule.id, category |-> rule.category,
                           severity |-> rule.severity, action |-> b,
                           suppressed_from |-> NotSuppressed]
    BY <1>3 DEF Hit, rule
  <2>2. Hit(rule, a) # NoHit
    <3>1. Hit(rule, a).severity >= 0
      BY <1>1, <2>1 DEF Severity, rule
    <3> QED
      BY <1>2, <3>1
  <2>3. \A b \in Action : Hit(rule, b).id = rule.id /\ Hit(rule, b).category = rule.category
                           /\ Hit(rule, b).severity = rule.severity /\ Hit(rule, b).action = b
    BY <2>1
  <2>4. a <= a /\ rule.severity <= rule.severity
    BY <1>1 DEF Action, Severity, rule
  <2>5. \A b \in Action : Hit(rule, a).action = Hit(rule, b).action => Hit(rule, a) = Hit(rule, b)
    BY <2>3
  <2> QED
    BY <1>1, <2>2, <2>3, <2>4, <2>5 DEF rule
<1>4. CASE Applicable(rule.id) # {}
  <2>1. Floor(rule.id) \in Action
    BY <1>4, FloorType
  <2> DEFINE f == Floor(rule.id)
  <2> HIDE DEF f, rule
  <2>2. \A b \in Action :
           Hit(rule, b) = [id |-> rule.id, category |-> rule.category,
                           severity |-> downgrade_severity(rule.severity),
                           action |-> weaker_action(b, f), suppressed_from |-> rule.severity]
    BY <1>4 DEF Hit, f, rule
  <2>3. downgrade_severity(rule.severity) \in Severity /\ downgrade_severity(rule.severity) <= rule.severity
    BY <1>1 DEF downgrade_severity, Severity, rule
  <2>4. f \in Action
    BY <2>1 DEF f
  <2>5. \A b \in Action : weaker_action(b, f) \in Action /\ weaker_action(b, f) <= b
    BY <2>4 DEF weaker_action, Action
  <2>6. \A b \in Action : a <= b => weaker_action(a, f) <= weaker_action(b, f)
    BY <2>4 DEF weaker_action, Action
  <2>7. Hit(rule, a) # NoHit
    <3>1. Hit(rule, a).severity >= 0
      BY <2>2, <2>3 DEF Severity
    <3> QED
      BY <1>2, <3>1
  <2> QED
    BY <2>2, <2>3, <2>5, <2>6, <2>7 DEF rule
<1> QED
  BY <1>3, <1>4

(* The stronger of two hits of a rule is that of the stronger raw action.   *)
LEMMA StrongerOf ==
    ASSUME TypeOK, NEW i \in DOMAIN Rules, NEW raw, raw \subseteq Action, NEW hit,
           IsStrongest(i, hit, raw), NEW b \in Action
    PROVE  IsStrongest(i, strongest(hit, Hit(Rules[i], b)), raw \cup {b})
<1> DEFINE new == Hit(Rules[i], b)
<1>1. new # NoHit
  BY HitGrows
<1>2. CASE hit = NoHit /\ raw = {}
  <2>1. strongest(hit, new) = new /\ raw \cup {b} = {b}
    BY <1>1, <1>2 DEF strongest
  <2>2. b <= b
    BY DEF Action
  <2> QED
    BY <2>1, <2>2 DEF IsStrongest
<1>3. ASSUME NEW a \in raw, \A c \in raw : c <= a, hit = Hit(Rules[i], a)
      PROVE  IsStrongest(i, strongest(hit, new), raw \cup {b})
  <2>1. a \in Action
    BY <1>3
  <2>2. /\ hit # NoHit /\ hit.action \in Action /\ new.action \in Action
        /\ hit.severity = new.severity /\ hit.severity \in Severity
        /\ a <= b => hit.action <= new.action
        /\ hit.action = new.action => hit = new
    BY <1>3, <2>1, HitGrows
  <2>3. b <= a => new.action <= hit.action
    BY <1>3, <2>1, HitGrows
  <2> HIDE DEF new
  <2>4. CASE a < b
    <3>1. strongest(hit, new) = new
      BY <1>1, <2>1, <2>2, <2>4 DEF strongest, Action
    <3>2. \A c \in raw \cup {b} : c <= b
      BY <1>3, <2>1, <2>4 DEF Action
    <3> QED
      BY <3>1, <3>2 DEF IsStrongest, new
  <2>5. CASE b <= a
    <3>1. strongest(hit, new) = hit
      BY <1>1, <2>1, <2>2, <2>3, <2>5 DEF strongest, Action, Severity
    <3>2. \A c \in raw \cup {b} : c <= a
      BY <1>3, <2>5
    <3> QED
      BY <1>3, <3>1, <3>2 DEF IsStrongest
  <2> QED
    BY <2>1, <2>4, <2>5 DEF Action
<1> QED
  BY <1>2, <1>3 DEF IsStrongest
(* What only the job decides stays as it is while the job does. *)
LEMMA SameText ==
    ASSUME job' = job, NEW i \in DOMAIN Rules
    PROVE  /\ All(i)' = All(i) /\ LetIn(i)' = LetIn(i) /\ (Due(i)' <=> Due(i))
           /\ Rules' = Rules
           /\ \A a : Hit(Rules[i], a)' = Hit(Rules[i], a)
           /\ \A P : RawOf(i, P)' = RawOf(i, P)
           /\ Raw(i, Rules[i].pattern)' = Raw(i, Rules[i].pattern)
<1>1. Rules' = Rules /\ Suppressions' = Suppressions
  BY DEF Rules, Suppressions
<1>2. All(i)' = All(i)
  BY <1>1 DEF All
<1>3. LetIn(i)' = LetIn(i)
  BY <1>2 DEF LetIn, UpTo
<1>4. Due(i)' <=> Due(i)
  BY <1>1 DEF Due, rule_applies
<1>5. Applicable(Rules[i].id)' = Applicable(Rules[i].id) /\ Floor(Rules[i].id)' = Floor(Rules[i].id)
  BY <1>1 DEF Applicable, Floor
<1>6. \A a : Hit(Rules[i], a)' = Hit(Rules[i], a)
  BY <1>1, <1>5 DEF Hit
<1>7. \A P : RawOf(i, P)' = RawOf(i, P)
  BY <1>1 DEF RawOf, Raw, EffectiveAction, Exempted
<1>8. Raw(i, Rules[i].pattern)' = Raw(i, Rules[i].pattern)
  BY <1>1 DEF Raw, EffectiveAction
<1> QED
  BY <1>1, <1>2, <1>3, <1>4, <1>6, <1>7, <1>8

(* Raw actions are actions, and the matches of a rule are finitely many positions. *)
LEMMA RawType ==
    ASSUME TypeOK, NEW i \in DOMAIN Rules
    PROVE  /\ \A span : Raw(i, span) \in Action
           /\ \A P : RawOf(i, P) \subseteq Action
           /\ Len(job.text) \in Nat /\ DOMAIN job.text = 1..Len(job.text)
           /\ All(i) \subseteq 1..Len(job.text)
           /\ \A P : P \subseteq All(i) => IsFiniteSet(P) /\ Cardinality(P) \in Nat
<1>1. Rules[i].action \in Action /\ Rules[i].escalated \in Action
  BY RulesType DEF Rule
<1>2. \A span : Raw(i, span) \in Action
  BY <1>1 DEF Raw, EffectiveAction
<1>3. \A P : RawOf(i, P) \subseteq Action
  BY <1>2 DEF RawOf
<1>4. Len(job.text) \in Nat /\ DOMAIN job.text = 1..Len(job.text)
  BY RulesAssumption DEF TypeOK
<1>5. All(i) \subseteq 1..Len(job.text)
  BY <1>4 DEF All
<1>6. IsFiniteSet(1..Len(job.text))
  BY <1>4, FS_Interval
<1>7. \A P : P \subseteq All(i) => IsFiniteSet(P) /\ Cardinality(P) \in Nat
  <2> SUFFICES ASSUME NEW P, P \subseteq All(i) PROVE IsFiniteSet(P) /\ Cardinality(P) \in Nat
    OBVIOUS
  <2>1. P \subseteq 1..Len(job.text)
    BY <1>5
  <2>2. IsFiniteSet(P)
    BY <1>6, <2>1, FS_Subset
  <2> QED
    BY <2>2, FS_CardinalityType
<1> QED
  BY <1>2, <1>3, <1>4, <1>5, <1>7

(* One match more: it joins those evaluated, and the hit kept follows.      *)
LEMMA OneMore ==
    ASSUME TypeOK, NEW i \in DOMAIN Rules, NEW p \in Matches(i), \A q \in Matches(i) : p <= q,
           IsStrongest(i, best[i], RawOf(i, {q \in All(i) : q < pos}))
    PROVE  /\ Cardinality({q \in All(i) : q < p + 1}) = Cardinality({q \in All(i) : q < pos}) + 1
           /\ IsStrongest(i, strongest(best[i], evaluate_occurrence(Rules[i], <<job.text[p]>>)),
                          RawOf(i, {q \in All(i) : q < p + 1}))
<1> DEFINE before == {q \in All(i) : q < pos}
           after  == {q \in All(i) : q < p + 1}
           span   == <<job.text[p]>>
<1>1. /\ Len(job.text) \in Nat /\ DOMAIN job.text = 1..Len(job.text)
      /\ All(i) \subseteq 1..Len(job.text) /\ pos \in Nat /\ 1 <= pos
  BY RawType DEF TypeOK
<1>2. p \in All(i) /\ p \in Nat /\ pos <= p /\ p \notin before
  BY <1>1 DEF Matches, All
<1>3. \A q \in All(i) : pos <= q => q \in Matches(i)
  BY <1>1 DEF Matches, All
<1>4. after = before \cup {p}
  <2>1. \A q \in All(i) : q \in Nat
    BY <1>1
  <2>2. \A q \in after : q \in before \/ q = p
    BY <1>1, <1>2, <1>3, <2>1
  <2>3. \A q \in before : q \in after
    BY <1>1, <1>2, <2>1
  <2>4. p \in after
    BY <1>2
  <2> HIDE DEF before, after
  <2> QED
    BY <2>2, <2>3, <2>4
<1>5. IsFiniteSet(before) /\ Cardinality(before) \in Nat
  <2>1. before \subseteq All(i)
    OBVIOUS
  <2> HIDE DEF before
  <2> QED
    BY <2>1, RawType
<1>6. Cardinality(after) = Cardinality(before) + 1
  <2> HIDE DEF before, after
  <2> QED
    BY <1>2, <1>4, <1>5, FS_AddElement
<1>7. IsStrongest(i, best[i], RawOf(i, before))
  OBVIOUS
<1>8. RawOf(i, before) \subseteq Action /\ Raw(i, span) \in Action
  BY RawType
<1> HIDE DEF before, after
<1>9. CASE Exempted(Rules[i], span)
  <2>1. RawOf(i, after) = RawOf(i, before)
    BY <1>4, <1>9 DEF RawOf
  <2>2. strongest(best[i], evaluate_occurrence(Rules[i], span)) = best[i]
    BY <1>9 DEF strongest, evaluate_occurrence
  <2> QED
    BY <1>6, <1>7, <2>1, <2>2 DEF before, after
<1>10. CASE ~Exempted(Rules[i], span)
  <2>1. RawOf(i, after) = RawOf(i, before) \cup {Raw(i, span)}
    BY <1>4, <1>10 DEF RawOf
  <2>2. evaluate_occurrence(Rules[i], span) = Hit(Rules[i], Raw(i, span))
    BY <1>10 DEF evaluate_occurrence, Raw
  <2>3. IsStrongest(i, strongest(best[i], Hit(Rules[i], Raw(i, span))),
                    RawOf(i, before) \cup {Raw(i, span)})
    BY <1>7, <1>8, StrongerOf
  <2> QED
    BY <1>6, <2>1, <2>2, <2>3 DEF before, after
<1> QED
  BY <1>9, <1>10

(* A regex rule is left when its matches or the limit are used up: those    *)
(* evaluated by then are those the limit lets in.                           *)
LEMMA LeftWhenDone ==
    ASSUME TypeOK, NEW i \in DOMAIN Rules, Matches(i) = {} \/ Capped(i),
           seen[i] = Cardinality({q \in All(i) : q < pos})
    PROVE  {q \in All(i) : q < pos} = LetIn(i)
<1> DEFINE before == {q \in All(i) : q < pos}
<1>1. /\ Len(job.text) \in Nat /\ DOMAIN job.text = 1..Len(job.text)
      /\ All(i) \subseteq 1..Len(job.text) /\ pos \in Nat
      /\ MAX_OCCURRENCES_PER_RULE \in Nat /\ seen[i] \in 0..MAX_OCCURRENCES_PER_RULE
  BY RawType, RulesAssumption DEF TypeOK
<1>2. \A q \in All(i) : q \in Nat
  BY <1>1
<1>3. before \subseteq All(i) /\ \A p \in All(i) : UpTo(i, p) \subseteq All(i)
  BY DEF UpTo
<1>4. \A p \in before : UpTo(i, p) \subseteq before
  BY <1>1, <1>2 DEF UpTo
<1>5. \A p \in All(i) \ before : before \cup {p} \subseteq UpTo(i, p)
  BY <1>1, <1>2 DEF UpTo
<1>6. Matches(i) = {} => All(i) \subseteq before
  BY <1>1, <1>2 DEF Matches, All
<1>7. Capped(i) => Cardinality(before) = MAX_OCCURRENCES_PER_RULE
  BY <1>1 DEF Capped
<1>8. Cardinality(before) <= MAX_OCCURRENCES_PER_RULE
  BY <1>1
<1> HIDE DEF before
<1>9. IsFiniteSet(before) /\ Cardinality(before) \in Nat
  BY <1>3, RawType
<1>10. ASSUME NEW p \in before PROVE p \in LetIn(i)
  <2>1. UpTo(i, p) \subseteq before
    BY <1>4
  <2>2. Cardinality(UpTo(i, p)) <= Cardinality(before)
    BY ONLY <1>9, <2>1, FS_Subset
  <2>3. p \in All(i)
    BY <1>3
  <2>4. Cardinality(UpTo(i, p)) \in Nat
    BY <1>3, <2>3, RawType
  <2> QED
    BY <1>1, <1>8, <1>9, <2>2, <2>3, <2>4 DEF LetIn
<1>11. ASSUME NEW p \in LetIn(i), p \notin before PROVE FALSE
  <2>1. p \in All(i) /\ Cardinality(UpTo(i, p)) <= MAX_OCCURRENCES_PER_RULE
    BY DEF LetIn
  <2>2. Capped(i)
    BY <1>6, <1>11, <2>1
  <2>3. before \cup {p} \subseteq UpTo(i, p)
    BY <1>5, <1>11, <2>1
  <2>4. IsFiniteSet(UpTo(i, p)) /\ Cardinality(UpTo(i, p)) \in Nat
    BY <1>3, <2>1, RawType
  <2>5. Cardinality(before \cup {p}) = Cardinality(before) + 1
    BY <1>9, <1>11, FS_AddElement
  <2>6. Cardinality(before \cup {p}) <= Cardinality(UpTo(i, p))
    BY ONLY <2>3, <2>4, FS_Subset
  <2> QED
    BY <1>1, <1>7, <1>9, <2>1, <2>2, <2>4, <2>5, <2>6
<1>12. LetIn(i) \subseteq All(i)
  BY DEF LetIn
<1>13. before = LetIn(i)
  BY <1>10, <1>11
<1> QED
  BY <1>13 DEF before

(* KeptFor after a step, in terms of the rules as they were before it.      *)
LEMMA KeptAfter ==
    ASSUME job' = job, NEW i \in DOMAIN Rules
    PROVE  KeptFor(i)' <=>
             /\ Rules[i].kind = "literal" =>
                    best'[i] \in {NoHit, Hit(Rules[i], Raw(i, Rules[i].pattern))}
             /\ Rules[i].kind # "literal" /\ ~Due(i) => best'[i] = NoHit
             /\ Due(i) => /\ at' <= i => seen'[i] = Cardinality(Evaluated(i)')
                          /\ IsStrongest(i, best'[i], RawOf(i, Evaluated(i)'))
<1>1. /\ Rules' = Rules /\ (Due(i)' <=> Due(i))
      /\ \A a : Hit(Rules[i], a)' = Hit(Rules[i], a)
      /\ \A P : RawOf(i, P)' = RawOf(i, P)
      /\ Raw(i, Rules[i].pattern)' = Raw(i, Rules[i].pattern)
  BY SameText
<1>2. \A hit, raw : IsStrongest(i, hit, raw)' <=> IsStrongest(i, hit, raw)
  BY <1>1 DEF IsStrongest, NoHit
<1> QED
  BY <1>1, <1>2 DEF KeptFor, NoHit

(* A rule that a step leaves alone. *)
LEMMA KeptSame ==
    ASSUME job' = job, NEW i \in DOMAIN Rules, KeptFor(i),
           best'[i] = best[i], seen'[i] = seen[i], Evaluated(i)' = Evaluated(i),
           at' <= i => at <= i
    PROVE  KeptFor(i)'
BY KeptAfter DEF KeptFor

(* Every step keeps what the hits kept stand for. *)
LEMMA KeptStep ==
    ASSUME IInv, Kept, Turns, [Next]_vars
    PROVE  Kept' /\ Turns'
<1>1. job' = job
  BY DEF Next, vars, Load, ScanLiteral, EndLiterals, ScanRegex, NextRegex, Return
<1>2. /\ TypeOK /\ Rules' = Rules
      /\ \A i \in DOMAIN Rules : All(i)' = All(i) /\ LetIn(i)' = LetIn(i)
  BY <1>1, SameText, SameJob DEF IInv
<1>3. /\ Len(Rules) \in Nat /\ DOMAIN Rules = 1..Len(Rules) /\ at \in 1..Len(Rules) + 1
      /\ \A i \in DOMAIN Rules : All(i) \subseteq Nat \ {0}
  BY <1>2, RulesType, RawType DEF TypeOK
<1>4. SUFFICES ASSUME NEW i \in DOMAIN Rules
               PROVE  KeptFor(i)' /\ Turns'
  <2>1. Kept' <=> \A i \in DOMAIN Rules : KeptFor(i)'
    BY <1>2 DEF Kept
  <2>2. CASE DOMAIN Rules = {}
    <3>1. Turns'
      BY <1>2, <1>3, <2>2
         DEF Turns, Next, vars, Load, ScanLiteral, EndLiterals, ScanRegex, NextRegex, Return
    <3> QED
      BY <2>1, <2>2, <3>1
  <2> QED
    BY <1>4, <2>1, <2>2
<1>5. KeptFor(i) /\ i \in Nat /\ i >= 1
  BY <1>3 DEF Kept
<1>6. /\ All(i)' = All(i) /\ LetIn(i)' = LetIn(i) /\ All(i) \subseteq Nat \ {0}
  BY <1>2, <1>3
<1>7. CASE Load \/ Return \/ UNCHANGED vars
  <2>1. UNCHANGED <<pos, at, seen, best>> /\ Turns'
    BY <1>2, <1>7 DEF Turns, Load, Return, vars
  <2>2. Evaluated(i)' = Evaluated(i)
    BY <1>6, <1>7, <2>1 DEF Evaluated, Load, Return, vars
  <2> QED
    BY <1>1, <1>5, <2>1, <2>2, KeptSame
<1>8. CASE ScanLiteral
  <2>1. PICK m \in Found :
            IF rule_applies(Rules[m.rule]) /\ ~Capped(m.rule)
            THEN Consider(m.rule, SubSeq(job.text, m.first, m.last))
            ELSE UNCHANGED <<seen, best>>
    BY <1>8 DEF ScanLiteral
  <2>2. phase = "literals" /\ UNCHANGED <<phase, at>>
    BY <1>8 DEF ScanLiteral
  <2>3. /\ m.rule \in DOMAIN Rules /\ Rules[m.rule].kind = "literal"
        /\ SubSeq(job.text, m.first, m.last) = Rules[m.rule].pattern
    BY DEF Found, Occurs
  <2>4. Evaluated(i) = {} /\ Evaluated(i)' = {}
    BY <2>2 DEF Evaluated
  <2>5. Turns'
    BY <1>2, <2>2 DEF Turns
  <2>6. CASE i # m.rule
    <3>1. best'[i] = best[i] /\ seen'[i] = seen[i]
      BY <1>2, <2>1, <2>6 DEF Consider, TypeOK
    <3> QED
      BY <1>1, <1>5, <2>2, <2>4, <2>5, <3>1, KeptSame
  <2>7. CASE i = m.rule
    <3> DEFINE hit == evaluate_occurrence(Rules[i], Rules[i].pattern)
               whole == Hit(Rules[i], Raw(i, Rules[i].pattern))
    <3>1. best'[i] = best[i] \/ best'[i] = strongest(best[i], hit)
      BY <1>2, <2>1, <2>3, <2>7 DEF Consider, TypeOK
    <3>2. hit \in {NoHit, whole}
      BY DEF evaluate_occurrence, Raw
    <3>3. best[i] \in {NoHit, whole}
      BY <1>5, <2>3, <2>7 DEF KeptFor
    <3> HIDE DEF hit, whole
    <3>4. best'[i] \in {NoHit, whole}
      BY <3>1, <3>2, <3>3 DEF strongest
    <3>5. best'[i] \in {NoHit, Hit(Rules[i], Raw(i, Rules[i].pattern))}
      BY <3>4 DEF whole
    <3>6. ~Due(i)
      BY <2>3, <2>7 DEF Due
    <3> QED
      BY <1>1, <2>3, <2>5, <2>7, <3>5, <3>6, KeptAfter
  <2> QED
    BY <2>6, <2>7
<1>9. CASE EndLiterals
  <2>1. /\ phase = "literals" /\ phase' = "regexes" /\ pos' = 1
        /\ UNCHANGED <<at, seen, best>> /\ at = 1
    BY <1>9 DEF EndLiterals, Turns
  <2>2. Turns'
    BY <2>1 DEF Turns
  <2>3. Evaluated(i) = {}
    BY <2>1 DEF Evaluated
  <2>4. {p \in All(i) : p < 1} = {}
    BY <1>6
  <2>5. Evaluated(i)' = {}
    BY <1>5, <1>6, <2>1, <2>4 DEF Evaluated
  <2> QED
    BY <1>1, <1>5, <2>1, <2>2, <2>3, <2>5, KeptSame
<1>10. CASE ScanRegex
  <2>1. PICK p \in Matches(at) :
            /\ \A q \in Matches(at) : p <= q
            /\ pos' = p + 1 /\ Consider(at, <<job.text[p]>>)
    BY <1>10 DEF ScanRegex
  <2>2. /\ phase = "regexes" /\ UNCHANGED <<phase, at>>
        /\ at <= Len(Rules) /\ at \in DOMAIN Rules /\ Due(at)
    BY <1>3, <1>10 DEF ScanRegex, Searching, Due
  <2>3. Turns'
    BY <1>2, <2>2 DEF Turns
  <2>4. CASE i # at
    <3>1. best'[i] = best[i] /\ seen'[i] = seen[i]
      BY <1>2, <2>1, <2>4 DEF Consider, TypeOK
    <3>2. Evaluated(i)' = Evaluated(i)
      BY <1>6, <2>2, <2>4 DEF Evaluated
    <3> QED
      BY <1>1, <1>5, <2>2, <2>3, <3>1, <3>2, KeptSame
  <2>5. CASE i = at
    <3>1. Evaluated(i) = {q \in All(i) : q < pos}
      BY <1>5, <2>2, <2>5 DEF Evaluated
    <3>2. Evaluated(i)' = {q \in All(i) : q < p + 1}
      BY <1>5, <1>6, <2>1, <2>2, <2>5 DEF Evaluated
    <3>3. at <= i
      BY <1>5, <2>5
    <3>4. /\ seen[i] = Cardinality({q \in All(i) : q < pos})
          /\ IsStrongest(i, best[i], RawOf(i, {q \in All(i) : q < pos}))
      BY <1>5, <2>2, <2>5, <3>1, <3>3 DEF KeptFor
    <3>5. /\ Cardinality({q \in All(i) : q < p + 1}) = Cardinality({q \in All(i) : q < pos}) + 1
          /\ IsStrongest(i, strongest(best[i], evaluate_occurrence(Rules[i], <<job.text[p]>>)),
                         RawOf(i, {q \in All(i) : q < p + 1}))
      BY <1>2, <2>1, <2>5, <3>4, OneMore
    <3>6. /\ best'[i] = strongest(best[i], evaluate_occurrence(Rules[i], <<job.text[p]>>))
          /\ seen'[i] = seen[i] + 1
      BY <1>2, <2>1, <2>5 DEF Consider, TypeOK
    <3>7. seen'[i] = Cardinality(Evaluated(i)') /\ IsStrongest(i, best'[i], RawOf(i, Evaluated(i)'))
      BY <3>2, <3>4, <3>5, <3>6
    <3>8. Due(i) /\ Rules[i].kind # "literal"
      BY <2>2, <2>5 DEF Due
    <3> QED
      BY <1>1, <2>3, <3>7, <3>8, KeptAfter
  <2> QED
    BY <2>4, <2>5
<1>11. CASE NextRegex
  <2>1. /\ phase = "regexes" /\ phase' = "regexes" /\ at <= Len(Rules) /\ ~Searching
        /\ at' = at + 1 /\ pos' = 1 /\ UNCHANGED <<seen, best>> /\ at \in DOMAIN Rules
    BY <1>3, <1>11 DEF NextRegex
  <2>2. Turns'
    BY <2>1 DEF Turns
  <2>3. at' <= i => at <= i
    BY <1>3, <1>5, <2>1
  <2>4. CASE at # i
    <3>1. {p \in All(i) : p < 1} = {}
      BY <1>6
    <3>2. Evaluated(i)' = Evaluated(i)
      <4>1. CASE at < i
        <5>1. at' = i \/ at' < i
          BY <1>3, <1>5, <2>1, <4>1
        <5> QED
          BY <1>3, <1>5, <1>6, <2>1, <3>1, <4>1, <5>1 DEF Evaluated
      <4>2. CASE i < at
        <5>1. i < at'
          BY <1>3, <1>5, <2>1, <4>2
        <5> QED
          BY <1>3, <1>5, <1>6, <2>1, <4>2, <5>1 DEF Evaluated
      <4> QED
        BY <1>3, <1>5, <2>4, <4>1, <4>2
    <3> QED
      BY <1>1, <1>5, <2>1, <2>2, <2>3, <3>2, KeptSame
  <2>5. CASE at = i /\ Due(i)
    <3>1. Evaluated(i) = {q \in All(i) : q < pos}
      BY <1>5, <2>1, <2>5 DEF Evaluated
    <3>2. Evaluated(i)' = LetIn(i)
      BY <1>5, <1>6, <2>1, <2>5 DEF Evaluated
    <3>3. seen[i] = Cardinality({q \in All(i) : q < pos})
      BY <1>5, <2>5, <3>1 DEF KeptFor
    <3>4. Matches(i) = {} \/ Capped(i)
      BY <2>1, <2>5 DEF Searching, Due
    <3>5. Evaluated(i)' = Evaluated(i)
      BY <1>2, <3>1, <3>2, <3>3, <3>4, LeftWhenDone
    <3> QED
      BY <1>1, <1>5, <2>1, <2>2, <2>3, <3>5, KeptSame
  <2>6. CASE ~Due(i)
    BY <1>1, <1>5, <2>1, <2>2, <2>6, KeptAfter DEF KeptFor
  <2> QED
    BY <2>4, <2>5, <2>6
<1> QED
  BY <1>7, <1>8, <1>9, <1>10, <1>11 DEF Next

(* What is kept of every rule's occurrences is kept throughout. *)
THEOREM KeptThroughout == Spec => [](Kept /\ Turns)
<1>1. Init => Kept /\ Turns
  <2> SUFFICES ASSUME Init PROVE Kept /\ Turns
    OBVIOUS
  <2>1. Turns
    BY DEF Init, Turns
  <2>2. ASSUME NEW i \in DOMAIN Rules PROVE KeptFor(i)
    <3>1. best[i] = NoHit /\ seen[i] = 0
      BY DEF Init
    <3>2. Evaluated(i) = {}
      BY DEF Init, Evaluated
    <3>3. RawOf(i, {}) = {} /\ Cardinality({}) = 0
      BY FS_EmptySet DEF RawOf
    <3> QED
      BY <3>1, <3>2, <3>3 DEF KeptFor, IsStrongest
  <2> QED
    BY <2>1, <2>2 DEF Kept
<1>2. IInv /\ Kept /\ Turns /\ [Next]_vars => Kept' /\ Turns'
  BY KeptStep
<1> QED
  BY <1>1, <1>2, Invariance, PTL DEF Spec

(* The raw actions of a regex rule are those of the occurrences let in. *)
LEMMA JudgedIsLetIn ==
    ASSUME NEW i \in DOMAIN Rules, Rules[i].kind = "regex"
    PROVE  /\ RawActions(i) = RawOf(i, LetIn(i))
           /\ Judged(i) = {} <=> RawOf(i, LetIn(i)) = {}
<1>1. All(i) = {p \in DOMAIN job.text : job.text[p] \in Rules[i].shapes}
  BY DEF All
<1>2. LetIn(i) = {p \in All(i) : Cardinality({q \in All(i) : q <= p}) <= MAX_OCCURRENCES_PER_RULE}
  BY DEF LetIn, UpTo
<1>3. Judged(i) = {<<job.text[p]>> : p \in {q \in LetIn(i) : ~Exempted(Rules[i], <<job.text[q]>>)}}
  BY <1>1, <1>2 DEF Judged
<1>4. RawActions(i) = {Raw(i, span) : span \in Judged(i)}
  BY DEF RawActions, Raw
<1> QED
  BY <1>3, <1>4 DEF RawOf

(* A hit that is reported is that of its rule's strongest raw action. *)
LEMMA HitReported ==
    ASSUME IInv, Kept, Turns, phase = "done", NEW i \in DOMAIN Rules
    PROVE  /\ Due(i) => best[i] = IF Judged(i) = {} THEN NoHit ELSE Hit(Rules[i], StrongestRaw(i))
           /\ best[i] # NoHit =>
                 StrongestRaw(i) \in Action /\ best[i] = Hit(Rules[i], StrongestRaw(i))
<1>1. TypeOK /\ KeptFor(i)
  BY DEF IInv, Kept
<1>2. ASSUME NEW a \in RawActions(i), a \in Action, RawActions(i) \subseteq Action,
             \A b \in RawActions(i) : b <= a
      PROVE  StrongestRaw(i) = a
  <2> DEFINE top == CHOOSE c \in RawActions(i) : \A b \in RawActions(i) : b <= c
  <2>1. top \in RawActions(i) /\ \A b \in RawActions(i) : b <= top
    BY <1>2
  <2> HIDE DEF top
  <2>2. top = a
    BY <1>2, <2>1 DEF Action
  <2> QED
    BY <2>2 DEF StrongestRaw, top
<1>3. CASE Due(i)
  <2>1. at > i
    BY <1>1, RulesType DEF Turns, TypeOK
  <2>2. Evaluated(i) = LetIn(i)
    BY <1>1, <2>1, RulesType DEF Evaluated, TypeOK
  <2>3. IsStrongest(i, best[i], RawOf(i, LetIn(i)))
    BY <1>1, <1>3, <2>2 DEF KeptFor
  <2>4. /\ RawActions(i) = RawOf(i, LetIn(i)) /\ (Judged(i) = {} <=> RawActions(i) = {})
        /\ RawActions(i) \subseteq Action
    BY <1>1, <1>3, JudgedIsLetIn, RawType DEF Due
  <2>5. \/ RawActions(i) = {} /\ best[i] = NoHit
        \/ \E a \in RawActions(i) : (\A b \in RawActions(i) : b <= a) /\ best[i] = Hit(Rules[i], a)
    BY <2>3, <2>4 DEF IsStrongest
  <2>6. RawActions(i) # {} => StrongestRaw(i) \in Action /\ best[i] = Hit(Rules[i], StrongestRaw(i))
    BY <1>2, <2>4, <2>5
  <2> QED
    BY <2>4, <2>5, <2>6
<1>4. CASE ~Due(i) /\ best[i] # NoHit
  <2>1. Rules[i].kind = "literal" /\ best[i] = Hit(Rules[i], Raw(i, Rules[i].pattern))
    BY <1>1, <1>4 DEF KeptFor
  <2>2. RawActions(i) = {Raw(i, Rules[i].pattern)}
    BY <2>1 DEF RawActions, Raw
  <2>3. Raw(i, Rules[i].pattern) \in Action
    BY <1>1, RawType
  <2>4. Raw(i, Rules[i].pattern) <= Raw(i, Rules[i].pattern)
    BY <2>3 DEF Action
  <2>5. StrongestRaw(i) = Raw(i, Rules[i].pattern)
    BY <1>2, <2>2, <2>3, <2>4
  <2> QED
    BY <1>4, <2>1, <2>3, <2>5
<1> QED
  BY <1>3, <1>4

(* What scan() reports of a regex rule is decided by its first occurrences,   *)
(* as many as the limit lets in, whatever order they stand in: the hit is that *)
(* of the strongest one that is not exempted.                                *)
THEOREM StrongestCounts == Spec => []StrongestOccurrenceCounts
<1>1. IInv /\ Kept /\ Turns => StrongestOccurrenceCounts
  BY HitReported DEF StrongestOccurrenceCounts, Due
<1> QED
  BY <1>1, Invariance, KeptThroughout, PTL

(* The verdict grows with the hits: with more or stronger poison and elevate *)
(* hits, and with more hits and categories of medium severity.               *)
LEMMA VerdictGrows ==
    ASSUME NEW weak, NEW strong, NEW current,
           HasPoison(weak) => HasPoison(strong),
           HasElevate(weak) => HasElevate(strong) \/ HasPoison(strong),
           IsFiniteSet(medium_or_above(strong)),
           IsFiniteSet(medium_categories(strong)),
           medium_categories(weak) \subseteq medium_categories(strong),
           Cardinality(medium_or_above(weak)) \in Nat,
           Cardinality(medium_or_above(weak)) <= Cardinality(medium_or_above(strong))
    PROVE  state_from_rule_hits(weak, current) <= state_from_rule_hits(strong, current)
<1>1. /\ Cardinality(medium_categories(weak)) \in Nat
      /\ Cardinality(medium_categories(strong)) \in Nat
      /\ Cardinality(medium_or_above(strong)) \in Nat
      /\ Cardinality(medium_categories(weak)) <= Cardinality(medium_categories(strong))
  <2>1. IsFiniteSet(medium_categories(weak))
    BY FS_Subset
  <2>2. Cardinality(medium_categories(weak)) <= Cardinality(medium_categories(strong))
    BY FS_Subset
  <2> QED
    BY <2>1, <2>2, FS_CardinalityType
<1>2. Synthesized(weak) => Synthesized(strong)
  BY <1>1, SynthesisAssumption DEF Synthesized
<1>3. Heuristic(weak) => Heuristic(strong) \/ HasPoison(strong)
  BY <1>2 DEF Heuristic
<1> QED
  BY <1>3 DEF state_from_rule_hits, Clean, Contaminated, Poisoned

(* The unsuppressed hit of rule i. *)
UnsuppressedHit(i) ==
    [best[i] EXCEPT !.action = StrongestRaw(i), !.severity = Rules[i].severity]

Reporting == {i \in DOMAIN Rules : best[i] # NoHit}

(* A suppression leaves a hit its rule's id and category, and raises neither *)
(* its action nor its severity.                                              *)
LEMMA HitEases ==
    ASSUME IInv, Kept, Turns, phase = "done", NEW i \in Reporting
    PROVE  /\ best[i].id = Rules[i].id /\ UnsuppressedHit(i).id = Rules[i].id
           /\ best[i].category = UnsuppressedHit(i).category
           /\ best[i].action \in Action /\ UnsuppressedHit(i).action \in Action
           /\ best[i].action <= UnsuppressedHit(i).action
           /\ best[i].severity \in Severity /\ UnsuppressedHit(i).severity \in Severity
           /\ best[i].severity <= UnsuppressedHit(i).severity
<1>1. i \in DOMAIN Rules /\ best[i] # NoHit /\ TypeOK
  BY DEF Reporting, IInv
<1>2. StrongestRaw(i) \in Action /\ best[i] = Hit(Rules[i], StrongestRaw(i))
  BY <1>1, HitReported
<1>3. Rules[i].severity \in Severity
  BY <1>1, RulesType DEF Rule
<1>4. /\ best[i].id = Rules[i].id /\ best[i].category = Rules[i].category
      /\ best[i].action \in Action /\ best[i].action <= StrongestRaw(i)
      /\ best[i].severity \in Severity /\ best[i].severity <= Rules[i].severity
  BY <1>1, <1>2, HitGrows
<1>5. \E id, category, severity, action, from :
          best[i] = [id |-> id, category |-> category, severity |-> severity,
                     action |-> action, suppressed_from |-> from]
  BY <1>2 DEF Hit
<1>6. /\ UnsuppressedHit(i).id = best[i].id
      /\ UnsuppressedHit(i).category = best[i].category
      /\ UnsuppressedHit(i).action = StrongestRaw(i)
      /\ UnsuppressedHit(i).severity = Rules[i].severity
  BY <1>5 DEF UnsuppressedHit
<1> QED
  BY <1>2, <1>3, <1>4, <1>6

(* Whatever the operator's suppressions, the session's state and the rules:  *)
(* the response's verdict is no graver than without the suppressions.        *)
THEOREM SuppressionEases == Spec => []SuppressionOnlyEases
<1>1. ASSUME IInv, Kept, Turns, phase = "done", NEW current \in ProvenanceState
      PROVE  state_from_rule_hits(Hits, current) <= state_from_rule_hits(Unsuppressed, current)
  <2> DEFINE u(i) == UnsuppressedHit(i)
             mild  == medium_or_above(Hits)
             grave == medium_or_above(Unsuppressed)
  <2>1. Hits = {best[i] : i \in Reporting} /\ Unsuppressed = {u(i) : i \in Reporting}
    BY DEF Hits, Unsuppressed, Reporting, UnsuppressedHit
  <2>2. \A i \in Reporting :
           /\ best[i].id = Rules[i].id /\ u(i).id = Rules[i].id
           /\ best[i].category = u(i).category
           /\ best[i].action \in Action /\ u(i).action \in Action
           /\ best[i].action <= u(i).action
           /\ best[i].severity \in Severity /\ u(i).severity \in Severity
           /\ best[i].severity <= u(i).severity
    BY <1>1, HitEases
  <2>3. \A i, j \in Reporting : Rules[i].id = Rules[j].id => i = j
    BY <1>1 DEF Reporting, IInv, LoadedIsClean, DuplicateId
  <2>4. IsFiniteSet(Reporting)
    <3>1. IsFiniteSet(DOMAIN Rules)
      BY <1>1, RulesType, FS_Interval DEF IInv
    <3>2. Reporting \subseteq DOMAIN Rules
      BY DEF Reporting
    <3> QED
      BY <3>1, <3>2, FS_Subset
  <2> HIDE DEF u
  <2>5. HasPoison(Hits) => HasPoison(Unsuppressed)
    BY <2>1, <2>2 DEF HasPoison, Action, PoisonAction
  <2>6. HasElevate(Hits) => HasElevate(Unsuppressed) \/ HasPoison(Unsuppressed)
    BY <2>1, <2>2 DEF HasElevate, HasPoison, Action, PoisonAction, ElevateAction
  <2>7. \A i \in Reporting : best[i] \in mild => u(i) \in grave
    BY <2>1, <2>2 DEF medium_or_above, Severity, SeverityMedium
  <2>8. mild \subseteq Hits /\ grave \subseteq Unsuppressed
    BY DEF medium_or_above
  <2>9. medium_categories(Hits) = {h.category : h \in mild}
        /\ medium_categories(Unsuppressed) = {h.category : h \in grave}
    BY DEF medium_categories
  <2>10. IsFiniteSet(Unsuppressed)
    <3> DEFINE f == [i \in Reporting |-> u(i)]
    <3>1. f \in Surjection(Reporting, Unsuppressed)
      BY <2>1 DEF Surjection
    <3> QED
      BY <2>4, <3>1, FS_Surjection
  <2> HIDE DEF mild, grave
  <2>11. IsFiniteSet(grave)
    BY <2>8, <2>10, FS_Subset
  <2>12. IsFiniteSet(medium_categories(Unsuppressed))
    <3> DEFINE f == [h \in grave |-> h.category]
    <3>1. f \in Surjection(grave, medium_categories(Unsuppressed))
      BY <2>9 DEF Surjection
    <3> QED
      BY <2>11, <3>1, FS_Surjection
  <2>13. medium_categories(Hits) \subseteq medium_categories(Unsuppressed)
    <3> SUFFICES ASSUME NEW h \in mild PROVE h.category \in medium_categories(Unsuppressed)
      BY <2>9
    <3>1. PICK i \in Reporting : h = best[i]
      BY <2>1, <2>8
    <3> QED
      BY <2>2, <2>7, <2>9, <3>1
  <2>14. IsFiniteSet(mild) /\ Cardinality(mild) <= Cardinality(grave)
    <3> DEFINE of(h) == CHOOSE i \in Reporting : best[i] = h
               f == [h \in mild |-> u(of(h))]
    <3>1. \A h \in mild : of(h) \in Reporting /\ best[of(h)] = h
      BY <2>1, <2>8
    <3> HIDE DEF of
    <3>2. f \in [mild -> grave]
      BY <2>7, <3>1
    <3>3. ASSUME NEW g \in mild, NEW h \in mild, f[g] = f[h] PROVE g = h
      <4>1. u(of(g)) = u(of(h))
        BY <3>3
      <4>2. of(g) = of(h)
        BY <2>2, <2>3, <3>1, <4>1
      <4> QED
        BY <3>1, <4>2
    <3>4. f \in Injection(mild, grave)
      BY <3>2, <3>3 DEF Injection, IsInjective
    <3> QED
      BY <2>11, <3>4, FS_Injection
  <2>15. Cardinality(mild) \in Nat
    BY <2>14, FS_CardinalityType
  <2> QED
    BY <2>5, <2>6, <2>11, <2>12, <2>13, <2>14, <2>15, VerdictGrows DEF mild, grave
<1>2. IInv /\ Kept /\ Turns => SuppressionOnlyEases
  BY <1>1 DEF SuppressionOnlyEases
<1> QED
  BY <1>2, Invariance, KeptThroughout, PTL

=============================================================================
