------------------------------- MODULE RuleEngine -------------------------------
(***************************************************************************)
(* The RuleEngine of rules_engine.rs: load() of the locked rules with an   *)
(* operator's file, then one scan() of a text, occurrence by occurrence.   *)
(*                                                                         *)
(* A text is what normalize_for_matching leaves, in lower case, as a       *)
(* sequence of units.  A literal is a sequence of units; a regex matches   *)
(* single units, those in its shapes.  A span holds a listed placeholder,  *)
(* or is of high entropy, when one of its units is.                        *)
(***************************************************************************)
EXTENDS ProvenanceFsm, Sequences

CONSTANTS
    Units,          \* what texts are made of
    Random,         \* units that give a span an entropy over every entropy_gt
    Locked,         \* locked-rules.yaml
    UserFiles,      \* contents user-rules.yaml may have; an absent file is empty
    Texts,          \* texts that are scanned
    RuleServers,    \* mcp_server_id a text comes from
    AnyServer,      \* a suppression with no server_id
    MAX_OCCURRENCES_PER_RULE   \* 256 in the source

Critical == 3
Kind     == {"literal", "regex", "regex that does not compile"}
Scope    == {"ToolOutputOnly", "ToolDescription", "Any"}

(* A rule with no escalate_if escalates to the action it has anyway.        *)
Rule == [id : STRING, category : STRING, severity : Severity, kind : Kind,
         pattern : Seq(Units), shapes : SUBSET Units, scope : Scope,
         action : Action, escalated : Action, exempt : SUBSET Units]

Suppression == [rule_id : STRING, server_id : RuleServers \cup {AnyServer}, floor : Action]

RulesFile == [rules : Seq(Rule), suppressions : Seq(Suppression)]

ASSUME RulesAssumption ==
    /\ Locked \in RulesFile /\ UserFiles \subseteq RulesFile
    /\ \A file \in UserFiles \cup {Locked} : \A i \in DOMAIN file.rules :
           file.rules[i].kind = "literal" => file.rules[i].pattern # <<>>
    /\ Texts \subseteq Seq(Units)
    /\ AnyServer \notin RuleServers
    /\ MAX_OCCURRENCES_PER_RULE \in Nat \ {0}

VARIABLES
    job,     \* [user, text, scope, server]: the operator's file, and one scan
    phase,   \* "load", "refused", "literals", "regexes", "done"
    pos,     \* where the search goes on
    at,      \* the regex rule at hand
    seen,    \* seen[i]: occurrences of rule i evaluated
    best,    \* best[i]: the strongest hit of rule i so far, or NoHit
    taken    \* history: the automaton's matches, [rule, first, last]

vars == <<job, phase, pos, at, seen, best, taken>>

Rules        == Locked.rules \o job.user.rules
Suppressions == Locked.suppressions \o job.user.suppressions

NotSuppressed == -1
NoHit == [id |-> "", category |-> "", severity |-> -1, action |-> -1,
          suppressed_from |-> NotSuppressed]

Init ==
    /\ job \in [user : UserFiles, text : Texts, scope : {"ToolOutputOnly", "ToolDescription"},
                server : RuleServers]
    /\ phase = "load" /\ pos = 1 /\ at = 1
    /\ seen = [i \in DOMAIN Rules |-> 0] /\ best = [i \in DOMAIN Rules |-> NoHit]
    /\ taken = {}

-----------------------------------------------------------------------------
Named(id) == {i \in DOMAIN Rules : Rules[i].id = id}

(* severity_by_id is a map: of two rules with one id the later one counts. *)
SeverityOf(id) == Rules[CHOOSE i \in Named(id) : \A j \in Named(id) : j <= i].severity

(* The mutant checks the ids of the two files apart.                        *)
DuplicateId_per_file ==
    \E file \in {Locked, job.user} : \E i, j \in DOMAIN file.rules :
        i # j /\ file.rules[i].id = file.rules[j].id

DuplicateId == \E i, j \in DOMAIN Rules : i # j /\ Rules[i].id = Rules[j].id

ForbiddenSuppression ==
    \E k \in DOMAIN Suppressions :
        \/ Named(Suppressions[k].rule_id) = {}
        \/ SeverityOf(Suppressions[k].rule_id) = Critical

Uncompilable == \E i \in DOMAIN Rules : Rules[i].kind = "regex that does not compile"

Load ==
    /\ phase = "load"
    /\ phase' = IF DuplicateId \/ ForbiddenSuppression \/ Uncompilable
                THEN "refused" ELSE "literals"
    /\ UNCHANGED <<job, pos, at, seen, best, taken>>

-----------------------------------------------------------------------------
rule_applies(rule) == rule.scope \in {"Any", job.scope}

Exempted(rule, span) == \E k \in DOMAIN span : span[k] \in rule.exempt

EffectiveAction(rule, span) ==
    IF \E k \in DOMAIN span : span[k] \in Random THEN rule.escalated ELSE rule.action

(* The mutant takes the floor for one that actions are raised to.           *)
weaker_action_raises(original, floor) == IF original >= floor THEN original ELSE floor

weaker_action(original, floor) == IF original <= floor THEN original ELSE floor

downgrade_severity(s) == IF s = 0 THEN 0 ELSE s - 1

(* The first suppression that names the rule and covers the server.         *)
Applicable(id) == {k \in DOMAIN Suppressions :
                      /\ Suppressions[k].rule_id = id
                      /\ Suppressions[k].server_id \in {AnyServer, job.server}}

Floor(id) == Suppressions[CHOOSE k \in Applicable(id) : \A l \in Applicable(id) : k <= l].floor

Hit(rule, action) ==
    IF Applicable(rule.id) = {}
    THEN [id |-> rule.id, category |-> rule.category, severity |-> rule.severity,
          action |-> action, suppressed_from |-> NotSuppressed]
    ELSE [id |-> rule.id, category |-> rule.category,
          severity |-> downgrade_severity(rule.severity),
          action |-> weaker_action(action, Floor(rule.id)),
          suppressed_from |-> rule.severity]

(* None, when the span is exempted. *)
evaluate_occurrence(rule, span) ==
    IF Exempted(rule, span) THEN NoHit ELSE Hit(rule, EffectiveAction(rule, span))

(* An exempted occurrence is no candidate.  The mutant keeps the latest.    *)
strongest_latest(current, candidate) == IF candidate = NoHit THEN current ELSE candidate

strongest(current, candidate) ==
    IF candidate = NoHit THEN current
    ELSE IF \/ current = NoHit
            \/ candidate.action > current.action
            \/ candidate.action = current.action /\ candidate.severity > current.severity
         THEN candidate ELSE current

(* Mutants: lets one occurrence too many in; counts all rules together.     *)
Capped_late(i) == seen[i] > MAX_OCCURRENCES_PER_RULE

Capped_all(i) == \E j \in DOMAIN Rules : seen[j] >= MAX_OCCURRENCES_PER_RULE

Capped(i) == seen[i] >= MAX_OCCURRENCES_PER_RULE

Consider(i, span) ==
    /\ seen' = [seen EXCEPT ![i] = @ + 1]
    /\ best' = [best EXCEPT ![i] = strongest(@, evaluate_occurrence(Rules[i], span))]

-----------------------------------------------------------------------------
(* One automaton for the literals of all rules, of every scope.  Its search *)
(* reports the match that ends first, of those the longest, and goes on     *)
(* after its end.                                                           *)
Occurs(i, first, last) ==
    /\ Rules[i].kind = "literal"
    /\ SubSeq(job.text, first, last) = Rules[i].pattern

Found ==
    {m \in [rule : DOMAIN Rules, first : pos..Len(job.text), last : pos..Len(job.text)] :
        m.first <= m.last /\ Occurs(m.rule, m.first, m.last)}

Reported(m) ==
    \A n \in Found :
        \/ m.last < n.last
        \/ m.last = n.last /\ m.first < n.first
        \/ m.last = n.last /\ m.first = n.first /\ m.rule <= n.rule

ScanLiteral ==
    /\ phase = "literals"
    /\ \E m \in Found :
         /\ Reported(m)
         /\ pos' = m.last + 1
         /\ taken' = taken \cup {m}
         /\ IF rule_applies(Rules[m.rule]) /\ ~Capped(m.rule)
            THEN Consider(m.rule, SubSeq(job.text, m.first, m.last))
            ELSE UNCHANGED <<seen, best>>
    /\ UNCHANGED <<job, phase, at>>

EndLiterals ==
    /\ phase = "literals" /\ Found = {}
    /\ phase' = "regexes" /\ pos' = 1
    /\ UNCHANGED <<job, at, seen, best, taken>>

(* The regexes one by one: find_iter, up to the limit. *)
Matches(i) == {p \in pos..Len(job.text) : job.text[p] \in Rules[i].shapes}

Searching ==
    /\ Rules[at].kind = "regex" /\ rule_applies(Rules[at])
    /\ Matches(at) # {} /\ ~Capped(at)

ScanRegex ==
    /\ phase = "regexes" /\ at <= Len(Rules) /\ Searching
    /\ \E p \in Matches(at) :
         /\ \A q \in Matches(at) : p <= q
         /\ pos' = p + 1
         /\ Consider(at, <<job.text[p]>>)
    /\ UNCHANGED <<job, phase, at, taken>>

NextRegex ==
    /\ phase = "regexes" /\ at <= Len(Rules) /\ ~Searching
    /\ at' = at + 1 /\ pos' = 1
    /\ UNCHANGED <<job, phase, seen, best, taken>>

Return ==
    /\ phase = "regexes" /\ at > Len(Rules)
    /\ phase' = "done"
    /\ UNCHANGED <<job, pos, at, seen, best, taken>>

Next == Load \/ ScanLiteral \/ EndLiterals \/ ScanRegex \/ NextRegex \/ Return

Spec == Init /\ [][Next]_vars

-----------------------------------------------------------------------------
(* Type correctness; the occurrences of a rule that are evaluated stay      *)
(* within MAX_OCCURRENCES_PER_RULE, which bounds the work of one scan().     *)
TypeOK ==
    /\ job.user \in UserFiles /\ job.text \in Texts /\ job.server \in RuleServers
    /\ job.scope \in {"ToolOutputOnly", "ToolDescription"}
    /\ phase \in {"load", "refused", "literals", "regexes", "done"}
    /\ pos \in 1..Len(job.text) + 1 /\ at \in 1..Len(Rules) + 1
    /\ seen \in [DOMAIN Rules -> 0..MAX_OCCURRENCES_PER_RULE]
    /\ DOMAIN best = DOMAIN Rules
    /\ \A i \in DOMAIN Rules : best[i] # NoHit => best[i].id = Rules[i].id
    /\ taken \subseteq [rule : DOMAIN Rules, first : Nat, last : Nat]

(* A hit of a Critical rule always keeps its severity and carries no        *)
(* suppression: the two checks of load() together make the arm that         *)
(* downgrade_severity calls unreachable really so, for any operator's file. *)
CriticalIsNeverSuppressed ==
    \A i \in DOMAIN Rules :
        best[i] # NoHit /\ Rules[i].severity = Critical =>
            /\ best[i].suppressed_from = NotSuppressed
            /\ best[i].severity = Critical

(* The spans a regex rule is to be judged by: its first                     *)
(* MAX_OCCURRENCES_PER_RULE matches less the exempted ones.                 *)
Judged(i) ==
    LET all   == {p \in DOMAIN job.text : job.text[p] \in Rules[i].shapes}
        first == {p \in all : Cardinality({q \in all : q <= p}) <= MAX_OCCURRENCES_PER_RULE}
    IN  {<<job.text[p]>> : p \in {q \in first : ~Exempted(Rules[i], <<job.text[q]>>)}}

RawActions(i) ==
    {EffectiveAction(Rules[i], span) :
        span \in IF Rules[i].kind = "regex" THEN Judged(i) ELSE {Rules[i].pattern}}

StrongestRaw(i) == CHOOSE a \in RawActions(i) : \A b \in RawActions(i) : b <= a

(* What scan() reports of a regex rule is decided by all of its first       *)
(* occurrences, in whatever order they stand: there is a hit when one of    *)
(* them is not exempted, and its action is that of the strongest of those,  *)
(* lowered by the suppression.                                              *)
StrongestOccurrenceCounts ==
    phase = "done" =>
        \A i \in DOMAIN Rules :
            Rules[i].kind = "regex" /\ rule_applies(Rules[i]) =>
                best[i] = IF Judged(i) = {} THEN NoHit ELSE Hit(Rules[i], StrongestRaw(i))

Hits         == {best[i] : i \in DOMAIN Rules} \ {NoHit}
Unsuppressed == {[best[i] EXCEPT !.action = StrongestRaw(i), !.severity = Rules[i].severity] :
                    i \in {j \in DOMAIN Rules : best[j] # NoHit}}

(* An operator's suppressions only ever ease the verdict: whatever the      *)
(* state of the session, state_from_rule_hits never makes more of the hits  *)
(* than of the same hits without the suppressions.                          *)
SuppressionOnlyEases ==
    phase = "done" =>
        \A current \in ProvenanceState :
            state_from_rule_hits(Hits, current) <= state_from_rule_hits(Unsuppressed, current)

LiteralOccurrences(i) ==
    {m \in [rule : {i}, first : DOMAIN job.text, last : DOMAIN job.text] :
        m.first <= m.last /\ Occurs(i, m.first, m.last)}

DueLiterals ==
    {i \in DOMAIN Rules : /\ Rules[i].kind = "literal" /\ rule_applies(Rules[i])
                          /\ ~Exempted(Rules[i], Rules[i].pattern)}

(* A literal that stands in the text and has no hit is hidden by a match of *)
(* another rule that overlaps it: neither the limit on occurrences nor the  *)
(* scope of other rules ever loses one.                                     *)
MissesAreMasked ==
    phase = "done" =>
        \A i \in DueLiterals : best[i] = NoHit =>
            \A m \in LiteralOccurrences(i) :
                \E n \in taken : n.rule # i /\ n.first <= m.last /\ m.first <= n.last

(* The comment in scan(): "The Aho-Corasick automaton finds every           *)
(* occurrence of every literal pattern in a single pass".  A rule in scope  *)
(* whose literal stands in the text has a hit.                              *)
EveryLiteralFound ==
    phase = "done" =>
        \A i \in DueLiterals : LiteralOccurrences(i) # {} => best[i] # NoHit
=============================================================================
