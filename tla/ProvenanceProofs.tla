---------------------------- MODULE ProvenanceProofs ----------------------------
(***************************************************************************)
(* Theorems about Provenance, for every set of servers, payloads and hits  *)
(* and every pair of decay thresholds.                                     *)
(*                                                                         *)
(* The inductive invariant relates the streak of clean calls, which the    *)
(* tracker keeps, to the responses the history saw: the streak never       *)
(* counts more calls than were calm, nor more than were in a row no worse  *)
(* than the tier the session would heal to.                                *)
(***************************************************************************)
EXTENDS Provenance, SequenceTheorems, FiniteSetTheorems, WellFoundedInduction, TLAPS

HistOK ==
    /\ hist = [run |-> hist.run, calm |-> hist.calm, strikes |-> hist.strikes,
               breach |-> hist.breach, culprit |-> hist.culprit, beat |-> hist.beat]
    /\ hist.run \in [{Clean, Elevated} -> Nat]
    /\ hist.calm \in 0..FullRecovery
    /\ hist.strikes \in 0..2
    /\ hist.breach \in BOOLEAN

TrackerRecord ==
    tracker = [current_state |-> tracker.current_state, clean_calls |-> tracker.clean_calls,
               poisoner |-> tracker.poisoner, rule_ids |-> tracker.rule_ids]

(* The streak counts only calls that were in a row good enough for its tier. *)
StreakObserved ==
    tracker.current_state \in {Elevated, Contaminated} =>
        tracker.clean_calls <= hist.run[tracker.current_state - 1]

IInv ==
    /\ TypeOK
    /\ TrackerRecord
    /\ HistOK
    /\ RecoveryIsPaidFor
    /\ StreakObserved
    /\ PoisonIsCorroborated
    /\ BlameIsRight

-----------------------------------------------------------------------------
(* The verdicts are provenance states. *)
LEMMA StructuralType ==
    ASSUME NEW g, NEW f, NEW c, NEW b, NEW l
    PROVE  compute_new_state(g, f, c, b, l) \in {Clean, Elevated, Poisoned}
  BY DEF compute_new_state, Clean, Elevated, Poisoned

\* state_from_rule_hits never answers Elevated: rule hits clean, contaminate or poison.
LEMMA HitStateType ==
    ASSUME NEW hits, NEW current \in ProvenanceState
    PROVE  state_from_rule_hits(hits, current) \in {Clean, Contaminated, Poisoned}
  BY DEF state_from_rule_hits, Clean, Contaminated, Poisoned

(* Adding a hit never lowers the state the hits justify: every clause of    *)
(* state_from_rule_hits is a membership or a count, and both only grow.     *)
THEOREM EvidenceIsMonotonic ==
    ASSUME NEW hits, NEW more, IsFiniteSet(more), hits \subseteq more,
           NEW current \in ProvenanceState
    PROVE  state_from_rule_hits(hits, current) <= state_from_rule_hits(more, current)
<1>1. HasPoison(hits) => HasPoison(more)
  BY DEF HasPoison
<1>2. HasElevate(hits) => HasElevate(more)
  BY DEF HasElevate
<1>3. medium_or_above(hits) \subseteq medium_or_above(more)
  BY DEF medium_or_above
<1>4. medium_categories(hits) \subseteq medium_categories(more)
  BY <1>3 DEF medium_categories
<1>5. IsFiniteSet(medium_or_above(more))
  BY FS_Subset DEF medium_or_above
<1>6. IsFiniteSet(medium_categories(more))
  <2> DEFINE category == [h \in medium_or_above(more) |-> h.category]
  <2>1. category \in Surjection(medium_or_above(more), medium_categories(more))
    BY DEF Surjection, medium_categories
  <2> HIDE DEF category
  <2> QED
    BY <1>5, <2>1, FS_Surjection
<1>7. /\ Cardinality(medium_or_above(hits)) \in Nat
      /\ Cardinality(medium_or_above(more)) \in Nat
      /\ Cardinality(medium_or_above(hits)) <= Cardinality(medium_or_above(more))
  BY <1>3, <1>5, FS_Subset, FS_CardinalityType
<1>8. /\ Cardinality(medium_categories(hits)) \in Nat
      /\ Cardinality(medium_categories(more)) \in Nat
      /\ Cardinality(medium_categories(hits)) <= Cardinality(medium_categories(more))
  BY <1>4, <1>6, FS_Subset, FS_CardinalityType
<1>9. Synthesized(hits) => Synthesized(more)
  BY <1>7, <1>8, SynthesisAssumption DEF Synthesized
<1>10. Heuristic(hits) => Heuristic(more)
  BY <1>2, <1>9 DEF Heuristic
<1> QED
  BY <1>1, <1>10 DEF state_from_rule_hits, ProvenanceState, Clean, Contaminated, Poisoned

-----------------------------------------------------------------------------
(* Induction, on a set of numbers: a least one outside it would follow one   *)
(* that is inside.                                                           *)
LEMMA Induction ==
    ASSUME NEW T, 0 \in T, \A n \in Nat : n \in T => n + 1 \in T
    PROVE  Nat \subseteq T
<1> SUFFICES ASSUME Nat \ T # {} PROVE FALSE
  OBVIOUS
<1>1. PICK m \in Nat \ T : \A k \in Nat \ T : ~(<<k, m>> \in OpToRel(<, Nat))
  <2>1. Nat \ T \subseteq Nat
    OBVIOUS
  <2> QED
    BY <2>1, NatLessThanWellFounded, WFMin
<1>2. \A k \in Nat \ T : ~(k < m)
  BY <1>1 DEF OpToRel
<1>3. m # 0 /\ m - 1 \in Nat /\ m - 1 \notin Nat \ T
  BY <1>2
<1>4. m - 1 \in T /\ (m - 1) + 1 = m
  BY <1>3
<1> QED
  BY <1>3, <1>4

(* A recursion over the numbers up to some bound, one step from each to the  *)
(* next, has a solution.                                                     *)
Iterates(f, n, S, base, step) ==
    /\ f \in [0..n -> S] /\ f[0] = base
    /\ \A i \in 0..(n - 1) : f[i + 1] = step[i][f[i]]

LEMMA Iterate ==
    ASSUME NEW n \in Nat, NEW S, NEW base \in S, NEW step \in [Nat -> [S -> S]]
    PROVE  \E f : Iterates(f, n, S, base, step)
<1> DEFINE Sol(k, f) == f[0] = base /\ \A i \in 0..(k - 1) : f[i + 1] = step[i][f[i]]
           T == {k \in Nat : \E f \in [0..k -> S] : Sol(k, f)}
<1>1. 0 \in T
  <2>1. [i \in 0..0 |-> base] \in [0..0 -> S] /\ Sol(0, [i \in 0..0 |-> base])
    OBVIOUS
  <2> QED
    BY <2>1
<1>2. ASSUME NEW k \in Nat, k \in T PROVE k + 1 \in T
  <2>1. PICK f \in [0..k -> S] : Sol(k, f)
    BY <1>2
  <2> DEFINE g == [i \in 0..(k + 1) |-> IF i <= k THEN f[i] ELSE step[k][f[k]]]
  <2>2. step[k][f[k]] \in S
    OBVIOUS
  <2>3. g \in [0..(k + 1) -> S]
    BY <2>2
  <2>4. \A i \in 0..k : g[i] = f[i]
    OBVIOUS
  <2>5. g[k + 1] = step[k][f[k]]
    OBVIOUS
  <2> HIDE DEF g
  <2>6. ASSUME NEW i \in 0..k PROVE g[i + 1] = step[i][g[i]]
    <3>1. CASE i = k
      BY <2>4, <2>5, <3>1
    <3>2. CASE i # k
      <4>1. i \in 0..(k - 1) /\ i + 1 \in 0..k
        BY <3>2
      <4> QED
        BY <2>1, <2>4, <4>1
    <3> QED
      BY <3>1, <3>2
  <2>7. g[0] = base
    BY <2>1, <2>4
  <2>8. (k + 1) - 1 = k
    OBVIOUS
  <2>9. Sol(k + 1, g)
    BY <2>6, <2>7, <2>8
  <2> QED
    BY <2>3, <2>9
<1> HIDE DEF T
<1>3. n \in T
  BY <1>1, <1>2, Induction
<1> QED
  BY <1>3 DEF T, Iterates

(* The two sums of string lengths, as equations of the running total.       *)
Totals(f, lens) ==
    f = [n \in 0..Len(lens) |-> IF n = 0 THEN 0 ELSE Saturate(f[n - 1] + lens[n])]
Sums(f, lens) ==
    f = [n \in 0..Len(lens) |-> IF n = 0 THEN 0 ELSE f[n - 1] + lens[n]]

\* Both running totals exist: a recursion over the places of the strings.
LEMMA TotalsExist ==
    ASSUME NEW lens \in Seq(Nat)
    PROVE  (\E f : Totals(f, lens)) /\ (\E f : Sums(f, lens))
<1> DEFINE N == Len(lens)
           len(n) == IF n < N THEN lens[n + 1] ELSE 0
           up  == [n \in Nat |-> [t \in Nat |-> t + len(n)]]
           cap == [n \in Nat |-> [t \in Nat |-> Saturate(t + len(n))]]
<1>1. N \in Nat /\ \A n \in 1..N : lens[n] \in Nat
  BY LenProperties
<1>2. ASSUME NEW n \in Nat PROVE len(n) \in Nat
  BY <1>1
<1>3. \A t \in Nat : Saturate(t) \in Nat
  BY ClassifierAssumption DEF Saturate
<1> HIDE DEF N, len
<1>4. up \in [Nat -> [Nat -> Nat]] /\ cap \in [Nat -> [Nat -> Nat]]
  <2>1. \A n, t \in Nat : t + len(n) \in Nat
    BY <1>2
  <2>2. \A n, t \in Nat : Saturate(t + len(n)) \in Nat
    BY <1>3, <2>1
  <2>3. up \in [Nat -> [Nat -> Nat]]
    BY <2>1
  <2>4. cap \in [Nat -> [Nat -> Nat]]
    BY <2>2
  <2> QED
    BY <2>3, <2>4
<1>5. ASSUME NEW f, NEW step, Iterates(f, N, Nat, 0, step),
             NEW n \in 0..N, n # 0
      PROVE  f[n] = step[n - 1][f[n - 1]] /\ f[n - 1] \in Nat /\ n - 1 \in Nat
             /\ len(n - 1) = lens[n]
  <2>1. n - 1 \in 0..(N - 1) /\ n - 1 \in 0..N /\ (n - 1) + 1 = n /\ n - 1 < N /\ n - 1 \in Nat
    BY <1>1, <1>5
  <2>2. len(n - 1) = lens[n]
    BY <2>1 DEF len
  <2> QED
    BY <1>5, <2>1, <2>2 DEF Iterates
<1>6. \E f : Sums(f, lens)
  <2>1. PICK f : Iterates(f, N, Nat, 0, up)
    BY <1>1, <1>4, Iterate
  <2>2. f \in [0..N -> Nat] /\ f[0] = 0
    BY <2>1 DEF Iterates
  <2>3. ASSUME NEW n \in 0..N, n # 0 PROVE f[n] = f[n - 1] + lens[n]
    <3>1. f[n] = up[n - 1][f[n - 1]] /\ f[n - 1] \in Nat /\ n - 1 \in Nat /\ len(n - 1) = lens[n]
      BY <2>1, <2>3, <1>5
    <3> QED
      BY <3>1
  <2>4. f = [n \in 0..N |-> IF n = 0 THEN 0 ELSE f[n - 1] + lens[n]]
    BY <2>2, <2>3
  <2> QED
    BY <2>4 DEF Sums, N
<1>7. \E f : Totals(f, lens)
  <2>1. PICK f : Iterates(f, N, Nat, 0, cap)
    BY <1>1, <1>4, Iterate
  <2>2. f \in [0..N -> Nat] /\ f[0] = 0
    BY <2>1 DEF Iterates
  <2>3. ASSUME NEW n \in 0..N, n # 0 PROVE f[n] = Saturate(f[n - 1] + lens[n])
    <3>1. f[n] = cap[n - 1][f[n - 1]] /\ f[n - 1] \in Nat /\ n - 1 \in Nat /\ len(n - 1) = lens[n]
      BY <2>1, <2>3, <1>5
    <3> QED
      BY <3>1
  <2>4. f = [n \in 0..N |-> IF n = 0 THEN 0 ELSE Saturate(f[n - 1] + lens[n])]
    BY <2>2, <2>3
  <2> QED
    BY <2>4 DEF Totals, N
<1> QED
  BY <1>6, <1>7

(* What the counters of classify_response come to: the byte total is the    *)
(* sum, cut off at the width of its type, and the long strings have at      *)
(* least their number times the threshold of bytes between them.            *)
LongAmong(lens, n) == {i \in 1..n : lens[i] >= LONG_STRING_THRESHOLD}

LEMMA CountersAre ==
    ASSUME NEW lens \in Seq(Nat)
    PROVE  /\ AllBytes(lens) \in Nat
           /\ TotalStringBytes(lens) = Saturate(AllBytes(lens))
           /\ Cardinality(LongAmong(lens, Len(lens))) \in Nat
           /\ LONG_STRING_THRESHOLD * Cardinality(LongAmong(lens, Len(lens))) <= AllBytes(lens)
<1> DEFINE N == Len(lens)
           total == CHOOSE f : Totals(f, lens)
           sum   == CHOOSE f : Sums(f, lens)
           card(n) == Cardinality(LongAmong(lens, n))
<1>1. N \in Nat /\ \A n \in 1..N : lens[n] \in Nat
  BY LenProperties
<1>2. TotalStringBytes(lens) = total[N] /\ AllBytes(lens) = sum[N]
  BY DEF TotalStringBytes, AllBytes, Totals, Sums
<1>3. Totals(total, lens) /\ Sums(sum, lens)
  BY TotalsExist, Zenon
<1> HIDE DEF total, sum, N
<1>4. ASSUME NEW n \in 0..N, n # 0
      PROVE  total[n] = Saturate(total[n - 1] + lens[n]) /\ sum[n] = sum[n - 1] + lens[n]
  <2>1. total[n] = IF n = 0 THEN 0 ELSE Saturate(total[n - 1] + lens[n])
    BY <1>3, Zenon DEF Totals, N
  <2>2. sum[n] = IF n = 0 THEN 0 ELSE sum[n - 1] + lens[n]
    BY <1>3, Zenon DEF Sums, N
  <2> QED
    BY <1>4, <2>1, <2>2
<1>5. 0 \in 0..N
  BY <1>1
<1>6. total[0] = 0 /\ sum[0] = 0
  <2>1. total[0] = IF 0 = 0 THEN 0 ELSE Saturate(total[0 - 1] + lens[0])
    BY <1>3, <1>5, Zenon DEF Totals, N
  <2>2. sum[0] = IF 0 = 0 THEN 0 ELSE sum[0 - 1] + lens[0]
    BY <1>3, <1>5, Zenon DEF Sums, N
  <2> QED
    BY <2>1, <2>2
<1>7. \A n \in Nat : IsFiniteSet(LongAmong(lens, n)) /\ card(n) \in Nat
  <2>1. ASSUME NEW n \in Nat PROVE IsFiniteSet(LongAmong(lens, n))
    <3>1. IsFiniteSet(1..n) /\ LongAmong(lens, n) \subseteq 1..n
      BY FS_Interval DEF LongAmong
    <3> QED
      BY <3>1, FS_Subset
  <2> QED
    BY <2>1, FS_CardinalityType
<1>8. ASSUME NEW n \in Nat, n + 1 <= N
      PROVE  card(n + 1) = IF lens[n + 1] >= LONG_STRING_THRESHOLD THEN card(n) + 1 ELSE card(n)
  <2>1. n + 1 \notin LongAmong(lens, n)
    BY DEF LongAmong
  <2>2. CASE lens[n + 1] >= LONG_STRING_THRESHOLD
    <3>1. LongAmong(lens, n + 1) = LongAmong(lens, n) \cup {n + 1}
      BY <2>2 DEF LongAmong
    <3> QED
      BY <1>7, <2>1, <2>2, <3>1, FS_AddElement
  <2>3. CASE ~(lens[n + 1] >= LONG_STRING_THRESHOLD)
    <3>1. LongAmong(lens, n + 1) = LongAmong(lens, n)
      BY <2>3 DEF LongAmong
    <3> QED
      BY <2>3, <3>1
  <2> QED
    BY <2>2, <2>3
<1> DEFINE Told(n) == /\ sum[n] \in Nat
                      /\ total[n] = Saturate(sum[n])
                      /\ LONG_STRING_THRESHOLD * card(n) <= sum[n]
           T == {n \in Nat : n <= N => Told(n)}
<1>9. 0 \in T
  <2>1. LongAmong(lens, 0) = {}
    BY DEF LongAmong
  <2>2. card(0) = 0
    BY <2>1, FS_EmptySet
  <2> QED
    BY <1>6, <2>2, ClassifierAssumption DEF Saturate
<1>10. ASSUME NEW n \in Nat, n \in T PROVE n + 1 \in T
  <2> SUFFICES ASSUME n + 1 <= N PROVE Told(n + 1)
    OBVIOUS
  <2>1. Told(n) /\ n + 1 \in 0..N /\ n + 1 # 0 /\ (n + 1) - 1 = n /\ lens[n + 1] \in Nat
    BY <1>1, <1>10
  <2>2. sum[n + 1] = sum[n] + lens[n + 1] /\ total[n + 1] = Saturate(total[n] + lens[n + 1])
    BY <1>4, <2>1
  <2>3. total[n + 1] = Saturate(sum[n + 1])
    BY <2>1, <2>2, ClassifierAssumption DEF Saturate
  <2>4. card(n) \in Nat
    BY <1>7
  <2> DEFINE L == LONG_STRING_THRESHOLD
             m == card(n)
  <2>5. L \in Nat /\ m \in Nat /\ L * m \in Nat /\ L * (m + 1) = L * m + L
    BY <2>4, ClassifierAssumption
  <2>6. card(n + 1) = IF lens[n + 1] >= L THEN m + 1 ELSE m
    BY <1>8
  <2> HIDE DEF L, m, card
  <2>7. L * m <= sum[n] /\ sum[n] \in Nat
    BY <2>1 DEF L, m
  <2>8. L * card(n + 1) <= sum[n + 1]
    <3>1. CASE lens[n + 1] >= L
      BY <2>1, <2>2, <2>5, <2>6, <2>7, <3>1
    <3>2. CASE ~(lens[n + 1] >= L)
      BY <2>1, <2>2, <2>5, <2>6, <2>7, <3>2
    <3> QED
      BY <3>1, <3>2
  <2> QED
    BY <2>1, <2>2, <2>3, <2>7, <2>8 DEF L
<1> HIDE DEF T, Told
<1>11. N \in T
  <2>1. Nat \subseteq T
    BY <1>9, <1>10, Induction
  <2> QED
    BY <1>1, <2>1
<1>12. Told(N)
  BY <1>1, <1>11 DEF T
<1> QED
  BY <1>1, <1>2, <1>7, <1>12 DEF Told, N

(* The counters lose nothing that matters: a response is judged by what it  *)
(* shows, whatever the number of its strings.  When the 16 bits of          *)
(* long_string_count are full and it wraps to 0, the bytes alone are over   *)
(* the cap, and their sum saturates instead of wrapping (classify_response, *)
(* compute_new_state).                                                      *)
THEOREM CountersSuffice ==
    ASSUME NEW p \in Payload, NEW grade, NEW conformance,
           NEW sig, sig = classify_response(p)
    PROVE  compute_new_state(grade, sig.form, conformance, sig.bytes, sig.long)
               = Shown(grade, p, conformance)
<1> DEFINE lens == p.strings
           bytes == AllBytes(lens)
           c == Cardinality(LongAmong(lens, Len(lens)))
           L == LONG_STRING_THRESHOLD
<1>1. lens \in Seq(Nat)
  BY DEF Payload
<1>2. /\ bytes \in Nat /\ TotalStringBytes(lens) = Saturate(bytes)
      /\ c \in Nat /\ L * c <= bytes
  BY <1>1, CountersAre
<1>3. DOMAIN lens = 1..Len(lens) /\ Len(lens) \in Nat
  BY <1>1, LenProperties
<1>4. LongStringCount(lens) = c % U16
  BY <1>3 DEF LongStringCount, LongAmong
<1>5. c = 0 <=> ~\E n \in DOMAIN lens : lens[n] >= LONG_STRING_THRESHOLD
  <2>1. IsFiniteSet(LongAmong(lens, Len(lens)))
    <3>1. IsFiniteSet(1..Len(lens)) /\ LongAmong(lens, Len(lens)) \subseteq 1..Len(lens)
      BY <1>3, FS_Interval DEF LongAmong
    <3> QED
      BY <3>1, FS_Subset
  <2>2. c = 0 <=> LongAmong(lens, Len(lens)) = {}
    BY <2>1, FS_EmptySet
  <2> QED
    BY <1>3, <2>2 DEF LongAmong
<1>6. Saturate(bytes) > AGGREGATE_STRING_BYTES_CAP <=> bytes > AGGREGATE_STRING_BYTES_CAP
  BY <1>2, ClassifierAssumption DEF Saturate
<1>7. c # 0 /\ c % U16 = 0 => bytes > AGGREGATE_STRING_BYTES_CAP
  <2> SUFFICES ASSUME c # 0, c % U16 = 0 PROVE bytes > AGGREGATE_STRING_BYTES_CAP
    OBVIOUS
  <2> HIDE DEF c, L, bytes
  <2>1. U16 \in Nat /\ U16 > 0 /\ L \in Nat /\ AGGREGATE_STRING_BYTES_CAP < L * U16
    BY ClassifierAssumption DEF L
  <2>2. c >= U16
    BY <1>2, <2>1
  <2>3. L * c >= L * U16
    BY <1>2, <2>1, <2>2
  <2> QED
    BY <1>2, <2>1, <2>3, ClassifierAssumption
<1>8. c % U16 \in Nat
  BY <1>2, ClassifierAssumption
<1> HIDE DEF c, bytes
<1>9. (Saturate(bytes) > AGGREGATE_STRING_BYTES_CAP \/ c % U16 > 0) <=> HasBulk(lens)
  <2>1. c = 0 => c % U16 = 0
    BY ClassifierAssumption
  <2> QED
    BY <1>5, <1>6, <1>7, <1>8, <2>1 DEF HasBulk, bytes
<1>10. sig = IF ~p.parses THEN [form |-> "Malformed", long |-> 0, bytes |-> 0]
             ELSE [form |-> FormOf(p, c % U16), long |-> c % U16, bytes |-> Saturate(bytes)]
  BY <1>2, <1>4 DEF classify_response
<1>11. FormOf(p, c % U16) # "Malformed"
  BY DEF FormOf
<1>12. CASE p.parses
  BY <1>9, <1>10, <1>11, <1>12 DEF compute_new_state, Shown
<1>13. CASE ~p.parses
  BY <1>10, <1>13 DEF compute_new_state, Shown
<1> QED
  BY <1>12, <1>13

-----------------------------------------------------------------------------
(* The two updates commute on everything but the streak of a session that   *)
(* is Poisoned, where no one reads it any more.                             *)
THEOREM OrderIsImmaterial ==
    ASSUME TypeOK, TrackerRecord, NEW new \in ProvenanceState, NEW s, NEW ids
    PROVE  LET forth == AbsorbResponse(tracker, new, s, ids)
               back  == record_response_outcome(ingest_signature(tracker, new, s, ids), new)
           IN /\ back.current_state = forth.current_state
              /\ back.rule_ids = forth.rule_ids
              /\ back.poisoner = forth.poisoner
              /\ forth.current_state # Poisoned => back.clean_calls = forth.clean_calls
  BY DecayAssumption
     DEF TypeOK, TrackerRecord, ProvenanceState, Clean, Elevated, Contaminated, Poisoned,
         AbsorbResponse, record_response_outcome, ingest_signature, DecayThreshold

-----------------------------------------------------------------------------
\* A tracker as new() builds it satisfies the inductive invariant.
LEMMA InitInv == Init => IInv
  BY DecayAssumption
     DEF Init, IInv, TypeOK, TrackerRecord, HistOK, RecoveryIsPaidFor, StreakObserved,
         PoisonIsCorroborated, BlameIsRight, NewTracker, InitHist, FullRecovery, Healing,
         ProvenanceState, Clean, Elevated, Contaminated, Poisoned

\* take_triggered_rule_ids preserves the inductive invariant.
LEMMA TakeRuleIdsInv == IInv /\ TakeRuleIds => IInv'
  BY DEF TakeRuleIds, IInv, TypeOK, TrackerRecord, HistOK, RecoveryIsPaidFor, StreakObserved,
         PoisonIsCorroborated, BlameIsRight, FullRecovery, DecayThreshold,
         ProvenanceState, Clean, Elevated, Contaminated, Poisoned

(* One response, whatever its structural and its rule verdict.               *)
LEMMA AbsorbInv ==
    ASSUME IInv,
           NEW structural \in {Clean, Elevated, Poisoned},
           NEW hitState \in {Clean, Contaminated, Poisoned},
           NEW heuristic \in BOOLEAN,
           NEW s \in Servers,
           NEW ids, ids \subseteq rule_ids(Hits),
           hitState = Contaminated => heuristic /\ tracker.current_state < Contaminated,
           hitState = Poisoned /\ heuristic => tracker.current_state >= Contaminated,
           tracker' = AbsorbResponse(tracker, MaxState(structural, hitState), s, ids),
           hist' = Observe(hist, structural, hitState, heuristic, s)
    PROVE  IInv'
<1> DEFINE new == MaxState(structural, hitState)
<1> USE DecayAssumption DEF Clean, Elevated, Contaminated, Poisoned, ProvenanceState
<1>1. new \in ProvenanceState /\ new >= structural /\ new >= hitState
  BY DEF MaxState
<1>2. TrackerRecord'
  BY <1>1 DEF IInv, TrackerRecord, AbsorbResponse, record_response_outcome, ingest_signature
<1>8. /\ hist'.run = [b \in {Clean, Elevated} |->
                        IF new > b THEN 0 ELSE UpTo(Healing(b), hist.run[b] + 1)]
      /\ hist'.calm = IF new > Elevated THEN 0 ELSE UpTo(FullRecovery, hist.calm + 1)
      /\ hist'.strikes = IF heuristic THEN UpTo(2, hist.strikes + 1) ELSE hist.strikes
      /\ hist'.breach = (hist.breach \/ structural = Poisoned
                                     \/ (hitState = Poisoned /\ ~heuristic))
  BY DEF Observe
<1>9. hist'.run \in [{Clean, Elevated} -> Nat]
  <2>1. hist.run \in [{Clean, Elevated} -> Nat]
    BY DEF IInv, HistOK
  <2>2. ASSUME NEW b \in {Clean, Elevated}
        PROVE  (IF new > b THEN 0 ELSE UpTo(Healing(b), hist.run[b] + 1)) \in Nat
    BY <2>1, <1>1 DEF UpTo, Healing
  <2> QED
    BY <2>2, <1>8
<1>10. HistOK'
  <2>1. hist' = [run |-> hist'.run, calm |-> hist'.calm, strikes |-> hist'.strikes,
                 breach |-> hist'.breach, culprit |-> hist'.culprit, beat |-> hist'.beat]
    BY DEF Observe
  <2>2. hist'.calm \in 0..FullRecovery
    BY <1>8 DEF IInv, HistOK, UpTo, FullRecovery
  <2>3. hist'.strikes \in 0..2
    BY <1>8 DEF IInv, HistOK, UpTo
  <2>4. hist'.breach \in BOOLEAN
    BY <1>8 DEF IInv, HistOK
  <2> QED
    BY <1>9, <2>1, <2>2, <2>3, <2>4 DEF HistOK
<1>3. TypeOK'
  BY <1>1, InputsAssumption DEF IInv, TypeOK, TrackerRecord, AbsorbResponse, record_response_outcome,
       ingest_signature, DecayThreshold, MaxState
<1>4. RecoveryIsPaidFor'
  <2>1. /\ tracker'.current_state = Clean => hist'.calm = FullRecovery
        /\ tracker'.current_state = Elevated =>
               hist'.calm >= CLEAN_CALLS_TO_DECAY_CONTAMINATED + tracker'.clean_calls
        /\ tracker'.current_state = Contaminated => hist'.calm >= tracker'.clean_calls
    BY <1>1 DEF IInv, TypeOK, TrackerRecord, HistOK, RecoveryIsPaidFor, AbsorbResponse,
         record_response_outcome, ingest_signature, Observe, UpTo, FullRecovery,
         DecayThreshold, MaxState
  <2>2. ASSUME tracker'.current_state = Clean
        PROVE  hist'.run[Clean] = CLEAN_CALLS_TO_DECAY_ELEVATED
    <3>1. /\ new = Clean
          /\ \/ tracker.current_state = Clean
             \/ /\ tracker.current_state = Elevated
                /\ tracker.clean_calls + 1 >= CLEAN_CALLS_TO_DECAY_ELEVATED
      BY <1>1, <2>2 DEF IInv, TypeOK, TrackerRecord, AbsorbResponse, record_response_outcome,
           ingest_signature, DecayThreshold
    <3>2. hist.run[Clean] \in Nat /\ tracker.clean_calls \in Nat
      BY DEF IInv, HistOK, TypeOK
    <3>3. hist.run[Clean] + 1 >= CLEAN_CALLS_TO_DECAY_ELEVATED
      BY <3>1, <3>2 DEF IInv, RecoveryIsPaidFor, StreakObserved
    <3>4. hist'.run[Clean] = UpTo(CLEAN_CALLS_TO_DECAY_ELEVATED, hist.run[Clean] + 1)
      BY <1>8, <3>1 DEF Healing
    <3> QED
      BY <3>2, <3>3, <3>4 DEF UpTo
  <2> QED
    BY <2>1, <2>2 DEF RecoveryIsPaidFor
<1>5. StreakObserved'
  <2>1. hist.run \in [{Clean, Elevated} -> Nat]
    BY DEF IInv, HistOK
  <2>2. \A b \in {Clean, Elevated} : new <= b =>
            hist'.run[b] = UpTo(Healing(b), hist.run[b] + 1)
    BY <1>1, <1>8
  <2>3. CASE tracker.current_state \in {Elevated, Contaminated}
    BY <1>1, <2>1, <2>2, <2>3, <1>9 DEF IInv, TypeOK, TrackerRecord, StreakObserved, AbsorbResponse,
       record_response_outcome, ingest_signature, UpTo, DecayThreshold, Healing
  <2>4. CASE tracker.current_state \in {Clean, Poisoned}
    BY <1>1, <2>4, <1>9 DEF IInv, TypeOK, TrackerRecord, StreakObserved, AbsorbResponse,
       record_response_outcome, ingest_signature
  <2> QED
    BY <2>3, <2>4 DEF IInv, TypeOK
<1>6. PoisonIsCorroborated'
  <2>1. /\ new = Contaminated => hitState = Contaminated
        /\ new = Poisoned => structural = Poisoned \/ hitState = Poisoned
    BY DEF MaxState
  <2>2. tracker'.current_state \in {new, tracker.current_state, tracker.current_state - 1}
    BY DEF IInv, TrackerRecord, AbsorbResponse, record_response_outcome, ingest_signature
  <2>3. tracker.current_state = Poisoned => tracker'.current_state = Poisoned
    BY <1>1 DEF IInv, TrackerRecord, AbsorbResponse, record_response_outcome, ingest_signature
  <2>4. /\ tracker'.current_state = Contaminated => Contaminated \in {new, tracker.current_state}
        /\ tracker'.current_state = Poisoned => Poisoned \in {new, tracker.current_state}
    BY <2>2, <2>3 DEF IInv, TypeOK
  <2>5. hist.strikes \in 0..2 /\ hist.breach \in BOOLEAN
    BY DEF IInv, HistOK
  <2>6. /\ hist'.strikes >= hist.strikes
        /\ heuristic => hist'.strikes >= 1
        /\ heuristic /\ hist.strikes >= 1 => hist'.strikes = 2
        /\ hist.breach => hist'.breach
    BY <1>8, <2>5 DEF UpTo
  <2>7. /\ tracker.current_state = Contaminated => hist.strikes >= 1
        /\ tracker.current_state = Poisoned /\ ~hist.breach => hist.strikes >= 2
        /\ tracker.current_state \in 0..3
    BY DEF IInv, PoisonIsCorroborated, TypeOK
  <2>8. CASE new = Poisoned /\ tracker.current_state < Poisoned
    <3>1. tracker'.current_state = Contaminated => hist'.strikes >= 1
      BY <2>4, <2>6, <2>7, <2>8, <2>5, <1>10 DEF HistOK
    <3>2. structural = Poisoned => hist'.breach
      BY <1>8
    <3>3. hitState = Poisoned => hist'.breach \/ hist'.strikes = 2
      <4>1. CASE hitState = Poisoned /\ heuristic
        <5>1. tracker.current_state >= Contaminated
          BY <4>1
        <5>2. hist.strikes >= 1
          BY <5>1, <2>7, <2>8
        <5> QED
          BY <4>1, <5>2, <2>6
      <4>2. CASE hitState = Poisoned /\ ~heuristic
        BY <4>2, <1>8
      <4> QED
        BY <4>1, <4>2
    <3> QED
      BY <2>1, <2>8, <3>1, <3>2, <3>3 DEF PoisonIsCorroborated
  <2>9. CASE ~(new = Poisoned /\ tracker.current_state < Poisoned)
    BY <2>1, <2>4, <2>5, <2>6, <2>7, <2>9, <1>8 DEF PoisonIsCorroborated
  <2> QED
    BY <2>8, <2>9
<1>7. BlameIsRight'
  BY <1>1, InputsAssumption DEF IInv, TypeOK, TrackerRecord, HistOK, BlameIsRight, AbsorbResponse,
       record_response_outcome, ingest_signature, Observe, DecayThreshold, MaxState
<1> QED
  BY <1>2, <1>3, <1>4, <1>5, <1>6, <1>7, <1>10 DEF IInv

\* One response, of any content, preserves the inductive invariant.
LEMMA RespondInv ==
    ASSUME IInv, AnyResponse
    PROVE  IInv'
<1>1. PICK s \in Servers, p \in Payloads, c \in SchemaConformance, hits \in Summaries :
        Respond(s, p, c, hits)
  BY DEF AnyResponse
<1> DEFINE sig == classify_response(p)
           structural == compute_new_state(Grade[s], sig.form, c, sig.bytes, sig.long)
           hitState == state_from_rule_hits(hits, tracker.current_state)
           heuristic == Heuristic(hits) /\ ~HasPoison(hits)
<1>2. structural \in {Clean, Elevated, Poisoned}
  BY StructuralType
<1>3. tracker.current_state \in ProvenanceState
  BY DEF IInv, TypeOK
<1>4. hitState \in {Clean, Contaminated, Poisoned}
  BY <1>3, HitStateType
<1>5. rule_ids(hits) \subseteq rule_ids(Hits)
  BY DEF rule_ids, Hits
<1>6. /\ hitState = Contaminated => heuristic /\ tracker.current_state < Contaminated
      /\ hitState = Poisoned /\ heuristic => tracker.current_state >= Contaminated
  BY <1>3 DEF state_from_rule_hits, ProvenanceState, Clean, Contaminated, Poisoned
<1>7. structural = Shown(Grade[s], p, c)
  BY InputsAssumption, CountersSuffice
<1>8. /\ tracker' = AbsorbResponse(tracker, MaxState(structural, hitState), s, rule_ids(hits))
      /\ hist' = Observe(hist, structural, hitState, heuristic, s)
  BY <1>1, <1>7 DEF Respond
<1>9. heuristic \in BOOLEAN
  OBVIOUS
<1> HIDE DEF structural, hitState, heuristic
<1> QED
  BY <1>2, <1>4, <1>5, <1>6, <1>8, <1>9, AbsorbInv

(* The invariant holds in every state.                                       *)
THEOREM Invariance == Spec => []IInv
<1>1. IInv /\ [Next]_vars => IInv'
  <2> SUFFICES ASSUME IInv, [Next]_vars
               PROVE  IInv'
    OBVIOUS
  <2>1. CASE AnyResponse
    BY <2>1, RespondInv
  <2>2. CASE TakeRuleIds
    BY <2>2, TakeRuleIdsInv
  <2>3. CASE UNCHANGED vars
    BY <2>3 DEF vars, IInv, TypeOK, TrackerRecord, HistOK, RecoveryIsPaidFor, StreakObserved,
       PoisonIsCorroborated, BlameIsRight
  <2> QED
    BY <2>1, <2>2, <2>3 DEF Next
<1> QED
  BY InitInv, <1>1, PTL DEF Spec

(* The tracker is well typed and its streak stays inside the tier it counts  *)
(* for (record_response_outcome).                                            *)
THEOREM TypeCorrect == Spec => []TypeOK
  BY Invariance, PTL DEF IInv

(* No session reads Clean before both decay tiers were paid for in full.     *)
THEOREM RecoveryCost == Spec => []RecoveryIsPaidFor
  BY Invariance, PTL DEF IInv

(* Heuristic evidence poisons only when it is corroborated.                  *)
THEOREM Corroboration == Spec => []PoisonIsCorroborated
  BY Invariance, PTL DEF IInv

(* Every deterministic violation poisons, and its server is the one blamed.  *)
THEOREM Blame == Spec => []BlameIsRight
  BY Invariance, PTL DEF IInv

(* The step by which the state falls, for any response.                      *)
LEMMA DecayStep ==
    ASSUME IInv, AnyResponse, tracker'.current_state < tracker.current_state
    PROVE  /\ tracker.current_state # Poisoned
           /\ tracker'.current_state = tracker.current_state - 1
           /\ hist'.run[tracker'.current_state] >= Healing(tracker'.current_state)
<1> USE DecayAssumption DEF Clean, Elevated, Contaminated, Poisoned, ProvenanceState
<1>1. PICK s \in Servers, p \in Payloads, c \in SchemaConformance, hits \in Summaries :
        Respond(s, p, c, hits)
  BY DEF AnyResponse
<1> DEFINE sig == classify_response(p)
           structural == compute_new_state(Grade[s], sig.form, c, sig.bytes, sig.long)
           hitState == state_from_rule_hits(hits, tracker.current_state)
           new == MaxState(structural, hitState)
<1>2. new \in ProvenanceState
  BY StructuralType, HitStateType DEF MaxState, IInv, TypeOK
<1>2a. structural = Shown(Grade[s], p, c)
  BY InputsAssumption, CountersSuffice
<1>3. /\ tracker' = AbsorbResponse(tracker, new, s, rule_ids(hits))
      /\ hist'.run = [b \in {Clean, Elevated} |->
                        IF new > b THEN 0 ELSE UpTo(Healing(b), hist.run[b] + 1)]
  BY <1>1, <1>2a DEF Respond, Observe
<1> HIDE DEF new
<1>4. /\ tracker.current_state \in {Elevated, Contaminated}
      /\ new <= tracker.current_state - 1
      /\ tracker'.current_state = tracker.current_state - 1
      /\ tracker.clean_calls + 1 >= DecayThreshold(tracker.current_state)
  BY <1>2, <1>3 DEF IInv, TypeOK, TrackerRecord, AbsorbResponse, record_response_outcome,
     ingest_signature
<1>5. /\ hist.run \in [{Clean, Elevated} -> Nat]
      /\ tracker.clean_calls \in Nat
      /\ tracker.clean_calls <= hist.run[tracker.current_state - 1]
  BY <1>4 DEF IInv, TypeOK, HistOK, StreakObserved
<1>6. tracker.current_state - 1 \in {Clean, Elevated}
  BY <1>4
<1>7. hist'.run[tracker.current_state - 1]
        = UpTo(Healing(tracker.current_state - 1), hist.run[tracker.current_state - 1] + 1)
  BY <1>2, <1>3, <1>4, <1>6
<1>8. hist'.run[tracker.current_state - 1] >= Healing(tracker.current_state - 1)
  BY <1>4, <1>5, <1>6, <1>7 DEF UpTo, DecayThreshold, Healing
<1> QED
  BY <1>4, <1>8

(* The state falls one tier at a time, only after its full streak of calm    *)
(* responses, and never out of Poisoned.                                     *)
THEOREM DecayIsAlwaysEarned == Spec => DecayIsEarned
<1> DEFINE Earned == tracker'.current_state < tracker.current_state =>
         /\ tracker.current_state # Poisoned
         /\ tracker'.current_state = tracker.current_state - 1
         /\ hist'.run[tracker'.current_state] >= Healing(tracker'.current_state)
<1>1. IInv /\ [Next]_vars => [Earned]_vars
  <2>1. ASSUME IInv, AnyResponse
        PROVE  Earned
    BY <2>1, DecayStep
  <2>2. ASSUME IInv, TakeRuleIds
        PROVE  Earned
    BY <2>2 DEF TakeRuleIds, IInv, TypeOK, TrackerRecord, ProvenanceState
  <2> HIDE DEF Earned
  <2> QED
    BY <2>1, <2>2 DEF Next
<1> QED
  BY Invariance, <1>1, PTL DEF Spec, DecayIsEarned
=============================================================================
