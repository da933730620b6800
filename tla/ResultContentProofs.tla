--------------------------- MODULE ResultContentProofs ---------------------------
(***************************************************************************)
(* Proofs that the schema check, with its recursion and its depth limit,   *)
(* computes what SchemaMeaning says place by place, and that the notice of *)
(* an escalation is an appendix to one text and costs a conforming result  *)
(* nothing: for every set of JSON values, every limit and every pattern.   *)
(***************************************************************************)
EXTENDS ResultContent, SequenceTheorems, WellFoundedInduction, TLAPS

(* Induction, on a set of numbers: a least one outside it would follow one   *)
(* that is inside.                                                           *)
LEMMA Induction ==
    ASSUME NEW T, 0 \in T, \A n \in Nat : n \in T => n + 1 \in T
    PROVE  Nat \subseteq T
<1> SUFFICES ASSUME Nat \ T # {} PROVE FALSE
  OBVIOUS
<1>1. PICK m \in Nat \ T : \A k \in Nat \ T : ~(<<k, m>> \in OpToRel(<, Nat))
  <2>1. Nat \ T \subseteq Nat
    OBVIOUS
  <2> QED
    BY <2>1, NatLessThanWellFounded, WFMin
<1>2. \A k \in Nat \ T : ~(k < m)
  BY <1>1 DEF OpToRel
<1>3. m # 0 /\ m - 1 \in Nat /\ m - 1 \notin Nat \ T
  BY <1>2
<1>4. m - 1 \in T /\ (m - 1) + 1 = m
  BY <1>3
<1> QED
  BY <1>3, <1>4

(* A recursion over the numbers up to some bound, one step from each to the  *)
(* next, has a solution.                                                     *)
Iterates(f, n, S, base, step) ==
    /\ f \in [0..n -> S] /\ f[0] = base
    /\ \A i \in 0..(n - 1) : f[i + 1] = step[f[i]]

LEMMA Iterate ==
    ASSUME NEW n \in Nat, NEW S, NEW base \in S, NEW step \in [S -> S]
    PROVE  \E f : Iterates(f, n, S, base, step)
<1> DEFINE T == {k \in Nat : \E f \in [Nat -> S] :
                     f[0] = base /\ \A i \in 0..(k - 1) : f[i + 1] = step[f[i]]}
<1>1. 0 \in T
  <2> DEFINE f == [i \in Nat |-> base]
  <2>1. f \in [Nat -> S] /\ f[0] = base
    OBVIOUS
  <2> HIDE DEF f
  <2> QED
    BY <2>1
<1>2. ASSUME NEW k \in Nat, k \in T PROVE k + 1 \in T
  <2>1. PICK f \in [Nat -> S] : f[0] = base /\ \A i \in 0..(k - 1) : f[i + 1] = step[f[i]]
    BY <1>2
  <2> DEFINE g == [i \in Nat |-> IF i <= k THEN f[i] ELSE step[f[k]]]
  <2>2. g \in [Nat -> S]
    OBVIOUS
  <2>3. \A i \in 0..k : g[i] = f[i]
    OBVIOUS
  <2>4. g[k + 1] = step[f[k]]
    OBVIOUS
  <2> HIDE DEF g
  <2>5. \A i \in 0..k : g[i + 1] = step[g[i]]
    <3>1. \A i \in 0..k : i # k => i \in 0..(k - 1) /\ i + 1 \in 0..k
      OBVIOUS
    <3> QED
      BY <2>1, <2>3, <2>4, <3>1
  <2>6. g[0] = base /\ (k + 1) - 1 = k
    BY <2>1, <2>3
  <2> QED
    BY <2>2, <2>5, <2>6
<1> HIDE DEF T
<1>3. n \in T
  BY <1>1, <1>2, Induction
<1>4. PICK f \in [Nat -> S] : f[0] = base /\ \A i \in 0..(n - 1) : f[i + 1] = step[f[i]]
  BY <1>3 DEF T
<1> DEFINE g == [i \in 0..n |-> f[i]]
<1>5. g \in [0..n -> S] /\ g[0] = base /\ \A i \in 0..(n - 1) : g[i + 1] = step[g[i]]
  BY <1>4
<1> HIDE DEF g
<1> QED
  BY <1>5 DEF Iterates

(* The same, from a limit downward.                                          *)
Descends(f, N, S, base, step) ==
    f \in [Nat -> S] /\ \A d \in Nat : f[d] = IF d > N THEN base ELSE step[f[d + 1]]

LEMMA Downward ==
    ASSUME NEW N \in Nat, NEW S, NEW base \in S, NEW step \in [S -> S]
    PROVE  \E f : Descends(f, N, S, base, step)
<1>1. PICK e : Iterates(e, N + 1, S, base, step)
  <2>1. N + 1 \in Nat
    OBVIOUS
  <2> QED
    BY <2>1, Iterate
<1>2. e \in [0..(N + 1) -> S] /\ e[0] = base /\ \A i \in 0..N : e[i + 1] = step[e[i]]
  BY <1>1 DEF Iterates
<1> DEFINE up(d) == IF d > N THEN 0 ELSE N + 1 - d
           f == [d \in Nat |-> e[up(d)]]
<1>3. \A d \in Nat : up(d) \in 0..(N + 1)
  OBVIOUS
<1>4. f \in [Nat -> S]
  BY <1>2, <1>3
<1>5. ASSUME NEW d \in Nat PROVE f[d] = IF d > N THEN base ELSE step[f[d + 1]]
  <2>1. CASE d > N
    BY <1>2, <2>1
  <2>2. CASE ~(d > N)
    <3>1. up(d + 1) \in 0..N /\ up(d) = up(d + 1) + 1
      BY <2>2
    <3>2. f[d] = e[up(d)] /\ f[d + 1] = e[up(d + 1)]
      OBVIOUS
    <3> HIDE DEF f, up
    <3> QED
      BY <1>2, <2>2, <3>1, <3>2
  <2> QED
    BY <2>1, <2>2
<1> HIDE DEF f
<1> QED
  BY <1>4, <1>5 DEF Descends
-----------------------------------------------------------------------------
(* Which values meet which schemas. *)
Verdicts == [Values -> [Values -> BOOLEAN]]

(* At each depth that comes from the verdicts one level further down.        *)
CheckEquation(h) ==
    h = [depth \in Nat |-> [schema \in Values |-> [data \in Values |->
           depth <= MAX_SCHEMA_CHECK_DEPTH /\ MeetsSchema(schema, data, h[depth + 1])]]]

LEMMA CheckByDepth == CheckEquation(check_rec)
<1> DEFINE N == MAX_SCHEMA_CHECK_DEPTH
           base == [s \in Values |-> [v \in Values |-> FALSE]]
           next(g) == [s \in Values |-> [v \in Values |-> MeetsSchema(s, v, g)]]
           step == [g \in Verdicts |-> next(g)]
<1>1. N \in Nat
  BY SchemaCheckAssumption
<1>2. base \in Verdicts
  BY DEF Verdicts
<1>3. ASSUME NEW g \in Verdicts PROVE next(g) \in Verdicts
  <2>1. \A s, v \in Values : MeetsSchema(s, v, g) \in BOOLEAN
    BY Zenon DEF MeetsSchema
  <2> QED
    BY <2>1 DEF Verdicts
<1>4. step \in [Verdicts -> Verdicts]
  BY <1>3
<1> HIDE DEF N, base, step
<1>5. PICK f \in [Nat -> Verdicts] :
         \A d \in Nat : f[d] = IF d > N THEN base ELSE step[f[d + 1]]
  <2>1. PICK f : Descends(f, N, Verdicts, base, step)
    BY <1>1, <1>2, <1>4, Downward
  <2> QED
    BY <2>1 DEF Descends
<1> DEFINE at(d) == [s \in Values |-> [v \in Values |-> d <= N /\ MeetsSchema(s, v, f[d + 1])]]
<1>6. ASSUME NEW d \in Nat PROVE f[d] = at(d)
  <2>1. CASE d > N
    <3>1. ~(d <= N)
      BY <1>1, <2>1
    <3>2. \A s, v \in Values : (d <= N /\ MeetsSchema(s, v, f[d + 1])) = FALSE
      BY <3>1, Zenon
    <3>3. at(d) = base
      BY <3>2, Zenon DEF base
    <3> QED
      BY <1>5, <2>1, <3>3
  <2>2. CASE ~(d > N)
    <3>1. d <= N /\ d + 1 \in Nat /\ f[d + 1] \in Verdicts
      BY <1>1, <2>2
    <3>2. f[d] = next(f[d + 1])
      BY <1>5, <2>2, <3>1 DEF step
    <3>3. \A s, v \in Values :
             (d <= N /\ MeetsSchema(s, v, f[d + 1])) = MeetsSchema(s, v, f[d + 1])
      <4>1. \A s, v \in Values : MeetsSchema(s, v, f[d + 1]) \in BOOLEAN
        BY Zenon DEF MeetsSchema
      <4> QED
        BY <3>1, <4>1, Zenon
    <3>4. at(d) = next(f[d + 1])
      BY <3>3, Zenon
    <3> QED
      BY <3>2, <3>4
  <2> QED
    BY <2>1, <2>2
<1>7. CheckEquation(f)
  <2> HIDE DEF at
  <2>1. f = [d \in Nat |-> at(d)]
    BY <1>6
  <2> QED
    BY <2>1, Zenon DEF CheckEquation, N, at
<1>8. check_rec = CHOOSE h : CheckEquation(h)
  BY DEF check_rec, CheckEquation
<1> QED
  BY <1>7, <1>8, Zenon

(* schema_check.rs check_rec, called with a depth.                           *)
LEMMA CheckAt ==
    ASSUME NEW depth \in Nat
    PROVE  /\ check_rec[depth] \in Verdicts
           /\ \A s, v \in Values : check_rec[depth][s][v] <=>
                 depth <= MAX_SCHEMA_CHECK_DEPTH /\ MeetsSchema(s, v, check_rec[depth + 1])
<1> DEFINE h == check_rec
           at == [s \in Values |-> [v \in Values |->
                    depth <= MAX_SCHEMA_CHECK_DEPTH /\ MeetsSchema(s, v, h[depth + 1])]]
<1>1. h[depth] = at
  <2>1. CheckEquation(h)
    BY CheckByDepth
  <2> DEFINE all(d) == [s \in Values |-> [v \in Values |->
                          d <= MAX_SCHEMA_CHECK_DEPTH /\ MeetsSchema(s, v, h[d + 1])]]
  <2>2. h = [d \in Nat |-> all(d)]
    BY <2>1, Zenon DEF CheckEquation
  <2> HIDE DEF h, all
  <2>3. h[depth] = all(depth)
    BY <2>2
  <2> QED
    BY <2>3 DEF all
<1> HIDE DEF h
<1>2. at \in Verdicts
  <2>1. \A s, v \in Values :
           (depth <= MAX_SCHEMA_CHECK_DEPTH /\ MeetsSchema(s, v, h[depth + 1])) \in BOOLEAN
    BY Zenon
  <2> QED
    BY <2>1 DEF Verdicts
<1>3. \A s, v \in Values : at[s][v] <=>
         depth <= MAX_SCHEMA_CHECK_DEPTH /\ MeetsSchema(s, v, h[depth + 1])
  BY Zenon
<1> HIDE DEF at
<1> QED
  BY <1>1, <1>2, <1>3 DEF h

-----------------------------------------------------------------------------
(* What the kind of a value says of it (serde_json::Value).                  *)
LEMMA Shape ==
    ASSUME NEW v \in Values
    PROVE  /\ v.kind \in {"null", "boolean", "number", "string", "array", "object"}
           /\ v.kind = "boolean" => v \in {Bool(FALSE), Bool(TRUE)}
           /\ v.kind = "string" => v = Str(v.str) /\ IsText(v.str)
           /\ v.kind = "array" => v = Arr(v.items) /\ v.items \in Seq(Values)
           /\ v.kind = "object" => v = Obj(v.fields) /\ v.fields \in [DOMAIN v.fields -> Values]
<1>1. IsValue(v)
  BY JsonAssumption
<1>2. CASE v = Null
  BY <1>2 DEF Null
<1>3. CASE v \in {Bool(FALSE), Bool(TRUE)}
  BY <1>3 DEF Bool
<1>4. CASE v # Null /\ v \notin {Bool(FALSE), Bool(TRUE)}
  BY <1>1, <1>4 DEF IsValue
<1> QED
  BY <1>2, <1>3, <1>4

(* type_matches, as a set of names: those of the value, and any other than   *)
(* the seven of JSON Schema.                                                 *)
LEMMA TypeMatches ==
    ASSUME NEW data \in Values, NEW name
    PROVE  type_matches(name, data) <=>
             name \in Meaning!NamesOf(data) \/ name \notin Meaning!TypeNames
<1>1. data.kind \in {"null", "boolean", "number", "string", "array", "object"}
  BY Shape
<1>2. CASE name = "integer"
  <2>1. type_matches(name, data) <=> data.kind = "number" /\ data.num # "1.5"
    BY <1>2, Zenon DEF type_matches, IsKind, Fractional
  <2>2. name \in Meaning!NamesOf(data) <=> data.kind = "number" /\ data.num # "1.5"
    BY <1>1, <1>2 DEF Meaning!NamesOf
  <2> QED
    BY <1>2, <2>1, <2>2 DEF Meaning!TypeNames
<1>3. CASE name \in {"object", "array", "string", "number", "boolean", "null"}
  <2>1. type_matches(name, data) <=> data.kind = name
    BY <1>3 DEF type_matches, IsKind
  <2>2. name \in Meaning!NamesOf(data) <=> data.kind = name
    BY <1>3 DEF Meaning!NamesOf
  <2> QED
    BY <1>3, <2>1, <2>2 DEF Meaning!TypeNames
<1>4. CASE name \notin {"object", "array", "string", "number", "boolean", "null", "integer"}
  <2>1. type_matches(name, data)
    BY <1>4 DEF type_matches
  <2> QED
    BY <1>4, <2>1 DEF Meaning!TypeNames
<1> QED
  BY <1>2, <1>3, <1>4

LEMMA CheckType ==
    ASSUME NEW type \in Values, NEW data \in Values
    PROVE  check_type(type, data) <=> Meaning!TypeAllows(type, data)
<1> DEFINE M(name) == type_matches(name, data)
           A(name) == name \in Meaning!NamesOf(data) \/ name \notin Meaning!TypeNames
<1>1. \A name : M(name) <=> A(name)
  BY TypeMatches
<1> HIDE DEF M, A
<1>2. CASE type.kind = "string"
  <2>1. check_type(type, data) <=> M(Head(type.str))
    BY <1>2 DEF check_type, IsKind, M
  <2>2. Meaning!TypeAllows(type, data) <=> A(Head(type.str))
    BY <1>2 DEF Meaning!TypeAllows, Meaning!DeclaredNames, A
  <2> QED
    BY <1>1, <2>1, <2>2
<1>3. CASE type.kind = "array"
  <2>1. check_type(type, data) <=>
           \E i \in DOMAIN type.items : type.items[i].kind = "string" /\ M(Head(type.items[i].str))
    BY <1>3 DEF check_type, IsKind, M
  <2>2. Meaning!TypeAllows(type, data) <=>
           \E i \in DOMAIN type.items : type.items[i].kind = "string" /\ A(Head(type.items[i].str))
    BY <1>3 DEF Meaning!TypeAllows, Meaning!DeclaredNames, A
  <2> QED
    BY <1>1, <2>1, <2>2
<1>4. CASE type.kind \notin {"string", "array"}
  BY <1>4 DEF check_type, IsKind, Meaning!TypeAllows
<1> QED
  BY <1>2, <1>3, <1>4

(* The keywords of a schema, one by one.                                     *)
LEMMA TypeKeyword ==
    ASSUME NEW schema \in Values, NEW data \in Values, schema.kind = "object"
    PROVE  (Has(schema, "type") => check_type(Get(schema, "type"), data)) <=>
             ("type" \in DOMAIN schema.fields =>
                 Meaning!TypeAllows(Meaning!Declared(schema, "type"), data))
<1>1. CASE "type" \in DOMAIN schema.fields
  <2>1. schema.fields["type"] \in Values
    BY <1>1, Shape
  <2> QED
    BY <2>1, CheckType, Zenon DEF Has, IsKind, Get, Meaning!Declared
<1>2. CASE "type" \notin DOMAIN schema.fields
  BY <1>2 DEF Has
<1> QED
  BY <1>1, <1>2

LEMMA EnumKeyword ==
    ASSUME NEW schema \in Values, NEW data \in Values, schema.kind = "object"
    PROVE  (HasKind(schema, "enum", "array") => Contains(Get(schema, "enum").items, data)) <=>
             (Meaning!Declares(schema, "enum", "array") =>
                 data \in Meaning!Range(Meaning!Declared(schema, "enum").items))
<1>1. CASE "enum" \in DOMAIN schema.fields /\ schema.fields["enum"].kind = "array"
  <2> DEFINE items == schema.fields["enum"].items
  <2>1. items \in Seq(Values)
    BY <1>1, Shape
  <2>2. DOMAIN items = 1..Len(items)
    BY <2>1, LenProperties
  <2> HIDE DEF items
  <2>3. Contains(items, data) <=> data \in Meaning!Range(items)
    BY <2>2 DEF Contains, Meaning!Range
  <2>4. Contains(Get(schema, "enum").items, data)
           <=> data \in Meaning!Range(Meaning!Declared(schema, "enum").items)
    BY <2>3 DEF Get, Meaning!Declared, items
  <2> QED
    BY <1>1, <2>4 DEF HasKind, Has, IsKind, Get, Meaning!Declares
<1>2. CASE ~("enum" \in DOMAIN schema.fields /\ schema.fields["enum"].kind = "array")
  BY <1>2 DEF HasKind, Has, IsKind, Get, Meaning!Declares
<1> QED
  BY <1>1, <1>2

LEMMA RequiredKeyword ==
    ASSUME NEW schema \in Values, NEW data \in Values,
           schema.kind = "object", data.kind = "object"
    PROVE  RequiredPresent(schema, data) <=>
             (Meaning!Declares(schema, "required", "array") =>
                 \A req \in Meaning!Range(Meaning!Declared(schema, "required").items) :
                     req.kind = "string" => Head(req.str) \in Meaning!Keys(data))
  BY DEF RequiredPresent, HasKind, Has, IsKind, Get, Meaning!Range,
         Meaning!Declares, Meaning!Declared, Meaning!Keys

LEMMA DeclaredProperties ==
    ASSUME NEW schema \in Values, schema.kind = "object"
    PROVE  /\ DOMAIN Properties(schema) = Meaning!KeysDeclared(schema)
           /\ \A k \in Meaning!KeysDeclared(schema) :
                 /\ Properties(schema)[k] = Meaning!Declared(schema, "properties").fields[k]
                 /\ Properties(schema)[k] \in Values
<1>1. CASE HasKind(schema, "properties", "object")
  <2>1. schema.fields["properties"] \in Values /\ schema.fields["properties"].kind = "object"
    BY <1>1, Shape DEF HasKind, Has, IsKind, Get
  <2>2. schema.fields["properties"].fields
           \in [DOMAIN schema.fields["properties"].fields -> Values]
    BY <2>1, Shape
  <2> QED
    BY <1>1, <2>2 DEF HasKind, Has, IsKind, Get, Properties,
                      Meaning!KeysDeclared, Meaning!Declares, Meaning!Declared
<1>2. CASE ~HasKind(schema, "properties", "object")
  BY <1>2 DEF HasKind, Has, IsKind, Get, Properties, Meaning!KeysDeclared, Meaning!Declares
<1> QED
  BY <1>1, <1>2

LEMMA AdditionalKeyword ==
    ASSUME NEW schema \in Values, NEW data \in Values,
           schema.kind = "object", data.kind = "object"
    PROVE  NoExtraKeys(schema, data) <=>
             (Meaning!Declares(schema, "additionalProperties", "boolean") =>
                 \/ Meaning!Declared(schema, "additionalProperties").bool
                 \/ Meaning!Keys(data) \subseteq Meaning!KeysDeclared(schema))
<1> DEFINE f == schema.fields["additionalProperties"]
<1>1. Meaning!Keys(data) = DOMAIN data.fields
  BY DEF Meaning!Keys
<1>2. DOMAIN Properties(schema) = Meaning!KeysDeclared(schema)
  BY DeclaredProperties
<1>3. CASE "additionalProperties" \in DOMAIN schema.fields
  <2>1. f \in Values
    BY <1>3, Shape
  <2>2. (f = Bool(FALSE)) <=> (f.kind = "boolean" /\ ~f.bool)
    <3>1. f.kind = "boolean" => f \in {Bool(FALSE), Bool(TRUE)}
      BY <2>1, Shape
    <3> HIDE DEF f
    <3> QED
      BY <3>1 DEF Bool
  <2> QED
    BY <1>1, <1>2, <1>3, <2>2 DEF NoExtraKeys, Has, IsKind, Get, Meaning!Declares, Meaning!Declared
<1>4. CASE "additionalProperties" \notin DOMAIN schema.fields
  BY <1>4 DEF NoExtraKeys, Has, Meaning!Declares
<1> QED
  BY <1>3, <1>4

LEMMA PatternKeyword ==
    ASSUME NEW schema \in Values, NEW data \in Values, schema.kind = "object"
    PROVE  (HasKind(schema, "pattern", "string") =>
               pattern_matches(Get(schema, "pattern").str, data.str)) <=>
             (Meaning!Declares(schema, "pattern", "string") =>
               pattern_matches(Meaning!Declared(schema, "pattern").str, data.str))
  BY DEF HasKind, Has, IsKind, Get, Meaning!Declares, Meaning!Declared

(* What is asked of pairs is asked of what they are made of.                 *)
LEMMA PairsWith ==
    ASSUME NEW s, NEW R, NEW g
    PROVE  (\A p \in {<<s, x>> : x \in R} : g[p[1]][p[2]]) <=> \A x \in R : g[s][x]
<1> DEFINE P == {<<s, x>> : x \in R}
<1>1. ASSUME \A p \in P : g[p[1]][p[2]], NEW x \in R PROVE g[s][x]
  <2> DEFINE p == <<s, x>>
  <2>1. p \in P /\ p[1] = s /\ p[2] = x
    OBVIOUS
  <2> HIDE DEF p, P
  <2>2. g[p[1]][p[2]]
    BY <1>1, <2>1, Zenon
  <2> QED
    BY <2>1, <2>2, Zenon
<1>2. ASSUME \A x \in R : g[s][x], NEW p \in P PROVE g[p[1]][p[2]]
  <2>1. PICK x \in R : p = <<s, x>>
    OBVIOUS
  <2>2. p[1] = s /\ p[2] = x
    BY <2>1
  <2> QED
    BY <1>2, <2>2, Zenon
<1> QED
  BY <1>1, <1>2

LEMMA PairsAt ==
    ASSUME NEW e, NEW f, NEW K, NEW g
    PROVE  (\A p \in {<<e[k], f[k]>> : k \in K} : g[p[1]][p[2]]) <=> \A k \in K : g[e[k]][f[k]]
<1> DEFINE P == {<<e[k], f[k]>> : k \in K}
<1>1. ASSUME \A p \in P : g[p[1]][p[2]], NEW k \in K PROVE g[e[k]][f[k]]
  <2> DEFINE p == <<e[k], f[k]>>
  <2>1. p \in P /\ p[1] = e[k] /\ p[2] = f[k]
    OBVIOUS
  <2> HIDE DEF p, P
  <2>2. g[p[1]][p[2]]
    BY <1>1, <2>1, Zenon
  <2> QED
    BY <2>1, <2>2, Zenon
<1>2. ASSUME \A k \in K : g[e[k]][f[k]], NEW p \in P PROVE g[p[1]][p[2]]
  <2>1. PICK k \in K : p = <<e[k], f[k]>>
    OBVIOUS
  <2>2. p[1] = e[k] /\ p[2] = f[k]
    BY <2>1
  <2> QED
    BY <1>2, <2>2, Zenon
<1> QED
  BY <1>1, <1>2

(* One level of check_rec, given any verdicts for the level below: what the  *)
(* schema says of the place itself, and those verdicts at the places below.  *)
LEMMA OneLevel ==
    ASSUME NEW schema \in Values, NEW data \in Values, NEW g \in Verdicts
    PROVE  MeetsSchema(schema, data, g) <=>
             /\ Meaning!MetAt(schema, data)
             /\ \A p \in Meaning!Below(<<schema, data>>) : g[p[1]][p[2]]
<1> DEFINE B == Meaning!Below(<<schema, data>>)
           Deeper == \A p \in B : g[p[1]][p[2]]
<1>1. CASE schema.kind = "boolean"
  <2>1. schema \in {Bool(FALSE), Bool(TRUE)}
    BY <1>1, Shape
  <2>2. B = {}
    BY <1>1 DEF Meaning!Below
  <2>3. MeetsSchema(schema, data, g) <=> schema.bool
    BY <1>1, Zenon DEF MeetsSchema, IsKind
  <2>4. Meaning!MetAt(schema, data) <=> schema = Meaning!Bool(TRUE)
    <3>1. schema.kind # "object"
      BY <1>1
    <3> QED
      BY <3>1, Zenon DEF Meaning!MetAt
  <2>5. schema.bool <=> schema = Meaning!Bool(TRUE)
    BY <2>1 DEF Bool, Meaning!Bool
  <2> QED
    BY <2>2, <2>3, <2>4, <2>5
<1>2. CASE schema.kind \notin {"boolean", "object"}
  <2>1. ~MeetsSchema(schema, data, g)
    BY <1>2, Zenon DEF MeetsSchema, IsKind
  <2>2. ~Meaning!MetAt(schema, data)
    <3>1. schema # Meaning!Bool(TRUE)
      BY <1>2 DEF Meaning!Bool
    <3>2. schema.kind # "object"
      BY <1>2
    <3> QED
      BY <3>1, <3>2, Zenon DEF Meaning!MetAt
  <2> QED
    BY <2>1, <2>2
<1>3. CASE schema.kind = "object"
  <2> DEFINE Props == \A key \in DOMAIN Properties(schema) \cap DOMAIN data.fields :
                         g[Properties(schema)[key]][data.fields[key]]
             Items == Has(schema, "items") =>
                         \A i \in DOMAIN data.items : g[Get(schema, "items")][data.items[i]]
             Type == Has(schema, "type") => check_type(Get(schema, "type"), data)
             Enum == HasKind(schema, "enum", "array") => Contains(Get(schema, "enum").items, data)
             Pattern == HasKind(schema, "pattern", "string") =>
                           pattern_matches(Get(schema, "pattern").str, data.str)
             Required == RequiredPresent(schema, data)
             Extra == NoExtraKeys(schema, data)
  <2>1. MeetsSchema(schema, data, g) <=>
           /\ Type /\ Enum
           /\ data.kind = "object" => Required /\ Props /\ Extra
           /\ data.kind = "array" => Items
           /\ data.kind = "string" => Pattern
    BY <1>3, Zenon DEF MeetsSchema, IsKind
  <2>2. Meaning!MetAt(schema, data) <=>
           /\ Type /\ Enum
           /\ data.kind = "object" => Required /\ Extra
           /\ data.kind = "string" => Pattern
    <3>1. schema # Meaning!Bool(TRUE)
      BY <1>3 DEF Meaning!Bool
    <3> DEFINE TypeMeant == "type" \in DOMAIN schema.fields =>
                   Meaning!TypeAllows(Meaning!Declared(schema, "type"), data)
               EnumMeant == Meaning!Declares(schema, "enum", "array") =>
                   data \in Meaning!Range(Meaning!Declared(schema, "enum").items)
               RequiredMeant == Meaning!Declares(schema, "required", "array") =>
                   \A req \in Meaning!Range(Meaning!Declared(schema, "required").items) :
                       req.kind = "string" => Head(req.str) \in Meaning!Keys(data)
               ExtraMeant == Meaning!Declares(schema, "additionalProperties", "boolean") =>
                   \/ Meaning!Declared(schema, "additionalProperties").bool
                   \/ Meaning!Keys(data) \subseteq Meaning!KeysDeclared(schema)
               PatternMeant == Meaning!Declares(schema, "pattern", "string") =>
                   pattern_matches(Meaning!Declared(schema, "pattern").str, data.str)
    <3>2. Type <=> TypeMeant
      BY <1>3, TypeKeyword
    <3>3. Enum <=> EnumMeant
      BY <1>3, EnumKeyword
    <3>4. data.kind = "object" => (Required <=> RequiredMeant)
      BY <1>3, RequiredKeyword
    <3>5. data.kind = "object" => (Extra <=> ExtraMeant)
      BY <1>3, AdditionalKeyword
    <3>6. Pattern <=> PatternMeant
      BY <1>3, PatternKeyword
    <3>7. Meaning!MetAt(schema, data) <=>
             /\ TypeMeant /\ EnumMeant
             /\ data.kind = "object" => RequiredMeant /\ ExtraMeant
             /\ data.kind = "string" => PatternMeant
      BY <1>3, <3>1, Zenon DEF Meaning!MetAt
    <3> HIDE DEF Type, Enum, Required, Extra, Pattern,
                 TypeMeant, EnumMeant, RequiredMeant, ExtraMeant, PatternMeant
    <3> QED
      BY <3>2, <3>3, <3>4, <3>5, <3>6, <3>7
  <2>3. Deeper <=> /\ data.kind = "object" => Props
                   /\ data.kind = "array" => Items
    <3>0. <<schema, data>>[1] = schema /\ <<schema, data>>[2] = data
      OBVIOUS
    <3>1. CASE data.kind = "array" /\ "items" \in DOMAIN schema.fields
      <4>1. B = {<<Meaning!Declared(schema, "items"), item>> : item \in Meaning!Range(data.items)}
        BY <1>3, <3>0, <3>1, Zenon DEF Meaning!Below
      <4>2. Items <=> \A i \in DOMAIN data.items : g[Get(schema, "items")][data.items[i]]
        BY <1>3, <3>1 DEF Has, IsKind
      <4>3. Deeper <=> \A item \in Meaning!Range(data.items) : g[Meaning!Declared(schema, "items")][item]
        BY <4>1, PairsWith, Zenon
      <4>4. Meaning!Declared(schema, "items") = Get(schema, "items")
        BY DEF Meaning!Declared, Get
      <4> HIDE DEF B, Deeper, Items
      <4> QED
        BY <3>1, <4>2, <4>3, <4>4 DEF Meaning!Range
    <3>2. CASE ~(data.kind = "array" /\ "items" \in DOMAIN schema.fields)
      <4>1. B = {<<Meaning!Declared(schema, "properties").fields[k], data.fields[k]>> :
                    k \in Meaning!Keys(data) \cap Meaning!KeysDeclared(schema)}
        BY <1>3, <3>0, <3>2, Zenon DEF Meaning!Below
      <4>2. data.kind = "array" => Items
        BY <3>2 DEF Has
      <4>3. Deeper <=> \A k \in Meaning!Keys(data) \cap Meaning!KeysDeclared(schema) :
                          g[Meaning!Declared(schema, "properties").fields[k]][data.fields[k]]
        <5> DEFINE e == Meaning!Declared(schema, "properties").fields
                   f == data.fields
                   K == Meaning!Keys(data) \cap Meaning!KeysDeclared(schema)
        <5>1. (\A p \in {<<e[k], f[k]>> : k \in K} : g[p[1]][p[2]]) <=> \A k \in K : g[e[k]][f[k]]
          <6> HIDE DEF e, f, K
          <6> QED
            BY PairsAt
        <5> QED
          BY <4>1, <5>1, Zenon
      <4>4. /\ DOMAIN Properties(schema) = Meaning!KeysDeclared(schema)
            /\ \A k \in Meaning!KeysDeclared(schema) :
                  Properties(schema)[k] = Meaning!Declared(schema, "properties").fields[k]
        BY <1>3, DeclaredProperties
      <4>5. Meaning!Keys(data) = IF data.kind = "object" THEN DOMAIN data.fields ELSE {}
        BY DEF Meaning!Keys
      <4> HIDE DEF B, Deeper, Items
      <4> QED
        BY <4>2, <4>3, <4>4, <4>5
    <3> QED
      BY <3>1, <3>2
  <2> HIDE DEF Props, Items, Type, Enum, Pattern, Required, Extra
  <2> QED
    BY <2>1, <2>2, <2>3, Zenon
<1> QED
  BY <1>1, <1>2, <1>3

-----------------------------------------------------------------------------
(* Of each place those some steps below it come from those one step less.    *)
Spots == Values \X Values

LEMMA BelowIsSpots == \A p \in Spots : Meaning!Below(p) \subseteq Spots
<1> SUFFICES ASSUME NEW schema \in Values, NEW data \in Values, schema.kind = "object"
             PROVE  Meaning!Below(<<schema, data>>) \subseteq Spots
  <2>1. \A p \in Spots : p = <<p[1], p[2]>> /\ p[1] \in Values /\ p[2] \in Values
    BY DEF Spots
  <2>2. \A p \in Spots : p[1].kind # "object" => Meaning!Below(p) = {}
    BY Zenon DEF Meaning!Below
  <2> QED
    BY <2>1, <2>2
<1> DEFINE B == Meaning!Below(<<schema, data>>)
<1>0. <<schema, data>>[1] = schema /\ <<schema, data>>[2] = data
  OBVIOUS
<1>1. CASE data.kind = "array" /\ "items" \in DOMAIN schema.fields
  <2>1. B = {<<schema.fields["items"], item>> : item \in Meaning!Range(data.items)}
    BY <1>0, <1>1, Zenon DEF Meaning!Below, Meaning!Declared
  <2>2. schema.fields["items"] \in Values
    BY <1>1, Shape
  <2>3. Meaning!Range(data.items) \subseteq Values
    <3>1. data.items \in Seq(Values)
      BY <1>1, Shape
    <3> QED
      BY <3>1, LenProperties, ElementOfSeq DEF Meaning!Range
  <2> HIDE DEF B
  <2> QED
    BY <2>1, <2>2, <2>3 DEF Spots, B
<1>2. CASE ~(data.kind = "array" /\ "items" \in DOMAIN schema.fields)
  <2> DEFINE e == Meaning!Declared(schema, "properties").fields
             f == data.fields
             K == Meaning!Keys(data) \cap Meaning!KeysDeclared(schema)
  <2>1. B = {<<e[k], f[k]>> : k \in K}
    BY <1>0, <1>2, Zenon DEF Meaning!Below
  <2>2. \A k \in K : e[k] \in Values
    BY DeclaredProperties
  <2>3. \A k \in K : f[k] \in Values
    BY Shape DEF Meaning!Keys
  <2> HIDE DEF B, e, f, K
  <2> QED
    BY <2>1, <2>2, <2>3 DEF Spots, B
<1> QED
  BY <1>1, <1>2

PlacesEquation(h) ==
    h = [steps \in 0..(MAX_SCHEMA_CHECK_DEPTH + 1) |-> [place \in Spots |->
           IF steps = 0 THEN {place} ELSE UNION {Meaning!Below(p) : p \in h[steps - 1][place]}]]

LEMMA PlacesBySteps == PlacesEquation(Meaning!Places)
<1> DEFINE M == MAX_SCHEMA_CHECK_DEPTH + 1
           S == [Spots -> SUBSET Spots]
           base == [q \in Spots |-> {q}]
           next(g) == [q \in Spots |-> UNION {Meaning!Below(p) : p \in g[q]}]
           step == [g \in S |-> next(g)]
<1>1. M \in Nat
  BY SchemaCheckAssumption
<1>2. base \in S
  OBVIOUS
<1>3. ASSUME NEW g \in S PROVE next(g) \in S
  BY BelowIsSpots
<1>4. step \in [S -> S]
  BY <1>3
<1> HIDE DEF M, S, base, step
<1>5. PICK f : f \in [0..M -> S] /\ f[0] = base /\ \A i \in 0..(M - 1) : f[i + 1] = step[f[i]]
  <2>1. PICK f : Iterates(f, M, S, base, step)
    BY <1>1, <1>2, <1>4, Iterate
  <2> QED
    BY <2>1 DEF Iterates
<1> DEFINE at(n) == [q \in Spots |->
                       IF n = 0 THEN {q} ELSE UNION {Meaning!Below(p) : p \in f[n - 1][q]}]
<1>6. ASSUME NEW n \in 0..M PROVE f[n] = at(n)
  <2>1. CASE n = 0
    BY <1>5, <2>1 DEF base
  <2>2. CASE n # 0
    <3>1. n - 1 \in 0..(M - 1) /\ n - 1 \in 0..M /\ (n - 1) + 1 = n
      BY <1>1, <2>2
    <3>2. f[n] = step[f[n - 1]] /\ f[n - 1] \in S
      BY <1>5, <3>1
    <3>3. f[n] = next(f[n - 1])
      BY <3>2 DEF step
    <3> QED
      BY <2>2, <3>3
  <2> QED
    BY <2>1, <2>2
<1>7. PlacesEquation(f)
  <2> HIDE DEF at
  <2>1. f = [n \in 0..M |-> at(n)]
    BY <1>5, <1>6
  <2> QED
    BY <2>1, Zenon DEF PlacesEquation, M, at
<1>8. Meaning!Places = CHOOSE h : PlacesEquation(h)
  BY DEF Meaning!Places, PlacesEquation, Spots
<1> QED
  BY <1>7, <1>8, Zenon

LEMMA PlacesAt ==
    ASSUME NEW place \in Spots
    PROVE  /\ Meaning!Places[0][place] = {place}
           /\ \A n \in 0..MAX_SCHEMA_CHECK_DEPTH :
                 Meaning!Places[n + 1][place] =
                    UNION {Meaning!Below(p) : p \in Meaning!Places[n][place]}
<1> DEFINE h == Meaning!Places
           M == MAX_SCHEMA_CHECK_DEPTH + 1
           at(n) == [q \in Spots |->
                       IF n = 0 THEN {q} ELSE UNION {Meaning!Below(p) : p \in h[n - 1][q]}]
<1>1. h = [n \in 0..M |-> at(n)]
  <2>1. PlacesEquation(h)
    BY PlacesBySteps
  <2> QED
    BY <2>1, Zenon DEF PlacesEquation
<1> HIDE DEF h, at
<1>2. MAX_SCHEMA_CHECK_DEPTH \in Nat
  BY SchemaCheckAssumption
<1>3. h[0][place] = {place}
  <2>1. h[0] = at(0)
    BY <1>1, <1>2
  <2> QED
    BY <2>1 DEF at
<1>4. ASSUME NEW n \in 0..MAX_SCHEMA_CHECK_DEPTH
      PROVE  h[n + 1][place] = UNION {Meaning!Below(p) : p \in h[n][place]}
  <2>1. n + 1 \in 0..M /\ n + 1 # 0 /\ (n + 1) - 1 = n
    BY <1>2
  <2>2. h[n + 1] = at(n + 1)
    BY <1>1, <2>1
  <2> QED
    BY <2>1, <2>2 DEF at
<1> QED
  BY <1>3, <1>4 DEF h

(* conforms computes what the schema means: by induction on the number of    *)
(* steps, it holds exactly when the schema is met at every place nearer than *)
(* that, and check_rec holds at those that many steps below; and past the    *)
(* depth limit it holds of nothing (schema_check.rs conforms, check_rec).    *)
THEOREM CheckIsMeant ==
    \A schema, data \in Values : conforms(schema, data) <=> Meaning!Conforms(schema, data)
<1> SUFFICES ASSUME NEW schema \in Values, NEW data \in Values
             PROVE  conforms(schema, data) <=> Meaning!Conforms(schema, data)
  OBVIOUS
<1> DEFINE N == MAX_SCHEMA_CHECK_DEPTH
           place == <<schema, data>>
           P(n) == Meaning!Places[n][place]
           Met(n) == \A p \in P(n) : Meaning!MetAt(p[1], p[2])
           Nearer(n) == \A m \in 0..(n - 1) : Met(m)
           Checked(n) == \A p \in P(n) : check_rec[n][p[1]][p[2]]
           Claim(n) == P(n) \subseteq Spots /\ (conforms(schema, data) <=> Nearer(n) /\ Checked(n))
           T == {n \in Nat : n <= N + 1 => Claim(n)}
<1>1. N \in Nat
  BY SchemaCheckAssumption
<1>2. place \in Spots /\ place[1] = schema /\ place[2] = data
  BY DEF Spots
<1>3. P(0) = {place} /\ \A n \in 0..N : P(n + 1) = UNION {Meaning!Below(p) : p \in P(n)}
  BY <1>2, PlacesAt
<1>4. 0 \in T
  <2>1. Nearer(0)
    OBVIOUS
  <2>2. Checked(0) <=> conforms(schema, data)
    <3> HIDE DEF P, place
    <3>1. Checked(0) <=> check_rec[0][place[1]][place[2]]
      BY <1>3
    <3> QED
      BY <1>2, <3>1, Zenon DEF conforms
  <2>3. P(0) \subseteq Spots
    BY <1>2, <1>3
  <2> HIDE DEF P, Nearer, Checked
  <2> QED
    BY <2>1, <2>2, <2>3
<1>5. ASSUME NEW n \in Nat, n \in T, n + 1 <= N + 1 PROVE Claim(n + 1)
  <2>1. n \in 0..N /\ Claim(n)
    BY <1>1, <1>5
  <2>2. ASSUME NEW p \in P(n)
        PROVE  /\ Meaning!Below(p) \subseteq Spots
               /\ check_rec[n][p[1]][p[2]] <=>
                    /\ Meaning!MetAt(p[1], p[2])
                    /\ \A q \in Meaning!Below(p) : check_rec[n + 1][q[1]][q[2]]
    <3>1. p \in Spots
      BY <2>1
    <3>2. p[1] \in Values /\ p[2] \in Values /\ p = <<p[1], p[2]>>
      BY <3>1 DEF Spots
    <3> DEFINE a == p[1]
               b == p[2]
               g == check_rec[n + 1]
    <3>3. g \in Verdicts
      BY CheckAt
    <3>4. check_rec[n][a][b] <=> MeetsSchema(a, b, g)
      BY <1>1, <2>1, <3>2, CheckAt
    <3>5. MeetsSchema(a, b, g) <=>
             Meaning!MetAt(a, b) /\ \A q \in Meaning!Below(<<a, b>>) : g[q[1]][q[2]]
      <4> HIDE DEF a, b, g
      <4>1. a \in Values /\ b \in Values
        BY <3>2 DEF a, b
      <4> QED
        BY <3>3, <4>1, OneLevel
    <3>6. Meaning!Below(p) = Meaning!Below(<<a, b>>)
      BY <3>2
    <3>7. Meaning!Below(p) \subseteq Spots
      BY <3>1, BelowIsSpots
    <3> QED
      BY <3>4, <3>5, <3>6, <3>7, Zenon
  <2>3. P(n + 1) = UNION {Meaning!Below(p) : p \in P(n)}
    BY <1>3, <2>1
  <2> HIDE DEF P
  <2>4. Checked(n) <=> Met(n) /\ Checked(n + 1)
    <3>1. Checked(n + 1) <=>
             \A p \in P(n) : \A q \in Meaning!Below(p) : check_rec[n + 1][q[1]][q[2]]
      BY <2>3
    <3> QED
      BY <2>2, <3>1, Zenon
  <2>5. Nearer(n + 1) <=> Nearer(n) /\ Met(n)
    <3> HIDE DEF Met
    <3>1. \A m : m \in 0..((n + 1) - 1) <=> m \in 0..(n - 1) \/ m = n
      OBVIOUS
    <3> QED
      BY <3>1
  <2>6. P(n + 1) \subseteq Spots
    BY <2>2, <2>3
  <2> HIDE DEF Nearer, Checked, Met
  <2> QED
    BY <2>1, <2>4, <2>5, <2>6
<1>6. Claim(N + 1)
  <2>1. \A n \in Nat : n \in T => n + 1 \in T
    BY <1>5
  <2> HIDE DEF T, Claim
  <2>2. N + 1 \in T
    BY <1>1, <1>4, <2>1, Induction
  <2> QED
    BY <2>2 DEF T
<1>7. Checked(N + 1) <=> P(N + 1) = {}
  <2>1. ASSUME NEW p \in P(N + 1) PROVE ~check_rec[N + 1][p[1]][p[2]]
    <3>1. p[1] \in Values /\ p[2] \in Values
      BY <1>6 DEF Spots
    <3>2. N + 1 \in Nat /\ ~(N + 1 <= N)
      BY <1>1
    <3> QED
      BY <3>1, <3>2, CheckAt
  <2> HIDE DEF P
  <2> QED
    BY <2>1, Zenon
<1>8. Nearer(N + 1) <=> \A steps \in 0..N : Met(steps)
  <2> HIDE DEF Met
  <2> QED
    BY <1>1
<1>9. Meaning!Conforms(schema, data) <=> P(N + 1) = {} /\ \A steps \in 0..N : Met(steps)
  BY Zenon DEF Meaning!Conforms
<1> HIDE DEF P, Met, Nearer, Checked
<1> QED
  BY <1>6, <1>7, <1>8, <1>9
-----------------------------------------------------------------------------
(* Writing a key an object has leaves the other keys as they were (IndexMut  *)
(* of serde_json).                                                           *)
LEMMA PutKey ==
    ASSUME NEW v, NEW k \in DOMAIN v.fields, NEW x
    PROVE  LET w == Put(v, k, x)
           IN /\ w.kind = "object" /\ w = Obj(w.fields)
              /\ DOMAIN w.fields = DOMAIN v.fields
              /\ w.fields[k] = x
              /\ \A l \in DOMAIN v.fields \ {k} : w.fields[l] = v.fields[l]
<1> DEFINE f == [l \in DOMAIN v.fields \cup {k} |-> IF l = k THEN x ELSE v.fields[l]]
<1>1. DOMAIN f = DOMAIN v.fields /\ f[k] = x /\ \A l \in DOMAIN v.fields \ {k} : f[l] = v.fields[l]
  OBVIOUS
<1>2. Put(v, k, x) = Obj(f)
  BY Zenon DEF Put
<1> HIDE DEF f
<1>3. Obj(f).kind = "object" /\ Obj(f).fields = f
  BY DEF Obj
<1> QED
  BY <1>1, <1>2, <1>3

(* Text with a notice behind it is another text.                             *)
LEMMA LongerText ==
    ASSUME NEW s, NEW text, IsText(s), IsText(text)
    PROVE  s \o <<"\n">> \o text # s
<1> DEFINE A == Range(s)
           B == Range(text)
           S == A \cup B \cup {"\n"}
           line == <<"\n">>
<1>1. s \in Seq(A) /\ text \in Seq(B)
  BY DEF IsText
<1>2. A \subseteq S /\ B \subseteq S /\ "\n" \in S
  OBVIOUS
<1> HIDE DEF A, B, S
<1>3. s \in Seq(S) /\ text \in Seq(S)
  BY <1>1, <1>2, SeqMonotonic
<1>4. line \in Seq(S) /\ Len(line) = 1
  BY <1>2
<1> HIDE DEF line
<1>5. s \o line \in Seq(S) /\ Len(s \o line) = Len(s) + 1
  <2>1. s \o line \in Seq(S) /\ Len(s \o line) = Len(s) + Len(line)
    BY <1>3, <1>4, ConcatProperties
  <2> QED
    BY <1>4, <2>1
<1>6. Len((s \o line) \o text) = Len(s \o line) + Len(text)
  BY <1>3, <1>5, ConcatProperties
<1>7. Len(s) \in Nat /\ Len(text) \in Nat
  BY <1>3, LenProperties
<1>8. Len((s \o line) \o text) # Len(s)
  BY <1>5, <1>6, <1>7
<1>9. (s \o line) \o text # s
  BY <1>8
<1> QED
  BY <1>9 DEF line

LEMMA NoticeIsText == \A text \in Notices : IsText(text)
<1> SUFFICES ASSUME NEW new_state \in ProvenanceState \ {Clean}, NEW rule_ids \in RuleIds
             PROVE  IsText(build_advisory_text(new_state, rule_ids))
  BY DEF Notices
<1> DEFINE head == <<"[MAGUS ADVISORY", Shown(new_state)>>
           tail == <<"]">>
           S == Range(rule_ids) \cup {"[MAGUS ADVISORY", Shown(new_state), "]"}
<1>1. rule_ids \in Seq(S)
  <2>1. rule_ids \in Seq(Range(rule_ids))
    BY ContentAssumption DEF IsText
  <2>2. Range(rule_ids) \subseteq S
    OBVIOUS
  <2> HIDE DEF S
  <2> QED
    BY <2>1, <2>2, SeqMonotonic
<1>2. head \in Seq(S) /\ tail \in Seq(S)
  <2>1. "[MAGUS ADVISORY" \in S /\ Shown(new_state) \in S /\ "]" \in S
    OBVIOUS
  <2>2. \A Q : \A x, y \in Q : <<x, y>> \in Seq(Q) /\ <<y>> \in Seq(Q)
    OBVIOUS
  <2> HIDE DEF S
  <2> QED
    BY <2>1, <2>2, Zenon
<1> DEFINE all == head \o rule_ids \o tail
<1>3. build_advisory_text(new_state, rule_ids) = all
  BY Zenon DEF build_advisory_text
<1> HIDE DEF head, tail, S
<1>4. all \in Seq(S)
  <2>1. head \o rule_ids \in Seq(S)
    BY <1>1, <1>2, ConcatProperties
  <2> QED
    BY <1>2, <2>1, ConcatProperties
<1> HIDE DEF all
<1>5. all \in Seq(Range(all))
  <2>1. Len(all) \in Nat /\ DOMAIN all = 1..Len(all) /\ all \in [1..Len(all) -> S]
    BY <1>4, LenProperties
  <2>2. all \in [1..Len(all) -> Range(all)]
    BY <2>1 DEF Range
  <2> QED
    BY <2>1, <2>2, SeqDef
<1> QED
  BY <1>3, <1>5 DEF IsText

(* A string with the notice behind it, as Extended makes it.                 *)
LEMMA StringGrows ==
    ASSUME NEW v \in Values, NEW text, IsText(text), v.kind = "string"
    PROVE  /\ Extended(v, text) = Str(v.str \o <<"\n">> \o text)
           /\ Extended(v, text).kind = "string" /\ Extended(v, text) # v
<1>1. v = Str(v.str) /\ IsText(v.str)
  BY Shape
<1>2. Extended(v, text) = Str(v.str \o <<"\n">> \o text)
  BY Zenon DEF Extended
<1>3. v.str \o <<"\n">> \o text # v.str
  BY <1>1, LongerText
<1> DEFINE longer == v.str \o <<"\n">> \o text
<1> HIDE DEF longer
<1>4. Str(longer).kind = "string" /\ Str(longer).str = longer
  BY DEF Str
<1> QED
  BY <1>2, <1>3, <1>4 DEF longer

(* Tier 1 of inject_advisory: structuredContent.content, two levels down.    *)
LEMMA StructuredGrows ==
    ASSUME NEW result \in Values, NEW text, IsText(text), HasStructuredString(result)
    PROVE  /\ OneStringGrew(result, InStructured(result, text), text)
           /\ InStructured(result, text) # result
<1> DEFINE s == result.fields["structuredContent"]
           c == s.fields["content"]
           x == Extended(c, text)
           t == Put(s, "content", x)
           w == Put(result, "structuredContent", t)
<1>1. /\ result.kind = "object" /\ "structuredContent" \in DOMAIN result.fields
      /\ s.kind = "object" /\ "content" \in DOMAIN s.fields /\ c.kind = "string"
  BY DEF HasStructuredString, HasKind, Has, Get, IsKind
<1>2. s \in Values /\ c \in Values
  <2>1. s \in Values
    BY <1>1, Shape
  <2> HIDE DEF s
  <2> QED
    BY <1>1, <2>1, Shape
<1>3. InStructured(result, text) = w
  BY Zenon DEF InStructured, Get
<1>4. x = Str(c.str \o <<"\n">> \o text) /\ x.kind = "string" /\ x # c
  BY <1>1, <1>2, StringGrows
<1>5. /\ t.kind = "object" /\ DOMAIN t.fields = DOMAIN s.fields /\ t.fields["content"] = x
      /\ \A l \in DOMAIN s.fields \ {"content"} : t.fields[l] = s.fields[l]
  <2> HIDE DEF s, x
  <2> QED
    BY <1>1, PutKey
<1>6. /\ w.kind = "object" /\ DOMAIN w.fields = DOMAIN result.fields
      /\ w.fields["structuredContent"] = t
      /\ \A l \in DOMAIN result.fields \ {"structuredContent"} : w.fields[l] = result.fields[l]
  <2> HIDE DEF t
  <2> QED
    BY <1>1, PutKey
<1> HIDE DEF s, c, x, t, w
<1>7. w # result
  BY <1>4, <1>5, <1>6 DEF s, c
<1>8. OneStringGrew(result, w, text)
  <2>1. ChildGrew(s, t, text)
    <3>1. StringGrew(s.fields["content"], t.fields["content"], text)
      BY <1>1, <1>4, <1>5, Zenon DEF StringGrew, IsKind, c
    <3> QED
      BY <1>1, <1>5, <3>1, Zenon DEF ChildGrew, OnePartGrew, IsKind
  <2>2. BelowGrew(result, w, text)
    <3>1. ChildGrew(result.fields["structuredContent"], w.fields["structuredContent"], text)
      BY <1>6, <2>1 DEF s
    <3> QED
      BY <1>1, <1>6, <3>1, Zenon DEF BelowGrew, OnePartGrew, IsKind
  <2> QED
    BY <2>2 DEF OneStringGrew
<1> QED
  BY <1>3, <1>7, <1>8

(* Tier 2 of inject_advisory: a text of content[], three levels down, and    *)
(* structuredContent is left alone.                                          *)
LEMMA FirstBlock ==
    ASSUME NEW result \in Values, TextBlocks(result) # {}
    PROVE  LET first == CHOOSE i \in TextBlocks(result) : \A j \in TextBlocks(result) : i <= j
           IN first \in TextBlocks(result)
<1> DEFINE T == TextBlocks(result)
<1>1. T \subseteq Nat
  <2>1. HasKind(result, "content", "array")
    BY Zenon DEF TextBlocks
  <2>2. result.fields["content"] \in Values /\ result.fields["content"].kind = "array"
    BY <2>1, Shape DEF HasKind, Has, Get, IsKind
  <2>3. DOMAIN result.fields["content"].items \subseteq Nat
    <3>1. result.fields["content"].items \in Seq(Values)
      BY <2>2, Shape
    <3> QED
      BY <3>1, LenProperties
  <2> QED
    BY <2>1, <2>3 DEF TextBlocks, Get
<1> HIDE DEF T
<1>2. PICK m \in T : \A k \in T : ~(<<k, m>> \in OpToRel(<, Nat))
  <2>1. T # {}
    BY DEF T
  <2> QED
    BY <1>1, <2>1, NatLessThanWellFounded, WFMin
<1>3. \A k \in T : m <= k
  <2>1. \A k \in T : ~(k < m)
    BY <1>1, <1>2 DEF OpToRel
  <2> QED
    BY <1>1, <2>1
<1> QED
  BY <1>3, Zenon DEF T

LEMMA BlockGrows ==
    ASSUME NEW result \in Values, NEW text, IsText(text), TextBlocks(result) # {}
    PROVE  /\ OneStringGrew(result, InFirstBlock(result, text), text)
           /\ InFirstBlock(result, text) # result
           /\ Has(result, "structuredContent") =>
                 Get(InFirstBlock(result, text), "structuredContent")
                    = Get(result, "structuredContent")
<1> DEFINE n == CHOOSE i \in TextBlocks(result) : \A j \in TextBlocks(result) : i <= j
           l == result.fields["content"]
           b == l.items[n]
           c == b.fields["text"]
           x == Extended(c, text)
           d == Put(b, "text", x)
           is == [l.items EXCEPT ![n] = d]
           w == Put(result, "content", Arr(is))
<1>1. n \in TextBlocks(result)
  BY FirstBlock
<1> HIDE DEF n
<1>2. /\ result.kind = "object" /\ "content" \in DOMAIN result.fields
      /\ l.kind = "array" /\ n \in DOMAIN l.items
      /\ b.kind = "object" /\ "text" \in DOMAIN b.fields /\ c.kind = "string"
  BY <1>1 DEF TextBlocks, HasKind, Has, Get, IsKind
<1>3. l \in Values /\ b \in Values /\ c \in Values /\ l.items \in Seq(Values)
  <2>1. l \in Values
    BY <1>2, Shape
  <2>2. l.items \in Seq(Values)
    BY <1>2, <2>1, Shape
  <2> HIDE DEF l
  <2>3. b \in Values
    BY <1>2, <2>2, LenProperties, ElementOfSeq
  <2> HIDE DEF b
  <2>4. c \in Values
    BY <1>2, <2>3, Shape
  <2> QED
    BY <2>1, <2>2, <2>3, <2>4
<1>4. InFirstBlock(result, text) = w
  BY Zenon DEF InFirstBlock, Get, n
<1>5. x = Str(c.str \o <<"\n">> \o text) /\ x.kind = "string" /\ x # c
  BY <1>2, <1>3, StringGrows
<1>6. /\ d.kind = "object" /\ DOMAIN d.fields = DOMAIN b.fields /\ d.fields["text"] = x
      /\ \A k \in DOMAIN b.fields \ {"text"} : d.fields[k] = b.fields[k]
  <2> HIDE DEF b, x
  <2> QED
    BY <1>2, PutKey
<1>7. /\ Arr(is).kind = "array" /\ Arr(is).items = is /\ Len(is) = Len(l.items)
      /\ is[n] = d /\ \A i \in DOMAIN l.items \ {n} : is[i] = l.items[i]
  <2> HIDE DEF l, d
  <2>1. is[n] = d /\ \A i \in DOMAIN l.items \ {n} : is[i] = l.items[i]
    BY <1>2, <1>3
  <2>2. Len(is) = Len(l.items)
    BY <1>3
  <2> HIDE DEF is
  <2> QED
    BY <2>1, <2>2 DEF Arr
<1>8. /\ w.kind = "object" /\ DOMAIN w.fields = DOMAIN result.fields
      /\ w.fields["content"] = Arr(is)
      /\ \A k \in DOMAIN result.fields \ {"content"} : w.fields[k] = result.fields[k]
  <2> HIDE DEF is
  <2> QED
    BY <1>2, PutKey
<1> HIDE DEF l, b, c, x, d, is, w
<1>9. w # result
  <2> SUFFICES ASSUME w = result PROVE FALSE
    OBVIOUS
  <2>1. l = Arr(is)
    BY <1>8 DEF l
  <2>2. b = d
    BY <1>7, <2>1 DEF b
  <2>3. c = x
    BY <1>6, <2>2 DEF c
  <2> QED
    BY <1>5, <2>3
<1>10. OneStringGrew(result, w, text)
  <2>1. ChildGrew(b, d, text)
    <3>1. StringGrew(b.fields["text"], d.fields["text"], text)
      BY <1>2, <1>5, <1>6, Zenon DEF StringGrew, IsKind, c
    <3> QED
      BY <1>2, <1>6, <3>1, Zenon DEF ChildGrew, OnePartGrew, IsKind
  <2>2. BelowGrew(l, Arr(is), text)
    <3>1. ChildGrew(l.items[n], Arr(is).items[n], text)
      BY <1>7, <2>1 DEF b
    <3>2. /\ Len(l.items) = Len(Arr(is).items)
          /\ \A i \in DOMAIN l.items \ {n} : l.items[i] = Arr(is).items[i]
      BY <1>7
    <3> QED
      BY <1>2, <1>7, <3>1, <3>2, Zenon DEF BelowGrew, OnePartGrew, IsKind
  <2>3. BelowGrew(result.fields["content"], w.fields["content"], text)
    BY <1>8, <2>2 DEF l
  <2> QED
    BY <1>2, <1>8, <2>3, Zenon DEF OneStringGrew, OnePartGrew, IsKind
<1>11. Has(result, "structuredContent") =>
          Get(w, "structuredContent") = Get(result, "structuredContent")
  BY <1>8 DEF Has, Get
<1> QED
  BY <1>4, <1>9, <1>10, <1>11

LEMMA Injected ==
    ASSUME NEW result \in Values, NEW text, IsText(text)
    PROVE  LET answer == inject_advisory(result, text)
           IN /\ answer.tier \in InjectionTier
              /\ IF answer.tier = "NoSafeField" THEN answer.result = result
                 ELSE answer.result # result /\ OneStringGrew(result, answer.result, text)
              /\ Has(result, "structuredContent") =>
                    \/ HasStructuredString(result) /\ answer.result = InStructured(result, text)
                    \/ Get(answer.result, "structuredContent") = Get(result, "structuredContent")
<1> DEFINE A == inject_advisory(result, text)
<1>1. CASE HasStructuredString(result)
  <2>1. A = [tier |-> "StructuredContent", result |-> InStructured(result, text)]
    BY <1>1 DEF inject_advisory
  <2>2. A.tier = "StructuredContent" /\ A.result = InStructured(result, text)
    BY <2>1
  <2>3. /\ OneStringGrew(result, InStructured(result, text), text)
        /\ InStructured(result, text) # result
    BY <1>1, StructuredGrows
  <2> HIDE DEF A
  <2> QED
    BY <1>1, <2>2, <2>3 DEF InjectionTier, A
<1>2. CASE ~HasStructuredString(result) /\ TextBlocks(result) # {}
  <2>1. A = [tier   |-> IF Has(result, "structuredContent") THEN "ContentBlockShadowed" ELSE "ContentBlock",
             result |-> InFirstBlock(result, text)]
    BY <1>2 DEF inject_advisory
  <2>2. A.tier \in {"ContentBlockShadowed", "ContentBlock"} /\ A.result = InFirstBlock(result, text)
    BY <2>1
  <2>3. /\ OneStringGrew(result, InFirstBlock(result, text), text)
        /\ InFirstBlock(result, text) # result
        /\ Has(result, "structuredContent") =>
              Get(InFirstBlock(result, text), "structuredContent") = Get(result, "structuredContent")
    BY <1>2, BlockGrows
  <2> HIDE DEF A
  <2> QED
    BY <2>2, <2>3 DEF InjectionTier, A
<1>3. CASE ~HasStructuredString(result) /\ TextBlocks(result) = {}
  <2>1. A = [tier |-> "NoSafeField", result |-> result]
    BY <1>3 DEF inject_advisory
  <2>2. A.tier = "NoSafeField" /\ A.result = result
    BY <2>1
  <2> HIDE DEF A
  <2> QED
    BY <2>2 DEF InjectionTier, A
<1> QED
  BY <1>1, <1>2, <1>3

(* The kind of a value that is no number is all a "type" can tell.           *)
LEMMA TypeOfKind ==
    ASSUME NEW type \in Values, NEW v \in Values, NEW w \in Values,
           v.kind = w.kind, v.kind # "number"
    PROVE  check_type(type, v) <=> check_type(type, w)
<1>1. Meaning!NamesOf(v) = Meaning!NamesOf(w)
  BY DEF Meaning!NamesOf
<1>2. Meaning!TypeAllows(type, v) <=> Meaning!TypeAllows(type, w)
  BY <1>1 DEF Meaning!TypeAllows
<1> QED
  BY <1>2, CheckType

(* So one string conforms where another does, enum and pattern aside.        *)
LEMMA StringConforms ==
    ASSUME NEW depth \in Nat, NEW schema \in Values, NEW v \in Values, NEW w \in Values,
           v.kind = "string", w.kind = "string",
           ~Has(schema, "enum"), ~Has(schema, "pattern"), check_rec[depth][schema][v]
    PROVE  check_rec[depth][schema][w]
<1> DEFINE g == check_rec[depth + 1]
<1>1. depth <= MAX_SCHEMA_CHECK_DEPTH /\ MeetsSchema(schema, v, g)
  BY CheckAt
<1> HIDE DEF g
<1>2. Has(schema, "type") => (check_type(Get(schema, "type"), v) <=> check_type(Get(schema, "type"), w))
  <2>1. Has(schema, "type") => Get(schema, "type") \in Values
    BY Shape DEF Has, IsKind, Get
  <2> QED
    BY <2>1, TypeOfKind
<1>3. MeetsSchema(schema, w, g)
  BY <1>1, <1>2, Zenon DEF MeetsSchema, HasKind, IsKind
<1> QED
  BY <1>1, <1>3, CheckAt DEF g

(* And an object conforms where one with another "content" does.             *)
LEMMA StillConforms ==
    ASSUME NEW schema \in Values, NEW s \in Values, NEW t \in Values,
           s.kind = "object", t.kind = "object", DOMAIN t.fields = DOMAIN s.fields,
           "content" \in DOMAIN s.fields,
           s.fields["content"].kind = "string", t.fields["content"].kind = "string",
           \A k \in DOMAIN s.fields \ {"content"} : t.fields[k] = s.fields[k],
           ~RestrictsContent(schema), conforms(schema, s)
    PROVE  conforms(schema, t)
<1> DEFINE g == check_rec[1]
           declared == Properties(schema)
<1>0. s.fields["content"] \in Values /\ t.fields["content"] \in Values
  BY Shape
<1>1. 0 <= MAX_SCHEMA_CHECK_DEPTH /\ MeetsSchema(schema, s, g)
  <2>1. 0 \in Nat /\ 0 + 1 = 1
    OBVIOUS
  <2> QED
    BY <2>1, CheckAt DEF conforms
<1>2. conforms(schema, t) <=> MeetsSchema(schema, t, g)
  <2>1. 0 \in Nat /\ 0 + 1 = 1
    OBVIOUS
  <2> QED
    BY <1>1, <2>1, CheckAt DEF conforms
<1>3. CASE schema.kind # "object"
  <2>1. schema.kind = "boolean" /\ schema.bool
    BY <1>1, <1>3, Zenon DEF MeetsSchema, IsKind
  <2>2. MeetsSchema(schema, t, g)
    BY <2>1, Zenon DEF MeetsSchema, IsKind
  <2> QED
    BY <1>2, <2>2
<1>4. CASE schema.kind = "object"
  <2>1. Has(schema, "type") =>
           (check_type(Get(schema, "type"), s) <=> check_type(Get(schema, "type"), t))
    <3>1. Has(schema, "type") => Get(schema, "type") \in Values
      BY Shape DEF Has, IsKind, Get
    <3> QED
      BY <3>1, TypeOfKind
  <2>2. ~HasKind(schema, "enum", "array")
    BY <1>4 DEF RestrictsContent, HasKind, IsKind
  <2>3. RequiredPresent(schema, s) => RequiredPresent(schema, t)
    BY DEF RequiredPresent, Has, IsKind
  <2>4. NoExtraKeys(schema, s) => NoExtraKeys(schema, t)
    BY DEF NoExtraKeys
  <2>5. ASSUME NEW key \in DOMAIN declared \cap DOMAIN t.fields,
               g[declared[key]][s.fields[key]]
        PROVE  g[declared[key]][t.fields[key]]
    <3>1. CASE key # "content"
      BY <2>5, <3>1
    <3>2. CASE key = "content"
      <4>1. declared["content"] \in Values
        BY <1>4, <2>5, <3>2, DeclaredProperties
      <4>2. ~Has(declared["content"], "enum") /\ ~Has(declared["content"], "pattern")
        BY <1>4, <2>5, <3>2 DEF RestrictsContent, IsKind
      <4>3. g[declared["content"]][s.fields["content"]]
        BY <2>5, <3>2
      <4> HIDE DEF declared
      <4>4. g[declared["content"]][t.fields["content"]]
        BY <1>0, <4>1, <4>2, <4>3, StringConforms
      <4> QED
        BY <3>2, <4>4
    <3> QED
      BY <3>1, <3>2
  <2>6. \A key \in DOMAIN declared \cap DOMAIN s.fields : g[declared[key]][s.fields[key]]
    BY <1>1, <1>4, Zenon DEF MeetsSchema, IsKind
  <2>7. \A key \in DOMAIN declared \cap DOMAIN t.fields : g[declared[key]][t.fields[key]]
    BY <2>5, <2>6
  <2>8. /\ Has(schema, "type") => check_type(Get(schema, "type"), s)
        /\ RequiredPresent(schema, s) /\ NoExtraKeys(schema, s)
    BY <1>1, <1>4, Zenon DEF MeetsSchema, IsKind
  <2> HIDE DEF g
  <2>9. MeetsSchema(schema, t, g)
    BY <1>4, <2>1, <2>2, <2>3, <2>4, <2>7, <2>8, Zenon DEF MeetsSchema, IsKind
  <2> QED
    BY <1>2, <2>9 DEF g
<1> QED
  BY <1>3, <1>4

-----------------------------------------------------------------------------
(* What becomes of one result: the verdict is of the result as it came, and  *)
(* what is answered is that result, or that result with a notice put into it.*)
JudgedAsReceived ==
    IF tool_output_schema = NoSchema \/ ~Has(received, "structuredContent")
    THEN conformance = "NotDeclared"
    ELSE conformance = IF conforms(tool_output_schema, Get(received, "structuredContent"))
                       THEN "Conformant" ELSE "Violated"

AnsweredAsIs == real_result = received /\ tier = "None"

AnsweredWithNotice ==
    /\ notice \in Notices
    /\ real_result = inject_advisory(received, notice).result
    /\ tier = inject_advisory(received, notice).tier

ContentInv ==
    /\ tool_output_schema \in Schemas \cup {NoSchema} /\ received \in Results
    /\ phase \in {"received", "judged", "answered"}
    /\ phase # "answered" => AnsweredAsIs
    /\ phase # "received" => JudgedAsReceived
    /\ phase = "answered" => AnsweredAsIs \/ AnsweredWithNotice

THEOREM ContentInvariance == Spec => []ContentInv
<1>1. Init => ContentInv
  BY DEF Init, ContentInv, AnsweredAsIs
<1>2. ContentInv /\ [Next]_vars => ContentInv'
  <2> SUFFICES ASSUME ContentInv, [Next]_vars PROVE ContentInv'
    OBVIOUS
  <2>1. CASE Judge
    <3>1. JudgedAsReceived'
      BY <2>1, Zenon DEF Judge, ContentInv, schema_conformance, JudgedAsReceived, AnsweredAsIs
    <3> QED
      BY <2>1, <3>1 DEF Judge, ContentInv, AnsweredAsIs
  <2>2. CASE Announce
    <3>1. AnsweredWithNotice'
      BY <2>2, Zenon DEF Announce, ContentInv, AnsweredAsIs, AnsweredWithNotice
    <3>2. JudgedAsReceived'
      BY <2>2, Zenon DEF Announce, ContentInv, JudgedAsReceived
    <3> QED
      BY <2>2, <3>1, <3>2 DEF Announce, ContentInv
  <2>3. CASE Forward
    BY <2>3 DEF Forward, ContentInv, JudgedAsReceived, AnsweredAsIs
  <2>4. CASE UNCHANGED vars
    BY <2>4 DEF vars, ContentInv, JudgedAsReceived, AnsweredAsIs, AnsweredWithNotice
  <2> QED
    BY <2>1, <2>2, <2>3, <2>4 DEF Next
<1> QED
  BY <1>1, <1>2, PTL DEF Spec

THEOREM ConformanceHolds == Spec => []ConformanceIsMeant
<1>1. ContentInv => ConformanceIsMeant
  <2> SUFFICES ASSUME ContentInv, phase # "received",
                      tool_output_schema # NoSchema, Has(received, "structuredContent")
               PROVE  conforms(tool_output_schema, Get(received, "structuredContent"))
                         <=> Meaning!Conforms(tool_output_schema, Get(received, "structuredContent"))
    BY Zenon DEF ContentInv, JudgedAsReceived, ConformanceIsMeant
  <2>1. tool_output_schema \in Values /\ received \in Values
    BY ContentAssumption DEF ContentInv
  <2>2. Get(received, "structuredContent") \in Values
    BY <2>1, Shape DEF Has, IsKind, Get
  <2> QED
    BY <2>1, <2>2, CheckIsMeant
<1> QED
  BY <1>1, ContentInvariance, PTL

THEOREM NoticeAppended == Spec => []NoticeIsAnAppendix
<1>1. ContentInv => NoticeIsAnAppendix
  <2> SUFFICES ASSUME ContentInv, phase = "answered" PROVE NoticeIsAnAppendix
    BY DEF NoticeIsAnAppendix
  <2> DEFINE structured == Get(received, "structuredContent")
             judged == conformance = "Conformant"
             after == Get(real_result, "structuredContent")
  <2>1. received \in Values
    BY ContentAssumption DEF ContentInv
  <2>2. judged => /\ tool_output_schema \in Values /\ Has(received, "structuredContent")
                  /\ conforms(tool_output_schema, structured)
    <3>1. "NotDeclared" # "Conformant" /\ "Violated" # "Conformant"
      OBVIOUS
    <3> QED
      BY <3>1, ContentAssumption, Zenon DEF ContentInv, JudgedAsReceived
  <2>3. CASE AnsweredAsIs
    BY <2>2, <2>3, Zenon DEF NoticeIsAnAppendix, AnsweredAsIs
  <2>4. CASE AnsweredWithNotice
    <3>1. IsText(notice)
      BY <2>4, NoticeIsText DEF AnsweredWithNotice
    <3>2. /\ tier \in InjectionTier
          /\ IF tier = "NoSafeField" THEN real_result = received
             ELSE real_result # received /\ OneStringGrew(received, real_result, notice)
          /\ Has(received, "structuredContent") =>
                \/ HasStructuredString(received) /\ real_result = InStructured(received, notice)
                \/ after = structured
      BY <2>1, <2>4, <3>1, Injected DEF AnsweredWithNotice
    <3>3. IF tier \in {"None", "NoSafeField"} THEN real_result = received
          ELSE real_result # received /\ OneStringGrew(received, real_result, notice)
      BY <3>2 DEF InjectionTier
    <3>4. ASSUME judged, ~RestrictsContent(tool_output_schema),
                 HasStructuredString(received), real_result = InStructured(received, notice)
          PROVE  conforms(tool_output_schema, after)
      <4>1. real_result \in Values
        <5>1. received \in Results
          BY DEF ContentInv
        <5> QED
          BY <2>4, <5>1, ContentAssumption DEF AnsweredWithNotice
      <4> DEFINE longer == Extended(structured.fields["content"], notice)
      <4>2. /\ received.kind = "object" /\ "structuredContent" \in DOMAIN received.fields
            /\ structured.kind = "object" /\ "content" \in DOMAIN structured.fields
            /\ structured.fields["content"].kind = "string"
        BY <3>4 DEF HasStructuredString, HasKind, Has, Get, IsKind
      <4>3. structured \in Values /\ structured.fields["content"] \in Values
        <5>1. structured \in Values
          BY <2>1, <4>2, Shape DEF Get
        <5> HIDE DEF structured
        <5> QED
          BY <4>2, <5>1, Shape
      <4>4. longer.kind = "string"
        BY <3>1, <4>2, <4>3, StringGrows
      <4>5. /\ real_result.kind = "object" /\ DOMAIN real_result.fields = DOMAIN received.fields
            /\ after = Put(structured, "content", longer)
        <5> DEFINE x == Put(structured, "content", longer)
        <5>1. real_result = Put(received, "structuredContent", x)
          BY <3>4, Zenon DEF InStructured, Get
        <5> HIDE DEF x
        <5>2. /\ real_result.kind = "object" /\ DOMAIN real_result.fields = DOMAIN received.fields
              /\ real_result.fields["structuredContent"] = x
          BY <4>2, <5>1, PutKey
        <5> QED
          BY <5>2 DEF x, Get
      <4>6. after \in Values
        BY <4>1, <4>2, <4>5, Shape DEF Get
      <4> HIDE DEF longer, structured, after
      <4>7. /\ after.kind = "object" /\ DOMAIN after.fields = DOMAIN structured.fields
            /\ after.fields["content"] = longer
            /\ \A k \in DOMAIN structured.fields \ {"content"} : after.fields[k] = structured.fields[k]
        BY <4>2, <4>5, PutKey
      <4> QED
        BY <2>2, <3>4, <4>2, <4>3, <4>4, <4>6, <4>7, StillConforms
    <3> QED
      BY <2>2, <3>2, <3>3, <3>4, Zenon DEF NoticeIsAnAppendix
  <2> QED
    BY <2>3, <2>4 DEF ContentInv
<1> QED
  BY <1>1, ContentInvariance, PTL

=============================================================================
