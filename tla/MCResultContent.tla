----------------------------- MODULE MCResultContent -----------------------------
(* Values for model checking ResultContent. *)
EXTENDS ResultContent, TLC

Word(w) == Str(<<w>>)
Words(s) == Arr([i \in DOMAIN s |-> Word(s[i])])
Keyed(key, v) == Obj(key :> v)
Also(v, key, x) == Put(v, key, x)

a  == Str(<<"a">>)
ab == Str(<<"a", "b">>)

(* What is said of one value: every keyword, well formed or not, met by     *)
(* some of the values below and missed by others.                           *)
PlainSchemas ==
    {Bool(TRUE), Bool(FALSE), Null, EmptyObj,
     Keyed("type", Words(<<"null", "string">>)), Keyed("type", Arr(<<Null>>)),
     Keyed("type", Null), Keyed("enum", Arr(<<a, Null>>)), Keyed("enum", a)}
    \cup {Keyed("type", Word(name)) :
             name \in {"object", "array", "string", "number", "integer", "boolean", "tuple"}}
    \cup {Keyed("pattern", Str(p)) :
             p \in {<<"b">>, <<"^", "a">>, <<"(">>, <<"b", "b", "b", "b">>}}

(* Objects: every plain schema for "content", required or not, closed or not.*)
ObjectSchemas ==
    LET of(s) == Also(Keyed("type", Word("object")), "properties", Keyed("content", s))
        closed(s) == Also(s, "additionalProperties", Bool(FALSE))
        asking(s) == Also(s, "required", Arr(<<Word("content"), Null>>))
    IN UNION {{of(s), closed(of(s)), asking(of(s)), closed(asking(of(s)))} : s \in PlainSchemas}
       \cup {closed(EmptyObj), Keyed("additionalProperties", Null), Keyed("required", a),
             Keyed("required", Words(<<"x">>)), Keyed("properties", Null),
             Keyed("enum", Arr(<<Keyed("content", a)>>))}

Nested(s) == Keyed("properties", Keyed("content", s))
Each(s)   == Keyed("items", s)

(* At the depth limit, one place beyond it, and never reaching it.          *)
DeepSchemas ==
    UNION {{Each(s), Nested(Each(s)), Nested(Nested(s))} : s \in PlainSchemas}
    \cup {Nested(Nested(Nested(s))) : s \in {Bool(TRUE), Keyed("type", Word("string"))}}
    \cup {Each(Each(Each(EmptyObj)))}

MCSchemas == PlainSchemas \cup ObjectSchemas \cup DeepSchemas

Scalars == {Null, Bool(TRUE), Num("1.0"), Num("1.5"), a, ab}

MCStructured ==
    Scalars \cup {EmptyObj, Arr(<<>>), Arr(<<a, Num("1.5")>>), Arr(<<Arr(<<Arr(<<Null>>)>>)>>)}
    \cup {Keyed("content", v) : v \in Scalars \cup {EmptyObj, Arr(<<ab>>), Arr(<<ab, Null>>)}}
    \cup {Also(Keyed("content", a), "x", Null),
          Keyed("x", a), Keyed("content", Keyed("content", a)), Keyed("content", Keyed("content", ab)),
          Keyed("content", Keyed("content", Keyed("content", a)))}

Block(type, key, v) == Also(Keyed("type", Word(type)), key, v)

(* Lists of blocks: none, no text, a text that is no string, text behind    *)
(* other blocks, two texts, and things that are no blocks.                  *)
MCContents ==
    {Arr(<<>>), a, Arr(<<a, Null>>), Arr(<<Block("image", "data", ab)>>),
     Arr(<<Keyed("type", Word("text")), Block("text", "text", a)>>),
     Arr(<<Block("text", "text", Null)>>),
     Arr(<<Block("image", "data", ab), Block("text", "text", a), Block("text", "text", ab)>>),
     Arr(<<Keyed("text", a), Block("text", "text", Str(<<>>))>>)}

MCResults ==
    {Keyed("structuredContent", s) : s \in MCStructured}
    \cup {Keyed("content", c) : c \in MCContents}
    \cup {Also(Keyed("structuredContent", s), "content", c) :
             s \in {Null, Keyed("content", a), Keyed("content", Arr(<<a>>))}, c \in MCContents}
    \cup {Null, a, Arr(<<>>), EmptyObj}

MCRuleIds == {<<>>, <<"OBF-001", "CRD-002">>}

(* Values with their parts: nine levels are the deepest schema's. *)
WithParts(S) ==
    S \cup UNION {Range(v.items)  : v \in {w \in S : IsKind(w, "array")}}
      \cup UNION {Range(v.fields) : v \in {w \in S : IsKind(w, "object")}}

Level[n \in 0..9] ==
    IF n > 0 THEN WithParts(Level[n - 1])
    ELSE MCSchemas \cup MCResults
         \cup {inject_advisory(result, text).result : result \in MCResults, text \in Notices}

AllValues == {v : v \in Level[9]}

(* TLC keeps the value of AllValues, and reads MCValues at each use. *)
MCValues == AllValues
=============================================================================
