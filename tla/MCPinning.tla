-------------------------------- MODULE MCPinning --------------------------------
(* Values for model checking Pinning.  Strings are made of bytes that are    *)
(* also tags and lengths, so that what one string holds can look like what   *)
(* follows a shorter one.                                                    *)
EXTENDS Pinning

Scalars == {Null, Bool(FALSE), Bool(TRUE), Num(<<1>>), Str(<<>>), Str(<<1>>), Str(<<1, 3>>),
            Str(<<3, 1>>), Str(<<0>>)}

One(key, v) == Obj(<< <<key, v>> >>)
Two(k, v, l, w) == Obj(<< <<k, v>>, <<l, w>> >>)

(* Both orders of two keys, one a prefix of the other; keys that run into   *)
(* their values.                                                            *)
Objects ==
    {Obj(<<>>)}
    \cup {One(key, v) : key \in {<<1>>, <<1, 3>>}, v \in {Null, Str(<<1>>), Str(<<3, 1>>)}}
    \cup {Two(<<1>>, v, <<1, 1>>, w) : v, w \in {Null, Str(<<>>)}}
    \cup {Two(<<1, 1>>, v, <<1>>, w) : v, w \in {Null, Str(<<>>)}}

Arrays == {Arr(<<>>)} \cup {Arr(<<v>>) : v \in Scalars}
          \cup {Arr(<<v, w>>) : v, w \in {Null, Str(<<>>), Str(<<1>>)}}

(* To the depth limit, across it and beyond it, and beyond it under two keys. *)
Nested ==
    {Arr(<<Arr(<<>>)>>)}
    \cup {Arr(<<Arr(<<v>>)>>) : v \in {Null, Arr(<<>>), Str(<<1>>)}}
    \cup {Arr(<<Arr(<<Null>>), Null>>), Arr(<<Arr(<<>>), Null>>), Arr(<<Arr(<<Null, Null>>)>>)}
    \cup {One(<<1>>, One(<<1>>, v)) : v \in {Null, Str(<<1>>)}}
    \cup {Two(<<1>>, Arr(<<>>), <<3>>, Arr(<<Null>>)), Two(<<3>>, Arr(<<Null>>), <<1>>, Arr(<<>>)),
          Two(<<3>>, Arr(<<>>), <<1>>, Arr(<<Null>>))}

MCValues == Scalars \cup Objects \cup Arrays \cup Nested

Names == {<<1>>, <<3>>, <<1, 3>>, <<3, 1>>}
Texts == {<<>>, <<1>>, <<3>>, <<1, 3>>}

MCDefinitions ==
    {McpToolDefinition(n, d, i, o) : n \in Names, d \in Texts, i \in {Null, Obj(<<>>)}, o \in {None}}
    \cup {McpToolDefinition(<<1>>, <<>>, i, None) : i \in MCValues}
    \cup {McpToolDefinition(<<1>>, <<>>, i, o) : i \in {Null, Arr(<<Null>>)}, o \in MCValues}
=============================================================================
