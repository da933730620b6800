------------------------------ MODULE MCRuleEngine ------------------------------
(* Two built-in rules, ten operator's files, the texts of up to three units    *)
(* and three longer ones.  "ab" is a locked literal, "k" a placeholder, "r" a *)
(* span of high entropy, "w" one of low entropy.                             *)
EXTENDS RuleEngine, SequencesExt

MCUnits  == {"a", "b", "k", "r", "w"}
MCRandom == {"r"}
MCTexts  == BoundedSeq(MCUnits, 3) \cup {<<"k", "w", "r", "w">>, <<"a", "b", "a", "b">>,
                                  <<"b", "b", "a", "b">>}

Literal(id, pattern, severity, scope, action) ==
    [id |-> id, category |-> "injection", severity |-> severity, kind |-> "literal",
     pattern |-> pattern, shapes |-> {}, scope |-> scope,
     action |-> action, escalated |-> action, exempt |-> {}]

Regex(id, shapes, severity, action, escalated) ==
    [id |-> id, category |-> "secret", severity |-> severity, kind |-> "regex",
     pattern |-> <<>>, shapes |-> shapes, scope |-> "Any",
     action |-> action, escalated |-> escalated, exempt |-> {"k"}]

MCLocked ==
    [rules |-> <<Literal("PI", <<"a", "b">>, Critical, "Any", ElevateAction),
                 Regex("KEY", {"k", "r", "w"}, 1, FlagAction, ElevateAction)>>,
     suppressions |-> <<>>]

With(rules, suppressions) == [rules |-> rules, suppressions |-> suppressions]

For(id, server, floor) == [rule_id |-> id, server_id |-> server, floor |-> floor]

Mine   == Literal("MINE", <<"b">>, 2, "ToolDescription", ElevateAction)
Across == Literal("ACROSS", <<"b", "a">>, 1, "ToolOutputOnly", FlagAction)
Worst  == Regex("WORST", {"r", "w"}, 2, ElevateAction, PoisonAction)
Weak   == Regex("WEAK", {"a", "w"}, 1, FlagAction, FlagAction)

MCUserFiles ==
    {With(<<>>, <<>>),
     With(<<>>, <<For("KEY", "s1", FlagAction), For("KEY", AnyServer, PoisonAction)>>),
     With(<<Mine>>, <<For("MINE", "s2", ElevateAction)>>),
     With(<<Across, Weak, Worst>>, <<>>),
     With(<<Across, Weak, Worst>>, <<For("WORST", AnyServer, ElevateAction),
                                     For("WORST", "s1", FlagAction)>>),
     With(<<Across, Weak, Worst>>, <<For("WEAK", "s2", PoisonAction)>>),
     With(<<[Mine EXCEPT !.id = "PI"]>>, <<For("PI", AnyServer, FlagAction)>>),
     With(<<>>, <<For("PI", AnyServer, FlagAction)>>),
     With(<<>>, <<For("NONE", AnyServer, FlagAction)>>),
     With(<<[Weak EXCEPT !.kind = "regex that does not compile"]>>, <<>>)}
=============================================================================
