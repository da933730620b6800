------------------------------- MODULE MCDiscovery -------------------------------
(* Values for model checking Discovery. *)
EXTENDS Discovery

CONSTANTS s1, s2, s3, pinned, changed

Server(id, grade) ==
    [server_id |-> id, source_grade |-> grade, discovery_timeout_seconds |-> NoTimeout]

ThreeServers == <<Server(s1, "Attested"), Server(s2, "Known"), Server(s3, "Unvalidated")>>
SameTwice    == <<Server(s1, "Attested"), Server(s1, "Known")>>

Entry(id, name, pin) ==
    [Bootstrap(id, name) EXCEPT !.bootstrap = FALSE, !.pinned_definition_hash_hex = pin]

(* s1's "a" is pinned, by the second of two entries, and so is s2's "b".    *)
Tools == <<Entry(s1, "a", changed), Entry(s2, "b", pinned), Entry(s1, "a", pinned)>>

Policies ==
    [strict_schema_pinning : BOOLEAN, refuse_startup_on_pin_mismatch : BOOLEAN,
     refuse_startup_on_tool_name_collision : BOOLEAN,
     refuse_startup_on_discovery_timeout : BOOLEAN, strict_description_scanning : BOOLEAN,
     default_tool_timeout_seconds : {60}, default_discovery_timeout_seconds : {15}]

Lax ==
    [strict_schema_pinning |-> FALSE, refuse_startup_on_pin_mismatch |-> FALSE,
     refuse_startup_on_tool_name_collision |-> FALSE,
     refuse_startup_on_discovery_timeout |-> FALSE, strict_description_scanning |-> FALSE,
     default_tool_timeout_seconds |-> 60, default_discovery_timeout_seconds |-> 15]

Config(ids, tools, p) ==
    [readable |-> TRUE, downstream_servers |-> ids, tools |-> tools, security_policy |-> p]

(* Everything that can be wrong with what is on disk, one thing at a time.  *)
Faulty(ids) ==
    LET good == Config(ids, Tools, Lax) IN
    {[good EXCEPT !.readable = FALSE],
     [good EXCEPT !.tools[1].timeout_seconds = 0],
     [good EXCEPT !.downstream_servers[2].discovery_timeout_seconds = 0],
     [good EXCEPT !.security_policy.default_tool_timeout_seconds = 0],
     [good EXCEPT !.security_policy.default_discovery_timeout_seconds = 0]}

OnDisk(ids) ==
    {[rules_load |-> TRUE, config |-> Config(ids, Tools, p)] : p \in Policies}
    \cup {[rules_load |-> TRUE, config |-> c] : c \in Faulty(ids)}
    \cup {[rules_load |-> FALSE, config |-> Config(ids, Tools, Lax)],
          [rules_load |-> TRUE, config |-> Config(<<>>, <<>>, Lax)]}

MCInstallations   == OnDisk(ThreeServers)
MCInstallationsTwice == OnDisk(SameTwice)

MCCommandLines ==
    {<<>>, <<"config.yaml">>, <<"elsewhere.yaml">>, <<"-h", "config.yaml">>, <<"--version">>,
     <<"--discovery-report", "config.yaml">>, <<"config.yaml", "elsewhere.yaml">>,
     <<"--discvery-report">>}

ToolOf(name, hash, hit, schema) ==
    [name |-> name, hash |-> hash, hit |-> hit, output_schema |-> schema]

A(hash) == ToolOf("a", hash, IF hash = pinned THEN "poison" ELSE "none", TRUE)
B(hash) == ToolOf("b", hash, IF hash = pinned THEN "hit" ELSE "poison", hash = changed)

(* Nothing, each name with either definition, both names, and a name twice. *)
MCAdverts == {<<>>, <<A(pinned)>>, <<A(changed)>>, <<B(changed)>>,
              <<A(pinned), B(pinned)>>, <<A(changed), B(changed)>>,
              <<A(changed), B(pinned), A(pinned)>>}

MCDescriptionOf ==
    [h \in Hashes |-> IF h = pinned THEN <<" ", "x", "zw", " ", " ", "tag", "x", " ">>
                      ELSE <<"x", "<", "x", ">", "tag", "x", ">", "<", "zw">>]
=============================================================================
