-------------------------------- MODULE Discovery --------------------------------
(***************************************************************************)
(* The start of the gateway (main of main.rs, up to its stdio loop): the   *)
(* command line, the rule files and the configuration are read, then the   *)
(* configured servers are brought up one after the other, a hung one is    *)
(* left out, pin mismatches are quarantined, names claimed twice are       *)
(* excluded, and what is left is the set of callable tools, unless the     *)
(* security policy refuses to start.  What tools/list answers from then on *)
(* is the last part of the module.                                         *)
(***************************************************************************)
EXTENDS CommandLine, Registry, ToolListing, ProvenanceStates, FiniteSets

CONSTANTS
    Names,         \* tool names
    Hashes,        \* definition hashes
    Adverts,       \* tool lists a server may give
    CommandLines,  \* arguments the operator may give
    Installations, \* what may be on disk: [rules_load, config]
    ConfigPaths    \* paths at which there is a config.yaml

Tool == [name : Names, hash : Hashes, hit : Outcome, output_schema : BOOLEAN]

(* Characters; the wording shown instead of a description is no character. *)
IsDescription(text) == text \in Seq(Range(text)) /\ Range(text) \cap Range(Withheld) = {}

ASSUME DiscoveryAssumption ==
    /\ NoPin \notin Hashes
    /\ Hashes \subseteq DOMAIN DescriptionOf
    /\ \A hash \in Hashes : IsDescription(DescriptionOf[hash])
    /\ \A tools \in Adverts : tools \in Seq(Tool)
    /\ \A installation \in Installations :
         LET entries == installation.config.downstream_servers
         IN /\ entries \in Seq(Range(entries))
            /\ \A i \in DOMAIN entries : entries[i].source_grade \in SourceGrade

VARIABLES
    disk,            \* the installation
    cli,             \* the parsed command line
    phase,
    current,         \* the entry being brought up
    processes,       \* entries whose child process the gateway has not ended
    discovered,      \* [server_id, source_grade, entry, tools] of the entries that came up
    description_hits,
    mismatches,      \* places in discovered of confirmed pin mismatches
    failed_servers,  \* entries that timed out
    connections,     \* the entry whose process answers for each server_id
    tool_owner,      \* callable name -> server_id
    tool_output_schemas,   \* callable name -> definition its schema is from
    excluded_tools,  \* name that is rejected -> rejection code
    summary,         \* of the discovery_summary event
    exit_code,
    advertised       \* history: discovered as it was before anything was taken out

vars == <<disk, cli, phase, current, processes, discovered, description_hits, mismatches,
          failed_servers, connections, tool_owner, tool_output_schemas, excluded_tools,
          summary, exit_code, advertised>>

config  == disk.config
policy  == config.security_policy
servers == config.downstream_servers

Empty == [x \in {} |-> x]

NoSummary == [available_count |-> 0, quarantined_count |-> 0,
              name_collision_count |-> 0, failed_server_count |-> 0]

Init ==
    /\ disk \in Installations /\ cli = CliArgs
    /\ phase = "arguments" /\ current = 1 /\ processes = {}
    /\ discovered = <<>> /\ advertised = <<>> /\ description_hits = Empty
    /\ mismatches = {} /\ failed_servers = {} /\ connections = Empty
    /\ tool_owner = Empty /\ tool_output_schemas = Empty /\ excluded_tools = Empty
    /\ summary = NoSummary /\ exit_code = 0

-----------------------------------------------------------------------------
found  == <<discovered, advertised, description_hits, mismatches, connections>>
result == <<tool_owner, tool_output_schemas, excluded_tools, summary>>
world  == <<disk, current, processes, found, failed_servers, result>>

Exit(code) == phase' = "exited" /\ exit_code' = code
Goto(next) == phase' = next /\ UNCHANGED exit_code

ParseArgs ==
    /\ phase = "arguments"
    /\ \E raw_args \in CommandLines : cli' = parse_args(raw_args)
    /\ IF ~cli'.ok THEN Exit(1)
       ELSE IF cli'.show_version \/ cli'.show_help THEN Exit(0)
       ELSE IF cli'.config_path \notin ConfigPaths THEN Exit(1)
       ELSE Goto("rules")
    /\ UNCHANGED world

(* RuleEngine::load: no fallback to the built-in rules. *)
LoadRules ==
    /\ phase = "rules"
    /\ IF disk.rules_load THEN Goto("registry") ELSE Exit(1)
    /\ UNCHANGED <<cli, world>>

LoadRegistry ==
    /\ phase = "registry"
    /\ IF load_fails(config) THEN Exit(1) ELSE Goto("policy")
    /\ UNCHANGED <<cli, world>>

(* validate_policy: refusing to start on a mismatch needs strict pinning,   *)
(* and the default timeouts are bounds.                                     *)
PolicyOK ==
    /\ policy.refuse_startup_on_pin_mismatch => policy.strict_schema_pinning
    /\ validate_timeout_value(policy.default_tool_timeout_seconds)
    /\ validate_timeout_value(policy.default_discovery_timeout_seconds)

ValidatePolicy ==
    /\ phase = "policy"
    /\ IF ~PolicyOK THEN Exit(2)
       ELSE Goto(IF servers = <<>> THEN "decide" ELSE "spawn")
    /\ UNCHANGED <<cli, world>>

NextEntry ==
    /\ current' = current + 1
    /\ Goto(IF current = Len(servers) THEN "decide" ELSE "spawn")

Spawn ==
    /\ phase = "spawn" /\ Goto("initialize")
    /\ processes' = processes \cup {current}
    /\ UNCHANGED <<disk, cli, current, found, failed_servers, result>>

Initialized ==
    /\ phase = "initialize" /\ Goto("tools/list")
    /\ UNCHANGED <<cli, world>>

(* from_pin: no pin is no mismatch. *)
Mismatched(id, tool) ==
    lookup(config.tools, id, tool.name).pinned_definition_hash_hex \notin {NoPin, tool.hash}

(* A second connection for the same id takes the place of the first, whose  *)
(* process ends with it.                                                    *)
Listed ==
    /\ phase = "tools/list"
    /\ LET id == servers[current].server_id IN \E tools \in Adverts :
         /\ discovered' = Append(discovered,
                [server_id |-> id, source_grade |-> servers[current].source_grade,
                 entry |-> current, tools |-> tools])
         /\ advertised' = discovered'
         /\ description_hits' = scanned(description_hits, id, tools)
         /\ mismatches' = mismatches \cup
                {<<Len(discovered) + 1, k>> : k \in {n \in DOMAIN tools : Mismatched(id, tools[n])}}
         /\ connections' = [x \in DOMAIN connections \cup {id} |->
                                IF x = id THEN current ELSE connections[x]]
         /\ processes' = processes \ {connections[x] : x \in DOMAIN connections \cap {id}}
    /\ NextEntry
    /\ UNCHANGED <<disk, cli, failed_servers, result>>

(* Either request may time out, which leaves out this server only and ends  *)
(* its process.  The mutant bounds the second request only.                 *)
Bounded_list_only == phase = "tools/list"

Bounded == phase \in {"initialize", "tools/list"}

(* Mutant: a timeout ends the loop over the servers. *)
TimedOut_breaks ==
    /\ Bounded
    /\ failed_servers' = failed_servers \cup {current}
    /\ processes' = processes \ {current}
    /\ current' = Len(servers) + 1 /\ Goto("decide")
    /\ UNCHANGED <<disk, cli, found, result>>

TimedOut ==
    /\ Bounded
    /\ failed_servers' = failed_servers \cup {current}
    /\ processes' = processes \ {current}
    /\ NextEntry
    /\ UNCHANGED <<disk, cli, found, result>>

(* Any other failure of a server ends the gateway, and with it (main        *)
(* returns, so kill_on_drop applies) every child.                           *)
Failed ==
    /\ phase \in {"spawn", "initialize", "tools/list"}
    /\ Exit(1) /\ processes' = {}
    /\ UNCHANGED <<disk, cli, current, found, failed_servers, result>>

-----------------------------------------------------------------------------
Without(entries, gone) ==
    [i \in DOMAIN entries |->
        [entries[i] EXCEPT !.tools = Restrict(@, {k \in DOMAIN @ : <<i, k>> \notin gone})]]

(* Phase 2: a mismatch takes what has its name out of the first entry of    *)
(* its server.                                                              *)
Quarantines(entries, m, at) ==
    /\ entries[at[1]].server_id = entries[m[1]].server_id
    /\ \A i \in 1..at[1] - 1 : entries[i].server_id # entries[m[1]].server_id
    /\ ToolIn(entries, at).name = ToolIn(entries, m).name

Quarantined(entries) ==
    {at \in Places(entries) : \E m \in mismatches : Quarantines(entries, m, at)}

(* The mutant quarantines only when it would refuse to start.               *)
AfterQuarantine_refusing(entries) ==
    IF policy.refuse_startup_on_pin_mismatch THEN Without(entries, Quarantined(entries))
    ELSE entries

AfterQuarantine(entries) ==
    IF policy.strict_schema_pinning THEN Without(entries, Quarantined(entries)) ELSE entries

(* Phase 3: a name claimed by two surviving tools or more goes.  The mutant *)
(* lets the first claimant have it.                                         *)
Claims(entries, name) == {at \in Places(entries) : ToolIn(entries, at).name = name}

Collides(entries, name) == \E at, other \in Claims(entries, name) : at # other

Unique_but_first(entries, at) ==
    \A claim \in Claims(entries, ToolIn(entries, at).name) : claim[1] >= at[1]

Unique(entries, at) == ~Collides(entries, ToolIn(entries, at).name)

Survivors(entries) == Without(entries, {at \in Places(entries) : ~Unique(entries, at)})

NamesIn(entries, places) == {ToolIn(entries, at).name : at \in places}

(* The last insert wins, were there two. *)
OwnerOf(entries) ==
    [name \in NamesIn(entries, Places(entries)) |->
        LET last == CHOOSE at \in Claims(entries, name) :
                        \A other \in Claims(entries, name) : other[1] <= at[1]
        IN entries[last[1]].server_id]

(* A quarantined name is rejected unless another server owns it.  The       *)
(* mutant rejects it all the same.                                          *)
QuarantinedNames == IF policy.strict_schema_pinning
                    THEN NamesIn(discovered, mismatches) ELSE {}

Blocked_always(quarantined, owner) == quarantined

Blocked(quarantined, owner) == quarantined \ DOMAIN owner

ExcludedOf(entries, quarantined, owner) ==
    LET collided == {name \in Names : Collides(entries, name)} IN
    [name \in collided \cup Blocked(quarantined, owner) |->
        IF name \in collided THEN "ToolExcludedNameCollision" ELSE "ToolQuarantinedPinMismatch"]

(* Exit codes, the first that applies; 0 is to go on. *)
Refusals(entries) ==
    IF policy.refuse_startup_on_discovery_timeout /\ failed_servers # {} THEN 5
    ELSE IF policy.refuse_startup_on_pin_mismatch /\ mismatches # {} THEN 3
    ELSE IF /\ policy.refuse_startup_on_tool_name_collision
            /\ \E name \in Names : Collides(entries, name)
    THEN 4 ELSE 0

SchemasOf(entries) ==
    LET with == {at \in Places(entries) : ToolIn(entries, at).output_schema}
        declared(name) == CHOOSE at \in with : ToolIn(entries, at).name = name
    IN [name \in NamesIn(entries, with) |-> ToolIn(entries, declared(name)).hash]

ToolCount(entries) == Cardinality(Places(entries))

SummaryOf(entries, left) ==
    [available_count      |-> ToolCount(left),
     quarantined_count    |-> IF policy.strict_schema_pinning THEN Cardinality(mismatches) ELSE 0,
     name_collision_count |-> ToolCount(entries) - ToolCount(left),
     failed_server_count  |-> Cardinality(failed_servers)]

(* process::exit runs no destructors: the children are left to notice that  *)
(* their input ends.                                                        *)
Decide ==
    /\ phase = "decide"
    /\ \E entries \in {AfterQuarantine(discovered)} : \E left \in {Survivors(entries)} :
         IF Refusals(entries) # 0
         THEN Exit(Refusals(entries)) /\ UNCHANGED <<discovered, result>>
         ELSE /\ IF cli.discovery_report THEN Exit(0) ELSE Goto("running")
              /\ discovered' = left
              /\ tool_owner' = OwnerOf(left)
              /\ tool_output_schemas' = SchemasOf(left)
              /\ excluded_tools' = ExcludedOf(entries, QuarantinedNames, OwnerOf(left))
              /\ summary' = SummaryOf(entries, left)
    /\ UNCHANGED <<disk, cli, current, processes, description_hits, mismatches, failed_servers,
                   connections, advertised>>

Local == ParseArgs \/ LoadRules \/ LoadRegistry \/ ValidatePolicy \/ Spawn \/ Decide

Next == Local \/ Initialized \/ Listed \/ TimedOut \/ Failed

(* A server owes nothing; the timeouts of its two requests are tokio's. *)
Spec == Init /\ [][Next]_vars /\ WF_vars(Local) /\ WF_vars(TimedOut)
-----------------------------------------------------------------------------
Running == phase = "running"

(* Discovery has been carried through, to serve or for --discovery-report.  *)
Decided ==
    \/ Running
    \/ phase = "exited" /\ exit_code = 0 /\ ~cli.show_version /\ ~cli.show_help

(* Shapes of the state; of the entries looked at so far each one either     *)
(* came up or timed out, none did both, and the processes left are those of *)
(* the connections and of the entry at hand (no child of a server that was  *)
(* left out is orphaned).                                                   *)
TypeOK ==
    /\ current \in 1..Len(servers) + 1 /\ exit_code \in 0..5
    /\ exit_code # 0 => phase = "exited"
    /\ LET up == {advertised[i].entry : i \in DOMAIN advertised} IN
         /\ up \cup failed_servers = 1..current - 1 /\ up \cap failed_servers = {}
         /\ Cardinality(up) = Len(advertised)
    /\ processes \ {current} \subseteq {connections[id] : id \in DOMAIN connections}
    /\ exit_code # 1 => {connections[id] : id \in DOMAIN connections} \subseteq processes

(* What may be served, said without the phases: an advertised tool whose    *)
(* server gave that name no definition that mismatches its pin.             *)
Instances == Places(advertised)

ToolAt(at) == ToolIn(advertised, at)

Distrusted(at) ==
    \E k \in DOMAIN advertised[at[1]].tools :
        /\ advertised[at[1]].tools[k].name = ToolAt(at).name
        /\ Mismatched(advertised[at[1]].server_id, advertised[at[1]].tools[k])

Eligible(name) ==
    {at \in Instances : ToolAt(at).name = name
                        /\ ~(policy.strict_schema_pinning /\ Distrusted(at))}

(* A name can be called exactly when one eligible tool claims it, and the   *)
(* call goes to that tool's server and to the process that advertised it    *)
(* and is judged by that definition's schema: a quarantined tool takes no   *)
(* other with it, and no order of the configuration decides between two     *)
(* claimants.                                                               *)
SoleClaimantOwns ==
    Decided => \A name \in Names :
        /\ (name \in DOMAIN tool_owner) <=> (Cardinality(Eligible(name)) = 1)
        /\ name \in DOMAIN tool_owner =>
             \A at \in Eligible(name) :
                 /\ tool_owner[name] = advertised[at[1]].server_id
                 /\ connections[tool_owner[name]] = advertised[at[1]].entry
                 /\ (name \in DOMAIN tool_output_schemas) <=> ToolAt(at).output_schema
                 /\ name \in DOMAIN tool_output_schemas =>
                        tool_output_schemas[name] = ToolAt(at).hash

(* The numbers of the summary account for every advertised tool; a server   *)
(* that gives one name twice can have both dropped under one record.        *)
CountsAddUp ==
    LET counted == summary.available_count + summary.quarantined_count
                       + summary.name_collision_count
        NamedOnce == \A at, other \in Instances :
                        at[1] = other[1] /\ ToolAt(at).name = ToolAt(other).name => at = other
    IN /\ counted <= Cardinality(Instances)
       /\ NamedOnce => counted = Cardinality(Instances)
       /\ summary.failed_server_count + Len(advertised) = Len(servers)

(* No advertised name vanishes without a rejection that says why, none that *)
(* has an owner is rejected (excluded_tools against tool_owner), and the    *)
(* summary's numbers account for all of them.                               *)
NamesArePartitioned ==
    Decided =>
        /\ DOMAIN tool_owner \cap DOMAIN excluded_tools = {}
        /\ DOMAIN tool_owner \cup DOMAIN excluded_tools = NamesIn(advertised, Instances)
        /\ \A name \in DOMAIN excluded_tools :
             (excluded_tools[name] = "ToolExcludedNameCollision")
                 <=> (Cardinality(Eligible(name)) > 1)
        /\ CountsAddUp

(* Under strict pinning the process that will answer a callable name has    *)
(* advertised no definition of it that mismatches the pin.                  *)
PinsHoldAtTheConnection ==
    Running /\ policy.strict_schema_pinning =>
        \A at \in Instances :
            /\ ToolAt(at).name \in DOMAIN tool_owner
            /\ connections[tool_owner[ToolAt(at).name]] = advertised[at[1]].entry
            => ~Mismatched(advertised[at[1]].server_id, ToolAt(at))

Trusted(grade) == grade \in {"Attested", "Known"}

IsText(description) ==
    description # Withheld /\ Range(description) \cap {TagCharacter, ZeroWidth, "<", ">"} = {}

(* tools/list shows each callable name once and nothing else; and a         *)
(* description only of a trusted server, whose own scan found no poison,    *)
(* nor anything under strict scanning (description_hits, filled during      *)
(* discovery for more tools than survive, against the list made from        *)
(* discovered), rid of everything that is not text.                         *)
ListingIsVetted ==
    Running =>
        LET listing == handle_tools_list(discovered, description_hits,
                                         policy.strict_description_scanning)
        IN /\ {listing[i].name : i \in DOMAIN listing} = DOMAIN tool_owner
           /\ \A i, j \in DOMAIN listing : listing[i].name = listing[j].name => i = j
           /\ \A i \in DOMAIN listing : \A at \in Eligible(listing[i].name) :
                LET harmful == IF policy.strict_description_scanning
                               THEN {"poison", "hit"} ELSE {"poison"}
                IN IF Trusted(advertised[at[1]].source_grade) /\ ToolAt(at).hit \notin harmful
                   THEN IsText(listing[i].description)
                   ELSE listing[i].description = Withheld

(* What the operator configured, or got wrong, before any server is needed. *)
Misconfigured ==
    \/ ~cli.ok \/ cli.config_path \notin ConfigPaths
    \/ ~disk.rules_load \/ load_fails(config) \/ ~PolicyOK

(* The outcome of the start and its reason.                                 *)
Explained ==
    LET late     == policy.refuse_startup_on_discovery_timeout /\ failed_servers # {}
        mismatch == policy.refuse_startup_on_pin_mismatch /\ mismatches # {}
        collides == policy.refuse_startup_on_tool_name_collision
                        /\ \E name \in Names : Cardinality(Eligible(name)) > 1
    IN /\ Running =>
             ~Misconfigured /\ ~cli.discovery_report /\ ~late /\ ~mismatch /\ ~collides
       /\ phase = "exited" =>
             /\ exit_code = 0 => cli.show_version \/ cli.show_help \/ cli.discovery_report
             /\ exit_code = 1 => processes = {} /\ (Misconfigured \/ current <= Len(servers))
             /\ exit_code = 2 => processes = {} /\ Misconfigured
             /\ exit_code = 3 => mismatch
             /\ exit_code = 4 => collides
             /\ exit_code = 5 => late

(* However many servers hang, the gateway comes to serve or to exit; it     *)
(* serves only a configuration that was accepted and whose refusals do not  *)
(* apply, an exit code names its reason, and no server is started, or left, *)
(* for a configuration that is refused.                                     *)
StartIsExplained == <>((Running \/ phase = "exited") /\ Explained)
=============================================================================
