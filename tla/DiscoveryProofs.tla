----------------------------- MODULE DiscoveryProofs -----------------------------
(***************************************************************************)
(* Theorems about Discovery, for every set of servers, advertised lists,   *)
(* definitions, pins, policies and command lines.                          *)
(*                                                                         *)
(* Two things have to be put together.  The phases behind the loop over    *)
(* the servers work on entries, from which they take tools out; and the    *)
(* properties speak of what was advertised.  The lemmas on Without tell    *)
(* what is left at which place, so that each phase becomes a set of places *)
(* of the advertised tools; the inductive invariant says that what the     *)
(* phases are given (mismatches, outcomes of scans, connections) is what   *)
(* was advertised by exactly the servers that came up.                     *)
(***************************************************************************)
EXTENDS Discovery, SequenceTheorems, FiniteSetTheorems, WellFoundedInduction, TLAPS

(* The positions of Append(s, e) are those of s and one more.               *)
LEMMA AppendDomain ==
    ASSUME NEW S, NEW s \in Seq(S), NEW e \in S
    PROVE  /\ Append(s, e) \in Seq(S)
           /\ Len(s) \in Nat /\ Len(Append(s, e)) = Len(s) + 1
           /\ DOMAIN s = 1..Len(s)
           /\ DOMAIN Append(s, e) = 1..Len(s)+1
           /\ \A i \in 1..Len(s) : Append(s, e)[i] = s[i] /\ s[i] \in S
           /\ Append(s, e)[Len(s)+1] = e
<1>1. /\ Append(s, e) \in Seq(S) /\ Len(Append(s, e)) = Len(s) + 1
      /\ \A i \in 1..Len(s) : Append(s, e)[i] = s[i]
      /\ Append(s, e)[Len(s)+1] = e
  BY AppendProperties
<1>2. Len(s) \in Nat /\ DOMAIN s = 1..Len(s) /\ \A i \in 1..Len(s) : s[i] \in S
  BY LenProperties, ElementOfSeq
<1>3. DOMAIN Append(s, e) = 1..Len(s)+1
  BY <1>1, LenProperties
<1> QED
  BY <1>1, <1>2, <1>3

(* A set of positions of a history is finite, and counts no more than it.   *)
LEMMA CountBound ==
    ASSUME NEW n \in Nat, NEW P, P \subseteq 1..n
    PROVE  /\ IsFiniteSet(P) /\ Cardinality(P) \in Nat /\ Cardinality(P) <= n
           /\ n + 1 \notin P
<1>1. IsFiniteSet(1..n) /\ Cardinality(1..n) = n
  BY FS_Interval
<1>2. IsFiniteSet(P) /\ Cardinality(P) <= n
  BY <1>1, FS_Subset
<1> QED
  BY <1>2, FS_CardinalityType

(* No server_id is configured twice.  The code does not look; with two of   *)
(* one id a quarantine misses the second (run duplicate_id).                *)
DistinctIds ==
    \A installation \in Installations :
        LET entries == installation.config.downstream_servers
        IN \A i, j \in DOMAIN entries : entries[i].server_id = entries[j].server_id => i = j

EntryFields == {"server_id", "source_grade", "entry", "tools"}

AreEntries(entries) == \A i \in DOMAIN entries : DOMAIN entries[i] = EntryFields

(* A place is an entry and a place in its list.                             *)
LEMMA PlaceIs ==
    ASSUME NEW entries
    PROVE  /\ \A i \in DOMAIN entries : \A k \in DOMAIN entries[i].tools : <<i, k>> \in Places(entries)
           /\ \A at \in Places(entries) :
                 /\ at = <<at[1], at[2]>>
                 /\ at[1] \in DOMAIN entries /\ at[2] \in DOMAIN entries[at[1]].tools
  BY DEF Places

(* What is taken out is gone, and everything else is where it was.          *)
LEMMA Remaining ==
    ASSUME NEW entries, AreEntries(entries), NEW gone
    PROVE  /\ AreEntries(Without(entries, gone))
           /\ DOMAIN Without(entries, gone) = DOMAIN entries
           /\ \A i \in DOMAIN entries :
                 /\ Without(entries, gone)[i].server_id = entries[i].server_id
                 /\ Without(entries, gone)[i].source_grade = entries[i].source_grade
           /\ Places(Without(entries, gone)) = Places(entries) \ gone
           /\ \A at \in Places(entries) \ gone :
                 ToolIn(Without(entries, gone), at) = ToolIn(entries, at)
<1> DEFINE left == Without(entries, gone)
           kept(i) == {k \in DOMAIN entries[i].tools : <<i, k>> \notin gone}
<1>1. DOMAIN left = DOMAIN entries
  BY DEF Without
<1>2. ASSUME NEW i \in DOMAIN entries
      PROVE  /\ DOMAIN left[i] = EntryFields
             /\ left[i].server_id = entries[i].server_id
             /\ left[i].source_grade = entries[i].source_grade
             /\ left[i].tools = [k \in kept(i) |-> entries[i].tools[k]]
  <2>1. left[i] = [entries[i] EXCEPT !.tools = [k \in kept(i) |-> entries[i].tools[k]]]
    BY DEF Without, Restrict
  <2>2. DOMAIN entries[i] = EntryFields
    BY DEF AreEntries
  <2> QED
    BY <2>1, <2>2 DEF EntryFields
<1> HIDE DEF left
<1>6. \A i \in DOMAIN entries : DOMAIN left[i].tools = kept(i)
  BY <1>2
<1>3. Places(left) = Places(entries) \ gone
  <2>1. ASSUME NEW at \in Places(left)
        PROVE  at \in Places(entries) /\ at \notin gone
    <3>1. at = <<at[1], at[2]>> /\ at[1] \in DOMAIN left /\ at[2] \in DOMAIN left[at[1]].tools
      BY PlaceIs
    <3>2. at[1] \in DOMAIN entries /\ at[2] \in kept(at[1])
      BY <1>1, <1>6, <3>1
    <3> QED
      BY <3>1, <3>2, PlaceIs
  <2>2. ASSUME NEW at \in Places(entries), at \notin gone
        PROVE  at \in Places(left)
    <3>1. at = <<at[1], at[2]>> /\ at[1] \in DOMAIN entries /\ at[2] \in kept(at[1])
      BY <2>2, PlaceIs
    <3>2. at[2] \in DOMAIN left[at[1]].tools
      BY <1>6, <3>1
    <3> QED
      BY <1>1, <3>1, <3>2, PlaceIs
  <2> QED
    BY <2>1, <2>2
<1>4. ASSUME NEW at \in Places(entries) \ gone
      PROVE  ToolIn(left, at) = ToolIn(entries, at)
  <2>1. at[1] \in DOMAIN entries /\ at[2] \in kept(at[1])
    BY PlaceIs
  <2> QED
    BY <1>2, <2>1 DEF ToolIn
<1>5. AreEntries(left)
  BY <1>1, <1>2 DEF AreEntries
<1> QED
  BY <1>1, <1>2, <1>3, <1>4, <1>5 DEF left

(* The survivors of phase 3 are those whose name nobody else claims.        *)
LEMMA Surviving ==
    ASSUME NEW entries, AreEntries(entries)
    PROVE  /\ AreEntries(Survivors(entries))
           /\ DOMAIN Survivors(entries) = DOMAIN entries
           /\ \A i \in DOMAIN entries :
                 /\ Survivors(entries)[i].server_id = entries[i].server_id
                 /\ Survivors(entries)[i].source_grade = entries[i].source_grade
           /\ Places(Survivors(entries)) \subseteq Places(entries)
           /\ \A at \in Places(Survivors(entries)) :
                 ToolIn(Survivors(entries), at) = ToolIn(entries, at)
           /\ \A at \in Places(entries) :
                 at \in Places(Survivors(entries)) <=>
                     Claims(entries, ToolIn(entries, at).name) = {at}
           /\ \A at, other \in Places(Survivors(entries)) :
                 ToolIn(entries, at).name = ToolIn(entries, other).name => at = other
<1> DEFINE gone == {at \in Places(entries) : ~Unique(entries, at)}
<1>1. Survivors(entries) = Without(entries, gone)
  BY DEF Survivors
<1>2. \A at \in Places(entries) :
        Unique(entries, at) <=> Claims(entries, ToolIn(entries, at).name) = {at}
  BY DEF Unique, Collides, Claims
<1>3. Places(Without(entries, gone)) = Places(entries) \ gone
  BY Remaining
<1>4. \A at \in Places(entries) : at \in Places(Survivors(entries)) <=> Unique(entries, at)
  BY <1>1, <1>3
<1>5. \A at, other \in Places(Survivors(entries)) :
        ToolIn(entries, at).name = ToolIn(entries, other).name => at = other
  <2> SUFFICES ASSUME NEW at \in Places(Survivors(entries)), NEW other \in Places(Survivors(entries)),
                      ToolIn(entries, at).name = ToolIn(entries, other).name
               PROVE  at = other
    OBVIOUS
  <2>1. at \in Places(entries) /\ other \in Places(entries)
    BY <1>1, <1>3
  <2>2. Claims(entries, ToolIn(entries, at).name) = {at}
    BY <1>2, <1>4, <2>1
  <2>3. other \in Claims(entries, ToolIn(entries, at).name)
    BY <2>1 DEF Claims
  <2> QED
    BY <2>2, <2>3
<1> HIDE DEF gone
<1> QED
  BY <1>1, <1>2, <1>3, <1>4, <1>5, Remaining

(* Each survivor's name has its server for an owner and its definition's    *)
(* schema, and no other name has either.                                    *)
LEMMA Resolved ==
    ASSUME NEW entries, AreEntries(entries), NEW left, left = Survivors(entries)
    PROVE  /\ DOMAIN OwnerOf(left) = NamesIn(entries, Places(left))
           /\ \A at \in Places(left) : LET tool == ToolIn(entries, at) IN
                 /\ OwnerOf(left)[tool.name] = entries[at[1]].server_id
                 /\ tool.name \in DOMAIN SchemasOf(left) <=> tool.output_schema
                 /\ tool.output_schema => SchemasOf(left)[tool.name] = tool.hash
<1>1. /\ \A at \in Places(left) : ToolIn(left, at) = ToolIn(entries, at) /\ at \in Places(entries)
      /\ \A at, other \in Places(left) :
            ToolIn(entries, at).name = ToolIn(entries, other).name => at = other
      /\ \A i \in DOMAIN entries : left[i].server_id = entries[i].server_id
  BY Surviving
<1>2. NamesIn(left, Places(left)) = NamesIn(entries, Places(left))
  BY <1>1 DEF NamesIn
<1>3. DOMAIN OwnerOf(left) = NamesIn(entries, Places(left))
  BY <1>2 DEF OwnerOf
<1> SUFFICES ASSUME NEW at \in Places(left)
             PROVE  LET tool == ToolIn(entries, at) IN
                       /\ OwnerOf(left)[tool.name] = entries[at[1]].server_id
                       /\ tool.name \in DOMAIN SchemasOf(left) <=> tool.output_schema
                       /\ tool.output_schema => SchemasOf(left)[tool.name] = tool.hash
  BY <1>3
<1> DEFINE tool == ToolIn(entries, at)
<1>4. tool.name \in NamesIn(left, Places(left)) /\ ToolIn(left, at) = tool
  BY <1>1 DEF NamesIn
<1>5. at[1] \in DOMAIN entries
  BY <1>1, PlaceIs
<1>6. OwnerOf(left)[tool.name] = entries[at[1]].server_id
  <2> DEFINE Latest(c) == \A other \in Claims(left, tool.name) : other[1] <= c[1]
             last == CHOOSE c \in Claims(left, tool.name) : Latest(c)
  <2>1. Claims(left, tool.name) = {at}
    BY <1>1, <1>4 DEF Claims
  <2>2. OwnerOf(left)[tool.name] = left[last[1]].server_id
    BY <1>4 DEF OwnerOf
  <2>3. last = at
    BY <2>1
  <2> QED
    BY <1>1, <1>5, <2>2, <2>3
<1> DEFINE with == {c \in Places(left) : ToolIn(left, c).output_schema}
<1>7. tool.name \in DOMAIN SchemasOf(left) <=> tool.output_schema
  <2>1. DOMAIN SchemasOf(left) = NamesIn(left, with)
    BY DEF SchemasOf
  <2>2. \A c \in with : ToolIn(left, c).name = tool.name => c = at
    BY <1>1, <1>4
  <2>3. at \in with <=> tool.output_schema
    BY <1>4
  <2>4. tool.name \in NamesIn(left, with) <=> at \in with
    BY <1>4, <2>2 DEF NamesIn
  <2> QED
    BY <2>1, <2>3, <2>4
<1>8. ASSUME tool.output_schema
      PROVE  SchemasOf(left)[tool.name] = tool.hash
  <2> DEFINE declared == CHOOSE c \in with : ToolIn(left, c).name = tool.name
  <2>1. at \in with
    BY <1>4, <1>8
  <2>2. tool.name \in NamesIn(left, with)
    BY <1>4, <2>1 DEF NamesIn
  <2>3. SchemasOf(left)[tool.name] = ToolIn(left, declared).hash
    BY <2>2 DEF SchemasOf
  <2>4. declared = at
    BY <1>1, <1>4, <2>1
  <2> QED
    BY <1>4, <2>3, <2>4
<1> QED
  BY <1>6, <1>7, <1>8

-----------------------------------------------------------------------------
(***************************************************************************)
(* The inductive invariant.                                                *)
(***************************************************************************)
Early    == phase \in {"arguments", "rules", "registry", "policy"}
Bringing == phase \in {"spawn", "initialize", "tools/list"}
Phases   == {"arguments", "rules", "registry", "policy", "spawn", "initialize", "tools/list",
             "decide", "running", "exited"}

(* What the loop over the servers records of entry n once it has come up.   *)
Recorded(n, tools) ==
    [server_id |-> servers[n].server_id, source_grade |-> servers[n].source_grade,
     entry |-> n, tools |-> tools]

UpEntries == {advertised[i].entry : i \in DOMAIN advertised}

Connected == {connections[id] : id \in DOMAIN connections}

(* Where the loop is: at the first entry before it, past the last one after.*)
InLoop ==
    /\ disk \in Installations /\ phase \in Phases
    /\ current \in 1..Len(servers) + 1 /\ exit_code \in 0..5
    /\ exit_code # 0 => phase = "exited"
    /\ Early => current = 1 /\ processes = {}
    /\ Bringing => current <= Len(servers)
    /\ phase \in {"decide", "running"} => current = Len(servers) + 1

(* Every entry before the one at hand came up, and is recorded as it was    *)
(* configured, or timed out.                                                *)
CameUp ==
    /\ advertised \in Seq({Recorded(n, tools) : n \in DOMAIN servers, tools \in Adverts})
    /\ UpEntries \cup failed_servers = 1..current - 1
    /\ UpEntries \cap failed_servers = {}
    /\ Cardinality(UpEntries) = Len(advertised)
    /\ \A i, j \in DOMAIN advertised : advertised[i].entry = advertised[j].entry => i = j

(* A connection is to an entry that came up under that server_id, and its   *)
(* process is there until the gateway fails.                                *)
Connections ==
    /\ \A i \in DOMAIN advertised : advertised[i].server_id \in DOMAIN connections
    /\ \A id \in DOMAIN connections : \E i \in DOMAIN advertised :
          advertised[i].server_id = id /\ advertised[i].entry = connections[id]
    /\ processes \ {current} \subseteq Connected
    /\ exit_code # 1 => Connected \subseteq processes
    /\ phase \in {"initialize", "tools/list"} => current \in processes

(* The mismatches are those of what was advertised, none forgotten.         *)
Mismatches ==
    mismatches = {at \in Instances : Mismatched(advertised[at[1]].server_id, ToolAt(at))}

(* The outcome kept for a tool that nobody gave another definition of under *)
(* its server_id is its own.                                                *)
KeyIn(entries, at) == HitKey(entries[at[1]].server_id, ToolIn(entries, at).name)

OwnHits ==
    \A at \in Instances :
        (\A other \in Instances : KeyIn(advertised, other) = KeyIn(advertised, at) => other = at)
        => /\ KeyIn(advertised, at) \in DOMAIN description_hits
           /\ description_hits[KeyIn(advertised, at)] = ToolAt(at).hit

(* Nothing is taken out before the decision, and afterwards the tables are  *)
(* those of what was advertised.                                            *)
Settled ==
    LET entries == AfterQuarantine(advertised)
        left    == Survivors(entries)
        quarantined == IF policy.strict_schema_pinning THEN NamesIn(advertised, mismatches) ELSE {}
    IN /\ current = Len(servers) + 1 /\ Refusals(entries) = 0
       /\ discovered = left
       /\ tool_owner = OwnerOf(left)
       /\ tool_output_schemas = SchemasOf(left)
       /\ excluded_tools = ExcludedOf(entries, quarantined, OwnerOf(left))
       /\ summary = SummaryOf(entries, left)

Decisions == IF Decided THEN Settled ELSE discovered = advertised

(* Each phase is reached with what the phases before it accepted, and each  *)
(* exit leaves the reason for its code in the state.                        *)
Accepted ==
    /\ phase \notin {"arguments", "exited"} =>
          cli.ok /\ cli.config_path \in ConfigPaths /\ ~cli.show_version /\ ~cli.show_help
    /\ phase \notin {"arguments", "rules", "exited"} => disk.rules_load
    /\ phase \notin {"arguments", "rules", "registry", "exited"} => ~load_fails(config)
    /\ Bringing \/ phase \in {"decide", "running"} => PolicyOK
    /\ Running => ~cli.discovery_report
    /\ phase = "exited" =>
          /\ exit_code = 0 => cli.show_version \/ cli.show_help \/ cli.discovery_report
          /\ exit_code = 1 => processes = {} /\ (Misconfigured \/ current <= Len(servers))
          /\ exit_code = 2 => processes = {} /\ Misconfigured
          /\ exit_code \notin 0..2 => Refusals(AfterQuarantine(advertised)) = exit_code

IInv == InLoop /\ CameUp /\ Connections /\ Mismatches /\ OwnHits /\ Decisions /\ Accepted

-----------------------------------------------------------------------------
(* One server more: its tools' places are new, and the others stay.         *)
PlacesAt(i, tools) == {<<i, k>> : k \in DOMAIN tools}

LEMMA OneMore ==
    ASSUME NEW S, NEW entries \in Seq(S), NEW e \in S
    PROVE  LET more == Append(entries, e) IN
           /\ Places(more) = Places(entries) \cup PlacesAt(Len(entries) + 1, e.tools)
           /\ \A at \in Places(entries) :
                 /\ at[1] \in 1..Len(entries) /\ more[at[1]] = entries[at[1]]
                 /\ ToolIn(more, at) = ToolIn(entries, at)
           /\ \A k \in DOMAIN e.tools : ToolIn(more, <<Len(entries) + 1, k>>) = e.tools[k]
           /\ more[Len(entries) + 1] = e
<1> DEFINE more == Append(entries, e)
<1>1. /\ DOMAIN entries = 1..Len(entries) /\ Len(entries) \in Nat
      /\ DOMAIN more = 1..Len(entries)+1
      /\ \A i \in 1..Len(entries) : more[i] = entries[i]
      /\ more[Len(entries)+1] = e
  BY AppendDomain
<1> HIDE DEF more
<1>2. \A at \in Places(entries) :
         /\ at[1] \in 1..Len(entries) /\ more[at[1]] = entries[at[1]]
         /\ ToolIn(more, at) = ToolIn(entries, at)
  BY <1>1, PlaceIs DEF ToolIn
<1>3. \A k \in DOMAIN e.tools : ToolIn(more, <<Len(entries) + 1, k>>) = e.tools[k]
  BY <1>1 DEF ToolIn
<1>8. \A i \in DOMAIN more : \A k \in DOMAIN more[i].tools : <<i, k>> \in Places(more)
  BY PlaceIs
<1> DEFINE new == PlacesAt(Len(entries) + 1, e.tools)
<1>4. ASSUME NEW at \in Places(more)
      PROVE  at \in Places(entries) \cup new
  <2>1. at = <<at[1], at[2]>> /\ at[1] \in DOMAIN more /\ at[2] \in DOMAIN more[at[1]].tools
    BY PlaceIs
  <2>2. CASE at[1] = Len(entries) + 1
    BY <1>1, <2>1, <2>2 DEF PlacesAt
  <2>3. CASE at[1] \in 1..Len(entries)
    <3>1. at[1] \in DOMAIN entries /\ at[2] \in DOMAIN entries[at[1]].tools
      BY <1>1, <2>1, <2>3
    <3> QED
      BY <2>1, <3>1, PlaceIs
  <2> QED
    BY <1>1, <2>1, <2>2, <2>3
<1>5. ASSUME NEW at \in Places(entries)
      PROVE  at \in Places(more)
  <2>1. /\ at = <<at[1], at[2]>> /\ at[1] \in DOMAIN entries
        /\ at[2] \in DOMAIN entries[at[1]].tools
    BY PlaceIs
  <2>2. at[1] \in DOMAIN more /\ at[2] \in DOMAIN more[at[1]].tools
    BY <1>1, <2>1
  <2> QED
    BY <1>8, <2>1, <2>2
<1>6. \A k \in DOMAIN e.tools : <<Len(entries) + 1, k>> \in Places(more)
  BY <1>1, <1>8
<1>7. Places(more) = Places(entries) \cup new
  BY <1>4, <1>5, <1>6 DEF PlacesAt
<1> QED
  BY <1>1, <1>2, <1>3, <1>7 DEF more

(* A list that has come up is one more entry, and it comes last.            *)
LEMMA ListedIs ==
    ASSUME IInv, Listed
    PROVE  \E tools \in Adverts :
              /\ advertised' = Append(advertised, Recorded(current, tools))
              /\ discovered' = advertised'
              /\ mismatches' = mismatches \cup
                    {<<Len(advertised) + 1, k>> :
                        k \in {n \in DOMAIN tools : Mismatched(servers[current].server_id, tools[n])}}
              /\ description_hits' = scanned(description_hits, servers[current].server_id, tools)
              /\ current \in DOMAIN servers
              /\ Recorded(current, tools) \in {Recorded(n, given) : n \in DOMAIN servers, given \in Adverts}
<1>1. phase = "tools/list" /\ ~Decided /\ discovered = advertised
  BY DEF IInv, Decisions, Decided, Running, Listed
<1>2. disk \in Installations /\ current \in 1..Len(servers)
  BY <1>1 DEF IInv, InLoop, Bringing
<1>3. DOMAIN servers = 1..Len(servers)
  BY <1>2, DiscoveryAssumption DEF servers, config
<1>4. PICK tools \in Adverts :
         /\ discovered' = Append(discovered, Recorded(current, tools))
         /\ advertised' = discovered'
         /\ mismatches' = mismatches \cup
               {<<Len(discovered) + 1, k>> :
                   k \in {n \in DOMAIN tools : Mismatched(servers[current].server_id, tools[n])}}
         /\ description_hits' = scanned(description_hits, servers[current].server_id, tools)
  BY DEF Listed, Recorded
<1> QED
  BY <1>1, <1>2, <1>3, <1>4

(* The configured servers are a sequence, and stay the same.                *)
LEMMA Configured ==
    ASSUME IInv
    PROVE  /\ Len(servers) \in Nat /\ DOMAIN servers = 1..Len(servers)
           /\ servers = <<>> <=> Len(servers) = 0
           /\ Next => disk' = disk /\ servers' = servers /\ policy' = policy /\ config' = config
<1>1. servers \in Seq(Range(servers))
  BY DiscoveryAssumption DEF IInv, InLoop, servers, config
<1>2. Len(servers) \in Nat /\ DOMAIN servers = 1..Len(servers) /\ (servers = <<>> <=> Len(servers) = 0)
  BY <1>1, LenProperties, EmptySeq
<1>3. Next => disk' = disk
  BY DEF Next, Local, ParseArgs, LoadRules, LoadRegistry, ValidatePolicy, Spawn, Decide, Initialized,
         Listed, TimedOut, Failed, world
<1> QED
  BY <1>2, <1>3 DEF servers, policy, config

(* Which entry is at hand, and what each action leaves of the phases.       *)
LEMMA InLoopStep ==
    ASSUME IInv, Next
    PROVE  InLoop'
<1> DEFINE N == Len(servers)
<1>1. /\ disk \in Installations /\ phase \in Phases
      /\ current \in 1..N + 1 /\ exit_code \in 0..5
      /\ exit_code # 0 => phase = "exited"
      /\ Early => current = 1 /\ processes = {}
      /\ Bringing => current <= N
      /\ phase \in {"decide", "running"} => current = N + 1
  BY DEF IInv, InLoop
<1>2. N \in Nat /\ (servers = <<>> <=> N = 0) /\ disk' = disk
  BY Configured
<1>3. Len(servers)' = N
  BY Configured
<1> HIDE DEF N
<1> SUFFICES /\ phase' \in Phases
             /\ current' \in 1..N + 1 /\ exit_code' \in 0..5
             /\ exit_code' # 0 => phase' = "exited"
             /\ Early' => current' = 1 /\ processes' = {}
             /\ Bringing' => current' <= N
             /\ phase' \in {"decide", "running"} => current' = N + 1
  BY <1>1, <1>2, <1>3 DEF InLoop
<1> USE DEF Early, Bringing, Phases, Exit, Goto
<1>4. CASE ParseArgs
  BY <1>1, <1>2, <1>4 DEF ParseArgs, world
<1>5. CASE LoadRules
  BY <1>1, <1>2, <1>5 DEF LoadRules, world
<1>6. CASE LoadRegistry
  BY <1>1, <1>2, <1>6 DEF LoadRegistry, world
<1>7. CASE ValidatePolicy
  BY <1>1, <1>2, <1>7 DEF ValidatePolicy, world
<1>8. CASE Spawn
  BY <1>1, <1>2, <1>8 DEF Spawn
<1>9. CASE Initialized
  BY <1>1, <1>2, <1>9 DEF Initialized, world
<1>10. CASE Listed
  <2>1. /\ phase = "tools/list" /\ current' = current + 1 /\ exit_code' = exit_code
        /\ phase' = IF current = N THEN "decide" ELSE "spawn"
    BY <1>10 DEF Listed, NextEntry, N
  <2> QED
    BY <1>1, <1>2, <2>1
<1>11. CASE TimedOut
  <2>1. /\ phase \in {"initialize", "tools/list"} /\ current' = current + 1 /\ exit_code' = exit_code
        /\ phase' = IF current = N THEN "decide" ELSE "spawn"
    BY <1>11 DEF TimedOut, Bounded, NextEntry, N
  <2> QED
    BY <1>1, <1>2, <2>1
<1>12. CASE Failed
  BY <1>1, <1>2, <1>12 DEF Failed
<1>13. CASE Decide
  <2>1. /\ phase = "decide" /\ current' = current
        /\ \/ phase' = "exited" /\ exit_code' \in {0, 3, 4, 5}
           \/ phase' = "running" /\ exit_code' = exit_code
    BY <1>13 DEF Decide, Refusals
  <2> QED
    BY <1>1, <1>2, <2>1
<1> QED
  BY <1>4, <1>5, <1>6, <1>7, <1>8, <1>9, <1>10, <1>11, <1>12, <1>13 DEF Next, Local

(* Only two actions settle an entry: it comes up, or it timed out.          *)
LEMMA CameUpStep ==
    ASSUME IInv, Next
    PROVE  CameUp'
<1> DEFINE E == {Recorded(n, tools) : n \in DOMAIN servers, tools \in Adverts}
<1>1. /\ advertised \in Seq(E)
      /\ UpEntries \cup failed_servers = 1..current - 1
      /\ UpEntries \cap failed_servers = {}
      /\ Cardinality(UpEntries) = Len(advertised)
      /\ \A i, j \in DOMAIN advertised : advertised[i].entry = advertised[j].entry => i = j
      /\ current \in Nat \ {0}
  <2>1. current \in 1..Len(servers) + 1 /\ Len(servers) \in Nat
    BY Configured DEF IInv, InLoop
  <2> QED
    BY <2>1 DEF IInv, CameUp
<1>2. E' = E
  BY Configured DEF Recorded
<1>8. CameUp' <=> /\ advertised' \in Seq(E')
                  /\ UpEntries' \cup failed_servers' = 1..current' - 1
                  /\ UpEntries' \cap failed_servers' = {}
                  /\ Cardinality(UpEntries') = Len(advertised')
                  /\ \A i, j \in DOMAIN advertised' :
                        advertised'[i].entry = advertised'[j].entry => i = j
  BY DEF CameUp
<1> HIDE DEF E
<1> SUFFICES /\ advertised' \in Seq(E)
             /\ UpEntries' \cup failed_servers' = 1..current' - 1
             /\ UpEntries' \cap failed_servers' = {}
             /\ Cardinality(UpEntries') = Len(advertised')
             /\ \A i, j \in DOMAIN advertised' : advertised'[i].entry = advertised'[j].entry => i = j
  BY <1>2, <1>8
<1>3. IsFiniteSet(UpEntries) /\ current \notin UpEntries /\ current \notin failed_servers
  <2>1. UpEntries \subseteq 1..current - 1 /\ current - 1 \in Nat
    BY <1>1
  <2>2. IsFiniteSet(UpEntries)
    BY <2>1, CountBound
  <2> QED
    BY <1>1, <2>2
<1>4. (1..current - 1) \cup {current} = 1..(current + 1) - 1
  BY <1>1
<1>5. CASE Listed
  <2>1. PICK tools \in Adverts :
           /\ advertised' = Append(advertised, Recorded(current, tools))
           /\ Recorded(current, tools) \in E
    BY <1>5, ListedIs DEF E
  <2>2. failed_servers' = failed_servers /\ current' = current + 1
    BY <1>5 DEF Listed, NextEntry
  <2> DEFINE e == Recorded(current, tools)
             n == Len(advertised)
  <2>3. /\ advertised' \in Seq(E) /\ n \in Nat /\ Len(advertised') = n + 1
        /\ DOMAIN advertised = 1..n /\ DOMAIN advertised' = 1..n+1
        /\ \A i \in 1..n : advertised'[i] = advertised[i]
        /\ advertised'[n+1] = e
    BY <1>1, <2>1, AppendDomain
  <2>4. e.entry = current
    BY DEF Recorded
  <2> HIDE DEF e, n
  <2>5. UpEntries' = UpEntries \cup {current}
    <3>1. UpEntries' = {advertised'[i].entry : i \in 1..n+1}
      BY <2>3 DEF UpEntries
    <3>2. UpEntries = {advertised[i].entry : i \in 1..n}
      BY <2>3 DEF UpEntries
    <3>3. 1..n+1 = (1..n) \cup {n+1}
      BY <2>3
    <3> QED
      BY <2>3, <2>4, <3>1, <3>2, <3>3
  <2>6. Cardinality(UpEntries') = n + 1
    <3>1. Cardinality(UpEntries \cup {current}) = Cardinality(UpEntries) + 1
      BY ONLY <1>3, FS_AddElement
    <3> QED
      BY <1>1, <2>5, <3>1 DEF n
  <2>7. ASSUME NEW i \in DOMAIN advertised', NEW j \in DOMAIN advertised',
               advertised'[i].entry = advertised'[j].entry
        PROVE  i = j
    <3>1. \A k \in 1..n : advertised'[k].entry \in UpEntries
      BY <2>3 DEF UpEntries
    <3>2. \A k \in DOMAIN advertised' : k \in 1..n \/ k = n + 1
      BY <2>3
    <3>3. CASE i \in 1..n /\ j \in 1..n
      BY <1>1, <2>3, <2>7, <3>3
    <3>4. CASE i = n + 1 \/ j = n + 1
      BY <1>3, <2>3, <2>4, <2>7, <3>1, <3>2, <3>4
    <3> QED
      BY <3>2, <3>3, <3>4
  <2>8. UpEntries' \cup failed_servers' = 1..current' - 1 /\ UpEntries' \cap failed_servers' = {}
    BY <1>1, <1>3, <1>4, <2>2, <2>5
  <2> QED
    BY <2>3, <2>6, <2>7, <2>8
<1>6. CASE TimedOut
  <2>1. /\ failed_servers' = failed_servers \cup {current} /\ current' = current + 1
        /\ advertised' = advertised
    BY <1>6 DEF TimedOut, NextEntry, found
  <2>2. UpEntries' = UpEntries
    BY <2>1 DEF UpEntries
  <2>3. UpEntries' \cup failed_servers' = 1..current' - 1 /\ UpEntries' \cap failed_servers' = {}
    BY <1>1, <1>3, <1>4, <2>1, <2>2
  <2> QED
    BY <1>1, <2>1, <2>2, <2>3
<1>7. CASE ~Listed /\ ~TimedOut
  <2>1. /\ advertised' = advertised /\ current' = current /\ failed_servers' = failed_servers
    BY <1>7 DEF Next, Local, ParseArgs, LoadRules, LoadRegistry, ValidatePolicy, Spawn, Decide,
                Initialized, Failed, world, found
  <2>2. UpEntries' = UpEntries
    BY <2>1 DEF UpEntries
  <2> QED
    BY <1>1, <2>1, <2>2
<1> QED
  BY <1>5, <1>6, <1>7

(* What is recorded of the entries that came up.                            *)
LEMMA Entries ==
    ASSUME IInv
    PROVE  /\ AreEntries(advertised) /\ DOMAIN advertised = 1..Len(advertised)
           /\ Len(advertised) \in Nat
           /\ \A i \in DOMAIN advertised :
                 /\ advertised[i].entry \in 1..Len(servers)
                 /\ advertised[i].server_id = servers[advertised[i].entry].server_id
                 /\ advertised[i].tools \in Adverts /\ advertised[i].tools \in Seq(Tool)
<1> DEFINE E == {Recorded(n, tools) : n \in DOMAIN servers, tools \in Adverts}
<1>1. advertised \in Seq(E)
  BY DEF IInv, CameUp
<1>2. /\ DOMAIN advertised = 1..Len(advertised) /\ Len(advertised) \in Nat
      /\ \A i \in DOMAIN advertised : advertised[i] \in E
  BY <1>1, LenProperties, ElementOfSeq
<1>3. ASSUME NEW i \in DOMAIN advertised
      PROVE  /\ DOMAIN advertised[i] = EntryFields
             /\ advertised[i].entry \in 1..Len(servers)
             /\ advertised[i].server_id = servers[advertised[i].entry].server_id
             /\ advertised[i].tools \in Adverts /\ advertised[i].tools \in Seq(Tool)
  <2>1. PICK n \in DOMAIN servers, tools \in Adverts : advertised[i] = Recorded(n, tools)
    BY <1>2
  <2> QED
    BY <2>1, Configured, DiscoveryAssumption DEF Recorded, EntryFields
<1> HIDE DEF E
<1> QED
  BY <1>2, <1>3 DEF AreEntries

(* A connection's process is ended only when another takes its place.       *)
LEMMA ConnectionsStep ==
    ASSUME IInv, Next
    PROVE  Connections'
<1>1. /\ \A i \in DOMAIN advertised : advertised[i].server_id \in DOMAIN connections
      /\ \A id \in DOMAIN connections : \E i \in DOMAIN advertised :
            advertised[i].server_id = id /\ advertised[i].entry = connections[id]
      /\ processes \ {current} \subseteq Connected
      /\ exit_code # 1 => Connected \subseteq processes
      /\ phase \in {"initialize", "tools/list"} => current \in processes
  BY DEF IInv, Connections
<1>2. /\ exit_code # 0 => phase = "exited"
      /\ Early => current = 1 /\ processes = {}
      /\ current \in Nat
  BY Configured DEF IInv, InLoop
<1>3. /\ UpEntries \subseteq 1..current - 1
      /\ \A i, j \in DOMAIN advertised : advertised[i].entry = advertised[j].entry => i = j
  BY DEF IInv, CameUp
<1>4. Connected \subseteq UpEntries /\ current \notin UpEntries
  BY <1>1, <1>2, <1>3 DEF Connected, UpEntries
<1>5. \A x, y \in DOMAIN connections : connections[x] = connections[y] => x = y
  BY <1>1, <1>3
<1>6. CASE Listed
  <2> DEFINE id == servers[current].server_id
  <2>1. /\ phase = "tools/list" /\ current' = current + 1 /\ exit_code' = exit_code
        /\ phase' \in {"decide", "spawn"}
        /\ connections' = [x \in DOMAIN connections \cup {id} |->
                               IF x = id THEN current ELSE connections[x]]
        /\ processes' = processes \ {connections[x] : x \in DOMAIN connections \cap {id}}
    BY <1>6 DEF Listed, NextEntry, Goto
  <2>2. PICK tools \in Adverts :
           /\ advertised' = Append(advertised, Recorded(current, tools))
           /\ Recorded(current, tools) \in {Recorded(n, given) : n \in DOMAIN servers, given \in Adverts}
    BY <1>6, ListedIs
  <2> DEFINE n == Len(advertised)
             new == n + 1
  <2>3. /\ DOMAIN advertised = 1..n /\ DOMAIN advertised' = 1..new /\ n \in Nat
        /\ \A i \in 1..n : advertised'[i] = advertised[i]
        /\ advertised'[new] = Recorded(current, tools)
    <3>1. advertised \in Seq({Recorded(m, given) : m \in DOMAIN servers, given \in Adverts})
      BY DEF IInv, CameUp
    <3> QED
      BY <2>2, <3>1, AppendDomain
  <2>4. advertised'[new].server_id = id /\ advertised'[new].entry = current
    BY <2>3 DEF Recorded
  <2>5. /\ \A i \in 1..new : i \in 1..n \/ i = new
        /\ new \in 1..new /\ \A i \in 1..n : i \in 1..new
    BY <2>3
  <2> HIDE DEF id, n, new
  <2>6. \A i \in DOMAIN advertised' : advertised'[i].server_id \in DOMAIN connections'
    BY <1>1, <2>1, <2>3, <2>4, <2>5
  <2>7. ASSUME NEW x \in DOMAIN connections'
        PROVE  \E i \in DOMAIN advertised' :
                  advertised'[i].server_id = x /\ advertised'[i].entry = connections'[x]
    <3>1. CASE x = id
      <4>1. connections'[x] = current
        BY <2>1, <3>1
      <4> QED
        BY <2>3, <2>4, <2>5, <3>1, <4>1
    <3>2. CASE x # id
      <4>1. x \in DOMAIN connections /\ connections'[x] = connections[x]
        BY <2>1, <3>2
      <4>2. PICK i \in DOMAIN advertised :
               advertised[i].server_id = x /\ advertised[i].entry = connections[x]
        BY <1>1, <4>1
      <4> QED
        BY <2>3, <2>5, <4>1, <4>2
    <3> QED
      BY <3>1, <3>2
  <2>8. Connected' = {current} \cup {connections[x] : x \in DOMAIN connections \ {id}}
    BY <2>1 DEF Connected
  <2>9. processes' \ {current'} \subseteq Connected'
    BY <1>1, <2>1, <2>8 DEF Connected
  <2>10. Connected' \subseteq processes'
    <3>1. Connected \subseteq processes /\ current \in processes
      BY <1>1, <1>2, <2>1
    <3>2. \A x \in DOMAIN connections \ {id} : connections[x] \in processes'
      BY <1>5, <2>1, <3>1 DEF Connected
    <3>3. current \in processes'
      BY <1>4, <2>1, <3>1 DEF Connected
    <3> QED
      BY <2>8, <3>2, <3>3
  <2> QED
    BY <2>1, <2>6, <2>7, <2>9, <2>10 DEF Connections
<1>7. CASE ~Listed
  <2>1. advertised' = advertised /\ connections' = connections
    BY <1>7 DEF Next, Local, ParseArgs, LoadRules, LoadRegistry, ValidatePolicy, Spawn, Decide,
                Initialized, TimedOut, Failed, world, found
  <2>2. Connected' = Connected
    BY <2>1 DEF Connected
  <2> SUFFICES /\ processes' \ {current'} \subseteq Connected
               /\ exit_code' # 1 => Connected \subseteq processes'
               /\ phase' \in {"initialize", "tools/list"} => current' \in processes'
    BY <1>1, <2>1, <2>2 DEF Connections
  <2> USE DEF Exit, Goto
  <2>3. CASE Spawn
    BY <1>1, <1>2, <2>3 DEF Spawn
  <2>4. CASE Failed
    BY <1>1, <1>2, <2>4 DEF Failed
  <2>5. CASE TimedOut
    <3>1. /\ processes' = processes \ {current} /\ exit_code' = exit_code
          /\ phase' \in {"decide", "spawn"} /\ phase \in {"initialize", "tools/list"}
      BY <2>5 DEF TimedOut, NextEntry, Bounded
    <3> QED
      BY <1>1, <1>2, <1>4, <3>1
  <2>6. CASE Initialized
    BY <1>1, <1>2, <2>6 DEF Initialized, world
  <2>7. CASE Decide
    <3>1. /\ processes' = processes /\ current' = current /\ phase = "decide"
          /\ phase' \in {"exited", "running"}
      BY <2>7 DEF Decide
    <3> QED
      BY <1>1, <1>2, <3>1
  <2>8. CASE ParseArgs \/ LoadRules \/ LoadRegistry \/ ValidatePolicy
    <3>1. /\ Early /\ processes' = processes /\ current' = current
          /\ phase' \notin {"initialize", "tools/list"}
      BY <2>8 DEF Early, ParseArgs, LoadRules, LoadRegistry, ValidatePolicy, world
    <3>2. exit_code = 0
      BY <1>2, <3>1 DEF Early
    <3> QED
      BY <1>1, <1>2, <3>1, <3>2
  <2> QED
    BY <1>7, <2>3, <2>4, <2>5, <2>6, <2>7, <2>8 DEF Next, Local
<1> QED
  BY <1>6, <1>7

(* The new places hold the new tools.                                       *)
LEMMA NewPlaces ==
    ASSUME IInv, NEW tools \in Adverts,
           advertised' = Append(advertised, Recorded(current, tools)),
           Recorded(current, tools) \in {Recorded(m, given) : m \in DOMAIN servers, given \in Adverts}
    PROVE  /\ Instances' = Instances \cup PlacesAt(Len(advertised) + 1, tools)
           /\ \A at \in Instances :
                 /\ at[1] \in DOMAIN advertised /\ at[1] # Len(advertised) + 1
                 /\ advertised'[at[1]] = advertised[at[1]] /\ ToolIn(advertised', at) = ToolAt(at)
           /\ \A k \in DOMAIN tools : ToolIn(advertised', <<Len(advertised) + 1, k>>) = tools[k]
           /\ advertised'[Len(advertised) + 1].server_id = servers[current].server_id
<1> DEFINE E == {Recorded(m, given) : m \in DOMAIN servers, given \in Adverts}
           e == Recorded(current, tools)
<1>1. advertised \in Seq(E) /\ e \in E
  BY DEF IInv, CameUp
<1>2. e.tools = tools /\ e.server_id = servers[current].server_id
  BY DEF Recorded
<1>3. DOMAIN advertised = 1..Len(advertised) /\ Len(advertised) \in Nat
  BY Entries
<1> HIDE DEF E, e
<1>4. LET more == Append(advertised, e) IN
      /\ Places(more) = Places(advertised) \cup PlacesAt(Len(advertised) + 1, e.tools)
      /\ \A at \in Places(advertised) :
            /\ at[1] \in 1..Len(advertised) /\ more[at[1]] = advertised[at[1]]
            /\ ToolIn(more, at) = ToolIn(advertised, at)
      /\ \A k \in DOMAIN e.tools : ToolIn(more, <<Len(advertised) + 1, k>>) = e.tools[k]
      /\ more[Len(advertised) + 1] = e
  BY ONLY <1>1, OneMore
<1>5. \A at \in Places(advertised) :
         /\ at[1] \in DOMAIN advertised /\ at[1] # Len(advertised) + 1
         /\ advertised'[at[1]] = advertised[at[1]]
         /\ ToolIn(advertised', at) = ToolIn(advertised, at)
  BY <1>3, <1>4 DEF e
<1>6. /\ Places(advertised') = Places(advertised) \cup PlacesAt(Len(advertised) + 1, tools)
      /\ \A k \in DOMAIN tools : ToolIn(advertised', <<Len(advertised) + 1, k>>) = tools[k]
      /\ advertised'[Len(advertised) + 1].server_id = servers[current].server_id
  BY <1>2, <1>4 DEF e
<1> QED
  BY <1>5, <1>6 DEF Instances, ToolAt

LEMMA MismatchesStep ==
    ASSUME IInv, Next
    PROVE  Mismatches'
<1>1. mismatches = {at \in Instances : Mismatched(advertised[at[1]].server_id, ToolAt(at))}
  BY DEF IInv, Mismatches
<1>2. \A id, tool : Mismatched(id, tool)' <=> Mismatched(id, tool)
  BY Configured DEF Mismatched
<1>3. CASE Listed
  <2> DEFINE n == Len(advertised) + 1
             id == servers[current].server_id
  <2>1. PICK tools \in Adverts :
           /\ advertised' = Append(advertised, Recorded(current, tools))
           /\ mismatches' = mismatches \cup
                 {<<n, k>> : k \in {m \in DOMAIN tools : Mismatched(id, tools[m])}}
           /\ Recorded(current, tools) \in {Recorded(m, given) : m \in DOMAIN servers, given \in Adverts}
    BY <1>3, ListedIs
  <2>2. /\ Instances' = Instances \cup PlacesAt(n, tools)
        /\ \A at \in Instances :
              advertised'[at[1]] = advertised[at[1]] /\ ToolIn(advertised', at) = ToolAt(at) /\ at[1] # n
        /\ \A k \in DOMAIN tools : ToolIn(advertised', <<n, k>>) = tools[k]
        /\ advertised'[n].server_id = id
    BY <2>1, NewPlaces
  <2> HIDE DEF n, id
  <2> DEFINE Wrong(at) == Mismatched(advertised'[at[1]].server_id, ToolIn(advertised', at))
  <2>3. \A at \in Instances : Wrong(at) <=> Mismatched(advertised[at[1]].server_id, ToolAt(at))
    BY <2>2
  <2>4. \A k \in DOMAIN tools : Wrong(<<n, k>>) <=> Mismatched(id, tools[k])
    BY <2>2
  <2>5. Mismatches' <=> mismatches' = {at \in Instances' : Wrong(at)}
    BY <1>2 DEF Mismatches, Instances, ToolAt
  <2> HIDE DEF Wrong
  <2> QED
    BY <1>1, <2>1, <2>2, <2>3, <2>4, <2>5 DEF PlacesAt
<1>4. CASE ~Listed
  <2>1. advertised' = advertised /\ mismatches' = mismatches
    BY <1>4 DEF Next, Local, ParseArgs, LoadRules, LoadRegistry, ValidatePolicy, Spawn, Decide,
                Initialized, TimedOut, Failed, world, found
  <2> QED
    BY <1>1, <1>2, <2>1 DEF Mismatches, Instances, ToolAt
<1> QED
  BY <1>3, <1>4

(* What a scan leaves of the outcomes.                                      *)
LEMMA Scanned ==
    ASSUME NEW hits, NEW id, NEW T, NEW tools \in Seq(T)
    PROVE  /\ \A k \in DOMAIN tools : LET key == HitKey(id, tools[k].name) IN
                 (\A j \in DOMAIN tools : HitKey(id, tools[j].name) = key => j = k)
                 => key \in DOMAIN scanned(hits, id, tools)
                    /\ scanned(hits, id, tools)[key] = tools[k].hit
           /\ \A key \in DOMAIN hits :
                 (\A j \in DOMAIN tools : HitKey(id, tools[j].name) # key)
                 => key \in DOMAIN scanned(hits, id, tools)
                    /\ scanned(hits, id, tools)[key] = hits[key]
<1> DEFINE named(key) == {k \in DOMAIN tools : HitKey(id, tools[k].name) = key}
           keys == DOMAIN hits \cup {HitKey(id, tools[k].name) : k \in DOMAIN tools}
           of(key) == IF named(key) = {} THEN hits[key]
                      ELSE tools[CHOOSE k \in named(key) : \A j \in named(key) : j <= k].hit
<1>1. scanned(hits, id, tools) = [key \in keys |-> of(key)]
  BY DEF scanned
<1>2. \A k \in DOMAIN tools : k \in Nat
  BY LenProperties
<1>3. ASSUME NEW k \in DOMAIN tools,
             \A j \in DOMAIN tools : HitKey(id, tools[j].name) = HitKey(id, tools[k].name) => j = k
      PROVE  LET key == HitKey(id, tools[k].name)
             IN key \in DOMAIN scanned(hits, id, tools) /\ scanned(hits, id, tools)[key] = tools[k].hit
  <2> DEFINE key == HitKey(id, tools[k].name)
  <2>1. named(key) = {k}
    BY <1>3
  <2>2. (CHOOSE c \in named(key) : \A j \in named(key) : j <= c) = k
    BY <1>2, <2>1
  <2>3. of(key) = tools[k].hit
    BY <2>1, <2>2
  <2>4. key \in keys
    OBVIOUS
  <2> HIDE DEF of, keys, key
  <2> QED
    BY <1>1, <2>3, <2>4 DEF key
<1>4. ASSUME NEW key \in DOMAIN hits, \A j \in DOMAIN tools : HitKey(id, tools[j].name) # key
      PROVE  key \in DOMAIN scanned(hits, id, tools) /\ scanned(hits, id, tools)[key] = hits[key]
  <2>1. of(key) = hits[key] /\ key \in keys
    BY <1>4
  <2> HIDE DEF of, keys
  <2> QED
    BY <1>1, <2>1
<1> QED
  BY <1>3, <1>4

LEMMA OwnHitsStep ==
    ASSUME IInv, Next
    PROVE  OwnHits'
<1>1. \A at \in Instances :
         (\A other \in Instances : KeyIn(advertised, other) = KeyIn(advertised, at) => other = at)
         => /\ KeyIn(advertised, at) \in DOMAIN description_hits
            /\ description_hits[KeyIn(advertised, at)] = ToolAt(at).hit
  BY DEF IInv, OwnHits
<1>2. CASE Listed
  <2> DEFINE n == Len(advertised) + 1
             id == servers[current].server_id
  <2>1. PICK tools \in Adverts :
           /\ advertised' = Append(advertised, Recorded(current, tools))
           /\ description_hits' = scanned(description_hits, id, tools)
           /\ Recorded(current, tools) \in {Recorded(m, given) : m \in DOMAIN servers, given \in Adverts}
    BY <1>2, ListedIs
  <2>2. /\ Instances' = Instances \cup PlacesAt(n, tools)
        /\ \A at \in Instances :
              advertised'[at[1]] = advertised[at[1]] /\ ToolIn(advertised', at) = ToolAt(at) /\ at[1] # n
        /\ \A k \in DOMAIN tools : ToolIn(advertised', <<n, k>>) = tools[k]
        /\ advertised'[n].server_id = id
    BY <2>1, NewPlaces
  <2> HIDE DEF n, id
  <2> DEFINE K(at) == KeyIn(advertised', at)
             alone(at) == \A other \in Instances' : K(other) = K(at) => other = at
  <2>3. \A at \in Instances : K(at) = KeyIn(advertised, at)
    BY <2>2 DEF KeyIn, ToolAt
  <2>4. \A k \in DOMAIN tools : K(<<n, k>>) = HitKey(id, tools[k].name)
    BY <2>2 DEF KeyIn
  <2>5. OwnHits' <=> \A at \in Instances' : alone(at) =>
              /\ K(at) \in DOMAIN description_hits'
              /\ description_hits'[K(at)] = ToolIn(advertised', at).hit
    BY DEF OwnHits, ToolAt
  <2>6. tools \in Seq(Tool)
    BY DiscoveryAssumption
  <2>7. /\ \A at \in Instances : at \in Instances'
        /\ \A k \in DOMAIN tools : <<n, k>> \in Instances'
    BY <2>2 DEF PlacesAt
  <2> HIDE DEF K
  <2> SUFFICES ASSUME NEW at \in Instances', alone(at)
               PROVE  /\ K(at) \in DOMAIN description_hits'
                      /\ description_hits'[K(at)] = ToolIn(advertised', at).hit
    BY <2>5
  <2>8. CASE at \in Instances
    <3>1. \A other \in Instances : KeyIn(advertised, other) = KeyIn(advertised, at) => other = at
      BY <2>3, <2>7, <2>8
    <3>2. K(at) \in DOMAIN description_hits /\ description_hits[K(at)] = ToolAt(at).hit
      BY <1>1, <2>3, <2>8, <3>1
    <3>3. \A j \in DOMAIN tools : HitKey(id, tools[j].name) # K(at)
      <4> SUFFICES ASSUME NEW j \in DOMAIN tools, HitKey(id, tools[j].name) = K(at)
                   PROVE  FALSE
        OBVIOUS
      <4>1. <<n, j>> = at
        BY <2>4, <2>7
      <4> QED
        BY <2>2, <2>8, <4>1
    <3>4. K(at) \in DOMAIN description_hits' /\ description_hits'[K(at)] = description_hits[K(at)]
      BY <2>1, <2>6, <3>2, <3>3, Scanned
    <3> QED
      BY <2>2, <2>8, <3>2, <3>4
  <2>9. CASE at \in PlacesAt(n, tools)
    <3>1. PICK k \in DOMAIN tools : at = <<n, k>>
      BY <2>9 DEF PlacesAt
    <3>2. \A j \in DOMAIN tools : HitKey(id, tools[j].name) = HitKey(id, tools[k].name) => j = k
      BY <2>4, <2>7, <3>1
    <3>3. /\ HitKey(id, tools[k].name) \in DOMAIN description_hits'
          /\ description_hits'[HitKey(id, tools[k].name)] = tools[k].hit
      BY <2>1, <2>6, <3>2, Scanned
    <3> QED
      BY <2>2, <2>4, <3>1, <3>3
  <2> QED
    BY <2>2, <2>8, <2>9
<1>3. CASE ~Listed
  <2>1. advertised' = advertised /\ description_hits' = description_hits
    BY <1>3 DEF Next, Local, ParseArgs, LoadRules, LoadRegistry, ValidatePolicy, Spawn, Decide,
                Initialized, TimedOut, Failed, world, found
  <2> QED
    BY <1>1, <2>1 DEF OwnHits, Instances, ToolAt
<1> QED
  BY <1>2, <1>3

(* Only Decide takes anything out; from there on nothing moves.             *)
LEMMA DecisionsStep ==
    ASSUME IInv, Next
    PROVE  Decisions'
<1>1. ~Decided /\ discovered = advertised
  <2>1. phase \notin {"running", "exited"}
    BY DEF Next, Local, ParseArgs, LoadRules, LoadRegistry, ValidatePolicy, Spawn, Decide,
           Initialized, Listed, TimedOut, Bounded, Failed
  <2> QED
    BY <2>1 DEF IInv, Decisions, Decided, Running
<1>2. phase = "decide" => current = Len(servers) + 1
  BY DEF IInv, InLoop
<1>3. CASE Decide
  <2> DEFINE entries == AfterQuarantine(advertised)
             left    == Survivors(entries)
             quarantined == IF policy.strict_schema_pinning THEN NamesIn(advertised, mismatches) ELSE {}
  <2>1. /\ IF Refusals(entries) # 0
           THEN /\ phase' = "exited" /\ exit_code' = Refusals(entries) /\ discovered' = discovered
           ELSE /\ discovered' = left
                /\ tool_owner' = OwnerOf(left)
                /\ tool_output_schemas' = SchemasOf(left)
                /\ excluded_tools' = ExcludedOf(entries, quarantined, OwnerOf(left))
                /\ summary' = SummaryOf(entries, left)
        /\ UNCHANGED <<disk, current, mismatches, failed_servers, advertised>>
        /\ phase = "decide"
    BY <1>1, <1>3 DEF Decide, Exit, QuarantinedNames
  <2>2. AfterQuarantine(advertised)' = entries
    BY <2>1 DEF AfterQuarantine, Quarantined, Quarantines, policy, config
  <2>3. quarantined' = quarantined
    BY <2>1 DEF policy, config
  <2>4. Refusals(entries)' = Refusals(entries)
    BY <2>1, <2>2 DEF Refusals, policy, config
  <2>5. SummaryOf(entries, left)' = SummaryOf(entries, left)
    BY <2>1, <2>2 DEF SummaryOf, policy, config
  <2>6. Len(servers)' = Len(servers)
    BY <2>1 DEF servers, config
  <2>7. CASE Refusals(entries) # 0
    <3>1. discovered' = advertised' /\ ~Decided'
      BY <1>1, <2>1, <2>7 DEF Decided, Running
    <3> QED
      BY <3>1 DEF Decisions
  <2>8. CASE Refusals(entries) = 0
    <3>1. Settled'
      BY <1>2, <2>1, <2>2, <2>3, <2>4, <2>5, <2>6, <2>8 DEF Settled
    <3>2. Decided'
      <4>1. /\ exit_code = 0 /\ cli' = cli /\ ~cli.show_version /\ ~cli.show_help
        BY <1>3, <2>1 DEF IInv, InLoop, Accepted, Decide
      <4>2. phase' \in {"running", "exited"} /\ exit_code' = 0
        BY <1>1, <1>3, <2>8, <4>1 DEF Decide, Exit, Goto
      <4> QED
        BY <4>1, <4>2 DEF Decided, Running
    <3> QED
      BY ONLY <3>1, <3>2 DEF Decisions
  <2> QED
    BY <2>7, <2>8
<1>4. CASE ~Decide
  <2>1. /\ discovered' = advertised'
        /\ \/ phase' \notin {"running", "exited"}
           \/ phase' = "exited" /\ exit_code' # 0
           \/ phase' = "exited" /\ (cli'.show_version \/ cli'.show_help)
    <3>1. CASE Listed
      <4>1. phase' \in {"decide", "spawn"}
        BY <3>1 DEF Listed, NextEntry, Goto
      <4> QED
        BY <3>1, <4>1, ListedIs
    <3>2. CASE TimedOut
      BY <1>1, <3>2 DEF TimedOut, NextEntry, Goto, found
    <3>3. CASE ~Listed /\ ~TimedOut
      BY <1>1, <1>4, <3>3 DEF Next, Local, ParseArgs, LoadRules, LoadRegistry, ValidatePolicy, Spawn,
                              Initialized, Failed, world, found, Exit, Goto
    <3> QED
      BY <3>1, <3>2, <3>3
  <2> QED
    BY <2>1 DEF Decisions, Decided, Running
<1> QED
  BY <1>3, <1>4

(* Nothing goes on that was not accepted, nothing ends without its reason.  *)
LEMMA AcceptedStep ==
    ASSUME IInv, Next
    PROVE  Accepted'
<1>1. /\ phase \notin {"arguments", "exited"} =>
            cli.ok /\ cli.config_path \in ConfigPaths /\ ~cli.show_version /\ ~cli.show_help
      /\ phase \notin {"arguments", "rules", "exited"} => disk.rules_load
      /\ phase \notin {"arguments", "rules", "registry", "exited"} => ~load_fails(config)
      /\ Bringing \/ phase \in {"decide", "running"} => PolicyOK
  BY DEF IInv, Accepted
<1>2. /\ exit_code # 0 => phase = "exited"
      /\ Early => processes = {}
      /\ Bringing => current <= Len(servers)
  BY DEF IInv, InLoop
<1>3. disk' = disk /\ servers' = servers /\ policy' = policy /\ config' = config
  BY Configured
<1>4. /\ load_fails(config)' <=> load_fails(config)
      /\ PolicyOK' <=> PolicyOK
      /\ Len(servers)' = Len(servers)
  BY <1>3 DEF PolicyOK
<1> USE DEF Exit, Goto
<1>5. CASE ParseArgs
  <2>1. /\ phase = "arguments" /\ exit_code = 0 /\ processes' = processes /\ processes = {}
        /\ \/ /\ phase' = "exited" /\ exit_code' = 1 /\ (~cli'.ok \/ cli'.config_path \notin ConfigPaths)
           \/ /\ phase' = "exited" /\ exit_code' = 0 /\ (cli'.show_version \/ cli'.show_help)
           \/ /\ phase' = "rules" /\ cli'.ok /\ cli'.config_path \in ConfigPaths
              /\ ~cli'.show_version /\ ~cli'.show_help
    BY <1>2, <1>5 DEF ParseArgs, world, Early
  <2> QED
    BY <2>1 DEF Accepted, Running, Bringing, Misconfigured
<1>6. CASE LoadRules
  <2>1. /\ phase = "rules" /\ processes' = {} /\ cli' = cli
        /\ \/ phase' = "registry" /\ disk.rules_load
           \/ phase' = "exited" /\ exit_code' = 1 /\ ~disk.rules_load
    BY <1>2, <1>6 DEF LoadRules, world, Early
  <2> QED
    BY <1>1, <1>3, <2>1 DEF Accepted, Running, Bringing, Misconfigured
<1>7. CASE LoadRegistry
  <2>1. /\ phase = "registry" /\ processes' = {} /\ cli' = cli
        /\ \/ phase' = "policy" /\ ~load_fails(config)
           \/ phase' = "exited" /\ exit_code' = 1 /\ load_fails(config)
    BY <1>2, <1>7 DEF LoadRegistry, world, Early
  <2> QED
    BY <1>1, <1>3, <1>4, <2>1 DEF Accepted, Running, Bringing, Misconfigured
<1>8. CASE ValidatePolicy
  <2>1. /\ phase = "policy" /\ processes' = {} /\ cli' = cli
        /\ \/ phase' \in {"decide", "spawn"} /\ PolicyOK
           \/ phase' = "exited" /\ exit_code' = 2 /\ ~PolicyOK
    BY <1>2, <1>8 DEF ValidatePolicy, world, Early
  <2> QED
    BY <1>1, <1>3, <1>4, <2>1 DEF Accepted, Running, Bringing, Misconfigured
<1>9. CASE Spawn \/ Initialized \/ Listed \/ TimedOut
  <2>1. /\ Bringing /\ cli' = cli /\ phase' \in {"initialize", "tools/list", "decide", "spawn"}
    BY <1>9 DEF Spawn, Initialized, Listed, TimedOut, Bounded, NextEntry, world, Bringing
  <2> QED
    BY <1>1, <1>3, <1>4, <2>1 DEF Accepted, Running, Bringing
<1>10. CASE Failed
  <2>1. /\ Bringing /\ phase' = "exited" /\ exit_code' = 1 /\ processes' = {} /\ current' = current
    BY <1>10 DEF Failed, Bringing
  <2> QED
    BY <1>2, <1>4, <2>1 DEF Accepted, Running, Bringing
<1>11. CASE Decide
  <2> DEFINE entries == AfterQuarantine(advertised)
  <2>1. /\ phase = "decide" /\ cli' = cli /\ exit_code = 0 /\ discovered = advertised
        /\ UNCHANGED <<disk, current, mismatches, failed_servers, advertised>>
    BY <1>2, <1>11 DEF Decide, IInv, Decisions, Decided, Running
  <2>2. \/ Refusals(entries) # 0 /\ phase' = "exited" /\ exit_code' = Refusals(entries)
        \/ Refusals(entries) = 0 /\ phase' = "exited" /\ exit_code' = 0 /\ cli.discovery_report
        \/ Refusals(entries) = 0 /\ phase' = "running" /\ ~cli.discovery_report
    BY <1>11, <2>1 DEF Decide
  <2>3. AfterQuarantine(advertised)' = entries
    BY <2>1 DEF AfterQuarantine, Quarantined, Quarantines, policy, config
  <2>4. Refusals(AfterQuarantine(advertised))' = Refusals(entries)
    BY <2>1, <2>3 DEF Refusals, policy, config
  <2>5. Refusals(entries) \in {0, 3, 4, 5}
    BY DEF Refusals
  <2> HIDE DEF entries
  <2>6. CASE phase' = "running"
    BY <1>1, <1>3, <1>4, <2>1, <2>2, <2>6 DEF Accepted, Running
  <2>7. CASE phase' = "exited"
    BY <2>1, <2>2, <2>4, <2>5, <2>7 DEF Accepted, Running, Bringing
  <2> QED
    BY <2>2, <2>6, <2>7
<1> QED
  BY <1>5, <1>6, <1>7, <1>8, <1>9, <1>10, <1>11 DEF Next, Local

LEMMA Start ==
    ASSUME Init
    PROVE  IInv
<1> USE DEF Init
<1>1. servers \in Seq(Range(servers)) /\ Len(servers) \in Nat
  BY DiscoveryAssumption, LenProperties DEF servers, config
<1>2. InLoop
  BY <1>1 DEF InLoop, Phases, Early, Bringing
<1>3. Instances = {}
  BY DEF Instances, Places
<1>4. CameUp
  <2>1. UpEntries = {}
    BY DEF UpEntries
  <2>2. Cardinality({}) = 0
    BY FS_EmptySet
  <2> QED
    BY <2>1, <2>2 DEF CameUp
<1>5. Connections
  BY DEF Connections, Connected, Empty
<1>6. Mismatches /\ OwnHits
  BY <1>3 DEF Mismatches, OwnHits
<1>7. Decisions
  BY DEF Decisions, Decided, Running
<1>8. Accepted
  BY DEF Accepted, Bringing, Running
<1> QED
  BY <1>2, <1>4, <1>5, <1>6, <1>7, <1>8 DEF IInv

LEMMA Stays ==
    ASSUME IInv, UNCHANGED vars
    PROVE  IInv'
<1> USE DEF vars, config, policy, servers
<1>1. InLoop'
  BY DEF IInv, InLoop, Phases, Early, Bringing
<1>2. CameUp'
  BY DEF IInv, CameUp, UpEntries, Recorded
<1>3. Connections'
  BY DEF IInv, Connections, Connected
<1>4. Mismatches' /\ OwnHits'
  BY DEF IInv, Mismatches, OwnHits, Instances, ToolAt, Mismatched
<1>5. Decisions'
  BY DEF IInv, Decisions, Decided, Running, Settled, Refusals, AfterQuarantine, Quarantined, Quarantines,
         SummaryOf
<1>6. Accepted'
  <2>1. /\ Refusals(AfterQuarantine(advertised))' = Refusals(AfterQuarantine(advertised))
        /\ Misconfigured' <=> Misconfigured
        /\ PolicyOK' <=> PolicyOK
    BY DEF Misconfigured, PolicyOK, Refusals, AfterQuarantine, Quarantined, Quarantines
  <2> QED
    BY <2>1 DEF IInv, Accepted, Bringing, Running
<1> QED
  BY <1>1, <1>2, <1>3, <1>4, <1>5, <1>6 DEF IInv

(* The invariant holds of every configuration, also of one that names a     *)
(* server_id twice.                                                         *)
THEOREM Invariance == Spec => []IInv
<1>1. Init => IInv
  BY Start
<1>2. IInv /\ [Next]_vars => IInv'
  BY InLoopStep, CameUpStep, ConnectionsStep, MismatchesStep, OwnHitsStep, DecisionsStep, AcceptedStep,
     Stays DEF IInv
<1> QED
  BY <1>1, <1>2, PTL DEF Spec

(* Every entry looked at came up or timed out, none did both, and only the  *)
(* processes of connections and of the entry at hand are left.              *)
THEOREM TypeCorrect == Spec => []TypeOK
<1>1. IInv => TypeOK
  BY DEF IInv, InLoop, CameUp, Connections, UpEntries, Connected, TypeOK
<1> QED
  BY <1>1, Invariance, PTL

-----------------------------------------------------------------------------
(***************************************************************************)
(* From the phases to what was advertised.                                 *)
(***************************************************************************)
(* With one entry for a server_id, an entry is known by it.                 *)
LEMMA Identified ==
    ASSUME DistinctIds, IInv
    PROVE  /\ \A i, j \in DOMAIN advertised :
                 advertised[i].server_id = advertised[j].server_id => i = j
           /\ \A i \in DOMAIN advertised :
                 /\ advertised[i].server_id \in DOMAIN connections
                 /\ connections[advertised[i].server_id] = advertised[i].entry
<1>1. disk \in Installations
  BY DEF IInv, InLoop
<1>2. \A m, n \in DOMAIN servers : servers[m].server_id = servers[n].server_id => m = n
  BY <1>1 DEF DistinctIds, servers, config
<1>3. /\ DOMAIN servers = 1..Len(servers)
      /\ \A i \in DOMAIN advertised :
            /\ advertised[i].entry \in 1..Len(servers)
            /\ advertised[i].server_id = servers[advertised[i].entry].server_id
  BY Configured, Entries
<1>4. \A i, j \in DOMAIN advertised : advertised[i].entry = advertised[j].entry => i = j
  BY DEF IInv, CameUp
<1>5. \A i, j \in DOMAIN advertised : advertised[i].server_id = advertised[j].server_id => i = j
  BY <1>2, <1>3, <1>4
<1>6. /\ \A i \in DOMAIN advertised : advertised[i].server_id \in DOMAIN connections
      /\ \A id \in DOMAIN connections : \E i \in DOMAIN advertised :
            advertised[i].server_id = id /\ advertised[i].entry = connections[id]
  BY DEF IInv, Connections
<1> QED
  BY <1>5, <1>6

(* The places, their tools and their names; there are finitely many.        *)
LEMMA Advertised ==
    ASSUME IInv
    PROVE  /\ IsFiniteSet(Instances)
           /\ \A at \in Instances :
                 /\ at = <<at[1], at[2]>> /\ at[1] \in DOMAIN advertised
                 /\ at[2] \in DOMAIN advertised[at[1]].tools
                 /\ ToolAt(at) = advertised[at[1]].tools[at[2]] /\ ToolAt(at) \in Tool
           /\ \A i \in DOMAIN advertised : \A k \in DOMAIN advertised[i].tools : <<i, k>> \in Instances
<1>1. /\ DOMAIN advertised = 1..Len(advertised) /\ Len(advertised) \in Nat
      /\ \A i \in DOMAIN advertised : advertised[i].tools \in Seq(Tool)
  BY Entries
<1>2. IsFiniteSet(Instances)
  <2> DEFINE of(i) == {<<i, k>> : k \in DOMAIN advertised[i].tools}
             all == {of(i) : i \in DOMAIN advertised}
  <2>1. ASSUME NEW i \in DOMAIN advertised
        PROVE  IsFiniteSet(of(i))
    <3>1. DOMAIN advertised[i].tools = 1..Len(advertised[i].tools) /\ Len(advertised[i].tools) \in Nat
      BY <1>1, LenProperties
    <3>2. IsFiniteSet(DOMAIN advertised[i].tools)
      BY <3>1, FS_Interval
    <3> DEFINE f == [k \in DOMAIN advertised[i].tools |-> <<i, k>>]
    <3>3. f \in Surjection(DOMAIN advertised[i].tools, of(i))
      BY DEF Surjection
    <3> HIDE DEF f, of
    <3> QED
      BY <3>2, <3>3, FS_Surjection
  <2>2. IsFiniteSet(DOMAIN advertised)
    BY <1>1, FS_Interval
  <2>3. IsFiniteSet(all)
    <3> DEFINE f == [i \in DOMAIN advertised |-> of(i)]
    <3>1. f \in Surjection(DOMAIN advertised, all)
      BY DEF Surjection
    <3> HIDE DEF f, all
    <3> QED
      BY <2>2, <3>1, FS_Surjection
  <2>4. \A S \in all : IsFiniteSet(S)
    BY <2>1
  <2>5. Instances = UNION all
    BY DEF Instances, Places
  <2> HIDE DEF all
  <2> QED
    BY <2>3, <2>4, <2>5, FS_UNION
<1>3. /\ \A at \in Instances :
            /\ at = <<at[1], at[2]>> /\ at[1] \in DOMAIN advertised
            /\ at[2] \in DOMAIN advertised[at[1]].tools
      /\ \A i \in DOMAIN advertised : \A k \in DOMAIN advertised[i].tools : <<i, k>> \in Instances
  BY PlaceIs DEF Instances
<1>4. ASSUME NEW at \in Instances
      PROVE  ToolAt(at) = advertised[at[1]].tools[at[2]] /\ ToolAt(at) \in Tool
  <2>1. at[1] \in DOMAIN advertised /\ at[2] \in DOMAIN advertised[at[1]].tools
    BY <1>3
  <2>2. advertised[at[1]].tools[at[2]] \in Tool
    BY <1>1, <2>1, ElementOfSeq, LenProperties
  <2> QED
    BY <2>2 DEF ToolAt, ToolIn
<1> QED
  BY <1>2, <1>3, <1>4

(* What phase 2 leaves is what is eligible: a mismatch takes the tools of   *)
(* its server and name, which are those Distrusted speaks of.               *)
LEMMA Eligibles ==
    ASSUME DistinctIds, IInv, NEW entries, entries = AfterQuarantine(advertised)
    PROVE  /\ AreEntries(entries) /\ DOMAIN entries = DOMAIN advertised
           /\ \A i \in DOMAIN advertised :
                 /\ entries[i].server_id = advertised[i].server_id
                 /\ entries[i].source_grade = advertised[i].source_grade
           /\ Places(entries) = {at \in Instances : ~(policy.strict_schema_pinning /\ Distrusted(at))}
           /\ \A at \in Places(entries) : ToolIn(entries, at) = ToolAt(at)
           /\ \A name : Claims(entries, name) = Eligible(name)
<1>1. AreEntries(advertised)
  BY Entries
<1>2. \A at \in Instances : at \in Quarantined(advertised) <=> Distrusted(at)
  <2> SUFFICES ASSUME NEW at \in Instances
               PROVE  at \in Quarantined(advertised) <=> Distrusted(at)
    OBVIOUS
  <2>1. at[1] \in DOMAIN advertised
    BY Advertised
  <2>2. mismatches = {m \in Instances : Mismatched(advertised[m[1]].server_id, ToolAt(m))}
    BY DEF IInv, Mismatches
  <2>3. ASSUME NEW m \in mismatches, Quarantines(advertised, m, at)
        PROVE  Distrusted(at)
    <3>1. /\ m \in Instances /\ Mismatched(advertised[m[1]].server_id, ToolAt(m))
          /\ m[1] \in DOMAIN advertised /\ m[2] \in DOMAIN advertised[m[1]].tools
          /\ ToolAt(m) = advertised[m[1]].tools[m[2]]
      BY <2>2, Advertised
    <3>2. /\ advertised[at[1]].server_id = advertised[m[1]].server_id
          /\ ToolAt(m).name = ToolAt(at).name
      BY <2>3 DEF Quarantines, ToolAt
    <3>3. m[1] = at[1]
      BY <2>1, <3>1, <3>2, Identified
    <3> QED
      BY <3>1, <3>2, <3>3 DEF Distrusted
  <2>4. ASSUME Distrusted(at)
        PROVE  \E m \in mismatches : Quarantines(advertised, m, at)
    <3>1. PICK k \in DOMAIN advertised[at[1]].tools :
             /\ advertised[at[1]].tools[k].name = ToolAt(at).name
             /\ Mismatched(advertised[at[1]].server_id, advertised[at[1]].tools[k])
      BY <2>4 DEF Distrusted
    <3> DEFINE m == <<at[1], k>>
    <3>2. m \in Instances /\ ToolAt(m) = advertised[at[1]].tools[k] /\ m[1] = at[1]
      BY <2>1, Advertised DEF ToolAt, ToolIn
    <3> HIDE DEF m
    <3>3. m \in mismatches
      BY <2>2, <3>1, <3>2
    <3>4. \A i \in 1..at[1] - 1 : advertised[i].server_id # advertised[m[1]].server_id
      <4>1. at[1] \in 1..Len(advertised) /\ Len(advertised) \in Nat /\ DOMAIN advertised = 1..Len(advertised)
        BY <2>1, Entries
      <4>2. \A i \in 1..at[1] - 1 : i \in DOMAIN advertised /\ i # at[1]
        BY <4>1
      <4> QED
        BY <2>1, <3>2, <4>2, Identified
    <3>5. Quarantines(advertised, m, at)
      BY <3>1, <3>2, <3>4 DEF Quarantines, ToolAt
    <3> QED
      BY <3>3, <3>5
  <2> QED
    BY <2>3, <2>4 DEF Quarantined, Instances
<1>3. Quarantined(advertised) \subseteq Instances
  BY DEF Quarantined, Instances
<1>4. \A at \in Places(entries) : ToolIn(entries, at) = ToolAt(at)
  BY <1>1, Remaining DEF AfterQuarantine, Instances, ToolAt
<1>5. /\ AreEntries(entries) /\ DOMAIN entries = DOMAIN advertised
      /\ \A i \in DOMAIN advertised :
            /\ entries[i].server_id = advertised[i].server_id
            /\ entries[i].source_grade = advertised[i].source_grade
  BY <1>1, Remaining DEF AfterQuarantine
<1>6. Places(entries) = {at \in Instances : ~(policy.strict_schema_pinning /\ Distrusted(at))}
  <2>1. CASE policy.strict_schema_pinning
    <3>1. Places(entries) = Instances \ Quarantined(advertised)
      BY <1>1, <2>1, Remaining DEF AfterQuarantine, Instances
    <3> QED
      BY <1>2, <2>1, <3>1
  <2>2. CASE ~policy.strict_schema_pinning
    BY <2>2 DEF AfterQuarantine, Instances
  <2> QED
    BY <2>1, <2>2
<1>7. \A name : Claims(entries, name) = Eligible(name)
  BY <1>4, <1>6 DEF Claims, Eligible
<1> QED
  BY <1>4, <1>5, <1>6, <1>7

(* One, or more than one.                                                   *)
LEMMA Counted ==
    ASSUME NEW S, IsFiniteSet(S)
    PROVE  /\ Cardinality(S) \in Nat
           /\ Cardinality(S) = 1 <=> \E x : S = {x}
           /\ Cardinality(S) > 1 <=> \E x, y \in S : x # y
           /\ Cardinality(S) = 0 <=> S = {}
<1>1. Cardinality(S) \in Nat /\ (Cardinality(S) = 0 <=> S = {})
  BY FS_CardinalityType, FS_EmptySet
<1>2. Cardinality(S) = 1 <=> \E x : S = {x}
  BY FS_Singleton
<1>3. (\E x, y \in S : x # y) <=> S # {} /\ ~\E x : S = {x}
  OBVIOUS
<1> QED
  BY <1>1, <1>2, <1>3

LEMMA Colliding ==
    ASSUME DistinctIds, IInv
    PROVE  \A name :
              /\ IsFiniteSet(Eligible(name)) /\ Eligible(name) \subseteq Instances
              /\ Collides(AfterQuarantine(advertised), name) <=> Cardinality(Eligible(name)) > 1
<1> SUFFICES ASSUME NEW name
             PROVE  /\ IsFiniteSet(Eligible(name)) /\ Eligible(name) \subseteq Instances
                    /\ Collides(AfterQuarantine(advertised), name) <=> Cardinality(Eligible(name)) > 1
  OBVIOUS
<1>1. Eligible(name) \subseteq Instances
  BY DEF Eligible
<1>2. IsFiniteSet(Eligible(name))
  BY <1>1, Advertised, FS_Subset
<1>3. Claims(AfterQuarantine(advertised), name) = Eligible(name)
  BY Eligibles
<1>4. Collides(AfterQuarantine(advertised), name) <=> \E at, other \in Eligible(name) : at # other
  BY <1>3 DEF Collides
<1> QED
  BY <1>1, <1>2, <1>4, Counted

(* A name can be called when it is claimed once, and collides when it is    *)
(* claimed more than once.                                                  *)
LEMMA Callable ==
    ASSUME DistinctIds, IInv, Decided
    PROVE  /\ \A name :
                 /\ IsFiniteSet(Eligible(name)) /\ Eligible(name) \subseteq Instances
                 /\ name \in DOMAIN tool_owner <=> Cardinality(Eligible(name)) = 1
                 /\ Collides(AfterQuarantine(advertised), name) <=> Cardinality(Eligible(name)) > 1
           /\ Places(discovered) = {at \in Instances : Eligible(ToolAt(at).name) = {at}}
           /\ \A at \in Places(discovered) : LET tool == ToolAt(at) IN
                 /\ ToolIn(discovered, at) = tool
                 /\ discovered[at[1]].server_id = advertised[at[1]].server_id
                 /\ discovered[at[1]].source_grade = advertised[at[1]].source_grade
                 /\ tool_owner[tool.name] = advertised[at[1]].server_id
                 /\ tool.name \in DOMAIN tool_output_schemas <=> tool.output_schema
                 /\ tool.output_schema => tool_output_schemas[tool.name] = tool.hash
           /\ DOMAIN tool_owner = {ToolAt(at).name : at \in Places(discovered)}
<1> DEFINE entries == AfterQuarantine(advertised)
           left == Survivors(entries)
<1>1. discovered = left /\ tool_owner = OwnerOf(left) /\ tool_output_schemas = SchemasOf(left)
  BY DEF IInv, Decisions, Settled
<1>2. /\ AreEntries(entries) /\ DOMAIN entries = DOMAIN advertised
      /\ \A i \in DOMAIN advertised :
            /\ entries[i].server_id = advertised[i].server_id
            /\ entries[i].source_grade = advertised[i].source_grade
      /\ Places(entries) = {at \in Instances : ~(policy.strict_schema_pinning /\ Distrusted(at))}
      /\ \A at \in Places(entries) : ToolIn(entries, at) = ToolAt(at)
      /\ \A name : Claims(entries, name) = Eligible(name)
  BY Eligibles
<1> HIDE DEF entries
<1>3. \A at \in Instances : at[1] \in DOMAIN advertised
  BY Advertised
<1>4. /\ DOMAIN left = DOMAIN entries
      /\ \A i \in DOMAIN entries :
            /\ left[i].server_id = entries[i].server_id
            /\ left[i].source_grade = entries[i].source_grade
      /\ Places(left) \subseteq Places(entries)
      /\ \A at \in Places(left) : ToolIn(left, at) = ToolIn(entries, at)
      /\ \A at \in Places(entries) :
            at \in Places(left) <=> Claims(entries, ToolIn(entries, at).name) = {at}
  BY <1>2, Surviving
<1>5. /\ DOMAIN OwnerOf(left) = NamesIn(entries, Places(left))
      /\ \A at \in Places(left) : LET tool == ToolIn(entries, at) IN
            /\ OwnerOf(left)[tool.name] = entries[at[1]].server_id
            /\ tool.name \in DOMAIN SchemasOf(left) <=> tool.output_schema
            /\ tool.output_schema => SchemasOf(left)[tool.name] = tool.hash
  BY <1>2, Resolved
<1> HIDE DEF left
<1>6. Places(left) = {at \in Instances : Eligible(ToolAt(at).name) = {at}}
  <2>1. ASSUME NEW at \in Places(left)
        PROVE  at \in Instances /\ Eligible(ToolAt(at).name) = {at}
    BY <1>2, <1>4
  <2>2. ASSUME NEW at \in Instances, Eligible(ToolAt(at).name) = {at}
        PROVE  at \in Places(left)
    <3>1. at \in Places(entries)
      BY <1>2, <2>2 DEF Eligible
    <3> QED
      BY <1>2, <1>4, <2>2, <3>1
  <2> QED
    BY <2>1, <2>2
<1>7. ASSUME NEW at \in Places(left)
      PROVE  /\ ToolIn(left, at) = ToolAt(at) /\ ToolIn(entries, at) = ToolAt(at)
             /\ left[at[1]].server_id = advertised[at[1]].server_id
             /\ entries[at[1]].server_id = advertised[at[1]].server_id
             /\ left[at[1]].source_grade = advertised[at[1]].source_grade
  BY <1>2, <1>3, <1>4
<1>8. DOMAIN tool_owner = {ToolAt(at).name : at \in Places(left)}
  BY <1>1, <1>5, <1>7 DEF NamesIn
<1>9. ASSUME NEW name
      PROVE  name \in DOMAIN tool_owner <=> Cardinality(Eligible(name)) = 1
  <2>1. \A at \in Eligible(name) : ToolAt(at).name = name /\ at \in Instances
    BY DEF Eligible
  <2>2. IsFiniteSet(Eligible(name))
    BY Colliding
  <2>3. ASSUME NEW at, Eligible(name) = {at}
        PROVE  name \in DOMAIN tool_owner
    BY <1>6, <1>8, <2>1, <2>3
  <2>4. ASSUME name \in DOMAIN tool_owner
        PROVE  \E at : Eligible(name) = {at}
    BY <1>6, <1>8, <2>4
  <2> QED
    BY <2>2, <2>3, <2>4, Counted
<1>10. \A at \in Places(left) : LET tool == ToolAt(at) IN
          /\ tool_owner[tool.name] = advertised[at[1]].server_id
          /\ tool.name \in DOMAIN tool_output_schemas <=> tool.output_schema
          /\ tool.output_schema => tool_output_schemas[tool.name] = tool.hash
  BY <1>1, <1>5, <1>7
<1> QED
  BY <1>1, <1>6, <1>7, <1>8, <1>9, <1>10, Colliding

(* A name can be called exactly when one eligible tool claims it, and then  *)
(* owner, process and schema are that tool's.                               *)
THEOREM SoleClaimant ==
    ASSUME DistinctIds PROVE Spec => []SoleClaimantOwns
<1>1. ASSUME IInv PROVE SoleClaimantOwns
  <2> SUFFICES ASSUME Decided, NEW name \in Names
               PROVE  /\ name \in DOMAIN tool_owner <=> Cardinality(Eligible(name)) = 1
                      /\ name \in DOMAIN tool_owner =>
                           \A at \in Eligible(name) :
                               /\ tool_owner[name] = advertised[at[1]].server_id
                               /\ connections[tool_owner[name]] = advertised[at[1]].entry
                               /\ (name \in DOMAIN tool_output_schemas) <=> ToolAt(at).output_schema
                               /\ name \in DOMAIN tool_output_schemas =>
                                      tool_output_schemas[name] = ToolAt(at).hash
    BY DEF SoleClaimantOwns
  <2>1. name \in DOMAIN tool_owner <=> Cardinality(Eligible(name)) = 1
    BY <1>1, Callable
  <2>2. ASSUME name \in DOMAIN tool_owner, NEW at \in Eligible(name)
        PROVE  /\ tool_owner[name] = advertised[at[1]].server_id
               /\ connections[tool_owner[name]] = advertised[at[1]].entry
               /\ (name \in DOMAIN tool_output_schemas) <=> ToolAt(at).output_schema
               /\ name \in DOMAIN tool_output_schemas =>
                      tool_output_schemas[name] = ToolAt(at).hash
    <3>1. at \in Instances /\ ToolAt(at).name = name
      BY DEF Eligible
    <3>2. Eligible(name) = {at}
      <4>1. IsFiniteSet(Eligible(name)) /\ Cardinality(Eligible(name)) = 1
        BY <1>1, <2>1, <2>2, Callable
      <4> QED
        BY <2>2, <4>1, Counted
    <3>3. at \in Places(discovered)
      BY <1>1, <3>1, <3>2, Callable
    <3>4. /\ tool_owner[name] = advertised[at[1]].server_id
          /\ name \in DOMAIN tool_output_schemas <=> ToolAt(at).output_schema
          /\ ToolAt(at).output_schema => tool_output_schemas[name] = ToolAt(at).hash
      BY <1>1, <3>1, <3>3, Callable
    <3>5. connections[advertised[at[1]].server_id] = advertised[at[1]].entry
      BY <1>1, <3>1, Advertised, Identified
    <3> QED
      BY <3>4, <3>5
  <2> QED
    BY <2>1, <2>2
<1> QED
  BY <1>1, Invariance, PTL

(* Under strict pinning a call reaches a process that has advertised no     *)
(* mismatching definition of the name.                                      *)
THEOREM PinsHold ==
    ASSUME DistinctIds PROVE Spec => []PinsHoldAtTheConnection
<1>1. ASSUME IInv PROVE PinsHoldAtTheConnection
  <2> SUFFICES ASSUME Running, policy.strict_schema_pinning, NEW at \in Instances,
                      ToolAt(at).name \in DOMAIN tool_owner,
                      connections[tool_owner[ToolAt(at).name]] = advertised[at[1]].entry
               PROVE  ~Mismatched(advertised[at[1]].server_id, ToolAt(at))
    BY DEF PinsHoldAtTheConnection
  <2>1. Decided
    BY DEF Decided
  <2>2. PICK own \in Places(discovered) : ToolAt(own).name = ToolAt(at).name
    BY <1>1, <2>1, Callable
  <2>3. /\ own \in Instances /\ Eligible(ToolAt(own).name) = {own}
        /\ tool_owner[ToolAt(own).name] = advertised[own[1]].server_id
    BY <1>1, <2>1, Callable
  <2>4. own[1] \in DOMAIN advertised /\ at[1] \in DOMAIN advertised
    BY <1>1, <2>3, Advertised
  <2>5. advertised[own[1]].entry = advertised[at[1]].entry
    BY <1>1, <2>2, <2>3, <2>4, Identified
  <2>6. own[1] = at[1]
    BY <1>1, <2>4, <2>5 DEF IInv, CameUp
  <2>7. ~Distrusted(own)
    BY <2>3 DEF Eligible
  <2>8. at[2] \in DOMAIN advertised[at[1]].tools /\ ToolAt(at) = advertised[at[1]].tools[at[2]]
    BY <1>1, Advertised
  <2> QED
    BY <2>2, <2>6, <2>7, <2>8 DEF Distrusted
<1> QED
  BY <1>1, Invariance, PTL

(* The summary's numbers account for every tool and every server.           *)
LEMMA Sums ==
    ASSUME DistinctIds, IInv, Decided
    PROVE  CountsAddUp
<1> DEFINE entries == AfterQuarantine(advertised)
           left == Survivors(entries)
           strict == policy.strict_schema_pinning
           untrusted == {at \in Instances : Distrusted(at)}
           I == Cardinality(Instances)
           D == Cardinality(untrusted)
           M == Cardinality(mismatches)
           E == Cardinality(Places(entries))
           A == Cardinality(Places(left))
           U == Cardinality(UpEntries)
           F == Cardinality(failed_servers)
           NamedOnce == \A at, other \in Instances :
                            at[1] = other[1] /\ ToolAt(at).name = ToolAt(other).name => at = other
<1>1. summary = SummaryOf(entries, left) /\ current = Len(servers) + 1
  BY DEF IInv, Decisions, Settled
<1>2. /\ summary.available_count = A /\ summary.name_collision_count = E - A
      /\ summary.quarantined_count = IF strict THEN M ELSE 0
      /\ summary.failed_server_count = F
  BY <1>1 DEF SummaryOf, ToolCount
<1>3. IsFiniteSet(Instances)
  BY Advertised
<1>4. /\ Places(entries) = {at \in Instances : ~(strict /\ Distrusted(at))}
      /\ AreEntries(entries)
  BY Eligibles
<1>5. Places(left) \subseteq Places(entries)
  BY <1>4, Surviving
<1>6. mismatches = {at \in Instances : Mismatched(advertised[at[1]].server_id, ToolAt(at))}
  BY DEF IInv, Mismatches
<1>7. mismatches \subseteq untrusted
  <2> SUFFICES ASSUME NEW at \in mismatches
               PROVE  Distrusted(at)
    BY <1>6
  <2> QED
    BY <1>6, Advertised DEF Distrusted
<1>8. NamedOnce => mismatches = untrusted
  <2> SUFFICES ASSUME NamedOnce, NEW at \in untrusted
               PROVE  at \in mismatches
    BY <1>7
  <2>1. PICK k \in DOMAIN advertised[at[1]].tools :
           /\ advertised[at[1]].tools[k].name = ToolAt(at).name
           /\ Mismatched(advertised[at[1]].server_id, advertised[at[1]].tools[k])
    BY DEF Distrusted
  <2> DEFINE m == <<at[1], k>>
  <2>2. m \in Instances /\ ToolAt(m) = advertised[at[1]].tools[k] /\ m[1] = at[1]
    BY Advertised DEF ToolAt, ToolIn
  <2> HIDE DEF m
  <2>3. m = at
    BY <2>1, <2>2
  <2> QED
    BY <1>6, <2>1, <2>2, <2>3
<1> HIDE DEF entries, left, NamedOnce, strict, untrusted
<1>9. I \in Nat
  BY ONLY <1>3, FS_CardinalityType
<1>10. untrusted \subseteq Instances
  BY DEF untrusted
<1>11. IsFiniteSet(untrusted) /\ D \in Nat
  BY ONLY <1>3, <1>10, FS_Subset, FS_CardinalityType
<1>12. M \in Nat /\ M <= D
  BY ONLY <1>7, <1>11, FS_Subset, FS_CardinalityType
<1>13. Places(entries) \subseteq Instances
  BY <1>4
<1>14. IsFiniteSet(Places(entries)) /\ E \in Nat
  BY ONLY <1>3, <1>13, FS_Subset, FS_CardinalityType
<1>15. A \in Nat
  BY ONLY <1>5, <1>14, FS_Subset, FS_CardinalityType
<1>16. strict => E = I - D
  <2>1. Places(entries) = IF strict THEN Instances \ untrusted ELSE Instances
    BY <1>4 DEF untrusted
  <2>2. Instances \cap untrusted = untrusted
    BY <1>10
  <2>3. Cardinality(Instances \ untrusted) = I - Cardinality(Instances \cap untrusted)
    BY ONLY <1>3, FS_Difference
  <2> QED
    BY <2>1, <2>2, <2>3
<1>17. ~strict => E = I
  <2>1. ~strict => Places(entries) = Instances
    BY <1>4
  <2> QED
    BY <2>1
<1>20. NamedOnce => M = D
  BY <1>8
<1>18. U + F = Len(servers) /\ U = Len(advertised)
  <2>1. /\ UpEntries \cup failed_servers = 1..current - 1 /\ UpEntries \cap failed_servers = {}
        /\ Cardinality(UpEntries) = Len(advertised)
    BY DEF IInv, CameUp
  <2>2. Len(servers) \in Nat /\ current - 1 = Len(servers)
    BY <1>1, Configured
  <2>3. UpEntries \subseteq 1..Len(servers) /\ failed_servers \subseteq 1..Len(servers)
    BY <2>1, <2>2
  <2>4. /\ IsFiniteSet(UpEntries) /\ IsFiniteSet(failed_servers)
        /\ U \in Nat /\ F \in Nat
    BY ONLY <2>2, <2>3, CountBound
  <2>5. Cardinality(UpEntries \cup failed_servers) = U + F - Cardinality(UpEntries \cap failed_servers)
    BY ONLY <2>4, FS_Union
  <2>6. Cardinality({}) = 0 /\ \A n \in Nat : Cardinality(1..n) = n
    BY FS_EmptySet, FS_Interval
  <2>7. Cardinality(UpEntries \cup failed_servers) = Len(servers)
    BY <2>1, <2>2, <2>6
  <2>8. Cardinality(UpEntries \cap failed_servers) = 0
    BY <2>1, <2>6
  <2> QED
    BY ONLY <2>1, <2>2, <2>4, <2>5, <2>7, <2>8
<1>19. U \in Nat /\ F \in Nat
  <2>1. /\ UpEntries \subseteq 1..Len(servers) /\ failed_servers \subseteq 1..Len(servers)
        /\ Len(servers) \in Nat
    BY <1>1, Configured DEF IInv, CameUp
  <2> QED
    BY ONLY <2>1, CountBound
<1>21. CountsAddUp <=>
          /\ summary.available_count + summary.quarantined_count + summary.name_collision_count <= I
          /\ NamedOnce => summary.available_count + summary.quarantined_count
                              + summary.name_collision_count = I
          /\ summary.failed_server_count + Len(advertised) = Len(servers)
  BY DEF CountsAddUp, NamedOnce
<1> HIDE DEF I, D, M, E, A, U, F
<1>22. summary.failed_server_count + Len(advertised) = Len(servers)
  BY <1>2, <1>18, <1>19
<1> DEFINE counted == A + (IF strict THEN M ELSE 0) + (E - A)
<1>23. counted <= I /\ (NamedOnce => counted = I)
  <2>1. CASE strict
    BY ONLY <1>9, <1>11, <1>12, <1>14, <1>15, <1>16, <1>20, <2>1
  <2>2. CASE ~strict
    BY ONLY <1>9, <1>14, <1>15, <1>17, <2>2
  <2> QED
    BY ONLY <2>1, <2>2
<1>24. summary.available_count + summary.quarantined_count + summary.name_collision_count = counted
  BY <1>2
<1> HIDE DEF counted
<1> QED
  BY <1>21, <1>22, <1>23, <1>24

(* No advertised name vanishes without a rejection that says why, none that *)
(* has an owner is rejected, and the summary's numbers add up.              *)
THEOREM NamesPartitioned ==
    ASSUME DistinctIds PROVE Spec => []NamesArePartitioned
<1>1. ASSUME IInv PROVE NamesArePartitioned
  <2> DEFINE entries == AfterQuarantine(advertised)
             quarantined == IF policy.strict_schema_pinning THEN NamesIn(advertised, mismatches) ELSE {}
             collided == {name \in Names : Collides(entries, name)}
             owned == DOMAIN tool_owner
             named == NamesIn(advertised, Instances)
  <2> SUFFICES ASSUME Decided
               PROVE  /\ owned \cap DOMAIN excluded_tools = {}
                      /\ owned \cup DOMAIN excluded_tools = named
                      /\ \A name \in DOMAIN excluded_tools :
                           (excluded_tools[name] = "ToolExcludedNameCollision")
                               <=> (Cardinality(Eligible(name)) > 1)
                      /\ CountsAddUp
    BY DEF NamesArePartitioned
  <2>1. excluded_tools = ExcludedOf(entries, quarantined, tool_owner)
    BY <1>1 DEF IInv, Decisions, Settled
  <2>2. /\ DOMAIN excluded_tools = collided \cup (quarantined \ owned)
        /\ \A name \in DOMAIN excluded_tools :
              (excluded_tools[name] = "ToolExcludedNameCollision") <=> name \in collided
    BY <2>1 DEF ExcludedOf, Blocked
  <2>3. \A name :
           /\ IsFiniteSet(Eligible(name)) /\ Eligible(name) \subseteq Instances
           /\ name \in owned <=> Cardinality(Eligible(name)) = 1
           /\ Collides(entries, name) <=> Cardinality(Eligible(name)) > 1
    BY <1>1, Callable
  <2> HIDE DEF entries
  <2>4. \A at \in Instances : ToolAt(at).name \in Names /\ ToolAt(at).name \in named
    <3>1. \A at \in Instances : ToolAt(at) \in Tool
      BY <1>1, Advertised
    <3> QED
      BY <3>1 DEF Tool, NamesIn, ToolAt
  <2>5. \A name \in named : \E at \in Instances : ToolAt(at).name = name
    BY DEF NamesIn, ToolAt
  <2>6. mismatches = {m \in Instances : Mismatched(advertised[m[1]].server_id, ToolAt(m))}
    BY <1>1 DEF IInv, Mismatches
  <2>7. quarantined \subseteq named
    BY <2>6 DEF NamesIn
  <2>8. ASSUME NEW name, Cardinality(Eligible(name)) = 1 \/ Cardinality(Eligible(name)) > 1
        PROVE  name \in named /\ name \in Names
    <3>1. Eligible(name) # {}
      BY <2>3, <2>8, Counted
    <3>2. PICK at : at \in Instances /\ ToolAt(at).name = name
      BY <3>1 DEF Eligible
    <3> QED
      BY <2>4, <3>2
  <2>9. ASSUME NEW name \in named
        PROVE  name \in owned \/ name \in collided \/ name \in quarantined
    <3>1. PICK at \in Instances : ToolAt(at).name = name
      BY <2>5
    <3>2. name \in Names
      BY <2>4, <3>1
    <3>3. CASE Eligible(name) = {}
      <4>1. policy.strict_schema_pinning /\ Distrusted(at)
        BY <3>1, <3>3 DEF Eligible
      <4>2. PICK k \in DOMAIN advertised[at[1]].tools :
               /\ advertised[at[1]].tools[k].name = ToolAt(at).name
               /\ Mismatched(advertised[at[1]].server_id, advertised[at[1]].tools[k])
        BY <4>1 DEF Distrusted
      <4> DEFINE m == <<at[1], k>>
      <4>3. m \in Instances /\ ToolAt(m) = advertised[at[1]].tools[k] /\ m[1] = at[1]
        BY <1>1, Advertised DEF ToolAt, ToolIn
      <4> HIDE DEF m
      <4>4. m \in mismatches /\ ToolAt(m).name = name
        BY <2>6, <3>1, <4>2, <4>3
      <4> QED
        BY <4>1, <4>4 DEF NamesIn, ToolAt
    <3>4. CASE Eligible(name) # {}
      <4>1. Cardinality(Eligible(name)) = 1 \/ Cardinality(Eligible(name)) > 1
        <5>1. IsFiniteSet(Eligible(name))
          BY <2>3
        <5>2. Cardinality(Eligible(name)) \in Nat /\ Cardinality(Eligible(name)) # 0
          BY ONLY <3>4, <5>1, Counted
        <5> QED
          BY <5>2
      <4> QED
        BY <2>3, <3>2, <4>1
    <3> QED
      BY <3>3, <3>4
  <2>10. owned \cap DOMAIN excluded_tools = {}
    <3>1. \A name : ~(Cardinality(Eligible(name)) = 1 /\ Cardinality(Eligible(name)) > 1)
      OBVIOUS
    <3> QED
      BY <2>2, <2>3, <3>1
  <2>11. owned \cup DOMAIN excluded_tools = named
    <3>1. owned \subseteq named /\ collided \subseteq named
      BY <2>3, <2>8
    <3> HIDE DEF owned, collided, quarantined, named
    <3> QED
      BY <2>2, <2>7, <2>9, <3>1
  <2>12. \A name \in DOMAIN excluded_tools :
           (excluded_tools[name] = "ToolExcludedNameCollision")
               <=> (Cardinality(Eligible(name)) > 1)
    BY <2>2, <2>3, <2>8
  <2>13. CountsAddUp
    BY <1>1, Sums
  <2> QED
    BY <2>10, <2>11, <2>12, <2>13
<1> QED
  BY <1>1, Invariance, PTL

-----------------------------------------------------------------------------
(* Induction, on a set of numbers: a least one outside it would follow one   *)
(* that is inside.                                                           *)
LEMMA Induction ==
    ASSUME NEW T, 0 \in T, \A n \in Nat : n \in T => n + 1 \in T
    PROVE  Nat \subseteq T
<1> SUFFICES ASSUME Nat \ T # {} PROVE FALSE
  OBVIOUS
<1>1. PICK m \in Nat \ T : \A k \in Nat \ T : ~(<<k, m>> \in OpToRel(<, Nat))
  <2>1. Nat \ T \subseteq Nat
    OBVIOUS
  <2> QED
    BY <2>1, NatLessThanWellFounded, WFMin
<1>2. \A k \in Nat \ T : ~(k < m)
  BY <1>1 DEF OpToRel
<1>3. m # 0 /\ m - 1 \in Nat /\ m - 1 \notin Nat \ T
  BY <1>2
<1>4. m - 1 \in T /\ (m - 1) + 1 = m
  BY <1>3
<1> QED
  BY <1>3, <1>4

(* A recursion over the numbers up to some bound, one step from each to the  *)
(* next, has a solution.                                                     *)
Iterates(f, n, S, base, step) ==
    /\ f \in [0..n -> S] /\ f[0] = base
    /\ \A i \in 0..(n - 1) : f[i + 1] = step[i][f[i]]

LEMMA Iterate ==
    ASSUME NEW n \in Nat, NEW S, NEW base \in S, NEW step \in [Nat -> [S -> S]]
    PROVE  \E f : Iterates(f, n, S, base, step)
<1> DEFINE Sol(k, f) == f[0] = base /\ \A i \in 0..(k - 1) : f[i + 1] = step[i][f[i]]
           T == {k \in Nat : \E f \in [0..k -> S] : Sol(k, f)}
<1>1. 0 \in T
  <2>1. [i \in 0..0 |-> base] \in [0..0 -> S] /\ Sol(0, [i \in 0..0 |-> base])
    OBVIOUS
  <2> QED
    BY <2>1
<1>2. ASSUME NEW k \in Nat, k \in T PROVE k + 1 \in T
  <2>1. PICK f \in [0..k -> S] : Sol(k, f)
    BY <1>2
  <2> DEFINE g == [i \in 0..(k + 1) |-> IF i <= k THEN f[i] ELSE step[k][f[k]]]
  <2>2. step[k][f[k]] \in S
    OBVIOUS
  <2>3. g \in [0..(k + 1) -> S]
    BY <2>2
  <2>4. \A i \in 0..k : g[i] = f[i]
    OBVIOUS
  <2>5. g[k + 1] = step[k][f[k]]
    OBVIOUS
  <2> HIDE DEF g
  <2>6. ASSUME NEW i \in 0..k PROVE g[i + 1] = step[i][g[i]]
    <3>1. CASE i = k
      BY <2>4, <2>5, <3>1
    <3>2. CASE i # k
      <4>1. i \in 0..(k - 1) /\ i + 1 \in 0..k
        BY <3>2
      <4> QED
        BY <2>1, <2>4, <4>1
    <3> QED
      BY <3>1, <3>2
  <2>7. g[0] = base
    BY <2>1, <2>4
  <2>8. (k + 1) - 1 = k
    OBVIOUS
  <2>9. Sol(k + 1, g)
    BY <2>6, <2>7, <2>8
  <2> QED
    BY <2>3, <2>9
<1> HIDE DEF T
<1>3. n \in T
  BY <1>1, <1>2, Induction
<1> QED
  BY <1>3 DEF T, Iterates

(* The characters kept of a text are those at the places given.             *)
KeptEquation(out, text, places) ==
    out = [n \in 0..Len(text) |->
             IF n = 0 THEN <<>>
             ELSE IF n \in places THEN Append(out[n - 1], text[n]) ELSE out[n - 1]]

LEMMA KeptIs ==
    ASSUME NEW text, NEW places, NEW Q, Len(text) \in Nat,
           \A n \in 1..Len(text) : n \in places => text[n] \in Q
    PROVE  Kept(text, places) \in Seq(Q)
<1> DEFINE N == Len(text)
           longer(n, s) == IF n + 1 \in places THEN Append(s, text[n + 1]) ELSE s
           step == [n \in Nat |-> [s \in Seq(Q) |-> IF n < N THEN longer(n, s) ELSE s]]
<1>1. \A n \in 0..(N - 1) : \A s \in Seq(Q) : longer(n, s) \in Seq(Q)
  <2>1. \A n \in 0..(N - 1) : n + 1 \in 1..N
    OBVIOUS
  <2>2. \A s \in Seq(Q), c \in Q : Append(s, c) \in Seq(Q)
    BY AppendProperties
  <2> QED
    BY <2>1, <2>2
<1>2. step \in [Nat -> [Seq(Q) -> Seq(Q)]]
  BY <1>1
<1>3. <<>> \in Seq(Q)
  BY EmptySeq
<1> HIDE DEF step, N
<1>4. PICK f : Iterates(f, N, Seq(Q), <<>>, step)
  BY <1>2, <1>3, Iterate DEF N
<1>5. /\ f \in [0..N -> Seq(Q)] /\ f[0] = <<>>
      /\ \A n \in 0..(N - 1) : f[n + 1] = step[n][f[n]]
  BY <1>4 DEF Iterates
<1> DEFINE at(n) == IF n = 0 THEN <<>>
                    ELSE IF n \in places THEN Append(f[n - 1], text[n]) ELSE f[n - 1]
<1>6. ASSUME NEW n \in 0..N PROVE f[n] = at(n)
  <2>1. CASE n = 0
    BY <1>5, <2>1
  <2>2. CASE n # 0
    <3>1. n - 1 \in 0..(N - 1) /\ n - 1 \in 0..N /\ (n - 1) + 1 = n
          /\ n - 1 \in Nat /\ n - 1 < N
      BY <2>2 DEF N
    <3>2. f[n] = step[n - 1][f[n - 1]] /\ f[n - 1] \in Seq(Q)
      BY <1>5, <3>1
    <3>3. f[n] = longer(n - 1, f[n - 1])
      BY <3>1, <3>2 DEF step
    <3> QED
      BY <2>2, <3>1, <3>3
  <2> QED
    BY <2>1, <2>2
<1>7. KeptEquation(f, text, places)
  <2> HIDE DEF at
  <2>1. f = [n \in 0..N |-> at(n)]
    BY <1>5, <1>6
  <2> QED
    BY <2>1, Zenon DEF KeptEquation, N, at
<1>8. PICK out : KeptEquation(out, text, places) /\ Kept(text, places) = out[N]
  <2> DEFINE out == CHOOSE h : KeptEquation(h, text, places)
  <2>1. Kept(text, places) = out[N]
    BY DEF Kept, KeptEquation, N
  <2>2. KeptEquation(out, text, places)
    BY <1>7, Zenon
  <2> QED
    BY <2>1, <2>2
<1>9. \A n \in 0..N : n # 0 =>
         out[n] = IF n \in places THEN Append(out[n - 1], text[n]) ELSE out[n - 1]
  BY <1>8, Zenon DEF KeptEquation, N
<1>10. out[0] = <<>>
  BY <1>8 DEF KeptEquation, N
<1> DEFINE T == {n \in Nat : n <= N => out[n] \in Seq(Q)}
<1>11. ASSUME NEW n \in Nat, n \in T PROVE n + 1 \in T
  <2> SUFFICES ASSUME n + 1 <= N PROVE out[n + 1] \in Seq(Q)
    OBVIOUS
  <2>1. /\ n + 1 \in 0..N /\ n + 1 # 0 /\ (n + 1) - 1 = n /\ n \in 0..(N - 1)
        /\ out[n] \in Seq(Q)
    BY <1>11 DEF N
  <2>2. out[n + 1] = longer(n, out[n])
    BY <1>9, <2>1
  <2> QED
    BY <1>1, <2>1, <2>2
<1>12. 0 \in T
  BY <1>3, <1>10
<1> HIDE DEF T, longer
<1>13. N \in T
  <2>1. N \in Nat
    BY DEF N
  <2> QED
    BY <1>11, <1>12, <2>1, Induction
<1> QED
  BY <1>8, <1>13 DEF T, N

(* The three deletions, each of which leaves characters of the text, and    *)
(* spaces.                                                                  *)
LEMMA Deletions ==
    ASSUME NEW Q, NEW text \in Seq(Q)
    PROVE  /\ delete_unicode_tags(text) \in Seq(Q \ {TagCharacter})
           /\ strip_zero_width(text) \in Seq(Q \ {ZeroWidth})
           /\ WithoutMarkup(text) \in Seq((Q \ {"<", ">"}) \cup {Space})
           /\ Respaced(text) \in Seq(Q)
<1>1. Len(text) \in Nat /\ DOMAIN text = 1..Len(text) /\ \A i \in 1..Len(text) : text[i] \in Q
  BY LenProperties
<1>2. delete_unicode_tags(text) \in Seq(Q \ {TagCharacter})
  <2> DEFINE P == {i \in DOMAIN text : text[i] # TagCharacter}
             R == Q \ {TagCharacter}
  <2>1. \A n \in 1..Len(text) : n \in P => text[n] \in R
    BY <1>1
  <2> HIDE DEF P, R
  <2>2. Kept(text, P) \in Seq(R)
    BY <1>1, <2>1, KeptIs
  <2> QED
    BY <2>2, Zenon DEF delete_unicode_tags, P, R
<1>3. strip_zero_width(text) \in Seq(Q \ {ZeroWidth})
  <2> DEFINE P == {i \in DOMAIN text : text[i] # ZeroWidth}
             R == Q \ {ZeroWidth}
  <2>1. \A n \in 1..Len(text) : n \in P => text[n] \in R
    BY <1>1
  <2> HIDE DEF P, R
  <2>2. Kept(text, P) \in Seq(R)
    BY <1>1, <2>1, KeptIs
  <2> QED
    BY <2>2, Zenon DEF strip_zero_width, P, R
<1>4. WithoutMarkup(text) \in Seq((Q \ {"<", ">"}) \cup {Space})
  <2> DEFINE P == {i \in DOMAIN text : text[i] = ">" \/ (text[i] # "<" /\ ~InTag(text, i))}
             R == (Q \ {"<", ">"}) \cup {Space}
             spaced == [i \in DOMAIN text |-> IF text[i] = ">" THEN Space ELSE text[i]]
  <2>1. \A n \in 1..Len(text) : n \in P => spaced[n] \in R
    BY <1>1
  <2>2. Len(spaced) = Len(text)
    BY <1>1
  <2> HIDE DEF P, R, spaced
  <2>3. Kept(spaced, P) \in Seq(R)
    BY <1>1, <2>1, <2>2, KeptIs
  <2> QED
    BY <2>3, Zenon DEF WithoutMarkup, P, R, spaced
<1>5. Respaced(text) \in Seq(Q)
  <2> DEFINE P == {i \in DOMAIN text : text[i] = Space =>
                      /\ i > 1 /\ text[i - 1] # Space
                      /\ \E j \in i..Len(text) : text[j] # Space}
  <2> HIDE DEF P
  <2>1. Kept(text, P) \in Seq(Q)
    BY <1>1, KeptIs
  <2> QED
    BY <2>1, Zenon DEF Respaced, P
<1> QED
  BY <1>2, <1>3, <1>4, <1>5
(* What the filters leave of a description is text: no Tag block or zero    *)
(* width character, no angle bracket (sanitize_for_forwarding), and not     *)
(* what stands for a description that is withheld.                          *)
THEOREM Sanitises ==
    \A hash \in Hashes : IsText(sanitize_for_forwarding(DescriptionOf[hash]))
<1> SUFFICES ASSUME NEW hash \in Hashes
             PROVE  IsText(sanitize_for_forwarding(DescriptionOf[hash]))
  OBVIOUS
<1> DEFINE raw == DescriptionOf[hash]
           Q == Range(raw)
           F == (((Q \ {TagCharacter}) \ {ZeroWidth}) \ {"<", ">"}) \cup {Space}
           shown == sanitize_for_forwarding(raw)
<1>1. raw \in Seq(Q) /\ Q \cap Range(Withheld) = {}
  BY DiscoveryAssumption DEF IsDescription
<1>2. F \cap {TagCharacter, ZeroWidth, "<", ">"} = {}
  BY DEF TagCharacter, ZeroWidth, Space
<1>3. "[Description withheld]" \notin F
  <2>1. "[Description withheld]" \in Range(Withheld)
    <3>1. DOMAIN Withheld = {1} /\ Withheld[1] = "[Description withheld]"
      BY DEF Withheld
    <3> QED
      BY <3>1 DEF Range
  <2> QED
    BY <1>1, <2>1 DEF Space
<1>4. shown \in Seq(F)
  <2> DEFINE untagged == delete_unicode_tags(raw)
             joined == strip_zero_width(untagged)
             plain == WithoutMarkup(joined)
  <2>1. shown = Respaced(plain)
    BY Zenon DEF sanitize_for_forwarding, strip_formatting
  <2> HIDE DEF raw, Q
  <2>2. untagged \in Seq(Q \ {TagCharacter})
    BY <1>1, Deletions
  <2> HIDE DEF untagged
  <2>3. joined \in Seq((Q \ {TagCharacter}) \ {ZeroWidth})
    BY <2>2, Deletions
  <2> HIDE DEF joined
  <2>4. plain \in Seq(F)
    BY <2>3, Deletions
  <2> HIDE DEF plain, F
  <2>5. Respaced(plain) \in Seq(F)
    BY <2>4, Deletions
  <2> QED
    BY <2>1, <2>5
<1> HIDE DEF F, shown, Q
<1>5. \A i \in DOMAIN shown : shown[i] \in F
  BY <1>4, LenProperties
<1>6. Range(shown) \subseteq F
  BY <1>5 DEF Range
<1>7. shown # Withheld
  <2>1. DOMAIN Withheld = {1} /\ Withheld[1] = "[Description withheld]"
    BY DEF Withheld
  <2> QED
    BY <1>3, <1>5, <2>1
<1>8. IsText(shown)
  BY <1>2, <1>6, <1>7 DEF IsText
<1> QED
  BY <1>8 DEF shown

(* Who is shown what.                                                       *)
THEOREM ListingVetted ==
    ASSUME DistinctIds PROVE Spec => []ListingIsVetted
<1>1. ASSUME IInv, Running PROVE ListingIsVetted
  <2> DEFINE strict == policy.strict_description_scanning
             listing == handle_tools_list(discovered, description_hits, strict)
             harmful == IF strict THEN {"poison", "hit"} ELSE {"poison"}
             key(at) == HitKey(discovered[at[1]].server_id, ToolIn(discovered, at).name)
             hit(at) == IF key(at) \in DOMAIN description_hits THEN description_hits[key(at)] ELSE "none"
             shown(at) == sanitize_description(DescriptionOf[ToolIn(discovered, at).hash],
                              discovered[at[1]].source_grade, hit(at), strict)
  <2>1. /\ DOMAIN listing = Places(discovered)
        /\ \A at \in Places(discovered) :
              listing[at] = [name |-> ToolIn(discovered, at).name, description |-> shown(at)]
    BY DEF handle_tools_list
  <2>2. Decided
    BY <1>1 DEF Decided
  <2>3. /\ \A at \in Places(discovered) :
              /\ at \in Instances /\ Eligible(ToolAt(at).name) = {at}
              /\ ToolIn(discovered, at) = ToolAt(at)
              /\ discovered[at[1]].server_id = advertised[at[1]].server_id
              /\ discovered[at[1]].source_grade = advertised[at[1]].source_grade
        /\ DOMAIN tool_owner = {ToolAt(at).name : at \in Places(discovered)}
    BY <1>1, <2>2, Callable
  <2>4. \A at \in Places(discovered) :
           listing[at].name = ToolAt(at).name /\ listing[at].description = shown(at)
    <3> HIDE DEF listing, shown
    <3> QED
      BY <2>1, <2>3
  <2>5. ASSUME NEW at \in Places(discovered)
        PROVE  hit(at) = ToolAt(at).hit
    <3>1. key(at) = KeyIn(advertised, at)
      BY <2>3 DEF KeyIn, ToolAt
    <3>2. ASSUME NEW other \in Instances, KeyIn(advertised, other) = KeyIn(advertised, at)
          PROVE  other = at
      <4>1. at \in Instances /\ Eligible(ToolAt(at).name) = {at}
        BY <2>3
      <4>2. /\ advertised[other[1]].server_id = advertised[at[1]].server_id
            /\ ToolAt(other).name = ToolAt(at).name
        BY <3>2 DEF KeyIn, HitKey, ToolAt
      <4>3. other[1] = at[1]
        BY <1>1, <4>1, <4>2, Advertised, Identified
      <4>4. Distrusted(other) <=> Distrusted(at)
        BY <4>2, <4>3 DEF Distrusted
      <4>5. ~(policy.strict_schema_pinning /\ Distrusted(at))
        BY <4>1 DEF Eligible
      <4>6. other \in Eligible(ToolAt(at).name)
        BY <4>2, <4>4, <4>5 DEF Eligible
      <4> QED
        BY <4>1, <4>6
    <3>3. /\ KeyIn(advertised, at) \in DOMAIN description_hits
          /\ description_hits[KeyIn(advertised, at)] = ToolAt(at).hit
      BY <1>1, <2>3, <3>2 DEF IInv, OwnHits
    <3> QED
      BY <3>1, <3>3
  <2>6. ASSUME NEW at \in Places(discovered)
        PROVE  IF Trusted(advertised[at[1]].source_grade) /\ ToolAt(at).hit \notin harmful
               THEN IsText(shown(at)) ELSE shown(at) = Withheld
    <3> DEFINE grade == advertised[at[1]].source_grade
               raw == DescriptionOf[ToolAt(at).hash]
    <3>1. at[1] \in DOMAIN advertised /\ ToolAt(at) \in Tool
      BY <1>1, <2>3, Advertised
    <3>2. grade \in SourceGrade
      <4>1. advertised \in Seq({Recorded(n, tools) : n \in DOMAIN servers, tools \in Adverts})
        BY <1>1 DEF IInv, CameUp
      <4>2. PICK n \in DOMAIN servers, tools \in Adverts : advertised[at[1]] = Recorded(n, tools)
        BY <3>1, <4>1, ElementOfSeq, LenProperties
      <4>3. disk \in Installations
        BY <1>1 DEF IInv, InLoop
      <4> QED
        BY <4>2, <4>3, DiscoveryAssumption DEF Recorded, servers, config
    <3>3. shown(at) = sanitize_description(raw, grade, ToolAt(at).hit, strict)
      BY <2>3, <2>5
    <3>4. ToolAt(at).hit \in {"none", "hit", "poison"} /\ IsText(sanitize_for_forwarding(raw))
      BY <3>1, Sanitises DEF Tool, Outcome
    <3> HIDE DEF shown, grade, raw
    <3>5. shown(at) = IF \/ grade \in {"Unvalidated", "Suspicious"}
                         \/ ToolAt(at).hit = "poison"
                         \/ ToolAt(at).hit = "hit" /\ strict
                      THEN Withheld ELSE sanitize_for_forwarding(raw)
      BY <3>3 DEF sanitize_description
    <3>6. Trusted(grade) <=> grade \notin {"Unvalidated", "Suspicious"}
      BY <3>2 DEF Trusted, SourceGrade
    <3>7. ToolAt(at).hit \in harmful <=> ToolAt(at).hit = "poison" \/ (ToolAt(at).hit = "hit" /\ strict)
      OBVIOUS
    <3> HIDE DEF harmful
    <3> QED
      BY <3>4, <3>5, <3>6, <3>7 DEF grade
  <2> HIDE DEF listing, shown, harmful
  <2>7. {listing[at].name : at \in DOMAIN listing} = DOMAIN tool_owner
    BY <2>1, <2>3, <2>4
  <2>8. ASSUME NEW at \in DOMAIN listing, NEW other \in DOMAIN listing,
               listing[at].name = listing[other].name
        PROVE  at = other
    <3>1. at \in Places(discovered) /\ other \in Places(discovered)
      BY <2>1
    <3>2. ToolAt(at).name = ToolAt(other).name
      BY <2>4, <2>8, <3>1
    <3> QED
      BY <2>3, <3>1, <3>2
  <2>9. ASSUME NEW at \in DOMAIN listing, NEW own \in Eligible(listing[at].name)
        PROVE  IF Trusted(advertised[own[1]].source_grade) /\ ToolAt(own).hit \notin harmful
               THEN IsText(listing[at].description) ELSE listing[at].description = Withheld
    <3>1. own = at /\ at \in Places(discovered)
      BY <2>1, <2>3, <2>4
    <3> QED
      BY <2>4, <2>6, <3>1
  <2> QED
    BY <2>7, <2>8, <2>9 DEF ListingIsVetted, listing, harmful
<1>2. IInv => ListingIsVetted
  BY <1>1 DEF ListingIsVetted
<1> QED
  BY <1>2, Invariance, PTL

(* When the gateway serves, nothing it was told to refuse applies; when it  *)
(* has exited, the code names a reason that holds: the safety of            *)
(* StartIsExplained.                                                        *)
THEOREM OutcomeIsExplained ==
    ASSUME DistinctIds PROVE Spec => [](Running \/ phase = "exited" => Explained)
<1>1. ASSUME IInv, Running \/ phase = "exited" PROVE Explained
  <2> DEFINE entries == AfterQuarantine(advertised)
             late     == policy.refuse_startup_on_discovery_timeout /\ failed_servers # {}
             mismatch == policy.refuse_startup_on_pin_mismatch /\ mismatches # {}
             collision == \E name \in Names : Cardinality(Eligible(name)) > 1
             collides == policy.refuse_startup_on_tool_name_collision /\ collision
  <2>1. \A name : Collides(entries, name) <=> Cardinality(Eligible(name)) > 1
    BY <1>1, Colliding
  <2>2. Refusals(entries) = IF late THEN 5 ELSE IF mismatch THEN 3 ELSE IF collides THEN 4 ELSE 0
    BY <2>1 DEF Refusals
  <2> HIDE DEF entries, late, mismatch, collides
  <2>3. ASSUME Running
        PROVE  ~Misconfigured /\ ~cli.discovery_report /\ ~late /\ ~mismatch /\ ~collides
    <3>1. Refusals(entries) = 0
      BY <1>1, <2>3 DEF IInv, Decisions, Decided, Settled, entries
    <3>2. ~late /\ ~mismatch /\ ~collides
      BY <2>2, <3>1
    <3>3. ~Misconfigured /\ ~cli.discovery_report
      BY <1>1, <2>3 DEF IInv, Accepted, Running, Misconfigured
    <3> QED
      BY <3>2, <3>3
  <2>4. ASSUME phase = "exited"
        PROVE  /\ exit_code = 0 => cli.show_version \/ cli.show_help \/ cli.discovery_report
               /\ exit_code = 1 => processes = {} /\ (Misconfigured \/ current <= Len(servers))
               /\ exit_code = 2 => processes = {} /\ Misconfigured
               /\ exit_code \notin 0..2 => Refusals(entries) = exit_code
    BY <1>1, <2>4 DEF IInv, Accepted, entries
  <2>5. ASSUME phase = "exited"
        PROVE  /\ exit_code = 3 => mismatch
               /\ exit_code = 4 => collides
               /\ exit_code = 5 => late
    BY <2>2, <2>4, <2>5
  <2> QED
    BY <2>3, <2>4, <2>5 DEF Explained, late, mismatch, collides
<1> QED
  BY <1>1, Invariance, PTL

=============================================================================
