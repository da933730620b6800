# Verification of the magus gateway

TLA+ models, model-checking configurations and proofs for the gateway in `src/`
(a Rust program of one binary that stands between one MCP agent on stdio and any
number of downstream MCP servers, each a child process on two pipes). It classifies every response a
server gives, keeps a provenance state per session, prices every tool call
against a risk budget and refuses, forwards or answers it.

Files named without a directory below are in `src/src/`.

## 1. Inventory

| Component | State it keeps | Operations | Interacts with |
|---|---|---|---|
| Response classification (`provenance.rs`) | none | `classify_response`, `compute_new_state` | called by `main.rs` on every result |
| Provenance tracker (`provenance.rs`) | `current_state`, `consecutive_clean_calls`, poisoning server, pending rule ids | `ingest_signature`, `record_response_outcome`, `state_from_rule_hits` | written by `main.rs` after a result; read, and its rule ids taken, by `membrane.rs` |
| Membrane (`membrane.rs`) | `agent_accumulators`, exhaustion flag | `register_agent`, `deregister_agent`, `evaluate` | reads the tracker, charges the budget, writes the audit log, ticks the usage counter |
| Usage counter (`quota.rs`) | count and calendar month | `record_and_get_count` | `evaluate` |
| Downstream connection (`downstream.rs`) | request id, timeout streak, degraded flag, the two pipes | `spawn_and_initialize`, `list_tools`, `call_tool` | a server process; used by discovery and by tools/call |
| Discovery (`main.rs`) | child processes, discovered tools, description outcomes, mismatches, owner, schema and exclusion tables | everything before the stdio loop: arguments, rules, configuration, policy, then three phases | connections, registry, pin policy, rule engine |
| Session loop and tools/call (`main.rs`) | the line at hand | one line, one reply | all of the above |
| Pin policy (`pin_policy.rs`) | none | `from_pin`, `validate_policy` | discovery |
| Audit log (`audit.rs`) | append-only file | `log_record`, events | membrane, main |
| Registry (`registry.rs`) | configuration, read once | `load_from_yaml`, `lookup` | everything |
| Rule engine (`rules_engine.rs`) | compiled rules | scan: literals, regexes, exemptions, escalation, suppression | main |
| Output schema check (`schema_check.rs`) | none | `conforms`: recursive validation with a depth limit | main, whose verdict can poison the session |
| Definition hash (`hasher.rs`) | none | canonical encoding, blake3 | discovery; the operator, who pins it |
| Advisory text (`advisory.rs`) | none | `inject_advisory`: where the notice of an escalation goes in a result | main |
| tools/list (`main.rs`) | none | `handle_tools_list`, `sanitize_description` | what discovery left |
| Command line, test servers (`bin/`) | none | flags; fixtures | - |

What is hard here, and what makes each part correct:

* **A timeout cancels a call anywhere.** `call_tool` is wrapped in
  `tokio::time::timeout`; the future may be dropped inside `write_all` (a torn
  line stays in the server's stdin) or inside `read_line` (bytes already pulled
  are lost). Afterwards the same pipe is used again. Correct means: no later
  call is given an earlier call's answer, nothing is executed twice, the stream
  gets back in step, a server that hangs cannot hold the loop, and the streak of
  timeouts degrades the connection exactly when it should.
* **Long sequences of legal calls.** The provenance state goes up at once and
  comes down by streaks, tier by tier; two updates of the tracker follow one
  response; corroboration depends on the state of the moment. Correct means: no
  mix of responses heals early, heuristic evidence alone never poisons,
  deterministic violations always do, and the two updates do not depend on
  their order.
* **Pricing.** Two modulations of the risk class, two surcharges in integer
  arithmetic, an exclusive ceiling, u32 sums. Correct means: the balance is
  exactly what was approved, below the ceiling; and the gate is monotonic, no
  degradation of a call's circumstances ever gets it approved.
* **State that crosses calls.** Rule ids recorded by one response belong to the
  audit record of a later call; one exhaustion notice for all connections; a
  usage notice per month, with the month looked at only when a call is
  evaluated.
* **What a scan reports.** One automaton for the literals of all rules, a limit
  on occurrences per rule, exemption, escalation and suppression by an
  operator's file. Correct means: the strongest occurrence decides wherever it
  stands, a suppression only eases and never reaches a Critical rule, and
  nothing is missed for a reason other than an overlapping match.
* **Several servers behind one loop.** Timeouts are counted per connection;
  poisoning stops all of them; names collide; one is quarantined; a hung one is
  skipped at start-up.
* **What is read, and from whom.** A result is checked against a schema of the
  server's choosing, malformed keywords and depth included, and then has a notice
  written into it; a definition is hashed over concatenated fields. Correct means:
  the verdict is what the schema means at every place, the notice changes nothing
  but the end of one text and leaves a conforming result conforming, and two
  definitions have one hash exactly when they are the same.
* **The start.** Five checks before the first process, three phases after. Correct
  means: nothing is spawned for a configuration that is refused, an exit code names
  its reason, a hung server costs only itself, and what tools/list shows is what can be called.
* **The loop.** The agent pipelines; every line that asks for a reply gets one,
  in order, with its id.

The hazards, each at its line, are in `PROJECT.json`.

## 2. Modules

```
ProvenanceStates ── ResponseClassifier ── ProvenanceFsm ──┬── Provenance ── MCProvenance
       │                                                  │        └── ProvenanceProofs
       └── RiskGate ──┬── Membrane ── MCMembrane          │
                      │       └── MembraneProofs          │
                      └──────────────┐                    │
                                     │                    │
ConnectionHealth ──┬── Downstream    └──── Gateway ───────┘── MCGateway
                   │     │ implements       │ implements  └── GatewayProofs
                   │   CallChannel        RequestReply
                   └── Gateway
Downstream ── DownstreamProofs
ProvenanceFsm ── RuleEngine ── MCRuleEngine
                      └── RuleEngineProofs
CommandLine, Registry, ToolListing ── Discovery ── MCDiscovery
                                           └── DiscoveryProofs
Json ──┬── SchemaCheck ──┐
       ├── Advisory ─────┴── ResultContent ── MCResultContent
       └── SchemaMeaning ────┘    └── ResultContentProofs
           (what SchemaCheck is compared with)
DefinitionHash ── Pinning ── MCPinning
                     └── PinningProofs
```

Each proof module stands alone on the module it is about: the few lemmas that several need (appending to
a sequence and counting its places, a recursion over numbers having a solution) are proved where they are
cited.

* **ProvenanceStates** - the four provenance states and the grades, with their order.
* **ResponseClassifier** - `classify_response` and `compute_new_state`. A payload
  is whether it parses, its top-level type and the lengths of its strings; the
  byte total saturates at each addition as the code's u32 does, the counter of long
  strings is a u16 and wraps.
* **ProvenanceFsm** - what rule hits justify, and the tracker's two updates, as
  operators on a record `[current_state, clean_calls, poisoner, rule_ids]`.
  `AbsorbResponse` is the pair of updates in `main.rs`'s order.
* **Provenance** - the tracker as a state machine: `Respond` is one response of
  any content from any server, `TakeRuleIds` what an approval does to the
  tracker. The history variable `hist` follows the responses: what their structure shows
  it reads off their strings (`Shown`: all the bytes, any long string), not off the
  classifier's counters, and of the tracker only the state that `state_from_rule_hits` reads;
  the properties relate it to the tracker.
* **RiskGate** - `modulate_risk_class`, the price and the verdict of
  `Membrane::evaluate`, as operators, with its early returns in order; and `NoWrap`, what the
  theorems about sums ask of a ceiling (`DearestCall`, the highest price that reaches the
  budget check, 6000 for a Critical call of an ungraded tool in a Clean session, still fits
  above it into a u32).
* **Membrane** - `register_agent`, `deregister_agent`, `Evaluate` (any registered
  connection, proposal and provenance state) and `NextMonth` (the calendar).
  `log` collects what the audit log and the operator see.
* **ConnectionHealth** - the timeout streak and the degraded flag of a
  connection.
* **Downstream** - one connection, its pipes and the server process.
  `CallTool`, `WriteSome`, `WriteLine`, `ReadPiece`, `ReadEof`, `Timeout` are the
  steps of `call_tool`/`request`/`write_line`/`read_line` between which the
  future can be dropped; `ServerTakes`, `ServerWrites`, `ServerFinishes`,
  `ServerExits` are a server that executes what it can parse, answers when and in
  which order it likes, in one write or two, speaks for itself, and exits.
* **CallChannel** - the abstract promise of a connection: one call at a time, each
  ends in one outcome, and once two calls have timed out with no success between
  them none is let through.
* **Gateway** - the session: `Send`, `Close` (agent), `SkipLine`, `AnswerLine`,
  `ReadFails`, `RefuseCall`, `RejectCall`, `ApproveCall`, `Shutdown` (loop),
  `AcceptResult`, `TimeOut`, `Fail` (the end of a forwarded call). It composes
  RiskGate, ProvenanceFsm and one ConnectionHealth per server; a connection here
  is the outcome CallChannel allows, not its pipes. Every reply and every record of the log
  carries the number of the line it is about (`line`): for the record of a call it stands for the
  proposal_id, fresh for each call, and elsewhere it is history that only properties look at.
* **RequestReply** - the abstract promise of the gateway to its agent.
* **CommandLine**, **Registry**, **ToolListing** - operators Discovery is built from:
  `parse_args`; what `load_from_yaml` refuses and `lookup` returns; the outcome of
  a description's scan and what tools/list makes of it (a description is a
  sequence of characters of the kinds that matter: text, space, Tag block,
  zero width, angle brackets). A tool is known by its place, the entry of its server and
  its position in the list; the lists after quarantine and collisions hold the tools left
  at the places they had, and the answer to tools/list is a function from places, whose order
  is that of the code's loops. The three deletions of `sanitize_for_forwarding` are given by
  the places they keep (`Kept`); the flag of the loop in `strip_formatting` is `InTag`, a fact about what
  stands in front of a place. `IsText` is what may be shown of a description.
* **Discovery** - the start of the gateway. `ParseArgs`, `LoadRules`, `LoadRegistry`,
  `ValidatePolicy` read what the operator gave, each with its exits; `Spawn`,
  `Initialized`, `Listed`, `TimedOut`, `Failed` bring up the configured servers one
  after the other; `Decide` is everything behind that loop (refusals, quarantine,
  collisions, ownership, schemas, summary, `--discovery-report`). `processes` are the
  children still running: one is killed when its connection is dropped (a
  timeout, a second entry with its id, a return of `main`) and not when
  `process::exit` ends the gateway. `advertised` is history: what the servers gave,
  from which the properties say what should be served without the phases.
* **Json** - `serde_json::Value` as records, and the accesses the code makes. `Values` is the set of
  values there may be, any set that has with a value its parts (JsonAssumption).
* **SchemaCheck** - `schema_check.rs`, one operator per keyword; `MeetsSchema` is one
  level of `check_rec`, given which values one level further down meet which schemas, and
  `check_rec` the verdicts at each depth, computed from those one deeper. **SchemaMeaning** - the
  reference: the places of the data the schema speaks of, computed level by level from the top, and what
  each must meet. All it has in common with SchemaCheck is the matching of a pattern, its parameter.
* **Advisory** - `inject_advisory` with its tiers.
* **ResultContent** - what tools/call does with one result's content: `Judge` (the
  schema verdict), then `Announce` (the state rose; `Notices` are the texts there may be) or `Forward`.
* **DefinitionHash** - the bytes `compute_definition_hash` feeds to blake3. A length
  is one byte instead of eight, and strings are made of the same numbers as tags and
  lengths, so that nothing but their place tells them apart. The hash of a value is again
  computed for all values at each depth from those one deeper.
* **Pinning** - the life of one pin: `Start` (a server advertises a definition, the
  gateway compares), `PinAndStop` (the operator copies the hash that was printed),
  `Stop`. `pinned` is history: the definition the pin was taken from.
* **RuleEngine** - `Load` (both rule files, and the reasons to refuse them), then
  one scan: `ScanLiteral`, `EndLiterals` (the automaton), `ScanRegex`,
  `NextRegex` (the regexes, one by one), `Return`. A text is a sequence of units;
  `Found` and `Reported` are the automaton's search as the library defines it
  (earliest end, then longest, then first rule; the next search starts behind
  it). `seen` is `literal_occurrences` and what `take` counts, `best` is
  `literal_best` and `best`; `taken` is history. The properties compare the
  result with what each rule should report, computed from the text alone.
* **MC...** - values of the constants. **...Proofs** - theorems.

Some modules hold, directly before a definition, one or two variants of it with a
suffix (`HitKey_name`, `charge_from_init`): plausible mistakes in that line of
code. Each property is known to fail when the definition is replaced by one of
them; `PROJECT.json` ("mutants") says which.

## 3. Runs

Passing:

| Run | What it explores | What it shows |
|---|---|---|
| `provenance` | any responses: 5 payloads (short, one long string, over the cap, counter of long strings wrapped and byte total full, unparseable), 3 schema verdicts, 7 sets of hits (each action, two elevating, both edges of the synthesis rule), 3 servers, one per grade; thresholds 5/3 as in the code | recovery from evidence takes 5+3 calm responses, and from bulk text or an ungraded server, also one that overruns the counters, 3 in a row that show nothing; every fall is by one tier and earned; heuristic evidence poisons only when two responses carry it; a violation always poisons and the blame is right; clean traffic heals |
| `membrane` | 3 connections, at most 2 registered, 5 proposals from a free read to the dearest call, any provenance state at each evaluation, 2 months of 3 evaluations, usage limit 2, ceiling 4120, a u32 that ends at 10119 | exact balances below the ceiling, with sums up to the greatest that fits; a refused price stays refused; one exhaustion notice over all connections; one usage notice per month; the gate is monotonic |
| `downstream` | 4 calls; one line of the server's own (notification, noise, or a request whose id collides with a call's); replies in one piece or two; timeouts and exit between any two steps | answers are never mixed up; no request runs twice; a torn line costs at most one later call per timeout; every call ends; the connection implements CallChannel (after degradation nothing is let through) |
| `gateway` | 5 calls of three tools (a read, an expensive write, a tagged fetch) on two servers, 4 results (nothing, a flag, an elevation, a poison), timeouts, failures | poisoning stops every server; the log explains each escalation; rule ids are attributed once; only results are evidence; timeouts are counted per server; log and replies agree |
| `gateway_loop` | 3 lines of every kind (with and without id, not JSON, not UTF-8, every method, tools of every fate), two sent ahead | the session implements RequestReply: each request is answered once, in order, before the gateway ends |
| `discovery` | 8 command lines; 3 servers of three grades, 2 names with two definitions each, 7 advertised lists (including a name twice, and a mismatch beside a match), a pin that a later entry of the file replaces, all 32 policies, 7 faulty or empty installations, hung and failing servers | a name is callable exactly when one trusted claimant is left, at that claimant's process and judged by its schema; nothing vanishes without a reason and the summary adds up; pins hold at the connection; tools/list shows what is callable, with descriptions only of trusted servers and clean scans; the start ends, for a reason that applies, with no process behind a refused configuration |
| `content` | every keyword, well formed, malformed, met and missed (20 plain schemas; all of them for `content`, required or not, closed or not; nested to the depth limit, at it and past it) against some 60 results (no, one or both content fields, text blocks of every shape), each result with and without a notice | the verdict that can poison a session is what the schema means; a notice makes exactly one string of the result longer, two or three levels down, and a conforming result stays conforming |
| `definition` | a pin taken from any of 186 definitions and compared with any other; names, descriptions, keys and strings that contain each other's tags and lengths, keys in both orders, nesting to the limit and past it | a pin matches exactly what was reviewed |
| `rules` | 2 built-in rules, 10 operator's files, 159 texts, both scopes, 2 servers | a regex rule reports its strongest occurrence that is not exempted; suppressions only ease the verdict of `state_from_rule_hits`; Critical hits are never suppressed; a literal is missed only behind an overlapping match |

Why the bounds are enough. `provenance` has no bound on the number of
responses: history counters saturate where the properties stop looking, so the
run is exhaustive for its inputs. In `membrane`, three evaluations a month reach the
limit 2 and pass it, three connections with room for two make registration at
the limit and re-registration with a fresh budget happen. Calls of 1200 and 1620 bring a total to exactly 4120, where the last of them is refused, since
the ceiling is exclusive; others bring a balance to 4100, and the
dearest call on top of it adds up to 10100. `U32 = 10120` is the narrowest width `NoWrap` allows for this
ceiling: twenty less, and that sum wraps, the call is approved, and BudgetIsExact is violated. In `downstream`, four calls
are two timeouts, one call that pays for them, and one refused as degraded. In
`gateway`, five calls allow poison or elevate, heal or repeat,
reject, reject again, approve; the decay thresholds are 2 and 1 instead of 5 and 3 so that
healing fits into a session (the `provenance` run and the theorems have the code's,
or any, thresholds). `U16` is 5 and `U32_MAX` is 999, so that five strings of 200 bytes bring the counter
of long strings back to 0 and would bring a byte total that wrapped back to 0 as well;
`LONG_STRING_THRESHOLD` and the cap keep
the relation they have in the code (`ClassifierAssumption`: enough long strings
to wrap the counter exceed the cap), which with the saturation is what keeps the wrap harmless:
RecoveryIsPaidFor is violated when the total wraps, and CountersSuffice proves that as it is no
response reads better than its strings are.
Named bounds are `MaxCalls`, `MaxOwnLines`, `MaxLines`, `MaxAhead`, `LastMonth`,
`MaxEvals`. Symmetry is used for connections of the membrane only, which are
interchangeable and not ordered (no liveness property in that run).
`CHECK_DEADLOCK FALSE` stands where the system really stops (the gateway ends,
discovery decides, a scan returns, a result is answered) or where a bound is exhausted.

In `content` the depth limit is 2 instead of 64 and a pattern has at most 3 units
instead of 500, so that schemas and patterns on both sides of both limits fit; every keyword is
read at each depth by the same code. `Values` is what schemas, results and results with a notice are made
of, closed under parts. In `definition` the limit is 1 instead of 64, with
values one level above it and two below; two definitions that differ in any
one field, and pairs that hold the same bytes cut differently, are among those
compared. In `discovery` three servers are two claimants of a name and a bystander, and
what is wrong with an installation is wrong one thing at a time.

In `rules` the limit on occurrences is 2 instead of 256, so that three occurrences of a
rule fit into a text; the texts are all sequences of up to three of the five units
and the longer ones that reach the limit and a literal after it. The operator's files
hold literals that overlap the built-in one in front and behind, in other scopes,
a server's suppression before and after a general one, a floor above the
action, three rules that reach the synthesis threshold, and four files that must
be refused.

Violations, each a place where the text of the repository and its code
disagree (`findings` in `PROJECT.json` quotes both):

| Run | Claim | What the code does |
|---|---|---|
| `colliding_id` | only the response to the call in flight ends it (comments of `request`) | a request by the server with the same id does, as `Ok(Null)` |
| `masked_literal` | the automaton "finds every occurrence of every literal pattern" (comment in `scan`) | its matches do not overlap: a literal that overlaps an earlier match, of a rule of any scope, is not found |
| `duplicate_id` | a tool that mismatches its pin is quarantined (`THREAT_MODEL.md`) | with one `server_id` configured twice, the second entry's is not |

Met while modelling, and without a run of its own: `THREAT_MODEL.md` lines 142-144
and the `README.md` of the repository say that a tagged tool's class is raised
once the session is Contaminated, while `modulate_risk_class` raises it in every
state (`AfterTag`); the exhaustion notice (`membrane.rs:310-313`) says
that Medium and above are refused from then on, while the test is made per call and
a cheaper Medium call still passes (what does hold is RefusalsStand); `THREAT_MODEL.md` lines 78-80 say
recovery costs accumulated risk budget, but Low calls cost nothing; `downstream.rs:24`
speaks of two timeouts in a row while a timeout, another error and a timeout
degrade as well (`CallChannel` states what really holds: no success between
them); the long comment at the two tracker updates in `main.rs` says that their order
matters, and `OrderIsImmaterial` shows that it does not. The comment of
`state_from_rule_hits` (`provenance.rs:234`) says two heuristic signals "within the same
response" poison, while `any()` over the hits of one response (`provenance.rs:248`)
makes two of them Contaminated in a Clean or Elevated session (`PoisonIsCorroborated`
states what holds). `audit.rs:45-46` says a record names the rules that fired on the
response just before it, while `ingest_signature` stores only those that raised
the state and a rejection keeps them for the next record (`RulesAreAttributedOnce`).
`hasher.rs:81` says hashes are re-verified on every later tools/list poll; the
gateway lists each server once, at its start (`Pinning` has one comparison per
start). Below the depth limit any two values have one hash (`\xFF`), and the
schema check past its limit fails any data; both are as documented. `advisory.rs`
rejects extending other fields because that could break a declared schema; tier
1 itself does so when the schema restricts `content` by `enum` or `pattern`
(NoticeIsAnAppendix leaves these out by name, `RestrictsContent`). Of two `tools:` entries for one
tool the later one counts, silently. A server that gives one name twice, one
definition matching its pin and one not, loses both, and the summary's numbers count one
of them less (`CountsAddUp`). `process::exit` runs no destructors, so that the
children outlive exits 3, 4, 5 and `--discovery-report` until they notice that
their input ended.

### Fairness

* `WF(Timeout)` in Downstream, `WF(TimeOut)` in Gateway, `WF(TimedOut)` in
  Discovery: the tokio timer around a request fires whatever the server does.
  Nothing is assumed of a server, not even that it ever reads.
* `WF(Loop)` in Gateway: the loop is straight-line code between two reads, and the
  agent drains the gateway's stdout.
* `WF(Local)` in Discovery (the steps before the servers, spawning, and `Decide`):
  straight-line code. ResultContent and Pinning have no fairness.
* Provenance and Membrane have no fairness; `Recovers` is conditional on
  clean traffic that keeps coming.

## 4. Proofs

**ProvenanceProofs**, for any servers, grades, payloads, sets of rule hits and
thresholds allowed by the named assumptions:
`Spec => []IInv`, where IInv is TypeOK, TrackerRecord and HistOK (shapes),
RecoveryIsPaidFor, PoisonIsCorroborated, BlameIsRight, and **StreakObserved**: the tracker's streak
is no longer than the run of responses actually observed at that tier. Without
StreakObserved the decay step cannot be justified from the history. From it
follow the theorems TypeCorrect, RecoveryCost, Corroboration, Blame and, as an
action property, DecayIsAlwaysEarned. All of them compare the tracker with what the responses show
on their own, so that the inductive step needs **CountersSuffice**: for any payload, what `compute_new_state`
makes of the counters of `classify_response` is what the strings show. The total is the least of the
sum and the greatest u32 (Totals, by induction on the prefix), and a counter of long strings
that has wrapped stands for so many bytes that the total is over the cap (CountersAre). EvidenceIsMonotonic (more hits never
justify a better state) and OrderIsImmaterial (the two updates commute on every
well-formed tracker, but for the streak of a Poisoned session, which nobody reads) are facts about the operators.

**RuleEngineProofs**, for any built-in rules, operator's files, texts, servers and
limit on occurrences: `Spec => []IInv`, where IInv is TypeOK, BestIsFunction,
CriticalIsNeverSuppressed, **LoadedIsClean** (a scan runs only with files that passed the
checks of `load`, which is why no suppression can cover a Critical rule) and
**NotYetFound**: of a literal rule in scope that has no hit, no occurrence has
been counted, and each of its occurrences lies ahead of the search or is
overlapped by a match of another rule. MissesAreMasked speaks of the finished scan only
and is not inductive; NotYetFound carries it through the search, and the step
that matters is that a match skips only occurrences it overlaps, because it is the one
that ends first. From it: TypeCorrect, CriticalStands, OnlyMaskedIsMissed.

A second invariant stands on the first (KeptThroughout). **Kept** says of each regex rule in scope which of
its matches have been evaluated: none before its turn, those in front of the search
during it, and afterwards exactly the first MAX_OCCURRENCES_PER_RULE; that `seen` is their number; and
that `best` is the hit of the strongest of them that is not exempted. **Turns** says that the rules are taken up one after the
other from the first to the last. The number is what the limit needs: the rule is left when `seen` is at
the limit or no match is ahead, and either way those in front of the search are those
the limit lets in (LeftWhenDone). That only a running maximum need be kept rests on HitGrows, which says
that a rule's hit is a monotonic function of the raw action, so that a suppression's floor, which can
make two actions one, never lets the weaker occurrence win. From it: StrongestCounts, and
SuppressionEases, which compares the whole set of hits with what it would be without suppressions: no suppression
makes a poison or an elevation, and each medium hit left corresponds to one that would have been
there, of the same category (HitEases, an injection by rule ids, which `load` has made distinct), so
that no downgrade brings about the synthesis of VerdictGrows.

**MembraneProofs**, for any connections, agents, limits, proposals and months,
under `NoWrap`: the ceiling and the initial balance are so far
below 2^32 that one more call of the highest price that reaches the check, 6000, does not wrap
(a balance is below the ceiling, so the two may add up to 2^32 exactly). The code does
not enforce this; above it a release build wraps and a debug build panics.
`Spec => []MInv`, where MInv is TypeOK, LogOK and FreshIsEmpty (shapes, and ids
and months not used yet are blank in the log), BudgetIsExact,
**StillTooDear** (the balance plus the least refused price is at or over the
ceiling, which is what makes refusals final), **QuotaAgrees** (the counter is the
month's number of evaluations, or belongs to an earlier month) and
**NoticeAgrees** (the flag is up iff some refusal was logged), NoticeFiresOnce and
QuotaNoticePerMonth. From it: TypeCorrect, ExactBudget, OneNotice,
MonthlyNotice, RefusalIsFinal and Tightening, the last by TighteningLemma, a fact
about the verdict operator alone, proved by monotonicity of class, price and
gate.

**DownstreamProofs**, for every number of calls, of lines the server sends of its own, and every set of
ids it may use: `Spec => []IInv`, where IInv is Types and Phases (shapes, and what a
phase says of the flags), and

* **Numbering**, **RequestsMove**: ids are given out one by one, and a request is in the pipe at most once and
  only before it ran; without them a dropped `write_all` could be followed by a second request of that id;
* **AnswersRan** with OwnAnswer: a reply owed, half written, in the pipe or delivered is that of a request that
  ran, and the call it was delivered to has its id;
* **PartsAlternate**: in the pipe the first part of a line and its rest stand side by side;
* **TailsArePaid**: each torn line that cost a call, and the one whose rest is next in the pipe, has a timeout of its own.
  DesyncIsPaidOnce counts only those already read; the one still to be read is what carries it over the timeout itself;
* **HealthExplained**: the streak and the flag are what the outcomes so far say.

From it: TypeCorrect, AnswersAreOwn, NothingRunsTwice, TornLinesArePaid, and ChannelSafety: the initial states
of Downstream are initial states of CallChannel, and every step is one of its steps or a stutter, through the
mapping of ImplementsChannel.

**GatewayProofs**, for every set of servers, tools, lines and responses, every ceiling and every pair of
thresholds, under NoWrap: `Spec => []IInv`, where IInv ties the lines read, the replies, the log and what tracker and
connections remember to each other. Its parts are Types, Sendable, Balance,

* **OutIsApproved**: the call that is out is the last line read, and its approval the last record;
* **Story**: a session in which a poisoning is logged is Poisoned; a state worse than that of some evaluation has an
  escalation logged after it; and the tracker holds exactly the ids of the escalations that no approval has
  followed. The last is what RulesAreAttributedOnce does not say and needs: what the log still owes the next record;
* **HealthIsOnRecord**: a connection's streak is at most the timeouts logged of it, and a degraded one has its two;
* **Labels**, **Served**, **Kept**: replies and records are about lines read, every line read that asks for a
  reply has one but the one that is out, and there are no more replies than lines.

From it: TypeCorrect, PoisonStops, LogExplainsState, Attribution, TimeoutsAreOwn, LogMatchesReplies, the action property
ResultsAreEvidence, and PromiseSafety, the step-by-step half of ImplementsRequestReply.

**DiscoveryProofs**, for every set of servers, lists, definitions, pins, policies and command lines allowed by
DiscoveryAssumption (the absence of a pin is no hash, every hash has its description, entries have a grade): `Spec => []IInv`, where IInv is

* **InLoop**: which entry the loop is at, and that nothing runs before it;
* **CameUp**: every entry before the one at hand came up, and is recorded as configured, or timed out, never both;
* **Connections**: a connection is to an entry that came up under that id, and its process runs until the gateway fails;
* **Mismatches**: those recorded are those of what was advertised, none forgotten;
* **OwnHits**: the outcome kept for a tool that no other has the key of is its own;
* **Decisions**: nothing is taken out before the decision, and afterwards the tables are those of what was advertised;
* **Accepted**: each phase is reached with what the phases before it accepted, and an exit leaves its reason in the state.

The phases behind the loop take tools out of lists; the properties speak of what was advertised. Remaining, Surviving
and the lemmas after them say what is left at which place, so that each phase becomes a set of places. From IInv: TypeCorrect and
OutcomeIsExplained (Explained in every state: the safety part of StartIsExplained), and, when no `server_id` is
configured twice (`DistinctIds`), SoleClaimant, PinsHold, NamesPartitioned and ListingVetted. The code does
not check DistinctIds; the run `duplicate_id` shows what happens without it. ListingVetted rests on Sanitises, that
the deletions leave text of every description: KeptIs bounds what a loop over characters collects, by induction on their number, and
each deletion narrows the set of characters (Deletions).

**PinningProofs**, for every set of definitions whose values are closed under parts and every
depth limit: **PinsTellChange**, that a pin matches exactly the definition it was taken
from (up to what lies below the depth limit, which the code hashes to one byte, and `Alike` does not look at).
The state machine adds little (PinInv: the pin is the hash of the definition reviewed); what has to be shown is that
the bytes of two definitions are the same only if the definitions are (HashTellsDefinitions). The argument:

* a set of texts is *delimited* when no two of them can be told apart only by where one ends; a text behind its length is (PrefixedDelimits), delimited
  texts one after the other are (JoinedDelimits), and so the fields of a definition, the items of an array and the entries of an
  object can be read off the bytes;
* the first byte tells the kind of a value (Tags), the length behind it the number of items or entries;
* the order in which an object's entries are written depends on the set of its keys alone (KeysOfEntries, SameKeys; the
  bytewise order of keys is strict and total, KeyOrder), so that two objects of the same bytes have the same keys, and the values are compared key by key;
* the recursion is by depth: that there is a function with the equations of `hash_canonical_value` (HashByDepth) is
  shown by building it from the limit downward (Iterate, Downward), and HashTellsValues is proved by induction on the depth
  that is left.

**ResultContentProofs**, for every set of JSON values closed under parts and notices, every depth limit, every pattern and what
it matches, every set of schemas and results. **CheckIsMeant**: `conforms` and SchemaMeaning agree on every schema and value. OneLevel
shows keyword by keyword that one level of the check is what the schema says of one place and the check of the places one step
below it; CheckIsMeant goes down from the top by induction on the number of steps: the check holds exactly when the schema
is met at every place nearer than that and the check holds at those that many steps away; beyond the limit it holds of nothing,
so that there must be no place left. ConformanceHolds says this of the verdict in every state (ContentInvariance: the verdict is of
the result as it came). **NoticeAppended**: whichever tier of `inject_advisory` fires, one string grew and nothing else
changed (StructuredGrows, BlockGrows), and an object that conformed still does, since a type looks at the kind of a value
only, the keys are the same, and the longer string meets what the old one met unless `enum` or `pattern` restricts it
(StringConforms, StillConforms).

In these two, and for the sums of ProvenanceProofs, induction is over numbers (steps, depths, prefixes), as a statement about a set of them (Induction); nothing is proved by
induction over values.

The assumptions, all of them: the named ASSUMEs of the modules (ClassifierAssumption, DecayAssumption,
SynthesisAssumption, InputsAssumption, BudgetAssumption, MembraneAssumption, RulesAssumption, GatewayAssumption,
DownstreamAssumption, DiscoveryAssumption, HashAssumption, DefinitionsAssumption, JsonAssumption, SchemaCheckAssumption, ContentAssumption),
which TLC evaluates in the runs, and the hypotheses NoWrap and DistinctIds, which the
theorems that need them name.

Not proved and only model-checked:

* liveness, which is out of the provers' reach: `Recovers`, `EveryCallEnds`, that the start ends (the eventuality of
  `StartIsExplained`), and the fairness of CallChannel and RequestReply in `ImplementsChannel` and
  `ImplementsRequestReply`.

Every other property of the passing runs is a theorem. The fold of CommandLine (over the arguments)
enters the proofs as it is defined: no theorem gives it a closed form.

## 5. Not modelled, and simplifications

* In Provenance and Gateway the hits of a response are an input; RuleEngine models
  the scan that computes them, from a text in units. Normalisation
  (`normalize_for_matching`), letter case, YAML, regexes that match more than one
  unit, the entropy as a number (one set of units stands for every threshold) and literals of length zero are
  left out of it.
* Schema verdicts and notices in Gateway, hashes and outcomes of description scans
  in Discovery, are inputs: ResultContent, Pinning and RuleEngine model what
  computes them. Formatting, file handling and the console report are left out;
  a YAML file is whether it can be read and what it holds. A failed write of the audit
  log is not modelled.
* Regular expressions of schemas are four patterns (`IsMatch`); blake3 is taken to be injective; the
  hex comparison of pins ignores case, which the model carries as a flag.
* `root_is_object_type` decides on a warning only; `decide_quarantine` is
  called by the tests only.
* The gateway re-serialises a result before classifying it, so the payload that
  does not parse (Poisoned) is reachable only through the library's
  `classify_response`; it is kept in `provenance` and not in `gateway`.
* `evaluate` for a connection that is not registered, and the missing-connection
  branch of tools/call, cannot be reached from `main.rs` and have no action.
* A timeout in a configuration is positive or not; `Duration::from_secs_f64`, which
  panics on a finite number that is too large, is not modelled.
* `notifications/initialized` is written outside the timeout
  (`downstream.rs:160`); the model has the write succeed. One `initialize` and one
  notification are far from filling a pipe, so that it cannot block.
* A rejected evaluation is logged with the declared class and a balance of 0; the
  model's record carries neither.
* Of a session the membrane has one agent at a time in `main.rs`; the `membrane`
  run has more, as the library allows.

## 6. Plan

1. `normalize_for_matching` in front of the scan: which obfuscations it undoes, and that its order of steps is right.
2. Audit records whose write fails (`audit.rs:146`): which of the properties about the log survive.
3. The pipes of Downstream under the Gateway, in place of the outcomes CallChannel allows.
