--------------------------------- MODULE Gateway ---------------------------------
(***************************************************************************)
(* The session of one agent: the stdio loop of main.rs and                 *)
(* handle_tools_call, which compose the risk gate (membrane.rs), the       *)
(* provenance tracker (provenance.rs) and the health of one connection per *)
(* server (downstream.rs).  The loop is sequential: it reads the next line *)
(* only after the reply to the last; the agent may send ahead of it, and a *)
(* forwarded call ends when the server answers, fails, or its timeout      *)
(* fires.                                                                  *)
(***************************************************************************)
EXTENDS ProvenanceFsm, RiskGate, ConnectionHealth

CONSTANTS
    Servers,        \* servers that came through discovery
    Grade,          \* Grade[s]: source_grade of server s
    Tools,          \* names an agent may call
    tool_owner,     \* names that are callable, with their server
    excluded_tools, \* names taken out at discovery, with the rejection code
    Entry,          \* registry entry of a callable tool
    Lines,          \* lines the agent may send: [kind, id, tool]
    Responses,      \* results a server may give: [payload, conformance, hits]
    MaxLines,       \* bound: lines sent
    MaxAhead        \* bound: lines sent and not read

(* A line with id = NoId is a notification; ids of requests are the numbers *)
(* of their lines here.  "blank" is empty or not JSON, "binary" not UTF-8.  *)
NoId == 0
LineKind == {"blank", "binary", "initialize", "notifications/initialized",
             "tools/list", "tools/call", "other"}
NoParams == "no params"

ASSUME GatewayAssumption ==
    /\ Grade \in [Servers -> SourceGrade]
    /\ DOMAIN tool_owner \subseteq Tools /\ DOMAIN excluded_tools \subseteq Tools
    /\ DOMAIN tool_owner \cap DOMAIN excluded_tools = {}
    /\ \A t \in DOMAIN tool_owner : tool_owner[t] \in Servers
    /\ \A t \in DOMAIN excluded_tools :
         excluded_tools[t] \in {"ToolQuarantinedPinMismatch", "ToolExcludedNameCollision"}
    /\ Entry \in [DOMAIN tool_owner ->
                    [risk : RiskClass, authority : AuthoritySource, tagged : BOOLEAN]]
    /\ NoParams \notin Tools
    /\ Lines \subseteq [kind : LineKind, id : Nat, tool : Tools \cup {NoParams}]
    /\ \A line \in Lines : line.kind # "tools/call" => line.tool = NoParams
    /\ MaxLines \in Nat /\ MaxAhead \in Nat \ {0}

VARIABLES
    sent,       \* lines the agent has sent
    closed,     \* the agent has closed its end
    read,       \* how many lines the loop has taken
    phase,      \* "listening", "forwarding", "stopped"
    tracker,    \* the AgentProvenanceTracker
    agent_bp,   \* the connection's accumulator
    health,     \* health[s]: consecutive_timeouts and degraded
    replies,    \* replies written: [line, id, tool, code]
    log         \* audit log: [event, line, tool, state, ids, verdict, bp_consumed]

(* Replies and records are labelled with the number of the line they are    *)
(* about: for a call's record it stands for the proposal_id, fresh for each *)
(* call; elsewhere only the properties look at it.                          *)
vars == <<sent, closed, read, phase, tracker, agent_bp, health, replies, log>>

Init ==
    /\ sent = <<>> /\ closed = FALSE /\ read = 0 /\ phase = "listening"
    /\ tracker = NewTracker /\ agent_bp = SESSION_INIT_BP
    /\ health = [s \in Servers |-> NewHealth]
    /\ replies = <<>> /\ log = <<>>

-----------------------------------------------------------------------------
(* The agent. *)
Send ==
    /\ ~closed /\ Len(sent) < MaxLines /\ Len(sent) - read < MaxAhead
    /\ \E line \in Lines :
         sent' = Append(sent, [line EXCEPT !.id = IF @ = NoId THEN NoId ELSE Len(sent) + 1])
    /\ UNCHANGED <<closed, read, phase, tracker, agent_bp, health, replies, log>>

Close ==
    /\ ~closed /\ closed' = TRUE
    /\ UNCHANGED <<sent, read, phase, tracker, agent_bp, health, replies, log>>

-----------------------------------------------------------------------------
governance == <<tracker, agent_bp, health, log>>

(* The next line, and the one a forwarded call came with. *)
Next_line == sent[read + 1]
Current   == sent[read]

(* The loop is sequential.  The mutant reads on while a call is out.        *)
Take_reads_on == phase # "stopped" /\ read < Len(sent) /\ read' = read + 1

Take == phase = "listening" /\ read < Len(sent) /\ read' = read + 1

Reply(n, code) ==
    replies' = Append(replies, [line |-> n, id |-> sent[n].id,
                                tool |-> sent[n].tool, code |-> code])

(* Which lines the loop answers: the methods it knows also when they come   *)
(* without an id, anything else only with one.                              *)
Answered(line) ==
    \/ line.kind \in {"initialize", "tools/list", "tools/call"}
    \/ line.kind = "other" /\ line.id # NoId

SkipLine ==
    /\ Take /\ Next_line.kind # "binary" /\ ~Answered(Next_line)
    /\ UNCHANGED <<sent, closed, phase, replies, governance>>

AnswerLine ==
    /\ Take /\ Answered(Next_line) /\ Next_line.kind # "tools/call"
    /\ Reply(read + 1, IF Next_line.kind = "other" THEN "Method not found" ELSE "result")
    /\ UNCHANGED <<sent, closed, phase, governance>>

(* read_line fails on a line that is not UTF-8, and main returns. *)
ReadFails ==
    /\ Take /\ Next_line.kind = "binary"
    /\ phase' = "stopped"
    /\ UNCHANGED <<sent, closed, replies, governance>>

Shutdown ==
    /\ phase = "listening" /\ closed /\ read = Len(sent)
    /\ phase' = "stopped"
    /\ UNCHANGED <<sent, closed, read, replies, governance>>

-----------------------------------------------------------------------------
Record(event, n, state, ids, verdict, bp) ==
    log' = Append(log, [event |-> event, line |-> n, tool |-> sent[n].tool, state |-> state,
                        ids |-> ids, verdict |-> verdict, bp_consumed |-> bp])

(* What handle_tools_call rejects before it builds a proposal. *)
Refusal(tool) ==
    CASE tool = NoParams                -> "Missing params"
      [] tool \in DOMAIN excluded_tools -> excluded_tools[tool]
      [] OTHER                          -> "UnknownTool"

RefuseCall ==
    /\ Take /\ Next_line.kind = "tools/call" /\ Next_line.tool \notin DOMAIN tool_owner
    /\ Reply(read + 1, Refusal(Next_line.tool))
    /\ UNCHANGED <<sent, closed, phase, governance>>

ProposalOf(tool) ==
    [risk |-> Entry[tool].risk, authority |-> Entry[tool].authority,
     tagged |-> Entry[tool].tagged, grade |-> Grade[tool_owner[tool]]]

VerdictOn(tool) == VerdictOf(ProposalOf(tool), tracker.current_state, agent_bp)

Evaluates(tool) ==
    Take /\ Next_line.kind = "tools/call" /\ tool = Next_line.tool /\ tool \in DOMAIN tool_owner

(* Membrane::evaluate rejects: the record has the rule ids, and keeps them. *)
RejectCall ==
    \E tool \in Tools :
        /\ Evaluates(tool) /\ VerdictOn(tool) # "Approved"
        /\ Record("evaluation", read + 1, tracker.current_state, tracker.rule_ids, VerdictOn(tool), 0)
        /\ Reply(read + 1, VerdictOn(tool))
        /\ UNCHANGED <<sent, closed, phase, tracker, agent_bp, health>>

(* Approval takes the rule ids for its record.  The mutant copies them.     *)
taken_clone(t) == t

taken(t) == [t EXCEPT !.rule_ids = {}]

(* Membrane::evaluate approves, and the call is forwarded unless the        *)
(* connection is degraded, which costs its risk all the same.               *)
ApproveCall ==
    \E tool \in Tools :
        LET state == tracker.current_state
            proposal == ProposalOf(tool)
            cost == contribution_bp(effective_risk(proposal.risk, state, proposal.tagged),
                                    state, proposal.grade)
        IN /\ Evaluates(tool) /\ VerdictOn(tool) = "Approved"
           /\ Record("evaluation", read + 1, state, tracker.rule_ids, "Approved", cost)
           /\ tracker' = taken(tracker)
           /\ agent_bp' = AddU32(agent_bp, cost)
           /\ IF health[tool_owner[tool]].degraded
              THEN Reply(read + 1, "DownstreamConnectionDegraded") /\ UNCHANGED phase
              ELSE phase' = "forwarding" /\ UNCHANGED replies
           /\ UNCHANGED <<sent, closed, health>>

-----------------------------------------------------------------------------
(* The end of a forwarded call. *)
Callee == tool_owner[Current.tool]

(* The streak is kept per connection.  The mutant shares it.                *)
judged_shared(h, outcome) == [s \in Servers |-> health_after(h[s], outcome)]

judged(h, outcome) == [h EXCEPT ![Callee] = health_after(@, outcome)]

EndCall(outcome) ==
    /\ phase = "forwarding" /\ phase' = "listening"
    /\ health' = judged(health, outcome)
    /\ UNCHANGED <<sent, closed, read, agent_bp>>

(* The state one result justifies, and what the tracker makes of it. *)
NewState(r, s, state) ==
    LET sig == classify_response(r.payload) IN
    MaxState(compute_new_state(Grade[s], sig.form, r.conformance, sig.bytes, sig.long),
             state_from_rule_hits(r.hits, state))

(* An escalation is logged, and told to the agent with the result.  The     *)
(* mutant reports evidence and not escalation.                              *)
escalated_on_evidence(before, after) == after >= Contaminated

escalated(before, after) == after > before

AcceptResult ==
    /\ EndCall("Ok")
    /\ \E r \in Responses :
         LET new == NewState(r, Callee, tracker.current_state)
             after == AbsorbResponse(tracker, new, Callee, rule_ids(r.hits))
             told == escalated(tracker.current_state, after.current_state)
         IN /\ tracker' = after
            /\ Reply(read, IF told THEN "result with advisory" ELSE "result")
            /\ IF told
               THEN Record("advisory_injection", read, after.current_state,
                           rule_ids(r.hits), "none", 0)
               ELSE UNCHANGED log

(* Neither a timeout nor a failure touches the tracker.  The mutant counts  *)
(* a timeout as a response with nothing in it.                              *)
tracker_after_timeout_clean(t) == record_response_outcome(t, Clean)

tracker_after_timeout(t) == t

(* Mutants: nothing bounds a call; a call that times out gets no reply.     *)
TimeOut_never == phase = "never" /\ UNCHANGED vars

TimeOut_no_reply ==
    /\ EndCall("Timeout")
    /\ tracker' = tracker_after_timeout(tracker)
    /\ Record("downstream_timeout", read, tracker.current_state, {}, "none", 0)
    /\ UNCHANGED replies

TimeOut ==
    /\ EndCall("Timeout")
    /\ tracker' = tracker_after_timeout(tracker)
    /\ Record("downstream_timeout", read, tracker.current_state, {}, "none", 0)
    /\ Reply(read, "DownstreamTimeout")

Fail ==
    /\ EndCall("Other")
    /\ Reply(read, "ExecutionFailed")
    /\ UNCHANGED <<tracker, log>>

-----------------------------------------------------------------------------
Agent == Send \/ Close
Loop  == SkipLine \/ AnswerLine \/ ReadFails \/ RefuseCall \/ RejectCall \/ ApproveCall
Ends  == AcceptResult \/ TimeOut \/ Fail

Next == Agent \/ Loop \/ Shutdown \/ Ends

(* The loop runs while there is a line to take; of a forwarded call only    *)
(* the timeout is sure to come.                                             *)
Spec == Init /\ [][Next]_vars /\ WF_vars(Loop) /\ WF_vars(TimeOut)
-----------------------------------------------------------------------------
Evaluation(e) == e.event = "evaluation"
Approval(e)   == Evaluation(e) /\ e.verdict = "Approved"
Advisory(e)   == e.event = "advisory_injection"
IsResult(r)   == r.code \in {"result", "result with advisory"}

(* Shapes of the state; a call is forwarded only while it is the last line  *)
(* taken, and was approved.                                                 *)
TypeOK ==
    /\ phase \in {"listening", "forwarding", "stopped"}
    /\ read \in 0..Len(sent) /\ Len(replies) <= read
    /\ tracker.current_state \in ProvenanceState
    /\ agent_bp \in SESSION_INIT_BP..U32-1
    /\ phase = "forwarding" =>
         /\ Current.kind = "tools/call" /\ log # <<>>
         /\ Approval(log[Len(log)]) /\ log[Len(log)].tool = Current.tool

(* The agent's pipelined requests are answered once each, in their order,   *)
(* with their own ids, before the gateway ends, and none waits for ever on  *)
(* a server that hangs (the loop of main, handle_tools_call).               *)
Question(n, line) == [line |-> n, id |-> line.id]

Asked   == {Question(n, sent[n]) : n \in {m \in DOMAIN sent : Answered(sent[m])}}
Replied == [i \in DOMAIN replies |-> Question(replies[i].line, replies[i])]
Garbled == \E i \in DOMAIN sent : sent[i].kind = "binary"
Serving == phase # "stopped"

Promise == INSTANCE RequestReply WITH
    asked <- Asked, answered <- Replied, garbled <- Garbled, serving <- Serving

ImplementsRequestReply == Promise!Spec

(* Once a result has poisoned the session no call to any server is          *)
(* approved, at any risk and after any number of other requests.            *)
PoisonStopsEveryServer ==
    \A i, j \in DOMAIN log :
        /\ i < j /\ Advisory(log[i]) /\ log[i].state = Poisoned
        /\ Evaluation(log[j])
        => log[j].verdict = "InboundPoisoningDetected"

(* The audit log explains the provenance state it shows: a call evaluated   *)
(* in a worse state than the call before it has an escalation to that state *)
(* logged between the two, whatever healed in between.                      *)
EscalationsAreLogged ==
    \A i, j \in DOMAIN log :
        /\ i < j /\ Evaluation(log[i]) /\ Evaluation(log[j])
        /\ log[j].state > log[i].state
        => \E k \in i+1..j-1 : Advisory(log[k]) /\ log[k].state >= log[j].state

(* The rules behind an escalation are named in the record of every call     *)
(* evaluated after it up to the first that is approved, and in none after:  *)
(* rejections in between neither lose nor use them up.                      *)
Owed(j) ==
    {i \in 1..j-1 : Advisory(log[i]) /\ \A k \in i+1..j-1 : ~Approval(log[k])}

RulesAreAttributedOnce ==
    \A j \in DOMAIN log :
        Evaluation(log[j]) => log[j].ids = UNION {log[i].ids : i \in Owed(j)}

(* A call that gets no result is no evidence: only a result moves the       *)
(* provenance state or its streak of clean calls, in either direction.      *)
OnlyResultsAreEvidence ==
    [][\/ tracker'.current_state # tracker.current_state
       \/ tracker'.clean_calls # tracker.clean_calls
       => phase = "forwarding" /\ IsResult(replies'[Len(replies')])]_vars

(* One server's timeouts are never held against another: a call refused for *)
(* a degraded connection has two timeouts of that same server on record.    *)
OwnTimeoutsOnly ==
    \A i \in DOMAIN replies : replies[i].code = "DownstreamConnectionDegraded" =>
        CONSECUTIVE_TIMEOUTS_TO_DEGRADE <=
            Cardinality({k \in DOMAIN log :
                /\ log[k].event = "downstream_timeout"
                /\ tool_owner[log[k].tool] = tool_owner[replies[i].tool]})

(* Log and replies tell the same story: every call of a known tool has one  *)
(* evaluation and one reply, both in the order of the calls, approved       *)
(* unless the reply is its rejection; only a call still out has a record    *)
(* and no reply.                                                            *)
StillOut(e) == phase = "forwarding" /\ e.line = read /\ Approval(e)

TellsOf(r, e) ==
    /\ r.line = e.line /\ r.tool = e.tool
    /\ IF Approval(e) THEN r.code \notin RejectionCode ELSE r.code = e.verdict

AuditMatchesReplies ==
    /\ \A i, j \in DOMAIN replies : i < j => replies[i].line < replies[j].line
    /\ \A i, j \in DOMAIN log :
         i < j /\ Evaluation(log[i]) /\ Evaluation(log[j]) => log[i].line < log[j].line
    /\ \A j \in DOMAIN log : Evaluation(log[j]) =>
         (StillOut(log[j]) <=> ~\E i \in DOMAIN replies : TellsOf(replies[i], log[j]))
    /\ \A i \in DOMAIN replies : replies[i].tool \in DOMAIN tool_owner =>
         \E j \in DOMAIN log : Evaluation(log[j]) /\ TellsOf(replies[i], log[j])
=============================================================================
