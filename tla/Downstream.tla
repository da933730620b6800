------------------------------- MODULE Downstream -------------------------------
(***************************************************************************)
(* One DownstreamConnection (downstream.rs) after discovery, the server    *)
(* process behind it and the two pipes between them.  The gateway makes    *)
(* one call at a time; the server answers when and how it likes, also late *)
(* or in two writes, sends lines of its own, or exits; and the timeout of  *)
(* a call may fire between any two steps of it.                            *)
(*                                                                         *)
(* A timeout cancels request() wherever it is: inside write_all, so that a *)
(* torn line stays in the server's stdin, or inside read_line, so that the *)
(* bytes of a line already pulled into its local buffer are lost and the   *)
(* rest of the line is the next thing to be read.                          *)
(***************************************************************************)
EXTENDS ConnectionHealth, Sequences, FiniteSets

CONSTANTS
    MaxCalls,       \* bound: calls made
    MaxOwnLines,    \* bound: lines the server sends that answer nothing
    OwnIds          \* ids the server may give its own requests to its client

(* initialize and tools/list have used the ids 1 and 2. *)
FirstId == 3
Ids     == FirstId..(FirstId + MaxCalls - 1)

ASSUME DownstreamAssumption ==
    /\ MaxCalls \in Nat \ {0}
    /\ MaxOwnLines \in Nat
    /\ OwnIds \subseteq Nat

(* Lines of the server's stdout; a notification and noise carry no id. *)
Reply(id, ok) == [kind |-> "reply", id |-> id, ok |-> ok]
OwnRequest(id) == [kind |-> "request", id |-> id, ok |-> TRUE]
Notification  == [kind |-> "notification", id |-> 0, ok |-> TRUE]
Noise         == [kind |-> "noise", id |-> 0, ok |-> FALSE]
StrayTail     == [kind |-> "tail", id |-> 0, ok |-> FALSE]
OwnLines      == {OwnRequest(id) : id \in OwnIds} \cup {Notification, Noise}
Line          == OwnLines \cup {Reply(id, ok) : id \in Ids, ok \in BOOLEAN}

(* What a call that ended without reading a line has for a cause. *)
NoLine == [kind |-> "none", id |-> 0, ok |-> FALSE]

VARIABLES
    next_id,    \* the connection's id counter
    health,     \* consecutive_timeouts and degraded
    phase,      \* of the call in flight: "idle", "writing", "reading"
    pulled,     \* read_line has the first part of a line in its buffer
    stdin,      \* complete lines to the server: [id, torn]
    unfinished, \* the last line of stdin lacks its end: "no", "own", "stale"
    stdout,     \* pieces from the server: [line, part]
    server,     \* [up, owed, half, ran, spoken]
    calls       \* history: [id, outcome, cause] of every call ended

vars == <<next_id, health, phase, pulled, stdin, unfinished, stdout, server, calls>>

gateway == <<next_id, health, phase, pulled, calls>>

(***************************************************************************)
(* server.owed: requests executed and not answered.  server.half: the line *)
(* it has written the first part of.  server.ran[id]: how often it         *)
(* executed request id.  server.spoken: lines of its own so far.           *)
(***************************************************************************)
InitServer == [up |-> TRUE, owed |-> {}, half |-> NoLine,
               ran |-> [id \in Ids |-> 0], spoken |-> 0]

Init ==
    /\ next_id = FirstId /\ health = NewHealth
    /\ phase = "idle" /\ pulled = FALSE
    /\ stdin = <<>> /\ unfinished = "no" /\ stdout = <<>>
    /\ server = InitServer
    /\ calls = <<>>

-----------------------------------------------------------------------------
Current == next_id - 1

(* The end of call_tool.  A future that is dropped takes its buffer with it *)
(* and leaves a line it was writing unfinished.                             *)
LeftUnfinished == IF unfinished = "own" THEN "stale" ELSE unfinished

EndCall(outcome, cause) ==
    /\ calls' = Append(calls, [id |-> Current, outcome |-> outcome, cause |-> cause])
    /\ health' = health_after(health, outcome)
    /\ phase' = "idle" /\ pulled' = FALSE
    /\ UNCHANGED next_id

(* call_tool: a degraded connection is refused before any I/O.              *)
refuses(h) == h.degraded

CallTool ==
    /\ phase = "idle" /\ Len(calls) < MaxCalls
    /\ IF refuses(health)
       THEN /\ calls' = Append(calls, [id |-> 0, outcome |-> "Degraded", cause |-> NoLine])
            /\ UNCHANGED <<next_id, phase>>
       ELSE /\ phase' = "writing"
            /\ next_id' = next_id + 1
            /\ UNCHANGED calls
    /\ UNCHANGED <<health, pulled, stdin, unfinished, stdout, server>>

(* write_all, when the pipe takes only part of the line at first. *)
WriteSome ==
    /\ phase = "writing" /\ server.up /\ unfinished = "no"
    /\ unfinished' = "own"
    /\ UNCHANGED <<gateway, stdin, stdout, server>>

(* The line is complete; after the torn line of an earlier call it is not a *)
(* line of its own.  To a server that is gone the write fails.              *)
WriteLine ==
    /\ phase = "writing"
    /\ IF server.up
       THEN /\ phase' = "reading"
            /\ stdin' = Append(stdin, [id |-> Current, torn |-> unfinished = "stale"])
            /\ unfinished' = "no"
            /\ UNCHANGED <<next_id, health, pulled, calls>>
       ELSE /\ EndCall("Other", NoLine)
            /\ unfinished' = LeftUnfinished
            /\ UNCHANGED stdin
    /\ UNCHANGED <<stdout, server>>

(* The loop of request(): what reading one line means for request id.  The  *)
(* mutant takes any answer for the one it waits for.                        *)
Judge_any_answer(id, line) ==
    CASE line.kind \in {"noise", "tail"}                       -> "Other"
      [] line.kind = "notification"                            -> "skip"
      [] OTHER -> IF line.ok THEN "Ok" ELSE "Other"

Judge(id, line) ==
    CASE line.kind \in {"noise", "tail"}                       -> "Other"
      [] line.kind \notin {"noise", "tail"} /\ line.id # id     -> "skip"
      [] OTHER -> IF line.ok THEN "Ok" ELSE "Other"

Consume(line) ==
    IF Judge(Current, line) = "skip"
    THEN pulled' = FALSE /\ UNCHANGED <<next_id, health, phase, calls>>
    ELSE EndCall(Judge(Current, line), line)

(* The line that a piece ends, given what read_line has pulled before it.   *)
(* The mutant forgets it between two reads.                                 *)
LineRead_forgets(had, piece) ==
    IF piece.part = "tail" THEN StrayTail ELSE piece.line

LineRead(had, piece) ==
    IF piece.part = "tail" /\ ~had THEN StrayTail ELSE piece.line

ReadPiece ==
    /\ phase = "reading" /\ stdout # <<>>
    /\ stdout' = Tail(stdout)
    /\ IF Head(stdout).part = "head"
       THEN pulled' = TRUE /\ UNCHANGED <<next_id, health, phase, calls>>
       ELSE Consume(LineRead(pulled, Head(stdout)))
    /\ UNCHANGED <<stdin, unfinished, server>>

(* End of file, also after the first part of a line, is an error. *)
ReadEof ==
    /\ phase = "reading" /\ stdout = <<>> /\ ~server.up
    /\ EndCall("Other", NoLine)
    /\ UNCHANGED <<stdin, unfinished, stdout, server>>

(* The timeout drops the call wherever it is.  One mutant only bounds the   *)
(* reading, the other sends the request again once.                         *)
may_time_out_reading(p) == p = "reading"

may_time_out(p) == p # "idle"

Timeout_retries ==
    \/ /\ phase = "reading" /\ calls = <<>> /\ stdin = <<>>
       /\ stdin' = <<[id |-> Current, torn |-> FALSE]>>
       /\ UNCHANGED <<gateway, unfinished, stdout, server>>
    \/ /\ may_time_out(phase)
       /\ EndCall("Timeout", NoLine)
       /\ unfinished' = LeftUnfinished
       /\ UNCHANGED <<stdin, stdout, server>>

Timeout ==
    /\ may_time_out(phase)
    /\ EndCall("Timeout", NoLine)
    /\ unfinished' = LeftUnfinished
    /\ UNCHANGED <<stdin, stdout, server>>

-----------------------------------------------------------------------------
Put(line, part) == stdout' = Append(stdout, [line |-> line, part |-> part])

(* The server, which is not part of the program: it executes requests it    *)
(* can parse, answers each once in any order, and writes one line at a time. *)
ServerTakes ==
    /\ server.up /\ stdin # <<>>
    /\ stdin' = Tail(stdin)
    /\ server' = IF Head(stdin).torn THEN server
                 ELSE [server EXCEPT !.owed = @ \cup {Head(stdin).id},
                                     !.ran[Head(stdin).id] = @ + 1]
    /\ UNCHANGED <<gateway, unfinished, stdout>>

Writable ==
    {Reply(id, ok) : id \in server.owed, ok \in BOOLEAN}
    \cup IF server.spoken < MaxOwnLines THEN OwnLines ELSE {}

ServerWrites ==
    /\ server.up /\ server.half = NoLine
    /\ \E line \in Writable, part \in {"whole", "head"} :
         /\ Put(line, part)
         /\ server' = [server EXCEPT
              !.owed = IF line.kind = "reply" THEN @ \ {line.id} ELSE @,
              !.half = IF part = "head" THEN line ELSE NoLine,
              !.spoken = IF line.kind = "reply" THEN @ ELSE @ + 1]
    /\ UNCHANGED <<gateway, stdin, unfinished>>

ServerFinishes ==
    /\ server.up /\ server.half # NoLine
    /\ Put(server.half, "tail")
    /\ server' = [server EXCEPT !.half = NoLine]
    /\ UNCHANGED <<gateway, stdin, unfinished>>

ServerExits ==
    /\ server.up
    /\ server' = [server EXCEPT !.up = FALSE]
    /\ UNCHANGED <<gateway, stdin, unfinished, stdout>>

-----------------------------------------------------------------------------
Gateway == CallTool \/ WriteSome \/ WriteLine \/ ReadPiece \/ ReadEof \/ Timeout

Server == ServerTakes \/ ServerWrites \/ ServerFinishes \/ ServerExits

Next == Gateway \/ Server

(* The only step the runtime owes a call is its timeout: tokio fires it     *)
(* whatever the server does or does not do.                                 *)
Spec == Init /\ [][Next]_vars /\ WF_vars(Timeout)

-----------------------------------------------------------------------------
Outcomes == [i \in DOMAIN calls |-> calls[i].outcome]

CallsWith(Test(_), upto) == {i \in 1..upto : Test(calls[i])}
TimedOut(call) == call.outcome = "Timeout"
HitTail(call)  == call.cause.kind = "tail"

(* Shapes of the state; ids are consecutive; part of a line is in hand only *)
(* while a call reads it, and is being written only while a call writes it. *)
TypeOK ==
    /\ phase \in {"idle", "writing", "reading"}
    /\ next_id = FirstId + Cardinality({i \in DOMAIN calls : calls[i].id # 0})
                         + (IF phase = "idle" THEN 0 ELSE 1)
    /\ health.consecutive_timeouts \in 0..CONSECUTIVE_TIMEOUTS_TO_DEGRADE
    /\ health.degraded <=> health.consecutive_timeouts = CONSECUTIVE_TIMEOUTS_TO_DEGRADE
    /\ pulled => phase = "reading"
    /\ unfinished \in {"no", "own", "stale"} /\ (unfinished = "own" => phase = "writing")
    /\ server.owed \subseteq Ids
    /\ \A i \in DOMAIN calls : calls[i].outcome \in CallOutcome \cup {"Degraded"}

(* A late answer is never taken for the answer to a later call: what a call *)
(* returns came in a line that carries its own id, whatever was left in the *)
(* pipe by the calls before it (request).                                   *)
OwnAnswer ==
    \A i \in DOMAIN calls : calls[i].outcome = "Ok" =>
        calls[i].cause.kind \in {"reply", "request"} /\ calls[i].cause.id = calls[i].id

(* Nothing is retried: no request runs twice at the server, and one that    *)
(* was answered ran (a call that timed out may have run or not).            *)
RunsAtMostOnce ==
    /\ \A id \in Ids : server.ran[id] <= 1
    /\ \A i \in DOMAIN calls :
           calls[i].cause.kind = "reply" => server.ran[calls[i].id] = 1

(* A line torn by a timeout costs at most one later call its answer: calls  *)
(* that fail on the rest of a line are at most as many as the timeouts      *)
(* before them, the stream is in step again after each.                     *)
DesyncIsPaidOnce ==
    \A i \in DOMAIN calls : HitTail(calls[i]) =>
        Cardinality(CallsWith(HitTail, i)) <= Cardinality(CallsWith(TimedOut, i))

(* A hung server cannot wedge the gateway: every call ends.                 *)
EveryCallEnds == (phase # "idle") ~> (phase = "idle")

(* The connection does what CallChannel promises.                           *)
Channel == INSTANCE CallChannel WITH outcomes <- Outcomes, in_flight <- (phase # "idle")
ImplementsChannel == Channel!Spec

-----------------------------------------------------------------------------
(* Comment of request: the answer is matched on its id, anything else is    *)
(* ignored.  A request of the server's own that happens to carry the id is  *)
(* taken for the answer.                                                    *)
AnswersAreReplies ==
    \A i \in DOMAIN calls : calls[i].outcome = "Ok" => calls[i].cause.kind = "reply"
=============================================================================
