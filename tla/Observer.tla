------------------------------ MODULE Observer ------------------------------
(***************************************************************************)
(* What the observer writes down about an agent: createCollector           *)
(* (packages/observe/src/collector/collector.ts), fed by the turns of the  *)
(* agent and by its delegates (packages/core/src/agent-helpers/turn.ts,    *)
(* query-loop.ts, tool-executor.ts, delegate.ts).                          *)
(*                                                                         *)
(* A query is a turn or a delegate.  Each query_start makes one row in the *)
(* turns table, so queries and rows share their numbers.  Of the tables    *)
(* only what they say about turns is kept; costs, latencies and payloads   *)
(* are left out.                                                           *)
(***************************************************************************)
EXTENDS Naturals, Sequences

CONSTANTS
  Sessions,
  MaxQueries,  \* bound: turns and delegates
  MaxAsked,    \* bound: inferences of one query
  MaxTools     \* bound: tool calls of one response

Queries == 1 .. MaxQueries
None == 0

VARIABLES
  query,      \* agent: its queries
  resolved,   \* agent: the turn that has resolved its session and not started yet
  pending,    \* collector: pendingCrashRecovery is set
  turn,       \* collector: currentTurnId
  session,    \* collector: currentSessionId
  lastCall,   \* collector: lastLlmCallId
  latest,     \* llm_calls: the newest row of each session
  row,        \* turns
  calm,       \* queries that nothing else ran beside
  mislinked   \* queries with a tool call that names another inference

agent == <<query, resolved>>
collector == <<pending, turn, session, lastCall, latest, row>>
vars == <<agent, collector, calm, mislinked>>

\* asked, called, guarded: inferences, tool calls and guard decisions so far;
\* guards, running, away: calls that wait for the guard, run, or delegate.
\* pc: "begun" is before the first await behind query_start, "ending" behind
\* query_end, and "cut" a turn that is over without one.
Query == [pc : {"begun", "ask", "answered", "tools", "failing", "ending", "over", "cut"},
          session : Sessions \cup Queries,
          parent : Queries \cup {None}, crashed : BOOLEAN,
          asked : 0 .. MaxAsked, called : Nat, guarded : Nat,
          guards : 0 .. MaxTools, running : 0 .. MaxTools, away : 0 .. MaxTools]

Row == [status : {"active", "completed"}, recovered : BOOLEAN,
        llm : Nat, tools : Nat, guards : Nat]

\* An inference: its query and its number, None before the first one.
Call == [of : Queries, n : 1 .. MaxAsked]
NoCall == [of |-> None, n |-> 0]

\* crashed: a crash was found that no row tells of yet; alone: nothing ran.
Resolved == [pc : {"resolved", "failed"}, session : Sessions, crashed : BOOLEAN, alone : BOOLEAN]
NoTurn == [pc |-> "none", crashed |-> FALSE]

Init ==
  /\ query = <<>>
  /\ resolved = NoTurn
  /\ pending = FALSE
  /\ turn = None
  /\ session = None
  /\ lastCall = NoCall
  /\ latest = [s \in Sessions \cup Queries |-> NoCall]
  /\ row = <<>>
  /\ calm = {}
  /\ mislinked = {}

Started == DOMAIN query
Waits(q) == query[q].guards + query[q].running + query[q].away > 0
InFlight == {q \in Started : query[q].pc \notin {"over", "cut"} \/ Waits(q)}

-----------------------------------------------------------------------------
(* The collector *)

\* Fault: the metadata is kept.
OnQueryStart_KeepsRecovery(s) ==
  /\ turn' = Len(row) + 1
  /\ session' = s
  /\ row' = Append(row, [status |-> "active", recovered |-> pending,
                         llm |-> 0, tools |-> 0, guards |-> 0])
  /\ UNCHANGED <<pending, lastCall, latest>>

\* query_start: a new row, which takes what crash_recovered left.
OnQueryStart(s) ==
  /\ turn' = Len(row) + 1
  /\ session' = s
  /\ pending' = FALSE
  /\ row' = Append(row, [status |-> "active", recovered |-> pending,
                         llm |-> 0, tools |-> 0, guards |-> 0])
  /\ UNCHANGED <<lastCall, latest>>

\* onAfterApiCall and onApiCallError: the inference counts for the current turn.
OnInference(call, s) ==
  /\ lastCall' = call
  /\ latest' = [latest EXCEPT ![s] = call]
  /\ row' = IF turn = None THEN row ELSE [row EXCEPT ![turn].llm = @ + 1]
  /\ UNCHANGED <<pending, turn, session>>

\* api_response: the newest inference of the current session.
OnApiResponse ==
  /\ lastCall' = IF session = None THEN lastCall ELSE latest[session]
  /\ UNCHANGED <<pending, turn, session, latest, row>>

OnGuardDecision ==
  /\ row' = IF turn = None THEN row ELSE [row EXCEPT ![turn].guards = @ + 1]
  /\ UNCHANGED <<pending, turn, session, lastCall, latest>>

\* onAfterToolExec.
OnToolExec ==
  /\ row' = IF turn = None THEN row ELSE [row EXCEPT ![turn].tools = @ + 1]
  /\ UNCHANGED <<pending, turn, session, lastCall, latest>>

\* query_end completes the current turn, whose ever it is.
OnQueryEnd(s) ==
  /\ row' = IF turn = None THEN row ELSE [row EXCEPT ![turn].status = "completed"]
  /\ turn' = None
  /\ session' = s
  /\ UNCHANGED <<pending, lastCall, latest>>

-----------------------------------------------------------------------------
(* The agent *)

\* resolveSession: a crash is reported before the query starts.
Resolve(s, crashed) ==
  /\ Len(query) < MaxQueries
  /\ resolved.pc # "resolved"
  /\ resolved' = [pc |-> "resolved", session |-> s, crashed |-> crashed \/ resolved.crashed,
                  alone |-> InFlight = {}]
  /\ pending' = (pending \/ crashed)
  /\ UNCHANGED <<query, turn, session, lastCall, latest, row, calm, mislinked>>

\* The hook or the log throws: the turn is over before it began.
StartFails ==
  /\ resolved.pc = "resolved"
  /\ resolved' = [resolved EXCEPT !.pc = "failed"]
  /\ UNCHANGED <<query, collector, calm, mislinked>>

\* query_start.
Begin(qs, pc, s, parent, crashed) ==
  /\ Len(qs) < MaxQueries
  /\ query' = Append(qs, [pc |-> pc, session |-> s, parent |-> parent, crashed |-> crashed,
                          asked |-> 0, called |-> 0, guarded |-> 0,
                          guards |-> 0, running |-> 0, away |-> 0])
  /\ OnQueryStart(s)
  /\ UNCHANGED mislinked

Start ==
  /\ resolved.pc = "resolved"
  /\ Begin(query, "begun", resolved.session, None, resolved.crashed)
  /\ calm' = IF resolved.alone /\ InFlight = {} THEN calm \cup {Len(query) + 1}
             ELSE calm \ InFlight
  /\ resolved' = NoTurn

\* runDelegate, from a tool call that runs.  Its row tells of a crash that no
\* row has told of yet.
Delegate(q) ==
  /\ query[q].running > 0
  /\ query[q].parent = None
  /\ Begin([query EXCEPT ![q].running = @ - 1, ![q].away = @ + 1], "ask", Len(query) + 1, q,
           resolved.crashed)
  /\ calm' = calm \ InFlight
  /\ resolved' = [resolved EXCEPT !.crashed = FALSE]

\* The append of user_message, which the turn awaits outside its try: when it
\* throws there is no query_end.
UserLogged(q) ==
  /\ query[q].pc = "begun"
  /\ \E pc \in {"ask", "cut"} : query' = [query EXCEPT ![q].pc = pc]
  /\ UNCHANGED <<resolved, collector, calm, mislinked>>

\* Something else that the loop awaits throws: building the prompt, a
\* compaction, the log, the session store or a hook.
Throws(q) ==
  /\ query[q].pc \in {"ask", "answered", "tools"}
  /\ query' = [query EXCEPT ![q].pc = "failing"]
  /\ UNCHANGED <<resolved, collector, calm, mislinked>>

\* The provider answers, or fails for good.
Ask(q, answered) ==
  /\ query[q].pc = "ask"
  /\ query[q].asked < MaxAsked
  /\ OnInference([of |-> q, n |-> query[q].asked + 1], query[q].session)
  /\ query' = [query EXCEPT ![q].pc = IF answered THEN "answered" ELSE "failing", ![q].asked = @ + 1]
  /\ UNCHANGED <<resolved, calm, mislinked>>

\* api_response, and the tool calls of the response.
Respond(q, tools) ==
  /\ query[q].pc = "answered"
  /\ query' = [query EXCEPT ![q].pc = "tools", ![q].guards = tools]
  /\ OnApiResponse
  /\ UNCHANGED <<resolved, calm, mislinked>>

\* The guard lets a call through or denies it, also when the turn is over.
Guard(q) ==
  /\ query[q].guards > 0
  /\ OnGuardDecision
  /\ \E runs \in {0, 1} :
       query' = [query EXCEPT ![q].guards = @ - 1, ![q].running = @ + runs,
                              ![q].guarded = IF query[q].pc = "over" THEN @ ELSE @ + 1]
  /\ UNCHANGED <<resolved, calm, mislinked>>

\* The guard throws: Promise.all rejects, and the other calls go on.
GuardThrows(q) ==
  /\ query[q].guards > 0
  /\ query' = [query EXCEPT ![q].guards = @ - 1, ![q].pc = IF @ = "over" THEN @ ELSE "failing"]
  /\ UNCHANGED <<resolved, collector, calm, mislinked>>

ToolReturns(q) ==
  /\ query[q].running > 0
  /\ OnToolExec
  /\ query' = [query EXCEPT ![q].running = @ - 1,
                            ![q].called = IF query[q].pc = "over" THEN @ ELSE @ + 1]
  /\ mislinked' = IF query[q].pc = "over" \/ lastCall = [of |-> q, n |-> query[q].asked]
                  THEN mislinked ELSE mislinked \cup {q}
  /\ UNCHANGED <<resolved, calm>>

\* A tool that throws is not reported to the collector.
ToolThrows(q) ==
  /\ query[q].running > 0
  /\ query' = [query EXCEPT ![q].running = @ - 1]
  /\ UNCHANGED <<resolved, collector, calm, mislinked>>

\* The results go to the provider.
AskAgain(q) ==
  /\ query[q].pc = "tools"
  /\ ~Waits(q)
  /\ query' = [query EXCEPT ![q].pc = "ask"]
  /\ UNCHANGED <<resolved, collector, calm, mislinked>>

Ends(q) == query[q].pc = "failing" \/ (query[q].pc = "tools" /\ ~Waits(q))

\* query_end of a turn, failed or not.  One that did not fail then awaits the
\* hook onQueryEnd.
TurnEnds(q) ==
  /\ query[q].parent = None
  /\ Ends(q)
  /\ query' = [query EXCEPT ![q].pc = IF @ = "failing" THEN "over" ELSE "ending"]
  /\ OnQueryEnd(query[q].session)
  /\ UNCHANGED <<resolved, calm, mislinked>>

\* The hook returns, or it throws and there is a second query_end.
HookEnds(q) ==
  /\ query[q].pc = "ending"
  /\ query' = [query EXCEPT ![q].pc = "over"]
  /\ UNCHANGED collector \/ OnQueryEnd(query[q].session)
  /\ UNCHANGED <<resolved, calm, mislinked>>

\* delegate_end says nothing to the collector; the tool call is over.
DelegateEnds(q) ==
  LET p == query[q].parent
  IN  /\ p # None
      /\ Ends(q)
      /\ query' = [query EXCEPT ![q].pc = "over", ![p].away = @ - 1,
                                ![p].called = IF query[q].pc = "tools" THEN @ + 1 ELSE @]
      /\ IF query[q].pc = "tools" THEN OnToolExec ELSE UNCHANGED collector
      /\ UNCHANGED <<resolved, calm, mislinked>>

Next ==
  \/ \E s \in Sessions, crashed \in BOOLEAN : Resolve(s, crashed)
  \/ Start \/ StartFails
  \/ \E q \in Started :
       \/ Delegate(q) \/ Guard(q) \/ GuardThrows(q) \/ ToolReturns(q) \/ ToolThrows(q)
       \/ UserLogged(q) \/ Throws(q) \/ AskAgain(q) \/ TurnEnds(q) \/ HookEnds(q)
       \/ DelegateEnds(q)
       \/ \E answered \in BOOLEAN : Ask(q, answered)
       \/ \E tools \in 0 .. MaxTools : Respond(q, tools)

Spec == Init /\ [][Next]_vars

-----------------------------------------------------------------------------
(* Properties *)

\* The variables hold what the code can put there.
TypeOK ==
  /\ query \in Seq(Query)
  /\ resolved \in Resolved \cup {NoTurn}
  /\ pending \in BOOLEAN
  /\ turn \in 0 .. Len(query)
  /\ session \in Sessions \cup Queries \cup {None}
  /\ lastCall \in Call \cup {NoCall}
  /\ latest \in [Sessions \cup Queries -> Call \cup {NoCall}]
  /\ row \in Seq(Row)
  /\ Len(row) = Len(query)
  /\ calm \subseteq Started
  /\ mislinked \subseteq Started

\* schema.ts:45, "links to turns table (query_start -> query_end)": the row of
\* a turn counts its own inferences, tool calls and guard decisions and no
\* others, its tool calls name the inference that asked for them, it tells of
\* a crash if and only if one was found since the row before, and it is
\* completed when the turn has emitted its query_end and not before, whatever
\* the loop or the hook behind it throws, and whatever calls an earlier turn
\* left running.  A turn whose append of user_message throws (turn.ts:75) is
\* over without a query_end, and its row stays active for good.
\* Excepted are turns that something else ran beside: another turn, what is
\* left of one, or a delegate of their own.
TurnsAreTold ==
  \A q \in calm :
    /\ row[q].llm = query[q].asked
    /\ row[q].tools = query[q].called
    /\ row[q].guards = query[q].guarded
    /\ row[q].recovered = query[q].crashed
    /\ row[q].status = IF query[q].pc \in {"ending", "over"} THEN "completed" ELSE "active"
    /\ q \notin mislinked

=============================================================================
