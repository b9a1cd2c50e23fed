----------------------------- MODULE AgentTurn ------------------------------
(***************************************************************************)
(* One agent and its session: Agent.send() as a turn that goes through the *)
(* provider and the tools (packages/core/src/agent-helpers: turn.ts,       *)
(* query-loop.ts, tool-executor.ts), the run state that pause, interject,  *)
(* sleep and dispose share with it (run-state.ts, lifecycle.ts), the       *)
(* conversation in messages.json with its compaction, and the crash        *)
(* detection of the next process (session-controller.ts).                  *)
(*                                                                         *)
(* A turn stops at each await that something else can use; appends to the  *)
(* event log that nothing reads back are left out, so the log is the set   *)
(* of tool calls with a tool_use_start.  Nothing in the code keeps a       *)
(* second send() from starting while the first one runs.                   *)
(***************************************************************************)
EXTENDS Naturals, Sequences, FiniteSets

CONSTANTS
  Overlap,        \* whether the host calls send() while a turn is in flight
  MaxSends,       \* bound: calls of send()
  MaxCalls,       \* bound: tool calls the model asks for
  MaxInterjects,  \* bound: messages the host interjects
  MaxCrashes,     \* bound: process restarts
  MaxTurns,       \* options.maxTurns, inferences per turn (25 in the code)
  MaxPtlRetries,  \* MAX_PTL_RETRIES (3 in the code)
  KeepPairs,      \* TOOL_PAIRS_KEEP_RECENT (5 in the code)
  KeepRecent      \* fewest messages a compaction keeps (3 in the code)

ASSUME AgentTurnAssumption ==
  /\ Overlap \in BOOLEAN
  /\ {MaxSends, MaxCalls, MaxInterjects, MaxCrashes, MaxTurns, MaxPtlRetries,
      KeepPairs, KeepRecent} \subseteq Nat

VARIABLES
  status,     \* _status
  querying,   \* _querying
  active,     \* the turn of activeAbortController, 0 when there is none
  aborted,    \* turns whose controller is aborted
  paused,     \* whether pausedReason is set
  pending,    \* pendingInterjects
  wakers,     \* sleeping calls whose interjectWaker has not resolved
  checked,    \* whether crashCheckedSessions holds the session
  sends,      \* calls of send() so far; turns are numbered in this order
  pc,         \* where each turn is
  conv,       \* session.messages of each turn
  rounds,     \* `turns` of its query loop
  retries,    \* `ptlRetries` of its current inference
  call,       \* state of each tool call
  by,         \* the turn whose response holds it
  store,      \* messages.json
  log,        \* calls with a tool_use_start in events.jsonl
  interjects, \* messages interjected so far
  crashes,    \* restarts so far
  (* history *)
  ran,        \* calls whose execution began
  interrupted,\* calls that ran in a process that ended before their result was saved
  committed,  \* calls whose result was in messages.json once
  surfaced,   \* entries a provider was given, or compaction took out
  excused     \* interjects a crash or dispose() took with it

runState == <<status, querying, active, aborted, paused, pending, wakers>>
turns == <<sends, pc, conv, rounds, retries>>
tools == <<call, by, log>>
history == <<ran, interrupted, committed, surfaced, excused>>
vars == <<runState, checked, turns, tools, store, interjects, crashes, history>>

Turns == 1 .. MaxSends
Calls == 1 .. MaxCalls
Interjects == 1 .. MaxInterjects

Statuses == {"idle", "tool_use", "sleeping", "paused", "disposed"}

TurnStates ==
  {"none", "waiting", "checking", "begun", "looping", "summarizing", "saving", "loading",
   "calling", "resummarizing", "tools", "committing", "closing", "failing", "done",
   "failed", "lost"}

CallStates ==
  {"unused", "asked", "logged", "asleep", "done", "over"}

InFlight(t) == pc[t] \notin {"none", "done", "failed", "lost"}

-----------------------------------------------------------------------------
(* Conversations *)

\* A message: a prompt, interjected text, a crash report, an assistant message
\* with tool calls, their results, or other text.
Entry(kind, ids) == [kind |-> kind, ids |-> ids]
Text == Entry("text", {})

Entries(kinds, msgs) == {msgs[n] : n \in {m \in DOMAIN msgs : msgs[m].kind \in kinds}}

\* The calls whose results a conversation holds.
Results(msgs) == UNION {e.ids : e \in Entries({"results"}, msgs)}

News(msgs) == Entries({"interject", "report"}, msgs)

\* clearOldToolPairs: all pairs but the most recent become text.
ClearOldPairs(msgs) ==
  LET uses == {n \in DOMAIN msgs : msgs[n].kind = "uses"}
      old  == {n \in uses : Cardinality({m \in uses : m > n}) >= KeepPairs}
  IN  [n \in DOMAIN msgs |->
         IF n \in old \/ n - 1 \in old THEN Text ELSE msgs[n]]

\* summarize and truncate_oldest: text, and the newest messages as they are.
KeepNewest(msgs, n) == <<Text>> \o SubSeq(msgs, Len(msgs) - n + 1, Len(msgs))

\* What the layers of a hard compaction can make of a conversation: they run
\* in this order until it fits.
Compactions(msgs) ==
  {ClearOldPairs(msgs)} \cup
  {KeepNewest(ClearOldPairs(msgs), n) : n \in KeepRecent .. Len(msgs) - 2}

\* What the summarize layer can give the provider, before its own prompt: the
\* messages it will not keep, wherever that cut falls.
Briefs(msgs) ==
  {SubSeq(ClearOldPairs(msgs), 1, Len(msgs) - n) : n \in KeepRecent .. Len(msgs) - 2}

-----------------------------------------------------------------------------
(* Initial state *)

Init ==
  /\ status = "idle" /\ querying = FALSE /\ active = 0 /\ aborted = {}
  /\ paused = FALSE /\ pending = <<>> /\ wakers = {} /\ checked = FALSE
  /\ sends = 0 /\ pc = [t \in Turns |-> "none"] /\ conv = [t \in Turns |-> <<>>]
  /\ rounds = [t \in Turns |-> 0] /\ retries = [t \in Turns |-> 0]
  /\ call = [c \in Calls |-> "unused"] /\ by = [c \in Calls |-> 0]
  /\ store = <<>> /\ log = {} /\ interjects = 0 /\ crashes = 0
  /\ ran = {} /\ interrupted = {} /\ committed = {} /\ surfaced = {} /\ excused = {}

Goto(t, label) == pc' = [pc EXCEPT ![t] = label]

Say(t, entry) == conv' = [conv EXCEPT ![t] = Append(@, entry)]

-----------------------------------------------------------------------------
(* The beginning of a turn *)

\* send(): refused once disposed; then awaits memoryReady.
Send ==
  /\ sends < MaxSends
  /\ status # "disposed"
  /\ Overlap \/ \A t \in Turns : ~InFlight(t)
  /\ sends' = sends + 1
  /\ Goto(sends + 1, "waiting")
  /\ UNCHANGED <<runState, checked, conv, rounds, retries, tools, store,
                 interjects, crashes, ran, interrupted, committed, surfaced, excused>>

\* startAbortableTurn; the turn then awaits onQueryStart and query_start.
Begin(t) == active' = t /\ paused' = FALSE /\ Goto(t, "begun")

\* resolveSession loads messages.json; the first resume of a process goes on
\* to read the event log.
Resume(t) ==
  /\ pc[t] = "waiting"
  /\ conv' = [conv EXCEPT ![t] = store]
  /\ checked' = TRUE
  /\ IF checked THEN Begin(t) ELSE Goto(t, "checking") /\ UNCHANGED <<active, paused>>
  /\ UNCHANGED <<status, querying, aborted, pending, wakers, sends, rounds, retries,
                 tools, store, interjects, crashes, history>>

\* detectCrashArtifacts: calls that were started and have no result in the
\* messages loaded; they are interjected into the turn to come.
Artifacts(t) == log \ Results(conv[t])

DetectCrash(t) ==
  /\ pc[t] = "checking"
  /\ IF Artifacts(t) = {} THEN UNCHANGED <<pending, wakers>>
     ELSE /\ pending' = Append(pending, Entry("report", Artifacts(t)))
          /\ wakers' = {}
  /\ Begin(t)
  /\ UNCHANGED <<status, querying, aborted, checked, sends, conv, rounds, retries,
                 tools, store, interjects, crashes, history>>

\* The prompt is pushed, markQuerying, and the query loop starts.
MarkQuerying(t) ==
  /\ pc[t] = "begun"
  /\ querying' = TRUE /\ status' = "tool_use"
  /\ Say(t, Entry("prompt", {t}))
  /\ Goto(t, "looping")
  /\ UNCHANGED <<active, aborted, paused, pending, wakers, checked, sends, rounds,
                 retries, tools, store, interjects, crashes, history>>

-----------------------------------------------------------------------------
(* The query loop *)

Summarizing(t) == pc[t] \in {"summarizing", "resummarizing"}

\* compact() has reached the summarize layer, which calls the provider itself.
\* The turn's messages stay as they are until the compaction is over.
Summarize(t) ==
  /\ \/ pc[t] = "looping" /\ rounds[t] < MaxTurns /\ Goto(t, "summarizing")
     \/ pc[t] = "calling" /\ retries[t] < MaxPtlRetries /\ Goto(t, "resummarizing")
  /\ Briefs(conv[t]) # {}
  /\ status' = "tool_use"
  /\ UNCHANGED <<querying, active, aborted, paused, pending, wakers, checked, sends,
                 conv, rounds, retries, tools, store, interjects, crashes, history>>

\* compact() sets the status before its layers run.
StatusCompacting(t) == status' = IF Summarizing(t) THEN status ELSE "tool_use"

\* compact(): the turn's messages are replaced.  What is taken out was read by
\* the summarizing call, or is given up as too old.
Compacted(t, msgs) ==
  /\ msgs # conv[t]
  /\ conv' = [conv EXCEPT ![t] = msgs]
  /\ surfaced' = surfaced \cup (News(conv[t]) \ News(msgs))

\* maybeCompactAtTurnStart and maybeCompactBeforeInference, with a summary or
\* without one.
Compact(t) ==
  /\ pc[t] \in {"looping", "summarizing"} /\ rounds[t] < MaxTurns
  /\ \E msgs \in Compactions(conv[t]) : Compacted(t, msgs)
  /\ StatusCompacting(t)
  /\ Goto(t, "looping")
  /\ UNCHANGED <<querying, active, aborted, paused, pending, wakers, checked, sends,
                 rounds, retries, tools, store, interjects, crashes, ran, interrupted,
                 committed, excused>>

\* From "summarizing": that call failed or gave no text, nothing is replaced.
DrainOf(t, drained) ==
  /\ pc[t] \in {"looping", "summarizing"} /\ rounds[t] < MaxTurns
  /\ status' = "tool_use"
  /\ conv' = [conv EXCEPT ![t] = @ \o drained]
  /\ pending' = <<>>
  /\ rounds' = [rounds EXCEPT ![t] = @ + 1]
  /\ retries' = [retries EXCEPT ![t] = 0]
  /\ Goto(t, "saving")
  /\ UNCHANGED <<querying, active, aborted, paused, wakers, checked, sends, tools,
                 store, interjects, crashes, history>>

\* Fault: the queue is emptied, only its first message is pushed.
Drain_OnlyFirst(t) ==
  DrainOf(t, IF pending = <<>> THEN <<>> ELSE <<Head(pending)>>)

\* drainInterjects: what waits is pushed in its order.
Drain(t) == DrainOf(t, pending)

\* sessionStore.save writes messages.json atomically.
Saved(t) ==
  /\ store' = conv[t]
  /\ committed' = committed \cup Results(conv[t])

\* persistAndReadProviderMessages, its two halves.
Persist(t) ==
  /\ pc[t] = "saving"
  /\ Saved(t)
  /\ Goto(t, "loading")
  /\ UNCHANGED <<runState, checked, sends, conv, rounds, retries, tools, interjects,
                 crashes, ran, interrupted, surfaced, excused>>

\* The messages read back go to the provider, unless the signal is aborted.
ReadBack(t) ==
  /\ pc[t] = "loading"
  /\ conv' = [conv EXCEPT ![t] = store]
  /\ IF t \in aborted THEN Goto(t, "failing") /\ UNCHANGED surfaced
     ELSE Goto(t, "calling") /\ surfaced' = surfaced \cup News(store)
  /\ UNCHANGED <<runState, checked, sends, rounds, retries, tools, store, interjects,
                 crashes, ran, interrupted, committed, excused>>

\* An answer without tool calls ends the loop.
Answer(t) ==
  /\ pc[t] = "calling"
  /\ Say(t, Text)
  /\ Goto(t, "closing")
  /\ UNCHANGED <<runState, checked, sends, rounds, retries, tools, store, interjects,
                 crashes, history>>

AsksOf(t) ==
  /\ pc[t] = "calling"
  /\ \E n \in 1 .. MaxCalls :
       LET fresh == {c \in Calls : call[c] = "unused"}
           new   == {c \in fresh : Cardinality({d \in fresh : d < c}) < n}
       IN  /\ n <= Cardinality(fresh)
           /\ call' = [c \in Calls |-> IF c \in new THEN "asked" ELSE call[c]]
           /\ by' = [c \in Calls |-> IF c \in new THEN t ELSE by[c]]
           /\ Say(t, Entry("uses", new))
  /\ status' = "tool_use"
  /\ Goto(t, "tools")
  /\ UNCHANGED <<querying, active, aborted, paused, pending, wakers, checked, sends,
                 rounds, retries, log, interjects, crashes, history>>

\* Fault: the assistant message is saved before its tools have run.
Asks_SavedEarly(t) == AsksOf(t) /\ store' = conv'[t]

\* An answer with tool calls, whose ids are new.
Asks(t) == AsksOf(t) /\ UNCHANGED store

\* Compact hard, save, read back, and call again.
RetryCompacted(t, count) ==
  /\ pc[t] \in {"calling", "resummarizing"}
  /\ retries' = [retries EXCEPT ![t] = count]
  /\ \/ \E msgs \in Compactions(conv[t]) : Compacted(t, msgs)
     \/ UNCHANGED <<conv, surfaced>>
  /\ StatusCompacting(t)
  /\ Goto(t, "saving")
  /\ UNCHANGED <<querying, active, aborted, paused, pending, wakers, checked, sends,
                 rounds, tools, store, interjects, crashes, ran, interrupted,
                 committed, excused>>

\* Fault: retries are not counted.
PromptTooLong_Uncounted(t) ==
  retries[t] < MaxPtlRetries /\ RetryCompacted(t, retries[t])

\* callProviderWithPromptTooLongRecovery.
PromptTooLong(t) ==
  retries[t] < MaxPtlRetries /\ RetryCompacted(t, retries[t] + 1)

\* Any other error of the provider, an abort included.
CallFails(t) ==
  /\ pc[t] = "calling"
  /\ Goto(t, "failing")
  /\ UNCHANGED <<runState, checked, sends, conv, rounds, retries, tools, store,
                 interjects, crashes, history>>

Asked(t) == {c \in Calls : by[c] = t /\ call[c] # "over"}

CollectOf(t, answered) ==
  /\ pc[t] = "tools"
  /\ status' = "tool_use"
  /\ Say(t, Entry("results", answered))
  /\ call' = [c \in Calls |-> IF c \in answered THEN "over" ELSE call[c]]
  /\ Goto(t, "committing")
  /\ UNCHANGED <<querying, active, aborted, paused, pending, wakers, checked, sends,
                 rounds, retries, by, log, store, interjects, crashes, history>>

\* Promise.all over the tool calls: their results are pushed, then saved.
Collect(t) == (\A c \in Asked(t) : call[c] = "done") /\ CollectOf(t, Asked(t))

\* saveSession after the tools.
Commit(t) ==
  /\ pc[t] = "committing"
  /\ Saved(t)
  /\ Goto(t, "looping")
  /\ UNCHANGED <<runState, checked, sends, conv, rounds, retries, tools, interjects,
                 crashes, ran, interrupted, surfaced, excused>>

-----------------------------------------------------------------------------
(* The end of a turn *)

\* The session, the counters and the controller of a turn are its own.
Forget(t) ==
  /\ conv' = [conv EXCEPT ![t] = <<>>]
  /\ rounds' = [rounds EXCEPT ![t] = 0] /\ retries' = [retries EXCEPT ![t] = 0]
  /\ aborted' = aborted \ {t}

FinishAt(t, outcome, next) ==
  /\ Goto(t, outcome)
  /\ querying' = FALSE
  /\ active' = IF active = t THEN 0 ELSE active
  /\ status' = IF status = "disposed" THEN status ELSE next
  /\ Forget(t)
  /\ UNCHANGED <<paused, pending, wakers, checked, sends, tools, interjects, crashes>>

\* Fault: only the turn that began last resets the status.
Finish_ActiveOnly(t, outcome, rest) ==
  FinishAt(t, outcome, IF active = t THEN rest ELSE status)

\* finishAbortableTurn, in the finally block.
Finish(t, outcome, rest) == FinishAt(t, outcome, rest)

\* saveSession after the loop, which maxTurns ends too.
Close(t) ==
  /\ pc[t] = "closing" \/ (pc[t] = "looping" /\ rounds[t] = MaxTurns)
  /\ Saved(t)
  /\ Finish(t, "done", "idle")
  /\ UNCHANGED <<ran, interrupted, surfaced, excused>>

\* The catch block: the turn was paused if its controller was aborted by a
\* pause (pausedReasonFor).
Catch(t) ==
  /\ pc[t] = "failing"
  /\ Finish(t, "failed", IF t \in aborted /\ paused THEN "paused" ELSE "idle")
  /\ UNCHANGED <<store, history>>

-----------------------------------------------------------------------------
(* Tool calls, executed in parallel; those of a turn that failed go on. *)

\* A tool that is not registered answers at once and leaves no trace.
UnknownTool(c) ==
  /\ call[c] = "asked"
  /\ call' = [call EXCEPT ![c] = "done"]
  /\ UNCHANGED <<runState, checked, turns, by, log, store, interjects, crashes,
                 history>>

\* Fault: nothing is appended before the tool runs.
LogStart_Skipped(c) ==
  /\ call[c] = "asked"
  /\ call' = [call EXCEPT ![c] = "logged"]
  /\ UNCHANGED <<runState, checked, turns, by, log, store, interjects, crashes, history>>

\* tool_use_start is appended before the guard is asked.
LogStart(c) ==
  /\ call[c] = "asked"
  /\ call' = [call EXCEPT ![c] = "logged"]
  /\ log' = log \cup {c}
  /\ UNCHANGED <<runState, checked, turns, by, store, interjects, crashes, history>>

\* The guard denies: the denial is the result.
Deny(c) ==
  /\ call[c] = "logged"
  /\ call' = [call EXCEPT ![c] = "done"]
  /\ UNCHANGED <<runState, checked, turns, by, log, store, interjects, crashes,
                 history>>

\* The guard throws, outside the try block: Promise.all rejects and the turn
\* fails, while its other calls go on.
GuardThrows(c) ==
  /\ call[c] = "logged"
  /\ call' = [call EXCEPT ![c] = "over"]
  /\ IF pc[by[c]] = "tools" THEN Goto(by[c], "failing") ELSE UNCHANGED pc
  /\ UNCHANGED <<runState, checked, sends, conv, rounds, retries, by, log, store,
                 interjects, crashes, history>>

\* The guard allows, the tool runs and returns or throws: both give a result.
Execute(c) ==
  /\ call[c] = "logged"
  /\ call' = [call EXCEPT ![c] = "done"]
  /\ ran' = ran \cup {c}
  /\ UNCHANGED <<runState, checked, turns, by, log, store, interjects, crashes,
                 interrupted, committed, surfaced, excused>>

EnterSleep(c, waiting) ==
  /\ call[c] = "logged"
  /\ call' = [call EXCEPT ![c] = "asleep"]
  /\ ran' = ran \cup {c}
  /\ status' = "sleeping"
  /\ wakers' = IF waiting THEN wakers \cup {c} ELSE wakers
  /\ UNCHANGED <<querying, active, aborted, paused, pending, checked, turns, by, log,
                 store, interjects, crashes, interrupted, committed, surfaced, excused>>

\* Fault: a sleep listens only to what is interjected after it began.
FallAsleep_Unchecked(c) == EnterSleep(c, TRUE)

\* The tool is sleep: onEnter, and a waker that resolves at once when
\* something is pending.
FallAsleep(c) == EnterSleep(c, pending = <<>>)

\* The timer or the waker ends the sleep: onExit.
WakeUp(c) ==
  /\ call[c] = "asleep"
  /\ call' = [call EXCEPT ![c] = "done"]
  /\ wakers' = wakers \ {c}
  /\ status' = IF status = "sleeping" /\ \A d \in Calls \ {c} : call[d] # "asleep"
               THEN "tool_use" ELSE status
  /\ UNCHANGED <<querying, active, aborted, paused, pending, checked, turns, by, log,
                 store, interjects, crashes, history>>

-----------------------------------------------------------------------------
(* The host *)

\* What only the memory of the process holds.
Volatile ==
  (News(pending) \cup UNION {News(conv[t]) : t \in {u \in Turns : InFlight(u)}})
    \ News(store)

\* interject(): queued, and every sleeper is woken.
Interject ==
  /\ interjects < MaxInterjects
  /\ interjects' = interjects + 1
  /\ pending' = Append(pending, Entry("interject", {interjects + 1}))
  /\ wakers' = {}
  /\ UNCHANGED <<status, querying, active, aborted, paused, checked, turns, tools,
                 store, crashes, history>>

\* pause(): aborts the active turn, if it is querying and not aborted yet.
Pause ==
  /\ querying /\ active # 0 /\ active \notin aborted
  /\ paused' = TRUE /\ status' = "paused"
  /\ aborted' = aborted \cup {active}
  /\ UNCHANGED <<querying, active, pending, wakers, checked, turns, tools, store,
                 interjects, crashes, history>>

\* dispose(): the release of the hands that follows is not part of this state.
Dispose ==
  /\ status # "disposed"
  /\ status' = "disposed"
  /\ aborted' = aborted \cup ({active} \ {0})
  /\ pending' = <<>> /\ wakers' = {}
  /\ excused' = excused \cup News(pending)
  /\ UNCHANGED <<querying, active, paused, checked, turns, tools, store, interjects,
                 crashes, ran, interrupted, committed, surfaced>>

\* The process ends at any point and another one is started: messages.json
\* and events.jsonl are what it finds.
Restart ==
  /\ crashes < MaxCrashes
  /\ crashes' = crashes + 1
  /\ status' = "idle" /\ querying' = FALSE /\ active' = 0 /\ aborted' = {}
  /\ paused' = FALSE /\ pending' = <<>> /\ wakers' = {} /\ checked' = FALSE
  /\ pc' = [t \in Turns |-> IF InFlight(t) THEN "lost" ELSE pc[t]]
  /\ conv' = [t \in Turns |-> <<>>]
  /\ rounds' = [t \in Turns |-> 0] /\ retries' = [t \in Turns |-> 0]
  /\ call' = [c \in Calls |-> IF call[c] = "unused" THEN "unused" ELSE "over"]
  /\ by' = [c \in Calls |-> 0]
  /\ interrupted' = interrupted \cup (ran \ committed)
  /\ excused' = {e \in excused \cup Volatile : e.kind = "interject"}
  /\ UNCHANGED <<sends, log, store, interjects, ran, committed, surfaced>>

-----------------------------------------------------------------------------
(* Specification *)

TurnStep(t) ==
  \/ Resume(t) \/ DetectCrash(t) \/ MarkQuerying(t)
  \/ Summarize(t) \/ Compact(t) \/ Drain(t) \/ Persist(t) \/ ReadBack(t)
  \/ Answer(t) \/ Asks(t) \/ PromptTooLong(t) \/ CallFails(t)
  \/ Collect(t) \/ Commit(t) \/ Close(t) \/ Catch(t)

CallStep(c) ==
  \/ UnknownTool(c) \/ LogStart(c) \/ Deny(c) \/ GuardThrows(c)
  \/ Execute(c) \/ FallAsleep(c) \/ WakeUp(c)

Next ==
  \/ Send \/ Interject \/ Pause \/ Dispose \/ Restart
  \/ \E t \in Turns : TurnStep(t)
  \/ \E c \in Calls : CallStep(c)

\* What is awaited is answered: the provider, the stores, the guard, a tool
\* and the timer of a sleep.  Nothing obliges the host to act.
Fairness ==
  /\ \A t \in Turns : WF_vars(TurnStep(t))
  /\ \A c \in Calls : WF_vars(CallStep(c))

Spec == Init /\ [][Next]_vars /\ Fairness

-----------------------------------------------------------------------------
(* Properties *)

Message ==
  [kind : {"prompt"}, ids : SUBSET Turns]
    \cup [kind : {"interject"}, ids : SUBSET Interjects]
    \cup [kind : {"report", "uses", "results", "text"}, ids : SUBSET Calls]

\* The variables hold what the code can put there.
TypeOK ==
  /\ status \in Statuses /\ querying \in BOOLEAN /\ active \in Turns \cup {0}
  /\ aborted \subseteq Turns /\ paused \in BOOLEAN /\ pending \in Seq(Message)
  /\ wakers \subseteq {c \in Calls : call[c] = "asleep"} /\ checked \in BOOLEAN
  /\ sends \in 0 .. MaxSends /\ pc \in [Turns -> TurnStates]
  /\ conv \in [Turns -> Seq(Message)]
  /\ rounds \in [Turns -> 0 .. MaxTurns] /\ retries \in [Turns -> 0 .. MaxPtlRetries]
  /\ call \in [Calls -> CallStates] /\ by \in [Calls -> Turns \cup {0}]
  /\ store \in Seq(Message) /\ log \subseteq Calls
  /\ interjects \in 0 .. MaxInterjects /\ crashes \in 0 .. MaxCrashes
  /\ interrupted \subseteq ran /\ ran \subseteq Calls /\ committed \subseteq Calls
  /\ surfaced \subseteq Message /\ excused \subseteq Message

\* Each assistant message with tool calls is followed at once by their results.
Paired(msgs) ==
  \A n \in DOMAIN msgs : msgs[n].kind = "uses" =>
    n < Len(msgs) /\ msgs[n + 1] = Entry("results", msgs[n].ids)

\* Paired up to the last message, which nothing follows.
PairedBefore(msgs) ==
  \A n \in 1 .. Len(msgs) - 1 : msgs[n].kind = "uses" =>
    msgs[n + 1] = Entry("results", msgs[n].ids)

\* "Provider APIs treat this adjacency as part of the conversation protocol"
\* (message-repair.ts:15): messages.json, the inferences of a turn and the
\* memory flush before a compaction (a turn that is "looping") never hold a tool
\* call without its results right behind it, whatever fails, crashes, is
\* compacted or overlaps.  So repairOrphanToolUses, which a resume runs, has
\* nothing to do on what this SDK wrote.  Excepted is the one provider call
\* that breaks the protocol: the summarize layer gives its provider
\* messages.slice(0, -recentCount) wherever that cut falls (layers.ts:172-193),
\* so that a tool call can be the last thing before the prompt, its results
\* among the messages kept.  All other calls in it have their results.
ConversationIsPaired ==
  /\ Paired(store)
  /\ \A t \in Turns : pc[t] \in {"begun", "looping", "calling"} => Paired(conv[t])
  /\ \A t \in Turns : Summarizing(t) => \A brief \in Briefs(conv[t]) : PairedBefore(brief)

Held ==
  News(pending) \cup News(store)
    \cup UNION {News(conv[t]) : t \in {u \in Turns : InFlight(u)}}

\* A tool that began to run in a process that died before its result was saved
\* is never forgotten: the next process still has to look, or holds a report
\* of it, or has shown one to the model.  (Turns that overlap can overwrite it.)
InterruptedCallsSurface ==
  \A c \in interrupted :
    \/ ~checked \/ \E t \in Turns : pc[t] = "checking"
    \/ \E e \in Held \cup surfaced \cup excused : e.kind = "report" /\ c \in e.ids

\* What the host interjects is seen by an inference or still waits for one:
\* it survives a failed call, an aborted turn and a turn that ended before it
\* was drained.  Only dispose, a crash, or turns that overlap lose it.
InterjectsSurface ==
  \A i \in 1 .. interjects : Entry("interject", {i}) \in Held \cup surfaced \cup excused

\* No sleep goes on while something is pending: interject() between the start
\* of a sleep and its waker, or before the sleep, still cuts it short.
SleepersHearInterjects == pending # <<>> => wakers = {}

LeftBehind == \E c \in Calls : call[c] = "done" /\ pc[by[c]] = "failed"

\* The agent claims to be busy only while a turn runs or a tool sleeps, also
\* after turns that overlapped, failed, were paused or were cut off.  Excepted
\* is a call a failed turn left behind, which can sleep after its turn is over.
RestsWhenDone ==
  status \in {"tool_use", "sleeping"} =>
    \/ \E t \in Turns : InFlight(t)
    \/ \E c \in Calls : call[c] = "asleep"
    \/ LeftBehind

\* "Any tool_result committed to messages.json is authoritative proof the tool
\* call finished" (crash-detector.ts:56-57): such a call is not reported as
\* "interrupted during execution on the previous run" (:107-108).
OnlyInterruptedReported ==
  \A e \in News(pending) : e.kind = "report" => e.ids \cap committed = {}

\* "After compaction, every surviving tool_result.toolUseId MUST resolve to a
\* tool_use.id in the immediately preceding assistant message."
\* (compactor.test.ts:169-170), in what a provider is given.
ResultsFollowUses ==
  \A t \in Turns : pc[t] = "calling" =>
    \A n \in DOMAIN conv[t] : conv[t][n].kind = "results" =>
      n > 1 /\ conv[t][n - 1] = Entry("uses", conv[t][n].ids)

\* Every turn ends, whatever the provider answers: tool loops are bounded by
\* maxTurns and prompt-too-long retries by MAX_PTL_RETRIES.
TurnsEnd == \A t \in Turns : InFlight(t) ~> ~InFlight(t)

=============================================================================
