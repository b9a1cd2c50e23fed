-------------------------- MODULE AgentTurn_proofs --------------------------
(***************************************************************************)
(* Theorems about AgentTurn, for any number of turns, calls, interjects    *)
(* and restarts: its types, its sleepers and its status whether turns      *)
(* overlap or not, what waits for the model when they do not, and that no  *)
(* conversation separates tool calls from their results.                   *)
(***************************************************************************)
EXTENDS AgentTurn, TLAPS

-----------------------------------------------------------------------------
(* Conversations are sequences of messages *)

LEMMA Bounds ==
  /\ MaxSends \in Nat /\ MaxCalls \in Nat /\ MaxInterjects \in Nat /\ MaxCrashes \in Nat
  /\ MaxTurns \in Nat /\ MaxPtlRetries \in Nat /\ KeepPairs \in Nat /\ KeepRecent \in Nat
BY AgentTurnAssumption

LEMMA EntryType ==
  /\ \A ids \in SUBSET Turns : Entry("prompt", ids) \in Message
  /\ \A ids \in SUBSET Interjects : Entry("interject", ids) \in Message
  /\ \A ids \in SUBSET Calls, kind \in {"report", "uses", "results", "text"} :
       Entry(kind, ids) \in Message
BY DEF Entry, Message

LEMMA TextType == Text \in Message
BY EntryType DEF Text

\* clearOldToolPairs replaces messages by text, in place.
LEMMA ClearOldPairsType ==
  ASSUME NEW msgs \in Seq(Message)
  PROVE  ClearOldPairs(msgs) \in Seq(Message) /\ Len(ClearOldPairs(msgs)) = Len(msgs)
<1> DEFINE uses == {n \in DOMAIN msgs : msgs[n].kind = "uses"}
           old == {n \in uses : Cardinality({m \in uses : m > n}) >= KeepPairs}
<1>1. ClearOldPairs(msgs)
        = [n \in 1 .. Len(msgs) |-> IF n \in old \/ n - 1 \in old THEN Text ELSE msgs[n]]
  BY DEF ClearOldPairs
<1> HIDE DEF old
<1>2. \A n \in 1 .. Len(msgs) : msgs[n] \in Message
  OBVIOUS
<1>3. ClearOldPairs(msgs) \in [1 .. Len(msgs) -> Message]
  BY <1>1, <1>2, TextType
<1> QED
  BY <1>3

LEMMA KeepNewestType ==
  ASSUME NEW msgs \in Seq(Message), NEW n \in 1 .. Len(msgs)
  PROVE  KeepNewest(msgs, n) \in Seq(Message)
<1>1. SubSeq(msgs, Len(msgs) - n + 1, Len(msgs)) \in Seq(Message)
  OBVIOUS
<1>2. <<Text>> \in Seq(Message)
  BY TextType
<1> QED
  BY <1>1, <1>2 DEF KeepNewest

\* Whatever layers run, a compaction yields a conversation.
LEMMA CompactionsType ==
  ASSUME NEW msgs \in Seq(Message), NEW result \in Compactions(msgs)
  PROVE  result \in Seq(Message)
<1>1. CASE result = ClearOldPairs(msgs)
  BY <1>1, ClearOldPairsType
<1>2. ASSUME NEW n \in KeepRecent .. Len(msgs) - 2,
             result = KeepNewest(ClearOldPairs(msgs), n)
      PROVE  result \in Seq(Message)
  <2>1. CASE n = 0
    BY <1>2, <2>1, TextType, ClearOldPairsType DEF KeepNewest
  <2>2. CASE n # 0
    BY <1>2, <2>2, ClearOldPairsType, KeepNewestType, AgentTurnAssumption
  <2> QED
    BY <2>1, <2>2
<1> QED
  BY <1>1, <1>2 DEF Compactions

LEMMA NewsType ==
  ASSUME NEW msgs \in Seq(Message)
  PROVE  News(msgs) \subseteq Message
BY DEF News, Entries

LEMMA ResultsType ==
  ASSUME NEW msgs \in Seq(Message)
  PROVE  Results(msgs) \subseteq Calls
<1>1. \A n \in DOMAIN msgs :
        msgs[n] \in Message /\ (msgs[n].kind = "results" => msgs[n].ids \subseteq Calls)
  BY DEF Message
<1> QED
  BY <1>1 DEF Results, Entries

-----------------------------------------------------------------------------
(* Types *)

LEMMA VolatileType == TypeOK => Volatile \subseteq Message
BY NewsType DEF TypeOK, Volatile, Turns

LEMMA GotoType ==
  ASSUME TypeOK, NEW t \in Turns, NEW label \in TurnStates, Goto(t, label)
  PROVE  pc' \in [Turns -> TurnStates]
BY DEF TypeOK, Goto

LEMMA SayType ==
  ASSUME TypeOK, NEW t \in Turns, NEW entry \in Message, Say(t, entry)
  PROVE  conv' \in [Turns -> Seq(Message)]
<1>1. conv[t] \in Seq(Message)
  BY DEF TypeOK
<1>2. Append(conv[t], entry) \in Seq(Message)
  BY <1>1
<1> QED
  BY <1>2 DEF TypeOK, Say

LEMMA ForgetType ==
  ASSUME TypeOK, NEW t \in Turns, Forget(t)
  PROVE  /\ conv' \in [Turns -> Seq(Message)] /\ aborted' \subseteq Turns
         /\ rounds' \in [Turns -> 0 .. MaxTurns]
         /\ retries' \in [Turns -> 0 .. MaxPtlRetries]
<1>1. <<>> \in Seq(Message)
  OBVIOUS
<1> QED
  BY <1>1, Bounds DEF TypeOK, Forget

LEMMA TurnTypes ==
  ASSUME TypeOK, NEW t \in Turns, TurnStep(t)
  PROVE  TypeOK'
<1> USE DEF TypeOK, Statuses, runState, turns, tools, history
<1>a. {"waiting", "checking", "begun", "looping", "summarizing", "saving", "loading",
       "calling", "resummarizing", "tools", "committing", "closing", "failing", "done",
       "failed"} \subseteq TurnStates
  BY DEF TurnStates
<1>b. \A u \in Turns : conv[u] \in Seq(Message)
  OBVIOUS
<1>1. CASE Resume(t)
  BY <1>1, <1>a, GotoType DEF Resume, Begin
<1>2. CASE DetectCrash(t)
  <2>1. pc' \in [Turns -> TurnStates]
    BY <1>2, <1>a, GotoType DEF DetectCrash, Begin
  <2>2. Entry("report", Artifacts(t)) \in Message
    BY EntryType DEF Artifacts
  <2>3. Append(pending, Entry("report", Artifacts(t))) \in Seq(Message)
    BY <2>2
  <2>4. pending' \in Seq(Message) /\ wakers' \subseteq wakers
    BY <1>2, <2>3 DEF DetectCrash
  <2> QED
    BY <1>2, <2>1, <2>4 DEF DetectCrash, Begin
<1>3. CASE MarkQuerying(t)
  <2>1. Entry("prompt", {t}) \in Message
    BY EntryType
  <2>2. conv' \in [Turns -> Seq(Message)]
    BY <1>3, <2>1, SayType DEF MarkQuerying
  <2>3. pc' \in [Turns -> TurnStates]
    BY <1>3, <1>a, GotoType DEF MarkQuerying
  <2> QED
    BY <1>3, <2>2, <2>3 DEF MarkQuerying
<1>4. CASE Compact(t)
  <2>1. conv' \in [Turns -> Seq(Message)] /\ surfaced' \subseteq Message
    BY <1>4, <1>b, CompactionsType, NewsType DEF Compact, Compacted
  <2>2. status' \in Statuses
    BY <1>4 DEF Compact, StatusCompacting
  <2>3. pc' \in [Turns -> TurnStates]
    BY <1>4, <1>a, GotoType DEF Compact
  <2> QED
    BY <1>4, <2>1, <2>2, <2>3 DEF Compact
<1>5. CASE Drain(t)
  <2>1. conv[t] \o pending \in Seq(Message)
    BY <1>b
  <2>2. <<>> \in Seq(Message)
    OBVIOUS
  <2>3. conv' \in [Turns -> Seq(Message)] /\ pending' \in Seq(Message)
    BY <1>5, <2>1, <2>2 DEF Drain, DrainOf
  <2>4. rounds' \in [Turns -> 0 .. MaxTurns] /\ retries' \in [Turns -> 0 .. MaxPtlRetries]
    BY SMTT(30), <1>5, Bounds DEF Drain, DrainOf
  <2>5. pc' \in [Turns -> TurnStates]
    BY <1>5, <1>a, GotoType DEF Drain, DrainOf
  <2> QED
    BY <1>5, <2>3, <2>4, <2>5 DEF Drain, DrainOf
<1>6. CASE Persist(t)
  BY <1>6, <1>a, <1>b, GotoType, ResultsType DEF Persist, Saved
<1>7. CASE ReadBack(t)
  BY <1>7, <1>a, GotoType, NewsType DEF ReadBack
<1>8. CASE Answer(t)
  BY <1>8, <1>a, GotoType, SayType, TextType DEF Answer
<1>9. CASE Asks(t)
  <2>1. PICK new \in SUBSET {c \in Calls : call[c] = "unused"} :
          /\ call' = [c \in Calls |-> IF c \in new THEN "asked" ELSE call[c]]
          /\ by' = [c \in Calls |-> IF c \in new THEN t ELSE by[c]]
          /\ Say(t, Entry("uses", new))
    BY <1>9 DEF Asks, AsksOf
  <2>2. conv' \in [Turns -> Seq(Message)]
    BY <2>1, EntryType, SayType
  <2>3. /\ call' \in [Calls -> CallStates] /\ by' \in [Calls -> Turns \cup {0}]
        /\ \A c \in Calls : call[c] = "asleep" => call'[c] = "asleep"
    BY <2>1 DEF CallStates
  <2>4. pc' \in [Turns -> TurnStates]
    BY <1>9, <1>a, GotoType DEF Asks, AsksOf
  <2> QED
    BY <1>9, <2>2, <2>3, <2>4 DEF Asks, AsksOf
<1>10. CASE PromptTooLong(t)
  <2>1. retries' \in [Turns -> 0 .. MaxPtlRetries]
    BY <1>10, Bounds DEF PromptTooLong, RetryCompacted
  <2>2. conv' \in [Turns -> Seq(Message)] /\ surfaced' \subseteq Message
    BY <1>10, <1>b, CompactionsType, NewsType DEF PromptTooLong, RetryCompacted, Compacted
  <2>3. status' \in Statuses
    BY <1>10 DEF PromptTooLong, RetryCompacted, StatusCompacting
  <2>4. pc' \in [Turns -> TurnStates]
    BY <1>10, <1>a, GotoType DEF PromptTooLong, RetryCompacted
  <2> QED
    BY <1>10, <2>1, <2>2, <2>3, <2>4 DEF PromptTooLong, RetryCompacted
<1>11. CASE CallFails(t)
  BY <1>11, <1>a, GotoType DEF CallFails
<1>12. CASE Collect(t)
  <2>1. Entry("results", Asked(t)) \in Message
    BY EntryType DEF Asked
  <2>2. conv' \in [Turns -> Seq(Message)]
    BY <1>12, <2>1, SayType DEF Collect, CollectOf
  <2>3. /\ call' \in [Calls -> CallStates]
        /\ \A c \in Calls : call[c] = "asleep" => call'[c] = "asleep"
    BY <1>12 DEF Collect, CollectOf, CallStates, Asked
  <2>4. pc' \in [Turns -> TurnStates]
    BY <1>12, <1>a, GotoType DEF Collect, CollectOf
  <2> QED
    BY <1>12, <2>2, <2>3, <2>4 DEF Collect, CollectOf
<1>13. CASE Commit(t)
  BY <1>13, <1>a, <1>b, GotoType, ResultsType DEF Commit, Saved
<1>14. CASE Close(t)
  <2>1. /\ store' \in Seq(Message) /\ committed' \subseteq Calls
        /\ Forget(t) /\ pc' \in [Turns -> TurnStates]
    BY <1>14, <1>a, <1>b, GotoType, ResultsType DEF Close, Finish, FinishAt, Saved
  <2> QED
    BY <1>14, <2>1, ForgetType DEF Close, Finish, FinishAt
<1>15. CASE Catch(t)
  <2>1. Forget(t) /\ pc' \in [Turns -> TurnStates]
    BY <1>15, <1>a, GotoType DEF Catch, Finish, FinishAt
  <2> QED
    BY <1>15, <2>1, ForgetType DEF Catch, Finish, FinishAt
<1>16. CASE Summarize(t)
  <2>1. pc' \in [Turns -> TurnStates]
    BY <1>16, <1>a, GotoType DEF Summarize
  <2> QED
    BY <1>16, <2>1 DEF Summarize
<1> QED
  BY <1>1, <1>2, <1>3, <1>4, <1>5, <1>6, <1>7, <1>8, <1>9, <1>10, <1>11, <1>12, <1>13,
     <1>14, <1>15, <1>16 DEF TurnStep

LEMMA CallTypes ==
  ASSUME TypeOK, NEW c \in Calls, CallStep(c)
  PROVE  TypeOK'
<1> USE DEF TypeOK, Statuses, TurnStates, CallStates, runState, turns, tools, history
<1>1. CASE UnknownTool(c)
  BY <1>1 DEF UnknownTool
<1>2. CASE LogStart(c)
  BY <1>2 DEF LogStart
<1>3. CASE Deny(c)
  BY <1>3 DEF Deny
<1>4. CASE GuardThrows(c)
  BY <1>4 DEF GuardThrows, Goto
<1>5. CASE Execute(c)
  BY <1>5 DEF Execute
<1>6. CASE FallAsleep(c)
  BY <1>6 DEF FallAsleep, EnterSleep
<1>7. CASE WakeUp(c)
  BY <1>7 DEF WakeUp
<1> QED
  BY <1>1, <1>2, <1>3, <1>4, <1>5, <1>6, <1>7 DEF CallStep

LEMMA TypeStep == TypeOK /\ [Next]_vars => TypeOK'
<1> SUFFICES ASSUME TypeOK, [Next]_vars PROVE TypeOK'
  OBVIOUS
<1> USE DEF TypeOK, Statuses, TurnStates, CallStates, runState, turns, tools, history
<1>1. CASE Send
  <2>1. /\ sends + 1 \in Turns /\ sends' \in 0 .. MaxSends
        /\ Goto(sends + 1, "waiting")
    BY <1>1, Bounds DEF Send, Turns
  <2>2. pc' \in [Turns -> TurnStates]
    BY <2>1, GotoType DEF TurnStates
  <2> QED
    BY <1>1, <2>1, <2>2 DEF Send
<1>2. CASE Interject
  <2>1. interjects + 1 \in Interjects /\ interjects' \in 0 .. MaxInterjects
    BY <1>2, Bounds DEF Interject, Interjects
  <2>2. Entry("interject", {interjects + 1}) \in Message
    BY <2>1, EntryType
  <2>3. pending' \in Seq(Message)
    BY <1>2, <2>2 DEF Interject
  <2> QED
    BY <1>2, <2>1, <2>3 DEF Interject
<1>3. CASE Pause
  BY <1>3 DEF Pause
<1>4. CASE Dispose
  <2>1. pending' \in Seq(Message) /\ excused' \subseteq Message
    BY <1>4, NewsType DEF Dispose
  <2> QED
    BY <1>4, <2>1 DEF Dispose
<1>5. CASE Restart
  <2>1. pending' \in Seq(Message) /\ excused' \subseteq Message
    BY <1>5, VolatileType DEF Restart
  <2>2. conv' \in [Turns -> Seq(Message)]
    <3>1. <<>> \in Seq(Message)
      OBVIOUS
    <3> QED
      BY <1>5, <3>1 DEF Restart
  <2>3. /\ rounds' \in [Turns -> 0 .. MaxTurns] /\ retries' \in [Turns -> 0 .. MaxPtlRetries]
        /\ crashes' \in 0 .. MaxCrashes
    BY <1>5, Bounds DEF Restart
  <2>4. pc' \in [Turns -> TurnStates]
    BY <1>5 DEF Restart
  <2>5. call' \in [Calls -> CallStates] /\ by' \in [Calls -> Turns \cup {0}]
    BY <1>5 DEF Restart
  <2> QED
    BY <1>5, <2>1, <2>2, <2>3, <2>4, <2>5 DEF Restart
<1>6. CASE \E t \in Turns : TurnStep(t)
  BY <1>6, TurnTypes
<1>7. CASE \E c \in Calls : CallStep(c)
  BY <1>7, CallTypes
<1>8. CASE UNCHANGED vars
  BY <1>8 DEF vars
<1> QED
  BY <1>1, <1>2, <1>3, <1>4, <1>5, <1>6, <1>7, <1>8 DEF Next

LEMMA TypeCorrectInit == Init => TypeOK
<1>1. <<>> \in Seq(Message)
  OBVIOUS
<1> SUFFICES ASSUME Init PROVE TypeOK
  OBVIOUS
<1>2. /\ pending \in Seq(Message) /\ store \in Seq(Message)
      /\ conv \in [Turns -> Seq(Message)]
  BY <1>1 DEF Init
<1>3. /\ rounds \in [Turns -> 0 .. MaxTurns] /\ retries \in [Turns -> 0 .. MaxPtlRetries]
      /\ sends \in 0 .. MaxSends /\ interjects \in 0 .. MaxInterjects
      /\ crashes \in 0 .. MaxCrashes
  BY Bounds DEF Init
<1>4. /\ pc \in [Turns -> TurnStates] /\ call \in [Calls -> CallStates]
      /\ by \in [Calls -> Turns \cup {0}] /\ status \in Statuses
  BY DEF Init, TurnStates, CallStates, Statuses
<1> QED
  BY <1>2, <1>3, <1>4 DEF Init, TypeOK

\* Every variable keeps to what the code can put there: the messages of every
\* turn and of messages.json are messages, counters stay within their limits.
THEOREM TypeCorrect == Spec => []TypeOK
BY TypeCorrectInit, TypeStep, PTL DEF Spec

-----------------------------------------------------------------------------
(* Sleepers and the interject queue *)

\* The steps of a turn touch the queue and the wakers in one of three ways:
\* not at all, by draining the queue, or by adding a report and waking all.
LEMMA TurnQueueSteps ==
  ASSUME NEW t \in Turns, TurnStep(t)
  PROVE  \/ UNCHANGED <<pending, wakers>>
         \/ pending' = <<>>
         \/ wakers' = {}
<1>1. CASE Resume(t)
  BY <1>1 DEF Resume
<1>2. CASE DetectCrash(t)
  BY <1>2 DEF DetectCrash
<1>3. CASE MarkQuerying(t)
  BY <1>3 DEF MarkQuerying
<1>4. CASE Compact(t)
  BY <1>4 DEF Compact
<1>11. CASE Summarize(t)
  BY <1>11 DEF Summarize
<1>5. CASE Drain(t)
  BY <1>5 DEF Drain, DrainOf
<1>6. CASE Persist(t) \/ ReadBack(t) \/ Answer(t) \/ CallFails(t) \/ Commit(t)
  BY <1>6 DEF Persist, ReadBack, Answer, CallFails, Commit, runState
<1>7. CASE Asks(t)
  BY <1>7 DEF Asks, AsksOf
<1>8. CASE PromptTooLong(t)
  BY <1>8 DEF PromptTooLong, RetryCompacted
<1>9. CASE Collect(t)
  BY <1>9 DEF Collect, CollectOf
<1>10. CASE Close(t) \/ Catch(t)
  BY <1>10 DEF Close, Catch, Finish, FinishAt
<1> QED
  BY <1>1, <1>2, <1>3, <1>4, <1>5, <1>6, <1>7, <1>8, <1>9, <1>10, <1>11 DEF TurnStep

\* A tool call leaves the queue alone, and adds a waker only when the queue is
\* empty.
LEMMA CallQueueSteps ==
  ASSUME NEW c \in Calls, CallStep(c)
  PROVE  /\ pending' = pending
         /\ wakers' \subseteq wakers \/ pending = <<>>
<1>1. CASE UnknownTool(c) \/ LogStart(c) \/ Deny(c) \/ Execute(c)
  BY <1>1 DEF UnknownTool, LogStart, Deny, Execute, runState
<1>2. CASE GuardThrows(c)
  BY <1>2 DEF GuardThrows, runState
<1>3. CASE FallAsleep(c)
  BY <1>3 DEF FallAsleep, EnterSleep
<1>4. CASE WakeUp(c)
  BY <1>4 DEF WakeUp
<1> QED
  BY <1>1, <1>2, <1>3, <1>4 DEF CallStep

LEMMA SleepersStep ==
  SleepersHearInterjects /\ [Next]_vars => SleepersHearInterjects'
<1> SUFFICES ASSUME SleepersHearInterjects, [Next]_vars
             PROVE  SleepersHearInterjects'
  OBVIOUS
<1> USE DEF SleepersHearInterjects
<1>1. CASE Send
  BY <1>1 DEF Send, runState
<1>2. CASE Interject
  BY <1>2 DEF Interject
<1>3. CASE Pause
  BY <1>3 DEF Pause
<1>4. CASE Dispose
  BY <1>4 DEF Dispose
<1>5. CASE Restart
  BY <1>5 DEF Restart
<1>6. CASE \E t \in Turns : TurnStep(t)
  BY <1>6, TurnQueueSteps
<1>7. CASE \E c \in Calls : CallStep(c)
  BY <1>7, CallQueueSteps
<1>8. CASE UNCHANGED vars
  BY <1>8 DEF vars, runState
<1> QED
  BY <1>1, <1>2, <1>3, <1>4, <1>5, <1>6, <1>7, <1>8 DEF Next

\* No sleep goes on while something is pending (run-state.ts:57-61, 118-124),
\* whatever turns, tools, the host and restarts do.
THEOREM SleepersHear == Spec => []SleepersHearInterjects
<1>1. Init => SleepersHearInterjects
  BY DEF Init, SleepersHearInterjects
<1> QED
  BY <1>1, SleepersStep, PTL DEF Spec

-----------------------------------------------------------------------------
(* The status at rest *)

\* Turns that send() has not numbered yet have no state.
FreshTurns == \A t \in Turns : t > sends => pc[t] = "none"

\* A call that is not over belongs to a turn that awaits it or has failed.
CallsBelong ==
  \A c \in Calls : call[c] \in {"asked", "logged", "asleep", "done"} =>
    by[c] \in Turns /\ pc[by[c]] \in {"tools", "failing", "failed"}

RestInv == TypeOK /\ FreshTurns /\ CallsBelong /\ RestsWhenDone

\* A step of a turn that is not about its tool calls moves it from one state
\* in which it has none to another, or to failing.
LEMMA PlainTurnSteps ==
  ASSUME TypeOK, NEW t \in Turns,
         \/ Resume(t) \/ DetectCrash(t) \/ MarkQuerying(t) \/ Summarize(t) \/ Compact(t)
         \/ Drain(t) \/ Persist(t) \/ ReadBack(t) \/ Answer(t) \/ PromptTooLong(t)
         \/ CallFails(t) \/ Commit(t)
  PROVE  /\ UNCHANGED <<call, by, sends>>
         /\ pc[t] \in {"waiting", "checking", "begun", "looping", "summarizing", "saving",
                       "loading", "calling", "resummarizing", "committing"}
         /\ \E label \in {"checking", "begun", "looping", "summarizing", "saving", "loading",
                           "calling", "resummarizing", "closing", "failing"} :
              pc' = [pc EXCEPT ![t] = label]
<1> USE DEF Goto, turns, tools
<1>1. CASE Resume(t)
  BY <1>1 DEF Resume, Begin
<1>2. CASE DetectCrash(t)
  BY <1>2 DEF DetectCrash, Begin
<1>3. CASE MarkQuerying(t)
  BY <1>3 DEF MarkQuerying
<1>4. CASE Compact(t)
  BY <1>4 DEF Compact
<1>12. CASE Summarize(t)
  BY <1>12 DEF Summarize
<1>5. CASE Drain(t)
  BY <1>5 DEF Drain, DrainOf
<1>6. CASE Persist(t)
  BY <1>6 DEF Persist
<1>7. CASE ReadBack(t)
  BY <1>7 DEF ReadBack
<1>8. CASE Answer(t)
  BY <1>8 DEF Answer
<1>9. CASE PromptTooLong(t)
  BY <1>9 DEF PromptTooLong, RetryCompacted
<1>10. CASE CallFails(t)
  BY <1>10 DEF CallFails
<1>11. CASE Commit(t)
  BY <1>11 DEF Commit
<1> QED
  BY <1>1, <1>2, <1>3, <1>4, <1>5, <1>6, <1>7, <1>8, <1>9, <1>10, <1>11, <1>12

LEMMA TurnRests ==
  ASSUME RestInv, NEW t \in Turns, TurnStep(t)
  PROVE  (FreshTurns /\ CallsBelong /\ RestsWhenDone)'
<1> USE DEF RestInv, FreshTurns, CallsBelong, RestsWhenDone, InFlight
<1>t. pc \in [Turns -> TurnStates] /\ sends \in 0 .. MaxSends
  BY DEF TypeOK
<1>1. CASE \/ Resume(t) \/ DetectCrash(t) \/ MarkQuerying(t) \/ Summarize(t) \/ Compact(t)
           \/ Drain(t) \/ Persist(t) \/ ReadBack(t) \/ Answer(t) \/ PromptTooLong(t)
           \/ CallFails(t) \/ Commit(t)
  BY <1>1, <1>t, PlainTurnSteps
<1>2. CASE Asks(t)
  <2>1. PICK new \in SUBSET {c \in Calls : call[c] = "unused"} :
          /\ call' = [c \in Calls |-> IF c \in new THEN "asked" ELSE call[c]]
          /\ by' = [c \in Calls |-> IF c \in new THEN t ELSE by[c]]
    BY <1>2 DEF Asks, AsksOf
  <2>2. pc[t] = "calling" /\ pc' = [pc EXCEPT ![t] = "tools"] /\ sends' = sends
    BY <1>2 DEF Asks, AsksOf, Goto
  <2> QED
    BY <2>1, <2>2, <1>t
<1>3. CASE Collect(t)
  <2>1. /\ pc[t] = "tools" /\ pc' = [pc EXCEPT ![t] = "committing"] /\ sends' = sends
        /\ by' = by
        /\ call' = [c \in Calls |-> IF by[c] = t /\ call[c] # "over" THEN "over" ELSE call[c]]
    BY <1>3 DEF Collect, CollectOf, Asked, Goto
  <2> QED
    BY <2>1, <1>t
<1>4. CASE Close(t)
  <2>1. /\ pc[t] \in {"closing", "looping"} /\ pc' = [pc EXCEPT ![t] = "done"]
        /\ UNCHANGED <<call, by, sends>> /\ status' \in {"disposed", "idle"}
    BY <1>4 DEF Close, Finish, FinishAt, Goto, tools
  <2> QED
    BY <2>1, <1>t
<1>5. CASE Catch(t)
  <2>1. /\ pc[t] = "failing" /\ pc' = [pc EXCEPT ![t] = "failed"]
        /\ UNCHANGED <<call, by, sends>> /\ status' \in {"disposed", "idle", "paused"}
    BY <1>5 DEF Catch, Finish, FinishAt, Goto, tools
  <2> QED
    BY <2>1, <1>t
<1> QED
  BY <1>1, <1>2, <1>3, <1>4, <1>5 DEF TurnStep

LEMMA CallRests ==
  ASSUME RestInv, NEW c \in Calls, CallStep(c)
  PROVE  (FreshTurns /\ CallsBelong /\ RestsWhenDone)'
<1> USE DEF RestInv, FreshTurns, CallsBelong, RestsWhenDone, InFlight, LeftBehind
<1>t. pc \in [Turns -> TurnStates] /\ sends \in 0 .. MaxSends /\ call \in [Calls -> CallStates]
  BY DEF TypeOK
<1>1. CASE UnknownTool(c) \/ Deny(c) \/ Execute(c)
  <2>1. /\ call[c] \in {"asked", "logged"} /\ call' = [call EXCEPT ![c] = "done"]
        /\ UNCHANGED <<pc, by, sends, status>>
    BY <1>1 DEF UnknownTool, Deny, Execute, turns, runState
  <2> QED
    BY <2>1, <1>t
<1>2. CASE LogStart(c)
  <2>1. /\ call[c] = "asked" /\ call' = [call EXCEPT ![c] = "logged"]
        /\ UNCHANGED <<pc, by, sends, status>>
    BY <1>2 DEF LogStart, turns, runState
  <2> QED
    BY <2>1, <1>t
<1>3. CASE GuardThrows(c)
  <2>1. /\ call[c] = "logged" /\ call' = [call EXCEPT ![c] = "over"]
        /\ UNCHANGED <<by, sends, status>>
        /\ pc' = IF pc[by[c]] = "tools" THEN [pc EXCEPT ![by[c]] = "failing"] ELSE pc
    BY <1>3 DEF GuardThrows, Goto, runState
  <2> QED
    BY <2>1, <1>t
<1>4. CASE FallAsleep(c)
  <2>1. /\ call[c] = "logged" /\ call' = [call EXCEPT ![c] = "asleep"]
        /\ UNCHANGED <<pc, by, sends>>
    BY <1>4 DEF FallAsleep, EnterSleep, turns
  <2> QED
    BY <2>1, <1>t
<1>5. CASE WakeUp(c)
  <2>1. /\ call[c] = "asleep" /\ call' = [call EXCEPT ![c] = "done"]
        /\ UNCHANGED <<pc, by, sends>>
    BY <1>5 DEF WakeUp, turns
  <2> QED
    BY <2>1, <1>t
<1> QED
  BY <1>1, <1>2, <1>3, <1>4, <1>5 DEF CallStep

LEMMA RestStep == RestInv /\ [Next]_vars => RestInv'
<1> SUFFICES ASSUME RestInv, [Next]_vars
             PROVE  (FreshTurns /\ CallsBelong /\ RestsWhenDone)'
  BY TypeStep DEF RestInv
<1> USE DEF RestInv, FreshTurns, CallsBelong, RestsWhenDone, InFlight, LeftBehind
<1>t. pc \in [Turns -> TurnStates] /\ sends \in 0 .. MaxSends /\ call \in [Calls -> CallStates]
  BY DEF TypeOK
<1>1. CASE Send
  <2>1. /\ sends' = sends + 1 /\ sends < MaxSends
        /\ pc' = [pc EXCEPT ![sends + 1] = "waiting"]
        /\ UNCHANGED <<call, by, status>>
    BY <1>1 DEF Send, Goto, tools, runState
  <2>2. sends + 1 \in Turns /\ pc[sends + 1] = "none"
    BY <2>1, <1>t, Bounds DEF Turns
  <2> QED
    BY <2>1, <2>2, <1>t DEF Turns
<1>2. CASE Interject
  BY <1>2 DEF Interject, turns, tools
<1>3. CASE Pause
  BY <1>3 DEF Pause, turns, tools
<1>4. CASE Dispose
  BY <1>4 DEF Dispose, turns, tools
<1>5. CASE Restart
  BY <1>5, <1>t DEF Restart, CallStates
<1>6. CASE \E t \in Turns : TurnStep(t)
  BY <1>6, TurnRests
<1>7. CASE \E c \in Calls : CallStep(c)
  BY <1>7, CallRests
<1>8. CASE UNCHANGED vars
  BY <1>8 DEF vars, runState, turns, tools
<1> QED
  BY <1>1, <1>2, <1>3, <1>4, <1>5, <1>6, <1>7, <1>8 DEF Next

\* The status says busy only while a turn runs or a tool sleeps
\* (run-state.ts:86-125), also when turns overlap and whatever fails.
THEOREM RestsCorrect == Spec => []RestsWhenDone
<1>1. Init => RestInv
  BY TypeCorrectInit DEF RestInv, Init, FreshTurns, CallsBelong, RestsWhenDone
<1>2. RestInv => RestsWhenDone
  BY DEF RestInv
<1> QED
  BY <1>1, <1>2, RestStep, PTL DEF Spec

-----------------------------------------------------------------------------
(* What waits for the model, when turns do not overlap                      *)

\* Whatever is to be told to the model, or was, or is excused.
Known == Held \cup surfaced \cup excused

\* While one turn runs at a time, its conversation holds all the news of
\* messages.json that the model has not seen; and past the first save of a
\* round it holds no others, so that nothing is lost when the turn fails.
SerialInv ==
  /\ TypeOK
  /\ FreshTurns
  /\ \A t, u \in Turns : InFlight(t) /\ InFlight(u) => t = u
  /\ \A t \in Turns : pc[t] \in {"none", "waiting"} => conv[t] = <<>>
  /\ \A t \in Turns : pc[t] = "checking" => conv[t] = store
  /\ \A t \in Turns : InFlight(t) /\ pc[t] # "waiting" =>
       News(store) \subseteq News(conv[t]) \cup surfaced
  /\ \A t \in Turns :
       pc[t] \in {"loading", "calling", "tools", "committing", "closing", "failing"} =>
         News(conv[t]) \subseteq News(store)

\* A call that ran in a process that died was logged, and no conversation
\* holds a result of it, so that each next process finds it again.
LostInv ==
  /\ SerialInv
  /\ \A c \in Calls : call[c] \in {"logged", "asleep"} => c \in log
  /\ ran \subseteq {c \in log : call[c] # "unused"}
  /\ Results(pending) = {}
  /\ Results(store) \subseteq committed
  /\ \A c \in interrupted :
       /\ call[c] = "over" /\ c \notin Results(store)
       /\ \A t \in Turns : c \notin Results(conv[t])
  /\ InterruptedCallsSurface

LEMMA NewsIn ==
  ASSUME NEW msgs, NEW e
  PROVE  e \in News(msgs) <=>
           \E n \in DOMAIN msgs : e = msgs[n] /\ msgs[n].kind \in {"interject", "report"}
BY DEF News, Entries

LEMMA ResultsIn ==
  ASSUME NEW msgs, NEW c
  PROVE  c \in Results(msgs) <=>
           \E n \in DOMAIN msgs : msgs[n].kind = "results" /\ c \in msgs[n].ids
BY DEF Results, Entries

LEMMA NothingYet == News(<<>>) = {} /\ Results(<<>>) = {}
BY DEF News, Results, Entries

\* A message that is pushed adds itself and nothing else.
LEMMA Pushed ==
  ASSUME NEW msgs \in Seq(Message), NEW e \in Message
  PROVE  /\ News(Append(msgs, e))
              = News(msgs) \cup {f \in {e} : f.kind \in {"interject", "report"}}
         /\ \A c : c \in Results(Append(msgs, e)) <=>
                     c \in Results(msgs) \/ (e.kind = "results" /\ c \in e.ids)
<1>1. PICK longer : longer = Append(msgs, e)
  OBVIOUS
<1>2. /\ DOMAIN longer = DOMAIN msgs \cup {Len(msgs) + 1} /\ longer[Len(msgs) + 1] = e
      /\ \A n \in DOMAIN msgs : longer[n] = msgs[n]
  <2>1. /\ longer \in Seq(Message) /\ Len(longer) = Len(msgs) + 1
        /\ \A n \in 1 .. Len(msgs) : longer[n] = msgs[n]
        /\ longer[Len(msgs) + 1] = e
    BY <1>1
  <2>2. DOMAIN longer = 1 .. Len(msgs) + 1 /\ DOMAIN msgs = 1 .. Len(msgs) /\ Len(msgs) \in Nat
    BY <2>1
  <2> QED
    BY <2>1, <2>2
<1>3. News(longer) = News(msgs) \cup {f \in {e} : f.kind \in {"interject", "report"}}
  <2>1. ASSUME NEW f
        PROVE  f \in News(longer) <=>
                 f \in News(msgs) \/ (f = e /\ f.kind \in {"interject", "report"})
    BY <1>2, NewsIn
  <2> QED
    BY <2>1
<1>4. ASSUME NEW c
      PROVE  c \in Results(longer) <=>
               c \in Results(msgs) \/ (e.kind = "results" /\ c \in e.ids)
  BY <1>2, ResultsIn
<1> QED
  BY <1>1, <1>3, <1>4

LEMMA Joined ==
  ASSUME NEW msgs \in Seq(Message), NEW more \in Seq(Message)
  PROVE  /\ News(msgs \o more) = News(msgs) \cup News(more)
         /\ Results(msgs \o more) = Results(msgs) \cup Results(more)
<1>1. PICK all : all = msgs \o more
  OBVIOUS
<1>2. /\ DOMAIN all = 1 .. Len(msgs) + Len(more)
      /\ DOMAIN msgs = 1 .. Len(msgs) /\ DOMAIN more = 1 .. Len(more)
      /\ Len(msgs) \in Nat /\ Len(more) \in Nat
      /\ \A n \in 1 .. Len(msgs) : all[n] = msgs[n]
      /\ \A n \in 1 .. Len(more) : all[Len(msgs) + n] = more[n]
  BY <1>1
<1>3. ASSUME NEW n \in DOMAIN all
      PROVE  n \in DOMAIN msgs \/ n - Len(msgs) \in DOMAIN more
  BY <1>2
<1>4. ASSUME NEW n \in DOMAIN all, n - Len(msgs) \in DOMAIN more
      PROVE  all[n] = more[n - Len(msgs)]
  <2>1. Len(msgs) + (n - Len(msgs)) = n
    BY <1>2
  <2> QED
    BY <1>2, <1>4, <2>1
<1>5. ASSUME NEW n \in DOMAIN more
      PROVE  Len(msgs) + n \in DOMAIN all
  BY <1>2
<1>6. \A n \in DOMAIN msgs : n \in DOMAIN all
  BY <1>2
<1>7. ASSUME NEW e
      PROVE  e \in News(all) <=> e \in News(msgs) \/ e \in News(more)
  <2>1. e \in News(all) => e \in News(msgs) \/ e \in News(more)
    BY <1>2, <1>3, <1>4, NewsIn
  <2>2. e \in News(msgs) => e \in News(all)
    BY <1>2, <1>6, NewsIn
  <2>3. e \in News(more) => e \in News(all)
    BY <1>2, <1>5, NewsIn
  <2> QED
    BY <2>1, <2>2, <2>3
<1>8. ASSUME NEW c
      PROVE  c \in Results(all) <=> c \in Results(msgs) \/ c \in Results(more)
  <2>1. c \in Results(all) => c \in Results(msgs) \/ c \in Results(more)
    BY <1>2, <1>3, <1>4, ResultsIn
  <2>2. c \in Results(msgs) => c \in Results(all)
    BY <1>2, <1>6, ResultsIn
  <2>3. c \in Results(more) => c \in Results(all)
    BY <1>2, <1>5, ResultsIn
  <2> QED
    BY <2>1, <2>2, <2>3
<1> QED
  BY <1>1, <1>7, <1>8

\* A compaction makes up no results.
LEMMA CompactionsResults ==
  ASSUME NEW msgs \in Seq(Message), NEW result \in Compactions(msgs)
  PROVE  Results(result) \subseteq Results(msgs)
<1>1. PICK cleared : cleared = ClearOldPairs(msgs)
  OBVIOUS
<1>2. /\ cleared \in Seq(Message) /\ Len(cleared) = Len(msgs)
      /\ \A n \in 1 .. Len(msgs) : cleared[n] \in {Text, msgs[n]}
  <2>1. cleared \in Seq(Message) /\ Len(cleared) = Len(msgs)
    BY <1>1, ClearOldPairsType
  <2>2. \A n \in DOMAIN msgs : cleared[n] \in {Text, msgs[n]}
    BY <1>1 DEF ClearOldPairs
  <2> QED
    BY <2>1, <2>2
<1>3. Text.kind # "results"
  BY DEF Text, Entry
<1>4. Results(cleared) \subseteq Results(msgs)
  <2>1. DOMAIN cleared = 1 .. Len(msgs) /\ DOMAIN msgs = 1 .. Len(msgs)
    BY <1>2
  <2> QED
    BY <1>2, <1>3, <2>1, ResultsIn
<1>5. ASSUME NEW k \in KeepRecent .. Len(msgs) - 2, result = KeepNewest(cleared, k)
      PROVE  Results(result) \subseteq Results(msgs)
  <2>1. PICK first : first = Len(msgs) - k + 1
    OBVIOUS
  <2>2. k \in Nat /\ Len(msgs) \in Nat /\ first \in 3 .. Len(msgs) + 1
    BY <1>5, <2>1, Bounds
  <2>3. PICK tail : tail = SubSeq(cleared, first, Len(cleared))
    OBVIOUS
  <2>4. tail \in Seq(Message) /\ \A n \in DOMAIN tail : \E m \in DOMAIN cleared : tail[n] = cleared[m]
    <3>1. /\ tail \in Seq(Message) /\ Len(tail) = Len(msgs) - first + 1
          /\ \A n \in 1 .. Len(msgs) - first + 1 : tail[n] = cleared[first + n - 1]
      <4>1. cleared \in Seq(Message) /\ Len(cleared) = Len(msgs)
        BY <1>2
      <4> QED
        BY SMTT(30), <2>2, <2>3, <4>1
    <3>2. \A n \in 1 .. Len(msgs) - first + 1 : first + n - 1 \in 1 .. Len(cleared)
      BY <1>2, <2>2
    <3> QED
      BY <1>2, <3>1, <3>2
  <2>5. <<Text>> \in Seq(Message) /\ result = <<Text>> \o tail
    BY <1>2, <1>5, <2>1, <2>3, TextType DEF KeepNewest
  <2>6. Results(<<Text>>) = {}
    BY <1>3, ResultsIn
  <2>7. Results(tail) \subseteq Results(cleared)
    BY <2>4, ResultsIn
  <2>8. Results(<<Text>> \o tail) = Results(<<Text>>) \cup Results(tail)
    <3>1. tail \in Seq(Message) /\ <<Text>> \in Seq(Message)
      BY <2>4, <2>5
    <3> QED
      BY <3>1, Joined
  <2>9. result = <<Text>> \o tail
    BY <2>5
  <2> QED
    BY <1>4, <2>6, <2>7, <2>8, <2>9
<1> QED
  BY <1>1, <1>4, <1>5 DEF Compactions

\* What is known while a turn runs by itself.
LEMMA KnownOfTurn ==
  ASSUME SerialInv, NEW t \in Turns, InFlight(t)
  PROVE  Known = News(pending) \cup News(store) \cup News(conv[t]) \cup surfaced \cup excused
<1>1. {u \in Turns : InFlight(u)} = {t}
  BY DEF SerialInv
<1>2. UNION {News(conv[u]) : u \in {t}} = News(conv[t])
  OBVIOUS
<1> QED
  BY <1>1, <1>2 DEF Known, Held

\* What is pushed and is no news leaves the news as they are.
LEMMA Said ==
  ASSUME NEW msgs \in Seq(Message), NEW e \in Message, e.kind \notin {"interject", "report"}
  PROVE  News(Append(msgs, e)) = News(msgs)
<1>1. {f \in {e} : f.kind \in {"interject", "report"}} = {}
  OBVIOUS
<1>2. PICK none : none = {f \in {e} : f.kind \in {"interject", "report"}}
  OBVIOUS
<1>3. News(Append(msgs, e)) = News(msgs) \cup none
  BY <1>2, Pushed
<1> QED
  BY <1>1, <1>2, <1>3

\* Nothing that is known is lost, when the turn holds these news afterwards.
NothingLost(t, news) ==
  News(pending) \cup News(store) \cup News(conv[t]) \cup surfaced \cup excused
    \subseteq News(pending') \cup News(store') \cup surfaced' \cup excused' \cup news

\* A step of the turn that runs, by what it makes of its state and its
\* conversation.
LEMMA TurnMoves ==
  ASSUME SerialInv, TypeOK', NEW t \in Turns, InFlight(t), sends' = sends,
         NEW p \in TurnStates \ {"none", "waiting"}, pc' = [pc EXCEPT ![t] = p],
         NEW m, conv' = [conv EXCEPT ![t] = m],
         p = "checking" => m = store',
         p \notin {"done", "failed", "lost"} => News(store') \subseteq News(m) \cup surfaced',
         p \in {"loading", "calling", "tools", "committing", "closing", "failing"} =>
           News(m) \subseteq News(store'),
         NothingLost(t, IF p \in {"done", "failed", "lost"} THEN {} ELSE News(m))
  PROVE  SerialInv' /\ Known \subseteq Known'
<1>1. /\ pc \in [Turns -> TurnStates] /\ conv \in [Turns -> Seq(Message)]
      /\ \A u \in Turns : u # t => ~InFlight(u)
  BY DEF SerialInv, TypeOK
<1>2. /\ pc'[t] = p /\ conv'[t] = m
      /\ \A u \in Turns : u # t => pc'[u] = pc[u] /\ conv'[u] = conv[u] /\ ~InFlight(u)'
  BY <1>1 DEF InFlight
<1>3. SerialInv'
  <2>1. FreshTurns'
    BY <1>2 DEF SerialInv, FreshTurns, InFlight
  <2>2. \A u, v \in Turns : InFlight(u)' /\ InFlight(v)' => u = v
    BY <1>2
  <2>3. ASSUME NEW u \in Turns
        PROVE  /\ pc'[u] \in {"none", "waiting"} => conv'[u] = <<>>
               /\ pc'[u] = "checking" => conv'[u] = store'
               /\ InFlight(u)' /\ pc'[u] # "waiting" =>
                    News(store') \subseteq News(conv'[u]) \cup surfaced'
               /\ pc'[u] \in {"loading", "calling", "tools", "committing", "closing", "failing"} =>
                    News(conv'[u]) \subseteq News(store')
    <3>1. CASE u = t
      BY <1>2, <3>1 DEF InFlight
    <3>2. CASE u # t
      BY <1>2, <3>2 DEF InFlight, SerialInv
    <3> QED
      BY <3>1, <3>2
  <2> QED
    BY <2>1, <2>2, <2>3 DEF SerialInv
<1>4. Known \subseteq Known'
  <2>1. Known = News(pending) \cup News(store) \cup News(conv[t]) \cup surfaced \cup excused
    BY KnownOfTurn
  <2>2. p \notin {"done", "failed", "lost"} => News(m) \subseteq Known'
    BY <1>2 DEF InFlight, Known, Held
  <2>3. News(pending') \cup News(store') \cup surfaced' \cup excused' \subseteq Known'
    BY DEF Known, Held
  <2> QED
    BY <2>1, <2>2, <2>3 DEF NothingLost
<1> QED
  BY <1>3, <1>4

\* The turn goes on with these messages, or it is over.
LEMMA GoesOn ==
  ASSUME SerialInv, TypeOK', NEW t \in Turns, InFlight(t), sends' = sends,
         NEW p \in {"checking", "begun", "looping", "summarizing", "saving", "loading",
                    "calling", "resummarizing", "tools", "committing", "closing", "failing"},
         pc' = [pc EXCEPT ![t] = p],
         NEW m, conv' = [conv EXCEPT ![t] = m],
         p = "checking" => m = store',
         News(store') \subseteq News(m) \cup surfaced',
         p \in {"loading", "calling", "tools", "committing", "closing", "failing"} =>
           News(m) \subseteq News(store'),
         NothingLost(t, News(m))
  PROVE  SerialInv' /\ Known \subseteq Known'
<1>1. p \in TurnStates \ {"none", "waiting"} /\ p \notin {"done", "failed", "lost"}
  BY DEF TurnStates
<1>2. NothingLost(t, IF p \in {"done", "failed", "lost"} THEN {} ELSE News(m))
  BY <1>1
<1> QED
  BY <1>1, <1>2, TurnMoves

LEMMA IsOver ==
  ASSUME SerialInv, TypeOK', NEW t \in Turns, InFlight(t), sends' = sends,
         NEW p \in {"done", "failed"}, pc' = [pc EXCEPT ![t] = p],
         conv' = [conv EXCEPT ![t] = <<>>], NothingLost(t, {})
  PROVE  SerialInv' /\ Known \subseteq Known'
<1>1. p \in TurnStates \ {"none", "waiting"}
  BY DEF TurnStates
<1>2. NothingLost(t, IF p \in {"done", "failed", "lost"} THEN {} ELSE News(<<>>))
  OBVIOUS
<1>3. p # "checking" /\ p \in {"done", "failed", "lost"}
      /\ p \notin {"loading", "calling", "tools", "committing", "closing", "failing"}
  OBVIOUS
<1> QED
  BY <1>1, <1>2, <1>3, TurnMoves

\* The turn that runs stays where it is.
LEMMA SameState ==
  ASSUME TypeOK, NEW t \in Turns
  PROVE  pc = [pc EXCEPT ![t] = pc[t]] /\ conv = [conv EXCEPT ![t] = conv[t]]
BY DEF TypeOK

LEMMA TurnSerial ==
  ASSUME SerialInv, NEW t \in Turns, TurnStep(t)
  PROVE  SerialInv' /\ Known \subseteq Known'
<1>0. /\ TypeOK' /\ pc[t] \in TurnStates
      /\ conv[t] \in Seq(Message) /\ store \in Seq(Message) /\ pending \in Seq(Message)
  BY TurnTypes DEF SerialInv, TypeOK
<1>s. pc = [pc EXCEPT ![t] = pc[t]] /\ conv = [conv EXCEPT ![t] = conv[t]]
  BY SameState DEF SerialInv
<1>c. /\ pc[t] \in {"none", "waiting"} => conv[t] = <<>>
      /\ pc[t] = "checking" => conv[t] = store
      /\ InFlight(t) /\ pc[t] # "waiting" => News(store) \subseteq News(conv[t]) \cup surfaced
      /\ pc[t] \in {"loading", "calling", "tools", "committing", "closing", "failing"} =>
           News(conv[t]) \subseteq News(store)
  BY DEF SerialInv
<1> USE DEF Goto, runState, turns, tools, history, InFlight
<1>1. CASE Resume(t)
  <2>1. PICK p \in {"checking", "begun"} : pc' = [pc EXCEPT ![t] = p]
    BY <1>1 DEF Resume, Begin
  <2>2. /\ pc[t] = "waiting" /\ conv' = [conv EXCEPT ![t] = store]
        /\ UNCHANGED <<sends, pending, store, surfaced, excused>>
    BY <1>1 DEF Resume
  <2>3. News(conv[t]) = {}
    BY <1>c, <2>2, NothingYet
  <2>4. NothingLost(t, News(store))
    BY <1>0, <2>1, <2>2, <2>3 DEF NothingLost
  <2> QED
    BY <1>0, <2>1, <2>2, <2>3, <2>4, GoesOn
<1>2. CASE DetectCrash(t)
  <2>1. /\ pc[t] = "checking" /\ pc' = [pc EXCEPT ![t] = "begun"] /\ conv' = conv
        /\ UNCHANGED <<sends, store, surfaced, excused>>
    BY <1>2 DEF DetectCrash, Begin
  <2>2. News(pending) \subseteq News(pending')
    <3>1. Entry("report", Artifacts(t)) \in Message
      BY EntryType DEF Artifacts, SerialInv, TypeOK
    <3> QED
      BY <1>0, <1>2, <3>1, Pushed DEF DetectCrash
  <2>3. NothingLost(t, News(conv[t]))
    BY <1>0, <1>c, <1>s, <2>1, <2>2 DEF NothingLost
  <2> QED
    BY <1>0, <1>c, <1>s, <2>1, <2>2, <2>3, GoesOn
<1>3. CASE MarkQuerying(t)
  <2>1. PICK m : m = Append(conv[t], Entry("prompt", {t}))
    OBVIOUS
  <2>2. /\ pc[t] = "begun" /\ pc' = [pc EXCEPT ![t] = "looping"]
        /\ conv' = [conv EXCEPT ![t] = m]
        /\ UNCHANGED <<sends, pending, store, surfaced, excused>>
    BY <1>0, <1>3, <2>1 DEF MarkQuerying, Say, SerialInv, TypeOK
  <2>3. News(conv[t]) \subseteq News(m)
    <3>1. Entry("prompt", {t}) \in Message
      BY EntryType
    <3> QED
      BY <1>0, <2>1, <3>1, Pushed
  <2>4. NothingLost(t, News(m))
    BY <1>0, <1>c, <2>2, <2>3 DEF NothingLost
  <2> QED
    BY <1>0, <1>c, <2>2, <2>3, <2>4, GoesOn
<1>4. CASE Compact(t)
  <2>1. PICK m : conv' = [conv EXCEPT ![t] = m]
                 /\ surfaced' = surfaced \cup (News(conv[t]) \ News(m))
    BY <1>4 DEF Compact, Compacted
  <2>2. /\ pc[t] \in {"looping", "summarizing"} /\ pc' = [pc EXCEPT ![t] = "looping"]
        /\ UNCHANGED <<sends, pending, store, excused>>
    BY <1>4 DEF Compact
  <2>3. NothingLost(t, News(m))
    BY <1>0, <1>c, <2>1, <2>2 DEF NothingLost
  <2> QED
    BY <1>0, <1>c, <2>1, <2>2, <2>3, GoesOn
<1>16. CASE Summarize(t)
  <2>1. PICK p \in {"summarizing", "resummarizing"} : pc' = [pc EXCEPT ![t] = p]
    BY <1>16 DEF Summarize
  <2>2. /\ pc[t] \in {"looping", "calling"} /\ conv' = conv
        /\ UNCHANGED <<sends, pending, store, surfaced, excused>>
    BY <1>16 DEF Summarize
  <2>3. NothingLost(t, News(conv[t]))
    BY <1>0, <1>c, <1>s, <2>1, <2>2 DEF NothingLost
  <2> QED
    BY <1>0, <1>c, <1>s, <2>1, <2>2, <2>3, GoesOn
<1>5. CASE Drain(t)
  <2>1. PICK m : m = conv[t] \o pending
    OBVIOUS
  <2>2. /\ pc[t] \in {"looping", "summarizing"} /\ pc' = [pc EXCEPT ![t] = "saving"]
        /\ conv' = [conv EXCEPT ![t] = m]
        /\ UNCHANGED <<sends, store, surfaced, excused>>
    BY <1>0, <1>5, <2>1 DEF Drain, DrainOf, SerialInv, TypeOK
  <2>3. News(m) = News(conv[t]) \cup News(pending)
    BY <1>0, <2>1, Joined
  <2>4. NothingLost(t, News(m))
    BY <1>0, <1>c, <2>2, <2>3 DEF NothingLost
  <2> QED
    BY <1>0, <1>c, <2>2, <2>3, <2>4, GoesOn
<1>6. CASE Persist(t)
  <2>1. /\ pc[t] = "saving" /\ pc' = [pc EXCEPT ![t] = "loading"] /\ conv' = conv
        /\ store' = conv[t] /\ UNCHANGED <<sends, pending, surfaced, excused>>
    BY <1>6 DEF Persist, Saved
  <2>2. NothingLost(t, News(conv[t]))
    BY <1>0, <1>c, <1>s, <2>1 DEF NothingLost
  <2> QED
    BY <1>0, <1>c, <1>s, <2>1, <2>2, GoesOn
<1>7. CASE ReadBack(t)
  <2>1. PICK p \in {"failing", "calling"} : pc' = [pc EXCEPT ![t] = p]
    BY <1>7 DEF ReadBack
  <2>2. /\ pc[t] = "loading" /\ conv' = [conv EXCEPT ![t] = store]
        /\ UNCHANGED <<sends, pending, store, excused>> /\ surfaced \subseteq surfaced'
    BY <1>7 DEF ReadBack
  <2>3. NothingLost(t, News(store))
    BY <1>0, <1>c, <2>1, <2>2 DEF NothingLost
  <2> QED
    BY <1>0, <1>c, <2>1, <2>2, <2>3, GoesOn
<1>8. CASE Answer(t)
  <2>1. PICK m : m = Append(conv[t], Text)
    OBVIOUS
  <2>2. /\ pc[t] = "calling" /\ pc' = [pc EXCEPT ![t] = "closing"]
        /\ conv' = [conv EXCEPT ![t] = m]
        /\ UNCHANGED <<sends, pending, store, surfaced, excused>>
    BY <1>0, <1>8, <2>1 DEF Answer, Say, SerialInv, TypeOK
  <2>3. News(conv[t]) = News(m)
    BY <1>0, <2>1, TextType, Said DEF Text, Entry
  <2>4. NothingLost(t, News(m))
    BY <1>0, <1>c, <2>2, <2>3 DEF NothingLost
  <2> QED
    BY <1>0, <1>c, <2>2, <2>3, <2>4, GoesOn
<1>9. CASE Asks(t)
  <2>1. PICK new \in SUBSET Calls : conv' = [conv EXCEPT ![t] = Append(@, Entry("uses", new))]
    BY <1>9 DEF Asks, AsksOf, Say
  <2>2. PICK m : m = Append(conv[t], Entry("uses", new))
    OBVIOUS
  <2>3. /\ pc[t] = "calling" /\ pc' = [pc EXCEPT ![t] = "tools"]
        /\ conv' = [conv EXCEPT ![t] = m]
        /\ UNCHANGED <<sends, pending, store, surfaced, excused>>
    BY <1>0, <1>9, <2>1, <2>2 DEF Asks, AsksOf, SerialInv, TypeOK
  <2>4. News(conv[t]) = News(m)
    <3>1. Entry("uses", new) \in Message /\ Entry("uses", new).kind = "uses"
      BY EntryType DEF Entry
    <3> QED
      BY <1>0, <2>2, <3>1, Said
  <2>5. NothingLost(t, News(m))
    BY <1>0, <1>c, <2>3, <2>4 DEF NothingLost
  <2> QED
    BY <1>0, <1>c, <2>3, <2>4, <2>5, GoesOn
<1>10. CASE PromptTooLong(t)
  <2>1. PICK m : conv' = [conv EXCEPT ![t] = m]
                 /\ surfaced' = surfaced \cup (News(conv[t]) \ News(m))
    <3>1. CASE \E msgs \in Compactions(conv[t]) : Compacted(t, msgs)
      BY <3>1 DEF Compacted
    <3>2. CASE UNCHANGED <<conv, surfaced>>
      <4>1. surfaced' = surfaced \cup (News(conv[t]) \ News(conv[t]))
        BY <3>2
      <4> QED
        BY <1>s, <3>2, <4>1
    <3> QED
      BY <1>10, <3>1, <3>2 DEF PromptTooLong, RetryCompacted
  <2>2. /\ pc[t] \in {"calling", "resummarizing"} /\ pc' = [pc EXCEPT ![t] = "saving"]
        /\ UNCHANGED <<sends, pending, store, excused>>
    BY <1>10 DEF PromptTooLong, RetryCompacted
  <2>3. NothingLost(t, News(m))
    BY <1>0, <1>c, <2>1, <2>2 DEF NothingLost
  <2> QED
    BY <1>0, <1>c, <2>1, <2>2, <2>3, GoesOn
<1>11. CASE CallFails(t)
  <2>1. /\ pc[t] = "calling" /\ pc' = [pc EXCEPT ![t] = "failing"] /\ conv' = conv
        /\ UNCHANGED <<sends, pending, store, surfaced, excused>>
    BY <1>11 DEF CallFails
  <2>2. NothingLost(t, News(conv[t]))
    BY <1>0, <1>c, <1>s, <2>1 DEF NothingLost
  <2> QED
    BY <1>0, <1>c, <1>s, <2>1, <2>2, GoesOn
<1>12. CASE Collect(t)
  <2>1. PICK m : m = Append(conv[t], Entry("results", Asked(t)))
    OBVIOUS
  <2>2. /\ pc[t] = "tools" /\ pc' = [pc EXCEPT ![t] = "committing"]
        /\ conv' = [conv EXCEPT ![t] = m]
        /\ UNCHANGED <<sends, pending, store, surfaced, excused>>
    BY <1>0, <1>12, <2>1 DEF Collect, CollectOf, Say, SerialInv, TypeOK
  <2>3. News(conv[t]) = News(m)
    <3>1. /\ Entry("results", Asked(t)) \in Message
          /\ Entry("results", Asked(t)).kind = "results"
      BY EntryType DEF Entry, Asked
    <3> QED
      BY <1>0, <2>1, <3>1, Said
  <2>4. NothingLost(t, News(m))
    BY <1>0, <1>c, <2>2, <2>3 DEF NothingLost
  <2> QED
    BY <1>0, <1>c, <2>2, <2>3, <2>4, GoesOn
<1>13. CASE Commit(t)
  <2>1. /\ pc[t] = "committing" /\ pc' = [pc EXCEPT ![t] = "looping"] /\ conv' = conv
        /\ store' = conv[t] /\ UNCHANGED <<sends, pending, surfaced, excused>>
    BY <1>13 DEF Commit, Saved
  <2>2. NothingLost(t, News(conv[t]))
    BY <1>0, <1>c, <1>s, <2>1 DEF NothingLost
  <2> QED
    BY <1>0, <1>c, <1>s, <2>1, <2>2, GoesOn
<1>14. CASE Close(t)
  <2>1. /\ pc[t] \in {"closing", "looping"} /\ pc' = [pc EXCEPT ![t] = "done"]
        /\ conv' = [conv EXCEPT ![t] = <<>>] /\ store' = conv[t]
        /\ UNCHANGED <<sends, pending, surfaced, excused>>
    BY <1>14 DEF Close, Finish, FinishAt, Forget, Saved
  <2>2. NothingLost(t, {})
    BY <1>0, <1>c, <2>1 DEF NothingLost
  <2> QED
    BY <1>0, <1>c, <2>1, <2>2, IsOver
<1>15. CASE Catch(t)
  <2>1. /\ pc[t] = "failing" /\ pc' = [pc EXCEPT ![t] = "failed"]
        /\ conv' = [conv EXCEPT ![t] = <<>>]
        /\ UNCHANGED <<sends, pending, store, surfaced, excused>>
    BY <1>15 DEF Catch, Finish, FinishAt, Forget
  <2>2. NothingLost(t, {})
    BY <1>0, <1>c, <2>1 DEF NothingLost
  <2> QED
    BY <1>0, <1>c, <2>1, <2>2, IsOver
<1> QED
  BY <1>1, <1>2, <1>3, <1>4, <1>5, <1>6, <1>7, <1>8, <1>9, <1>10, <1>11, <1>12, <1>13,
     <1>14, <1>15, <1>16 DEF TurnStep

\* A tool call leaves the conversations alone; at most it makes its turn fail.
LEMMA CallSerial ==
  ASSUME SerialInv, NEW c \in Calls, CallStep(c)
  PROVE  SerialInv' /\ Known \subseteq Known'
<1>1. TypeOK' /\ UNCHANGED <<sends, conv, pending, store, surfaced, excused>>
  BY CallTypes DEF SerialInv, CallStep, UnknownTool, LogStart, Deny, GuardThrows, Execute,
     FallAsleep, EnterSleep, WakeUp, runState, turns, history
<1>2. CASE pc' = pc
  BY <1>1, <1>2 DEF SerialInv, FreshTurns, InFlight, Known, Held
<1>3. CASE pc' # pc
  <2>1. PICK t : t = by[c]
    OBVIOUS
  <2>2. GuardThrows(c)
    BY <1>3 DEF CallStep, UnknownTool, LogStart, Deny, Execute, FallAsleep, EnterSleep, WakeUp, turns
  <2>3. pc[t] = "tools" /\ pc' = [pc EXCEPT ![t] = "failing"]
    BY <1>3, <2>1, <2>2 DEF GuardThrows, Goto
  <2>4. t \in Turns
    <3>1. by[c] \in Turns \cup {0} /\ pc \in [Turns -> TurnStates]
      BY DEF SerialInv, TypeOK
    <3> QED
      BY <1>3, <2>1, <2>3, <3>1
  <2>5. conv' = [conv EXCEPT ![t] = conv[t]]
    BY <1>1, <2>4, SameState DEF SerialInv
  <2>6. /\ News(store) \subseteq News(conv[t]) \cup surfaced /\ News(conv[t]) \subseteq News(store)
    BY <2>3, <2>4 DEF SerialInv, InFlight
  <2>7. NothingLost(t, News(conv[t]))
    BY <1>1 DEF NothingLost
  <2> QED
    BY <1>1, <2>3, <2>4, <2>5, <2>6, <2>7, GoesOn DEF InFlight
<1> QED
  BY <1>2, <1>3

LEMMA SerialInit ==
  ASSUME Init
  PROVE  SerialInv
<1>1. TypeOK
  BY TypeCorrectInit
<1> QED
  BY <1>1 DEF Init, SerialInv, FreshTurns, InFlight

\* Nothing that is known is lost but by a crash, and by a crash no interject.
LEMMA SerialStep ==
  ASSUME Overlap = FALSE, SerialInv, [Next]_vars
  PROVE  /\ SerialInv'
         /\ Known \subseteq Known' \/ Restart
         /\ \A e \in Known : e.kind = "interject" => e \in Known'
<1>0. TypeOK' /\ pc \in [Turns -> TurnStates] /\ conv \in [Turns -> Seq(Message)]
      /\ pending \in Seq(Message) /\ sends \in 0 .. MaxSends
  BY TypeStep DEF SerialInv, TypeOK
<1>1. CASE Send
  <2>1. /\ sends + 1 \in Turns /\ pc' = [pc EXCEPT ![sends + 1] = "waiting"] /\ sends' = sends + 1
        /\ \A t \in Turns : ~InFlight(t)
        /\ UNCHANGED <<conv, pending, store, surfaced, excused>>
    BY <1>0, <1>1, Bounds DEF Send, Goto, Turns, runState
  <2>2. pc[sends + 1] = "none" /\ conv[sends + 1] = <<>>
    BY <1>0, <2>1 DEF SerialInv, FreshTurns
  <2>3. \A t \in Turns : InFlight(t)' => t = sends + 1
    BY <1>0, <2>1 DEF InFlight
  <2>4. FreshTurns'
    BY <1>0, <2>1 DEF SerialInv, FreshTurns, Turns
  <2>5. SerialInv'
    BY <1>0, <2>1, <2>2, <2>3, <2>4 DEF SerialInv, InFlight
  <2>6. Known \subseteq Known'
    BY <2>1 DEF Known, Held
  <2> QED
    BY <2>5, <2>6
<1>2. CASE Interject
  <2>1. News(pending) \subseteq News(pending')
    <3>1. interjects + 1 \in Interjects
      BY <1>2, Bounds DEF Interject, Interjects, SerialInv, TypeOK
    <3>2. Entry("interject", {interjects + 1}) \in Message
      BY <3>1, EntryType
    <3> QED
      BY <1>0, <1>2, <3>2, Pushed DEF Interject
  <2>2. UNCHANGED <<pc, conv, sends, store, surfaced, excused>>
    BY <1>2 DEF Interject, turns, history
  <2> QED
    BY <1>0, <2>1, <2>2 DEF SerialInv, FreshTurns, InFlight, Known, Held
<1>3. CASE Pause
  <2>1. UNCHANGED <<pc, conv, sends, pending, store, surfaced, excused>>
    BY <1>3 DEF Pause, turns, history
  <2> QED
    BY <1>0, <2>1 DEF SerialInv, FreshTurns, InFlight, Known, Held
<1>4. CASE Dispose
  <2>1. /\ UNCHANGED <<pc, conv, sends, store, surfaced>>
        /\ excused' = excused \cup News(pending)
    BY <1>4 DEF Dispose, turns
  <2> QED
    BY <1>0, <2>1 DEF SerialInv, FreshTurns, InFlight, Known, Held
<1>5. CASE Restart
  <2>1. /\ \A t \in Turns : ~InFlight(t)' /\ conv'[t] = <<>> /\ (pc'[t] = "none" <=> pc[t] = "none")
        /\ \A t \in Turns : pc'[t] \in {"none", "done", "failed", "lost"}
        /\ sends' = sends
    BY <1>0, <1>5 DEF Restart, InFlight
  <2>2. SerialInv'
    BY <1>0, <2>1 DEF SerialInv, FreshTurns
  <2>3. ASSUME NEW e \in Known, e.kind = "interject"
        PROVE  e \in Known'
    <3>1. store' = store /\ surfaced' = surfaced
          /\ excused' = {f \in excused \cup Volatile : f.kind = "interject"}
      BY <1>5 DEF Restart
    <3>2. e \in News(store) \cup surfaced \cup excused \cup Volatile
      BY DEF Known, Held, Volatile
    <3> QED
      BY <2>3, <3>1, <3>2 DEF Known, Held
  <2> QED
    BY <1>5, <2>2, <2>3
<1>6. CASE \E t \in Turns : TurnStep(t)
  BY <1>6, TurnSerial
<1>7. CASE \E c \in Calls : CallStep(c)
  BY <1>7, CallSerial
<1>8. CASE UNCHANGED vars
  BY <1>0, <1>8 DEF vars, runState, turns, history, SerialInv, FreshTurns, InFlight, Known, Held
<1> QED
  BY <1>1, <1>2, <1>3, <1>4, <1>5, <1>6, <1>7, <1>8 DEF Next

\* Only the host adds interjects.
LEMMA InterjectsCounted ==
  ASSUME [Next]_vars
  PROVE  interjects' = interjects \/ Interject
<1>1. ASSUME NEW t \in Turns, TurnStep(t)
      PROVE  interjects' = interjects
  BY <1>1 DEF TurnStep, Resume, DetectCrash, MarkQuerying, Summarize, Compact, Drain, DrainOf, Persist, ReadBack,
     Answer, Asks, AsksOf, PromptTooLong, RetryCompacted, CallFails, Collect, CollectOf, Commit,
     Close, Catch, Finish, FinishAt
<1>2. ASSUME NEW c \in Calls, CallStep(c)
      PROVE  interjects' = interjects
  BY <1>2 DEF CallStep, UnknownTool, LogStart, Deny, GuardThrows, Execute, FallAsleep, EnterSleep,
     WakeUp
<1> QED
  BY <1>1, <1>2 DEF Next, Send, Pause, Dispose, Restart, vars

\* What the host interjects is seen by an inference or still waits for one
\* (run-state.ts:42-69, query-loop.ts): it survives failed calls, aborted
\* turns and turns that end before they drain it, as long as turns do not
\* overlap.
THEOREM InterjectsCorrect ==
  ASSUME Overlap = FALSE
  PROVE  Spec => []InterjectsSurface
<1>1. Init => SerialInv /\ InterjectsSurface
  <2>1. Init => InterjectsSurface
    BY DEF Init, InterjectsSurface
  <2> QED
    BY <2>1, SerialInit
<1>2. SerialInv /\ InterjectsSurface /\ [Next]_vars => (SerialInv /\ InterjectsSurface)'
  <2> SUFFICES ASSUME SerialInv, InterjectsSurface, [Next]_vars
               PROVE  (SerialInv /\ InterjectsSurface)'
    OBVIOUS
  <2>1. SerialInv' /\ \A e \in Known : e.kind = "interject" => e \in Known'
    BY SerialStep
  <2>2. ASSUME NEW i \in 1 .. interjects
        PROVE  Entry("interject", {i}) \in Known'
    BY <2>1 DEF InterjectsSurface, Known, Entry
  <2>3. CASE interjects' = interjects
    BY <2>1, <2>2, <2>3 DEF InterjectsSurface, Known
  <2>4. CASE Interject
    <3>1. /\ interjects' = interjects + 1 /\ interjects \in Nat /\ pending \in Seq(Message)
          /\ pending' = Append(pending, Entry("interject", {interjects + 1}))
          /\ interjects + 1 \in Interjects
      BY <2>4, Bounds DEF Interject, SerialInv, TypeOK, Interjects
    <3>2. Entry("interject", {interjects + 1}) \in Message
          /\ Entry("interject", {interjects + 1}).kind = "interject"
      BY <3>1, EntryType DEF Entry
    <3>3. Entry("interject", {interjects + 1}) \in News(pending')
      BY <3>1, <3>2, Pushed
    <3>4. Entry("interject", {interjects + 1}) \in Known'
      BY <3>3 DEF Known, Held
    <3>5. \A i \in 1 .. interjects' : i \in 1 .. interjects \/ i = interjects + 1
      BY <3>1
    <3> QED
      BY <2>1, <2>2, <3>4, <3>5 DEF InterjectsSurface, Known
  <2> QED
    BY <2>3, <2>4, InterjectsCounted
<1> QED
  BY <1>1, <1>2, PTL DEF Spec

\* A step of a turn other than its tool calls: what becomes of the results.
\* The log is left alone, calls that are over stay so, and a result is added
\* only of a call that is not over.
LEMMA TurnResults ==
  ASSUME LostInv, NEW t \in Turns, TurnStep(t)
  PROVE  /\ log' = log /\ ran' = ran /\ interrupted' = interrupted /\ committed \subseteq committed'
         /\ \A c \in Calls : call'[c] \in {"logged", "asleep"} => c \in log
         /\ \A c \in Calls : call[c] = "over" => call'[c] = "over"
         /\ \A c \in Calls : call[c] # "unused" => call'[c] # "unused"
         /\ Results(pending') = {}
         /\ store' = store \/ (store' = conv[t] /\ Results(conv[t]) \subseteq committed')
         /\ \A u \in Turns : u # t => conv'[u] = conv[u]
         /\ Results(conv'[t]) \subseteq Results(conv[t]) \cup Results(store)
                                          \cup {c \in Calls : call[c] # "over"}
<1>0. /\ conv \in [Turns -> Seq(Message)] /\ conv[t] \in Seq(Message)
      /\ pending \in Seq(Message) /\ Results(pending) = {}
      /\ \A c \in Calls : call[c] \in {"logged", "asleep"} => c \in log
      /\ call \in [Calls -> CallStates]
  BY DEF LostInv, SerialInv, TypeOK
<1>1. ASSUME UNCHANGED <<log, ran, interrupted>>, committed \subseteq committed',
             UNCHANGED call \/ \A c \in Calls : call'[c] \in {call[c], "over"},
             Results(pending') = {},
             store' = store \/ (store' = conv[t] /\ Results(conv[t]) \subseteq committed'),
             NEW m, conv' = [conv EXCEPT ![t] = m],
             Results(m) \subseteq Results(conv[t]) \cup Results(store)
                                          \cup {c \in Calls : call[c] # "over"}
      PROVE  /\ log' = log /\ ran' = ran /\ interrupted' = interrupted /\ committed \subseteq committed'
             /\ \A c \in Calls : call'[c] \in {"logged", "asleep"} => c \in log
             /\ \A c \in Calls : call[c] = "over" => call'[c] = "over"
             /\ \A c \in Calls : call[c] # "unused" => call'[c] # "unused"
             /\ Results(pending') = {}
             /\ store' = store \/ (store' = conv[t] /\ Results(conv[t]) \subseteq committed')
             /\ \A u \in Turns : u # t => conv'[u] = conv[u]
             /\ Results(conv'[t]) \subseteq Results(conv[t]) \cup Results(store)
                                              \cup {c \in Calls : call[c] # "over"}
  BY <1>0, <1>1
<1>s. conv = [conv EXCEPT ![t] = conv[t]]
  BY <1>0
<1> USE DEF Goto, Say, runState, turns, tools, history
<1>2. CASE Resume(t)
  <2>1. /\ UNCHANGED <<log, ran, interrupted, committed, call, pending, store>>
        /\ conv' = [conv EXCEPT ![t] = store]
    BY <1>2 DEF Resume
  <2> QED
    BY <1>0, <1>1, <2>1
<1>3. CASE DetectCrash(t)
  <2>1. UNCHANGED <<log, ran, interrupted, committed, call, store, conv>>
    BY <1>3 DEF DetectCrash
  <2>2. Results(pending') = {}
    <3>1. /\ Entry("report", Artifacts(t)) \in Message
          /\ Entry("report", Artifacts(t)).kind = "report"
      BY EntryType DEF Artifacts, LostInv, SerialInv, TypeOK, Entry
    <3> QED
      BY <1>0, <1>3, <3>1, Pushed DEF DetectCrash
  <2> QED
    BY <1>1, <1>s, <2>1, <2>2
<1>4. CASE MarkQuerying(t)
  <2>1. PICK m : m = Append(conv[t], Entry("prompt", {t}))
    OBVIOUS
  <2>2. /\ UNCHANGED <<log, ran, interrupted, committed, call, pending, store>>
        /\ conv' = [conv EXCEPT ![t] = m]
    BY <1>0, <1>4, <2>1 DEF MarkQuerying
  <2>3. Results(m) \subseteq Results(conv[t])
    <3>1. Entry("prompt", {t}) \in Message /\ Entry("prompt", {t}).kind = "prompt"
      BY EntryType DEF Entry
    <3> QED
      BY <1>0, <2>1, <3>1, Pushed
  <2> QED
    BY <1>0, <1>1, <2>2, <2>3
<1>5. CASE Compact(t)
  <2>1. PICK m \in Compactions(conv[t]) : conv' = [conv EXCEPT ![t] = m]
    BY <1>5 DEF Compact, Compacted
  <2>2. UNCHANGED <<log, ran, interrupted, committed, call, pending, store>>
    BY <1>5 DEF Compact
  <2>3. Results(m) \subseteq Results(conv[t])
    BY <1>0, CompactionsResults
  <2> QED
    BY <1>0, <1>1, <2>1, <2>2, <2>3
<1>6. CASE Drain(t)
  <2>1. PICK m : m = conv[t] \o pending
    OBVIOUS
  <2>2. /\ UNCHANGED <<log, ran, interrupted, committed, call, store>> /\ pending' = <<>>
        /\ conv' = [conv EXCEPT ![t] = m]
    BY <1>0, <1>6, <2>1 DEF Drain, DrainOf
  <2>3. Results(m) \subseteq Results(conv[t])
    BY <1>0, <2>1, Joined
  <2> QED
    BY <1>0, <1>1, <2>2, <2>3, NothingYet
<1>7. CASE Persist(t) \/ Commit(t)
  <2>1. /\ UNCHANGED <<log, ran, interrupted, call, pending, conv>> /\ store' = conv[t]
        /\ committed' = committed \cup Results(conv[t])
    BY <1>7 DEF Persist, Commit, Saved
  <2> QED
    BY <1>0, <1>1, <1>s, <2>1
<1>8. CASE ReadBack(t)
  <2>1. /\ UNCHANGED <<log, ran, interrupted, committed, call, pending, store>>
        /\ conv' = [conv EXCEPT ![t] = store]
    BY <1>8 DEF ReadBack
  <2> QED
    BY <1>0, <1>1, <2>1
<1>9. CASE Answer(t)
  <2>1. PICK m : m = Append(conv[t], Text)
    OBVIOUS
  <2>2. /\ UNCHANGED <<log, ran, interrupted, committed, call, pending, store>>
        /\ conv' = [conv EXCEPT ![t] = m]
    BY <1>0, <1>9, <2>1 DEF Answer
  <2>3. Results(m) \subseteq Results(conv[t])
    <3>1. Text.kind # "results"
      BY DEF Text, Entry
    <3> QED
      BY <1>0, <2>1, <3>1, TextType, Pushed
  <2> QED
    BY <1>0, <1>1, <2>2, <2>3
<1>10. CASE Asks(t)
  <2>1. PICK new \in SUBSET {c \in Calls : call[c] = "unused"} :
          /\ conv' = [conv EXCEPT ![t] = Append(@, Entry("uses", new))]
          /\ call' = [c \in Calls |-> IF c \in new THEN "asked" ELSE call[c]]
    BY <1>10 DEF Asks, AsksOf
  <2>2. PICK m : m = Append(conv[t], Entry("uses", new))
    OBVIOUS
  <2>3. /\ UNCHANGED <<log, ran, interrupted, committed, pending, store>>
        /\ conv' = [conv EXCEPT ![t] = m]
    BY <1>0, <1>10, <2>1, <2>2 DEF Asks, AsksOf
  <2>4. Results(m) \subseteq Results(conv[t])
    <3>1. Entry("uses", new) \in Message /\ Entry("uses", new).kind = "uses"
      BY EntryType DEF Entry
    <3> QED
      BY <1>0, <2>2, <3>1, Pushed
  <2>5. /\ \A c \in Calls : call'[c] \in {"logged", "asleep"} => c \in log
        /\ \A c \in Calls : call[c] = "over" => call'[c] = "over"
        /\ \A c \in Calls : call[c] # "unused" => call'[c] # "unused"
    BY <1>0, <2>1
  <2> QED
    BY <1>0, <2>3, <2>4, <2>5
<1>11. CASE PromptTooLong(t)
  <2>1. UNCHANGED <<log, ran, interrupted, committed, call, pending, store>>
    BY <1>11 DEF PromptTooLong, RetryCompacted
  <2>2. CASE UNCHANGED conv
    BY <1>0, <1>1, <1>s, <2>1, <2>2
  <2>3. CASE \E msgs \in Compactions(conv[t]) : Compacted(t, msgs)
    <3>1. PICK m \in Compactions(conv[t]) : conv' = [conv EXCEPT ![t] = m]
      BY <2>3 DEF Compacted
    <3>2. Results(m) \subseteq Results(conv[t])
      BY <1>0, CompactionsResults
    <3> QED
      BY <1>0, <1>1, <2>1, <3>1, <3>2
  <2> QED
    BY <1>11, <2>2, <2>3 DEF PromptTooLong, RetryCompacted
<1>12. CASE CallFails(t) \/ Summarize(t)
  <2>1. UNCHANGED <<log, ran, interrupted, committed, call, pending, store, conv>>
    BY <1>12 DEF CallFails, Summarize
  <2> QED
    BY <1>0, <1>1, <1>s, <2>1
<1>13. CASE Collect(t)
  <2>1. PICK m : m = Append(conv[t], Entry("results", Asked(t)))
    OBVIOUS
  <2>2. /\ UNCHANGED <<log, ran, interrupted, committed, pending, store>>
        /\ conv' = [conv EXCEPT ![t] = m]
        /\ \A c \in Calls : call'[c] \in {call[c], "over"}
    BY <1>0, <1>13, <2>1 DEF Collect, CollectOf
  <2>3. Results(m) \subseteq Results(conv[t]) \cup Asked(t)
    <3>1. /\ Entry("results", Asked(t)) \in Message
          /\ Entry("results", Asked(t)).ids = Asked(t)
      BY EntryType DEF Entry, Asked
    <3> QED
      BY <1>0, <2>1, <3>1, Pushed
  <2>4. Asked(t) \subseteq {c \in Calls : call[c] # "over"}
    BY DEF Asked
  <2> QED
    BY <1>0, <1>1, <2>2, <2>3, <2>4
<1>14. CASE Close(t)
  <2>1. /\ UNCHANGED <<log, ran, interrupted, call, pending>> /\ store' = conv[t]
        /\ committed' = committed \cup Results(conv[t])
        /\ conv' = [conv EXCEPT ![t] = <<>>]
    BY <1>14 DEF Close, Finish, FinishAt, Forget, Saved
  <2> QED
    BY <1>0, <1>1, <2>1, NothingYet
<1>15. CASE Catch(t)
  <2>1. /\ UNCHANGED <<log, ran, interrupted, committed, call, pending, store>>
        /\ conv' = [conv EXCEPT ![t] = <<>>]
    BY <1>15 DEF Catch, Finish, FinishAt, Forget
  <2> QED
    BY <1>0, <1>1, <2>1, NothingYet
<1> QED
  BY <1>2, <1>3, <1>4, <1>5, <1>6, <1>7, <1>8, <1>9, <1>10, <1>11, <1>12, <1>13, <1>14, <1>15
  DEF TurnStep

\* The first resume of a process looks for interrupted calls, and finds all.
LEMMA TurnLooks ==
  ASSUME LostInv, NEW t \in Turns, TurnStep(t)
  PROVE  \/ checked' = checked /\ \A u \in Turns : pc[u] = "checking" => pc'[u] = "checking"
         \/ \E u \in Turns : pc'[u] = "checking"
         \/ \A c \in interrupted : \E e \in Known' : e.kind = "report" /\ c \in e.ids
<1>0. /\ pc \in [Turns -> TurnStates] /\ pending \in Seq(Message) /\ log \subseteq Calls
      /\ SerialInv /\ interrupted \subseteq ran /\ ran \subseteq log
  BY DEF LostInv, SerialInv, TypeOK
<1>1. CASE Resume(t)
  <2>1. CASE checked
    BY <1>0, <1>1, <2>1 DEF Resume, Begin, Goto
  <2>2. CASE ~checked
    BY <1>0, <1>1, <2>2 DEF Resume, Goto
  <2> QED
    BY <2>1, <2>2
<1>2. CASE DetectCrash(t)
  <2>1. conv[t] = store /\ interrupted \cap Results(store) = {}
    BY <1>2 DEF DetectCrash, LostInv, SerialInv
  <2>2. interrupted \subseteq Artifacts(t)
    BY <1>0, <2>1 DEF Artifacts
  <2>3. CASE interrupted = {}
    BY <2>3
  <2>4. CASE interrupted # {}
    <3>1. pending' = Append(pending, Entry("report", Artifacts(t)))
      BY <1>2, <2>2, <2>4 DEF DetectCrash
    <3>2. /\ Entry("report", Artifacts(t)) \in Message
          /\ Entry("report", Artifacts(t)).kind = "report"
          /\ Entry("report", Artifacts(t)).ids = Artifacts(t)
      BY <1>0, EntryType DEF Artifacts, Entry
    <3>3. Entry("report", Artifacts(t)) \in News(pending')
      BY <1>0, <3>1, <3>2, Pushed
    <3>4. Entry("report", Artifacts(t)) \in Known'
      BY <3>3 DEF Known, Held
    <3> QED
      BY <2>2, <3>2, <3>4
  <2> QED
    BY <2>3, <2>4
<1>3. CASE /\ ~Resume(t) /\ ~DetectCrash(t)
  <2>1. checked' = checked /\ pc[t] # "checking"
    BY <1>3 DEF TurnStep, MarkQuerying, Summarize, Compact, Drain, DrainOf, Persist, ReadBack, Answer,
       Asks, AsksOf, PromptTooLong, RetryCompacted, CallFails, Collect, CollectOf, Commit,
       Close, Catch, Finish, FinishAt
  <2>2. \A u \in Turns : u # t => pc'[u] = pc[u]
    BY <1>0, <1>3 DEF TurnStep, MarkQuerying, Summarize, Compact, Drain, DrainOf, Persist, ReadBack, Answer,
       Asks, AsksOf, PromptTooLong, RetryCompacted, CallFails, Collect, CollectOf, Commit,
       Close, Catch, Finish, FinishAt, Goto
  <2> QED
    BY <2>1, <2>2
<1> QED
  BY <1>1, <1>2, <1>3

\* The steps of a tool call: it is logged before it runs.
LEMMA CallLogged ==
  ASSUME LostInv, NEW c \in Calls, CallStep(c)
  PROVE  /\ UNCHANGED <<conv, store, pending, checked, interrupted, committed>>
         /\ log \subseteq log' /\ ran' \subseteq {d \in log' : call'[d] # "unused"}
         /\ \A d \in Calls : call'[d] \in {"logged", "asleep"} => d \in log'
         /\ \A d \in Calls : call[d] = "over" => call'[d] = "over"
         /\ \A u \in Turns : pc[u] = "checking" => pc'[u] = "checking"
<1>0. /\ call \in [Calls -> CallStates] /\ pc \in [Turns -> TurnStates]
      /\ ran \subseteq {d \in log : call[d] # "unused"}
      /\ \A d \in Calls : call[d] \in {"logged", "asleep"} => d \in log
  BY DEF LostInv, SerialInv, TypeOK
<1> USE DEF runState, turns, tools, history
<1>1. CASE LogStart(c)
  BY <1>0, <1>1 DEF LogStart
<1>2. CASE GuardThrows(c)
  BY <1>0, <1>2 DEF GuardThrows, Goto
<1>3. CASE Execute(c)
  BY <1>0, <1>3 DEF Execute
<1>4. CASE FallAsleep(c)
  BY <1>0, <1>4 DEF FallAsleep, EnterSleep
<1>5. CASE UnknownTool(c)
  BY <1>0, <1>5 DEF UnknownTool
<1>6. CASE Deny(c)
  BY <1>0, <1>6 DEF Deny
<1>7. CASE WakeUp(c)
  BY <1>0, <1>7 DEF WakeUp
<1> QED
  BY <1>1, <1>2, <1>3, <1>4, <1>5, <1>6, <1>7 DEF CallStep

\* Nothing is lost of what is known, and the next process has yet to look.
LEMMA StillSurface ==
  ASSUME InterruptedCallsSurface, interrupted' = interrupted, Known \subseteq Known',
         \/ checked' = checked /\ \A u \in Turns : pc[u] = "checking" => pc'[u] = "checking"
         \/ \E u \in Turns : pc'[u] = "checking"
         \/ \A c \in interrupted : \E e \in Known' : e.kind = "report" /\ c \in e.ids
  PROVE  InterruptedCallsSurface'
BY DEF InterruptedCallsSurface, Known

LEMMA LostStep ==
  ASSUME Overlap = FALSE, LostInv, [Next]_vars
  PROVE  LostInv'
<1>s. /\ SerialInv /\ SerialInv' /\ (Known \subseteq Known' \/ crashes' = crashes + 1)
  <2>1. SerialInv
    BY DEF LostInv
  <2>2. SerialInv' /\ (Known \subseteq Known' \/ Restart)
    BY <2>1, SerialStep
  <2> QED
    BY <2>1, <2>2 DEF Restart
<1>0. /\ SerialInv /\ SerialInv' /\ (Known \subseteq Known' \/ crashes' = crashes + 1)
      /\ crashes \in Nat
      /\ pending \in Seq(Message) /\ interrupted \subseteq Calls
      /\ call \in [Calls -> CallStates] /\ ran \subseteq Calls /\ committed \subseteq Calls
      /\ interrupted \subseteq ran
  <2>1. TypeOK
    BY <1>s DEF SerialInv
  <2>2. crashes \in Nat
    BY <2>1, Bounds DEF TypeOK
  <2> QED
    BY <1>s, <2>1, <2>2 DEF TypeOK
<1>1. ASSUME NEW t \in Turns, TurnStep(t)
      PROVE  LostInv'
  <2>1. /\ log' = log /\ ran' = ran /\ interrupted' = interrupted /\ committed \subseteq committed'
        /\ \A c \in Calls : call'[c] \in {"logged", "asleep"} => c \in log
        /\ \A c \in Calls : call[c] = "over" => call'[c] = "over"
        /\ \A c \in Calls : call[c] # "unused" => call'[c] # "unused"
        /\ Results(pending') = {}
        /\ store' = store \/ (store' = conv[t] /\ Results(conv[t]) \subseteq committed')
        /\ \A u \in Turns : u # t => conv'[u] = conv[u]
        /\ Results(conv'[t]) \subseteq Results(conv[t]) \cup Results(store)
                                         \cup {c \in Calls : call[c] # "over"}
    BY <1>1, TurnResults
  <2>2. Known \subseteq Known'
    BY <1>0, <1>1, TurnSerial
  <2>3. InterruptedCallsSurface'
    BY <1>1, <2>1, <2>2, TurnLooks, StillSurface DEF LostInv
  <2>4. ASSUME NEW c \in interrupted'
        PROVE  /\ call'[c] = "over" /\ c \notin Results(store')
               /\ \A u \in Turns : c \notin Results(conv'[u])
    <3>1. /\ c \in Calls /\ call[c] = "over" /\ c \notin Results(store)
          /\ \A u \in Turns : c \notin Results(conv[u])
      BY <1>0, <2>1 DEF LostInv
    <3>2. c \notin Results(conv'[t])
      BY <2>1, <3>1
    <3> QED
      BY <2>1, <3>1, <3>2
  <2>5. Results(store') \subseteq committed'
    BY <2>1 DEF LostInv
  <2>6. ran' \subseteq {c \in log' : call'[c] # "unused"}
    BY <1>0, <2>1 DEF LostInv
  <2> QED
    BY <1>0, <2>1, <2>3, <2>4, <2>5, <2>6 DEF LostInv
<1>2. ASSUME NEW c \in Calls, CallStep(c)
      PROVE  LostInv'
  <2>1. /\ UNCHANGED <<conv, store, pending, checked, interrupted, committed>>
        /\ log \subseteq log' /\ ran' \subseteq {d \in log' : call'[d] # "unused"}
        /\ \A d \in Calls : call'[d] \in {"logged", "asleep"} => d \in log'
        /\ \A d \in Calls : call[d] = "over" => call'[d] = "over"
        /\ \A u \in Turns : pc[u] = "checking" => pc'[u] = "checking"
    BY <1>2, CallLogged
  <2>2. Known \subseteq Known'
    BY <1>0, <1>2, CallSerial
  <2>3. InterruptedCallsSurface'
    BY <2>1, <2>2, StillSurface DEF LostInv
  <2> QED
    BY <1>0, <2>1, <2>3 DEF LostInv
<1>3. CASE Restart
  <2>1. /\ checked' = FALSE /\ pending' = <<>> /\ UNCHANGED <<log, ran, store, committed>>
        /\ \A t \in Turns : conv'[t] = <<>>
        /\ interrupted' = interrupted \cup (ran \ committed)
        /\ \A c \in Calls : call'[c] = IF call[c] = "unused" THEN "unused" ELSE "over"
    BY <1>3 DEF Restart
  <2>2. Results(store) \subseteq committed /\ ran \subseteq log
    BY DEF LostInv
  <2>3. ASSUME NEW c \in ran
        PROVE  c \in Calls /\ call[c] # "unused"
    BY <1>0 DEF LostInv
  <2>4. ASSUME NEW c \in interrupted'
        PROVE  /\ call'[c] = "over" /\ c \notin Results(store')
               /\ \A u \in Turns : c \notin Results(conv'[u])
    <3>1. c \notin Results(store) /\ c \in ran
      BY <1>0, <2>1, <2>2 DEF LostInv
    <3> QED
      BY <2>1, <2>3, <3>1, NothingYet
  <2>5. InterruptedCallsSurface'
    BY <2>1 DEF InterruptedCallsSurface
  <2>6. \A c \in Calls : call'[c] \notin {"logged", "asleep"}
    BY <2>1
  <2>7. ran' \subseteq {c \in log' : call'[c] # "unused"}
    BY <2>1, <2>2, <2>3
  <2> QED
    BY <1>0, <2>1, <2>2, <2>4, <2>5, <2>6, <2>7, NothingYet DEF LostInv
<1>4. CASE Interject
  <2>1. Results(pending') = {}
    <3>1. interjects + 1 \in Interjects
      BY <1>4, Bounds DEF Interject, Interjects, LostInv, SerialInv, TypeOK
    <3>2. /\ Entry("interject", {interjects + 1}) \in Message
          /\ Entry("interject", {interjects + 1}).kind = "interject"
      BY <3>1, EntryType DEF Entry
    <3> QED
      BY <1>0, <1>4, <3>2, Pushed DEF Interject, LostInv
  <2>2. UNCHANGED <<call, log, ran, store, committed, interrupted, conv, checked, pc>>
    BY <1>4 DEF Interject, turns, tools, history
  <2>3. Known \subseteq Known'
    BY <1>0, <1>4 DEF Interject
  <2>4. InterruptedCallsSurface'
    BY <2>2, <2>3, StillSurface DEF LostInv
  <2> QED
    BY <1>0, <2>1, <2>2, <2>4 DEF LostInv
<1>5. CASE Send
  <2>1. UNCHANGED <<call, log, ran, store, committed, interrupted, conv, checked, pending>>
    BY <1>5 DEF Send, tools, runState
  <2>2. \A u \in Turns : pc[u] = "checking" => pc'[u] = "checking"
    BY <1>5 DEF Send, InFlight
  <2>3. Known \subseteq Known'
    BY <1>0, <1>5 DEF Send
  <2>4. InterruptedCallsSurface'
    BY <2>1, <2>2, <2>3, StillSurface DEF LostInv
  <2> QED
    BY <1>0, <2>1, <2>4 DEF LostInv
<1>6. CASE Pause \/ Dispose \/ UNCHANGED vars
  <2>1. /\ UNCHANGED <<call, log, ran, store, committed, interrupted, conv, checked, pc>>
        /\ pending' \in {pending, <<>>}
    BY <1>6 DEF Pause, Dispose, vars, turns, tools, history, runState
  <2>2. Known \subseteq Known'
    <3>1. CASE Dispose
      BY <3>1 DEF Dispose, turns, Known, Held, InFlight
    <3>2. CASE Pause \/ UNCHANGED vars
      BY <3>2 DEF Pause, vars, turns, history, runState, Known, Held, InFlight
    <3> QED
      BY <1>6, <3>1, <3>2
  <2>3. InterruptedCallsSurface'
    BY <2>1, <2>2, StillSurface DEF LostInv
  <2> QED
    BY <1>0, <2>1, <2>3, NothingYet DEF LostInv
<1> QED
  BY <1>1, <1>2, <1>3, <1>4, <1>5, <1>6 DEF Next

\* A tool call that ran in a process that died is never forgotten
\* (crash-detector.ts, session-controller.ts), through any number of
\* restarts, as long as turns do not overlap.
THEOREM InterruptedCorrect ==
  ASSUME Overlap = FALSE
  PROVE  Spec => []InterruptedCallsSurface
<1>1. Init => LostInv
  <2>1. Init => Results(pending) = {} /\ Results(store) = {}
    BY NothingYet DEF Init
  <2> QED
    BY <2>1, SerialInit DEF Init, LostInv, InterruptedCallsSurface
<1>2. LostInv /\ [Next]_vars => LostInv'
  BY LostStep
<1>3. LostInv => InterruptedCallsSurface
  BY DEF LostInv
<1> QED
  BY <1>1, <1>2, <1>3, PTL DEF Spec

-----------------------------------------------------------------------------
(* What keeps a conversation paired *)

LEMMA PairedConcat ==
  ASSUME NEW msgs \in Seq(Message), NEW more \in Seq(Message), Paired(msgs),
         \A n \in DOMAIN more : more[n].kind # "uses"
  PROVE  Paired(msgs \o more)
BY DEF Paired

LEMMA PairedAppend ==
  ASSUME NEW msgs \in Seq(Message), NEW entry \in Message, Paired(msgs),
         entry.kind # "uses"
  PROVE  Paired(Append(msgs, entry))
BY DEF Paired

\* Tool calls and their results, pushed one after the other.
LEMMA PairedAnswered ==
  ASSUME NEW base \in Seq(Message), Paired(base), NEW ids \in SUBSET Calls
  PROVE  Paired(Append(Append(base, Entry("uses", ids)), Entry("results", ids)))
<1>1. Entry("uses", ids) \in Message /\ Entry("results", ids) \in Message
  BY EntryType
<1>2. /\ Entry("uses", ids).ids = ids
      /\ Entry("results", ids).kind = "results"
  BY DEF Entry
<1> DEFINE asking == Entry("uses", ids)
           answer == Entry("results", ids)
           whole == Append(Append(base, asking), answer)
<1> HIDE DEF asking, answer
<1>3. /\ Len(whole) = Len(base) + 2 /\ DOMAIN whole = 1 .. Len(base) + 2
      /\ \A n \in 1 .. Len(base) : whole[n] = base[n]
      /\ whole[Len(base) + 1] = asking /\ whole[Len(base) + 2] = answer
  BY <1>1 DEF asking, answer
<1>4. ASSUME NEW n \in DOMAIN whole, whole[n].kind = "uses"
      PROVE  n < Len(whole) /\ whole[n + 1] = Entry("results", whole[n].ids)
  <2>1. CASE n <= Len(base)
    <3>1. n < Len(base) /\ base[n + 1] = Entry("results", base[n].ids)
      BY <1>3, <1>4, <2>1 DEF Paired
    <3> QED
      BY <1>3, <2>1, <3>1
  <2>2. CASE n = Len(base) + 1
    BY <1>2, <1>3, <2>2 DEF asking, answer
  <2>3. CASE n = Len(base) + 2
    BY <1>2, <1>3, <1>4, <2>3 DEF answer
  <2> QED
    BY <1>3, <2>1, <2>2, <2>3
<1> QED
  BY <1>4 DEF Paired, asking, answer

\* An old pair becomes text on both sides; a pair that is kept is not touched
\* on either side, since what precedes a call is never an old call.
LEMMA PairedClearOldPairs ==
  ASSUME NEW msgs \in Seq(Message), Paired(msgs)
  PROVE  Paired(ClearOldPairs(msgs))
<1> DEFINE uses == {n \in DOMAIN msgs : msgs[n].kind = "uses"}
           old == {n \in uses : Cardinality({m \in uses : m > n}) >= KeepPairs}
           cleared == ClearOldPairs(msgs)
<1>1. cleared = [n \in 1 .. Len(msgs) |-> IF n \in old \/ n - 1 \in old THEN Text ELSE msgs[n]]
  BY DEF ClearOldPairs
<1>2. old \subseteq {n \in 1 .. Len(msgs) : msgs[n].kind = "uses"}
  OBVIOUS
<1>3. Len(cleared) = Len(msgs) /\ DOMAIN cleared = 1 .. Len(msgs)
  BY <1>1, ClearOldPairsType
<1> HIDE DEF old, cleared
<1>4. ASSUME NEW n \in 1 .. Len(msgs), cleared[n].kind = "uses"
      PROVE  n < Len(msgs) /\ cleared[n + 1] = Entry("results", cleared[n].ids)
  <2>1. n \notin old /\ cleared[n] = msgs[n]
    BY <1>1, <1>4 DEF Text, Entry
  <2>2. n < Len(msgs) /\ msgs[n + 1] = Entry("results", msgs[n].ids)
    BY <1>4, <2>1 DEF Paired
  <2>3. n + 1 \notin old
    BY <1>2, <2>2 DEF Entry
  <2>4. cleared[n + 1] = msgs[n + 1]
    BY <1>1, <2>1, <2>2, <2>3
  <2> QED
    BY <2>1, <2>2, <2>4
<1> QED
  BY <1>3, <1>4 DEF Paired, cleared

\* The newest messages behind a summary: a call that is kept is followed by
\* what followed it.
LEMMA PairedKeepNewest ==
  ASSUME NEW msgs \in Seq(Message), Paired(msgs), NEW n \in 0 .. Len(msgs)
  PROVE  Paired(KeepNewest(msgs, n))
<1> DEFINE first == Len(msgs) - n
           kept == SubSeq(msgs, first + 1, Len(msgs))
<1>1. first \in Nat /\ Len(kept) = n /\ \A m \in 1 .. n : kept[m] = msgs[first + m]
  OBVIOUS
<1>2. Len(KeepNewest(msgs, n)) = n + 1 /\ KeepNewest(msgs, n)[1] = Text
  BY <1>1 DEF KeepNewest
<1>3. \A m \in 1 .. n : KeepNewest(msgs, n)[m + 1] = msgs[first + m]
  BY <1>1 DEF KeepNewest
<1>4. ASSUME NEW m \in 1 .. n, msgs[first + m].kind = "uses"
      PROVE  m < n /\ msgs[first + m + 1] = Entry("results", msgs[first + m].ids)
  <2> DEFINE k == first + m
  <2>1. k \in DOMAIN msgs /\ (k < Len(msgs) => m < n)
    BY SMTT(30), <1>1
  <2> HIDE DEF k
  <2>2. k < Len(msgs) /\ msgs[k + 1] = Entry("results", msgs[k].ids)
    <3>1. msgs[k].kind = "uses"
      BY <1>4 DEF k
    <3> QED
      BY <2>1, <3>1 DEF Paired
  <2> QED
    BY <2>1, <2>2 DEF k
<1> DEFINE whole == KeepNewest(msgs, n)
<1> HIDE DEF whole
<1>5. ASSUME NEW k \in DOMAIN whole, whole[k].kind = "uses"
      PROVE  k < Len(whole) /\ whole[k + 1] = Entry("results", whole[k].ids)
  <2>1. Len(whole) = n + 1 /\ k \in 1 .. n + 1 /\ k # 1
    <3>1. DOMAIN whole = 1 .. Len(whole)
      BY TextType DEF whole, KeepNewest
    <3> QED
      BY <1>2, <1>5, <3>1 DEF whole, Text, Entry
  <2> DEFINE m == k - 1
  <2>2. n \in Nat /\ m \in 1 .. n /\ k = m + 1 /\ m + 1 \in Nat
    BY <2>1
  <2> HIDE DEF m
  <2>3. whole[k] = msgs[first + m]
    BY <1>3, <2>2 DEF whole
  <2>4. m < n /\ msgs[first + m + 1] = Entry("results", msgs[first + m].ids)
    BY <1>4, <1>5, <2>2, <2>3
  <2>5. whole[k + 1] = msgs[first + (m + 1)]
    <3>1. m + 1 \in 1 .. n /\ k + 1 = (m + 1) + 1
      BY <2>2, <2>4
    <3> QED
      BY <1>3, <3>1 DEF whole
  <2> QED
    BY <1>1, <2>1, <2>2, <2>3, <2>4, <2>5
<1> QED
  BY <1>5 DEF Paired, whole

\* No compaction takes the results of a call away from it.
LEMMA PairedCompactions ==
  ASSUME NEW msgs \in Seq(Message), Paired(msgs), NEW result \in Compactions(msgs)
  PROVE  Paired(result)
<1>1. /\ ClearOldPairs(msgs) \in Seq(Message) /\ Len(ClearOldPairs(msgs)) = Len(msgs)
      /\ Paired(ClearOldPairs(msgs))
  BY ClearOldPairsType, PairedClearOldPairs
<1>2. \A n \in KeepRecent .. Len(msgs) - 2 : n \in 0 .. Len(ClearOldPairs(msgs))
  BY <1>1, Bounds
<1> QED
  BY <1>1, <1>2, PairedKeepNewest DEF Compactions

\* The beginning of a paired conversation: only its last message can be a call
\* whose results are cut off.
LEMMA PairedPrefix ==
  ASSUME NEW msgs \in Seq(Message), Paired(msgs), NEW n \in 0 .. Len(msgs)
  PROVE  PairedBefore(SubSeq(msgs, 1, n))
<1>1. /\ Len(SubSeq(msgs, 1, n)) = n
      /\ \A m \in 1 .. n : SubSeq(msgs, 1, n)[m] = msgs[m]
  OBVIOUS
<1>2. ASSUME NEW m \in 1 .. n - 1, msgs[m].kind = "uses"
      PROVE  msgs[m + 1] = Entry("results", msgs[m].ids)
  BY <1>2 DEF Paired
<1>3. \A m \in 1 .. n - 1 : m \in 1 .. n /\ m + 1 \in 1 .. n
  OBVIOUS
<1> QED
  BY <1>1, <1>2, <1>3 DEF PairedBefore

\* What the summarize layer gives its provider.
LEMMA PairedBriefs ==
  ASSUME NEW msgs \in Seq(Message), Paired(msgs), NEW brief \in Briefs(msgs)
  PROVE  PairedBefore(brief)
<1>1. /\ ClearOldPairs(msgs) \in Seq(Message) /\ Len(ClearOldPairs(msgs)) = Len(msgs)
      /\ Paired(ClearOldPairs(msgs))
  BY ClearOldPairsType, PairedClearOldPairs
<1>2. \A n \in KeepRecent .. Len(msgs) - 2 : Len(msgs) - n \in 0 .. Len(ClearOldPairs(msgs))
  BY <1>1, Bounds
<1> QED
  BY <1>1, <1>2, PairedPrefix DEF Briefs

-----------------------------------------------------------------------------
(* The invariant *)

\* Nothing that waits in the interject queue is a tool call.
PendingIsSpeech == \A n \in DOMAIN pending : pending[n].kind # "uses"

UnusedUnowned == \A c \in Calls : call[c] = "unused" => by[c] = 0

\* A turn's conversation is paired, except while its last message is a
\* response whose tools run, or once it has failed.
TurnPaired(t) ==
  /\ pc[t] \notin {"tools", "failing"} => Paired(conv[t])
  /\ pc[t] = "tools" =>
       \E base \in Seq(Message) :
         Paired(base) /\ conv[t] = Append(base, Entry("uses", Asked(t)))

PairParts ==
  /\ Paired(store) /\ PendingIsSpeech /\ UnusedUnowned
  /\ \A t \in Turns : TurnPaired(t)

PairInv == RestInv /\ PairParts

\* A turn that is not running tools, and has not failed, owes no results.
LEMMA NothingOwed ==
  ASSUME RestInv, UnusedUnowned, NEW t \in Turns,
         pc[t] \notin {"tools", "failing", "failed"}
  PROVE  Asked(t) = {}
BY DEF RestInv, CallsBelong, UnusedUnowned, Asked, TypeOK, CallStates, Turns

\* A step of one turn leaves the others as they were.
LEMMA OthersPaired ==
  ASSUME PairInv, NEW t \in Turns, NEW u \in Turns, u # t,
         pc'[u] = pc[u], conv'[u] = conv[u], Asked(u)' = Asked(u)
  PROVE  TurnPaired(u)'
BY DEF PairInv, PairParts, TurnPaired

\* What a step of turn t outside its tools has to show: t's messages are paired
\* afterwards, or it has failed.
LEMMA OwnStep ==
  ASSUME PairInv, NEW t \in Turns, UNCHANGED <<call, by>>,
         NEW label \in TurnStates \ {"tools"}, pc' = [pc EXCEPT ![t] = label],
         NEW msgs, conv' = [conv EXCEPT ![t] = msgs],
         label = "failing" \/ Paired(msgs)
  PROVE  UnusedUnowned' /\ \A u \in Turns : TurnPaired(u)'
<1>1. pc \in [Turns -> TurnStates] /\ conv \in [Turns -> Seq(Message)]
  BY DEF PairInv, RestInv, TypeOK
<1>2. TurnPaired(t)'
  BY <1>1 DEF TurnPaired
<1>3. ASSUME NEW u \in Turns, u # t PROVE TurnPaired(u)'
  BY <1>1, <1>3, OthersPaired DEF Asked
<1> QED
  BY <1>2, <1>3 DEF PairInv, PairParts, UnusedUnowned

\* Steps that leave the conversation of the turn as it is.
LEMMA SameMessages ==
  ASSUME PairInv, NEW t \in Turns, UNCHANGED <<call, by, conv>>,
         NEW label \in TurnStates \ {"tools"}, pc' = [pc EXCEPT ![t] = label],
         label = "failing" \/ Paired(conv[t])
  PROVE  UnusedUnowned' /\ \A u \in Turns : TurnPaired(u)'
<1>1. conv' = [conv EXCEPT ![t] = conv[t]]
  BY DEF PairInv, RestInv, TypeOK
<1> QED
  BY <1>1, OwnStep

LEMMA ConvType == PairInv => /\ \A t \in Turns : conv[t] \in Seq(Message)
                             /\ conv \in [Turns -> Seq(Message)]
                             /\ pending \in Seq(Message) /\ store \in Seq(Message)
BY DEF PairInv, RestInv, TypeOK

\* A turn outside its tools: every step leaves its messages paired, and what
\* it saves is what it holds.
LEMMA TurnKeepsPairs ==
  ASSUME PairInv, NEW t \in Turns, TurnStep(t)
  PROVE  PairParts'
<1> USE DEF PendingIsSpeech
<1>p. PairParts /\ Paired(store) /\ TurnPaired(t) /\ UnusedUnowned
  BY DEF PairInv, PairParts
<1>a. {"checking", "begun", "looping", "summarizing", "saving", "loading", "calling",
       "resummarizing", "committing", "closing", "failing", "done", "failed"} \subseteq TurnStates \ {"tools"}
  BY DEF TurnStates
<1>1. CASE Resume(t)
  <2>1. PICK label \in {"begun", "checking"} : pc' = [pc EXCEPT ![t] = label]
    BY <1>1 DEF Resume, Begin, Goto
  <2>2. /\ conv' = [conv EXCEPT ![t] = store]
        /\ UNCHANGED <<call, by, store, pending>>
    BY <1>1 DEF Resume, tools
  <2> QED
    BY <1>a, <1>p, <2>1, <2>2, OwnStep DEF PairParts
<1>2. CASE DetectCrash(t)
  <2>1. /\ pc[t] = "checking" /\ pc' = [pc EXCEPT ![t] = "begun"]
        /\ UNCHANGED <<call, by, conv, store>>
        /\ \/ pending' = pending
           \/ pending' = Append(pending, Entry("report", Artifacts(t)))
    BY <1>2 DEF DetectCrash, Begin, Goto, tools
  <2>2. PendingIsSpeech'
    <3>1. Entry("report", Artifacts(t)).kind # "uses"
      BY DEF Entry
    <3> DEFINE report == Entry("report", Artifacts(t))
    <3> HIDE DEF report
    <3>2. ASSUME pending' = Append(pending, report) PROVE PendingIsSpeech'
      BY <1>p, <3>1, <3>2, ConvType DEF PairParts, report
    <3> QED
      BY <1>p, <2>1, <3>2 DEF PairParts, report
  <2> QED
    BY <1>a, <1>p, <2>1, <2>2, SameMessages DEF PairParts, TurnPaired
<1>3. CASE MarkQuerying(t)
  <2>1. /\ pc[t] = "begun" /\ pc' = [pc EXCEPT ![t] = "looping"]
        /\ conv' = [conv EXCEPT ![t] = Append(conv[t], Entry("prompt", {t}))]
        /\ UNCHANGED <<call, by, store, pending>>
    BY <1>3 DEF MarkQuerying, Say, Goto, tools
  <2>2. Entry("prompt", {t}) \in Message /\ Entry("prompt", {t}).kind # "uses"
    BY EntryType DEF Entry
  <2>3. Paired(Append(conv[t], Entry("prompt", {t})))
    BY <1>p, <2>1, <2>2, ConvType, PairedAppend DEF TurnPaired
  <2> QED
    BY <1>a, <1>p, <2>1, <2>3, OwnStep DEF PairParts
<1>4. CASE Compact(t)
  <2>1. PICK msgs \in Compactions(conv[t]) : conv' = [conv EXCEPT ![t] = msgs]
    BY <1>4 DEF Compact, Compacted
  <2>2. /\ pc[t] \in {"looping", "summarizing"} /\ pc' = [pc EXCEPT ![t] = "looping"]
        /\ UNCHANGED <<call, by, store, pending>>
    BY <1>4 DEF Compact, Goto, tools
  <2>3. Paired(msgs)
    BY <1>p, <2>2, ConvType, PairedCompactions DEF TurnPaired
  <2> QED
    BY <1>a, <1>p, <2>1, <2>2, <2>3, OwnStep DEF PairParts
<1>5. CASE Drain(t)
  <2>1. /\ pc[t] \in {"looping", "summarizing"} /\ pc' = [pc EXCEPT ![t] = "saving"]
        /\ conv' = [conv EXCEPT ![t] = conv[t] \o pending] /\ pending' = <<>>
        /\ UNCHANGED <<call, by, store>>
    BY <1>5 DEF Drain, DrainOf, Goto, tools
  <2>2. Paired(conv[t] \o pending)
    BY <1>p, <2>1, ConvType, PairedConcat DEF PairParts, TurnPaired
  <2>3. UnusedUnowned' /\ \A u \in Turns : TurnPaired(u)'
    BY <1>a, <2>1, <2>2, OwnStep
  <2> QED
    BY <1>p, <2>1, <2>3 DEF PairParts
<1>6. CASE Persist(t) \/ Commit(t)
  <2>1. PICK label \in {"loading", "looping"} : pc' = [pc EXCEPT ![t] = label]
    BY <1>6 DEF Persist, Commit, Goto
  <2>2. /\ pc[t] \in {"saving", "committing"} /\ store' = conv[t]
        /\ UNCHANGED <<call, by, conv, pending>>
    BY <1>6 DEF Persist, Commit, Saved, tools, runState
  <2>3. Paired(conv[t])
    BY <1>p, <2>2 DEF TurnPaired
  <2> QED
    BY <1>a, <1>p, <2>1, <2>2, <2>3, SameMessages DEF PairParts
<1>7. CASE ReadBack(t)
  <2>1. PICK label \in {"failing", "calling"} : pc' = [pc EXCEPT ![t] = label]
    BY <1>7 DEF ReadBack, Goto
  <2>2. /\ conv' = [conv EXCEPT ![t] = store]
        /\ UNCHANGED <<call, by, store, pending>>
    BY <1>7 DEF ReadBack, tools, runState
  <2> QED
    BY <1>a, <1>p, <2>1, <2>2, OwnStep DEF PairParts
<1>8. CASE Answer(t)
  <2>1. /\ pc[t] = "calling" /\ pc' = [pc EXCEPT ![t] = "closing"]
        /\ conv' = [conv EXCEPT ![t] = Append(conv[t], Text)]
        /\ UNCHANGED <<call, by, store, pending>>
    BY <1>8 DEF Answer, Say, Goto, tools, runState
  <2>2. Paired(Append(conv[t], Text))
    BY <1>p, <2>1, ConvType, TextType, PairedAppend DEF TurnPaired, Text, Entry
  <2> QED
    BY <1>a, <1>p, <2>1, <2>2, OwnStep DEF PairParts
<1>9. CASE Asks(t)
  <2>1. PICK new \in SUBSET {c \in Calls : call[c] = "unused"} :
          /\ call' = [c \in Calls |-> IF c \in new THEN "asked" ELSE call[c]]
          /\ by' = [c \in Calls |-> IF c \in new THEN t ELSE by[c]]
          /\ Say(t, Entry("uses", new))
    BY <1>9 DEF Asks, AsksOf
  <2>2. /\ pc[t] = "calling" /\ pc' = [pc EXCEPT ![t] = "tools"]
        /\ conv' = [conv EXCEPT ![t] = Append(conv[t], Entry("uses", new))]
        /\ UNCHANGED <<store, pending>>
    BY <1>9, <2>1 DEF Asks, AsksOf, Goto, Say
  <2>3. Asked(t) = {}
    BY <1>p, <2>2, NothingOwed DEF PairInv
  <2>4. Asked(t)' = new
    BY <2>1, <2>3 DEF Asked
  <2>5. TurnPaired(t)'
    <3>1. pc'[t] = "tools" /\ conv'[t] = Append(conv[t], Entry("uses", Asked(t)'))
      BY <2>2, <2>4 DEF PairInv, RestInv, TypeOK
    <3>2. conv[t] \in Seq(Message) /\ Paired(conv[t])
      BY <1>p, <2>2, ConvType DEF TurnPaired
    <3> QED
      BY <3>1, <3>2 DEF TurnPaired
  <2>6. ASSUME NEW u \in Turns, u # t PROVE TurnPaired(u)'
    <3>1. u # 0 /\ \A c \in new : by[c] = 0
      BY <1>p DEF UnusedUnowned, Turns
    <3>2. Asked(u)' = Asked(u)
      BY <2>1, <2>6, <3>1 DEF Asked
    <3> QED
      BY <2>2, <2>6, <3>2, OthersPaired DEF PairInv, RestInv, TypeOK
  <2>7. UnusedUnowned'
    BY <1>p, <2>1 DEF UnusedUnowned
  <2> QED
    BY <1>p, <2>2, <2>5, <2>6, <2>7 DEF PairParts
<1>10. CASE PromptTooLong(t)
  <2>1. /\ pc[t] \in {"calling", "resummarizing"} /\ pc' = [pc EXCEPT ![t] = "saving"]
        /\ UNCHANGED <<call, by, store, pending>>
    BY <1>10 DEF PromptTooLong, RetryCompacted, Goto, tools
  <2>2. PICK msgs \in Compactions(conv[t]) \cup {conv[t]} :
          conv' = [conv EXCEPT ![t] = msgs]
    BY <1>10, ConvType DEF PromptTooLong, RetryCompacted, Compacted
  <2>3. Paired(msgs)
    BY <1>p, <2>1, <2>2, ConvType, PairedCompactions DEF TurnPaired
  <2> QED
    BY <1>a, <1>p, <2>1, <2>2, <2>3, OwnStep DEF PairParts
<1>11. CASE CallFails(t)
  <2>1. /\ pc' = [pc EXCEPT ![t] = "failing"]
        /\ UNCHANGED <<call, by, conv, store, pending>>
    BY <1>11 DEF CallFails, Goto, tools, runState
  <2> QED
    BY <1>a, <1>p, <2>1, SameMessages DEF PairParts
<1>12. CASE Collect(t)
  <2> DEFINE answered == Append(conv[t], Entry("results", Asked(t)))
  <2>1. /\ pc[t] = "tools" /\ pc' = [pc EXCEPT ![t] = "committing"]
        /\ conv' = [conv EXCEPT ![t] = answered]
        /\ call' = [c \in Calls |-> IF c \in Asked(t) THEN "over" ELSE call[c]]
        /\ UNCHANGED <<by, store, pending>>
    BY <1>12 DEF Collect, CollectOf, Say, Goto
  <2>2. PICK base \in Seq(Message) :
          Paired(base) /\ conv[t] = Append(base, Entry("uses", Asked(t)))
    BY <1>p, <2>1 DEF TurnPaired
  <2>3. Paired(answered)
    BY <2>2, PairedAnswered DEF Asked
  <2>4. TurnPaired(t)'
    <3>1. pc'[t] = "committing" /\ conv'[t] = answered
      BY <2>1 DEF PairInv, RestInv, TypeOK
    <3> HIDE DEF answered
    <3> QED
      BY <2>3, <3>1 DEF TurnPaired
  <2>5. ASSUME NEW u \in Turns, u # t PROVE TurnPaired(u)'
    <3>1. Asked(u)' = Asked(u)
      BY <2>1, <2>5 DEF Asked
    <3> QED
      BY <2>1, <2>5, <3>1, OthersPaired DEF PairInv, RestInv, TypeOK
  <2>6. UnusedUnowned'
    BY <1>p, <2>1 DEF UnusedUnowned
  <2> QED
    BY <1>p, <2>1, <2>4, <2>5, <2>6 DEF PairParts
<1>14. CASE Summarize(t)
  <2>1. PICK label \in {"summarizing", "resummarizing"} : pc' = [pc EXCEPT ![t] = label]
    BY <1>14 DEF Summarize, Goto
  <2>2. /\ pc[t] \in {"looping", "calling"}
        /\ UNCHANGED <<call, by, conv, store, pending>>
    BY <1>14 DEF Summarize, tools
  <2>3. Paired(conv[t])
    BY <1>p, <2>2 DEF TurnPaired
  <2> QED
    BY <1>a, <1>p, <2>1, <2>2, <2>3, SameMessages DEF PairParts
<1>13. CASE Close(t) \/ Catch(t)
  <2>1. PICK label \in {"done", "failed"} : pc' = [pc EXCEPT ![t] = label]
    BY <1>13 DEF Close, Catch, Finish, FinishAt, Goto
  <2>2. /\ conv' = [conv EXCEPT ![t] = <<>>]
        /\ UNCHANGED <<call, by, pending>>
    BY <1>13 DEF Close, Catch, Finish, FinishAt, Forget, tools
  <2>3. store' = store \/ (pc[t] \in {"closing", "looping"} /\ store' = conv[t])
    BY <1>13 DEF Close, Catch, Saved
  <2>4. Paired(store')
    BY <1>p, <2>3 DEF TurnPaired
  <2>5. Paired(<<>>)
    BY DEF Paired
  <2> QED
    BY <1>a, <1>p, <2>1, <2>2, <2>4, <2>5, OwnStep DEF PairParts, Paired
<1> QED
  BY <1>1, <1>2, <1>3, <1>4, <1>5, <1>6, <1>7, <1>8, <1>9, <1>10, <1>11, <1>12, <1>13,
     <1>14 DEF TurnStep

\* A tool call has no part in the conversation: only by a guard that throws does
\* a turn lose one of the calls it awaits, and that turn fails.
LEMMA CallKeepsPairs ==
  ASSUME PairInv, NEW c \in Calls, CallStep(c)
  PROVE  PairParts'
<1>p. PairParts /\ UnusedUnowned /\ \A u \in Turns : TurnPaired(u)
  BY DEF PairInv, PairParts
<1>t. call \in [Calls -> CallStates] /\ pc \in [Turns -> TurnStates]
  BY DEF PairInv, RestInv, TypeOK
<1>1. CASE GuardThrows(c)
  <2>1. /\ call[c] = "logged" /\ call' = [call EXCEPT ![c] = "over"]
        /\ pc' = IF pc[by[c]] = "tools" THEN [pc EXCEPT ![by[c]] = "failing"] ELSE pc
        /\ UNCHANGED <<by, conv, store, pending>>
    BY <1>1 DEF GuardThrows, Goto, runState
  <2>2. by[c] \in Turns /\ pc[by[c]] \in {"tools", "failing", "failed"}
    BY <2>1 DEF PairInv, RestInv, CallsBelong
  <2>3. ASSUME NEW u \in Turns PROVE TurnPaired(u)'
    <3>1. CASE u = by[c]
      BY <1>p, <1>t, <2>1, <2>2, <3>1 DEF TurnPaired
    <3>2. CASE u # by[c]
      <4>1. pc'[u] = pc[u] /\ conv'[u] = conv[u] /\ Asked(u)' = Asked(u)
        BY <1>t, <2>1, <2>2, <3>2 DEF Asked
      <4> QED
        BY <1>p, <4>1 DEF TurnPaired
    <3> QED
      BY <3>1, <3>2
  <2>4. UnusedUnowned'
    BY <1>p, <1>t, <2>1 DEF UnusedUnowned
  <2> QED
    BY <1>p, <2>1, <2>3, <2>4 DEF PairParts, PendingIsSpeech
<1>2. CASE ~GuardThrows(c)
  <2>1. /\ UNCHANGED <<pc, conv, by, store, pending>>
        /\ call[c] \in {"asked", "logged", "asleep"}
        /\ \E state \in {"logged", "asleep", "done"} : call' = [call EXCEPT ![c] = state]
    BY <1>2 DEF CallStep, UnknownTool, LogStart, Deny, Execute, FallAsleep, EnterSleep,
                WakeUp, runState, turns
  <2>2. ASSUME NEW u \in Turns PROVE TurnPaired(u)'
    <3>1. Asked(u)' = Asked(u)
      BY <1>t, <2>1 DEF Asked
    <3> QED
      BY <1>p, <2>1, <3>1 DEF TurnPaired
  <2>3. UnusedUnowned'
    BY <1>p, <1>t, <2>1 DEF UnusedUnowned
  <2> QED
    BY <1>p, <2>1, <2>2, <2>3 DEF PairParts, PendingIsSpeech
<1> QED
  BY <1>1, <1>2

LEMMA PairStep == PairInv /\ [Next]_vars => PairInv'
<1> SUFFICES ASSUME PairInv, [Next]_vars PROVE PairParts'
  BY RestStep DEF PairInv
<1>p. /\ PairParts /\ Paired(store) /\ PendingIsSpeech /\ UnusedUnowned
      /\ \A u \in Turns : TurnPaired(u)
  BY DEF PairInv, PairParts
<1>t. call \in [Calls -> CallStates] /\ pc \in [Turns -> TurnStates]
  BY DEF PairInv, RestInv, TypeOK
<1>0. ASSUME UNCHANGED <<call, by, pc, conv>>
      PROVE  UnusedUnowned' /\ \A u \in Turns : TurnPaired(u)'
  BY <1>0, <1>p DEF UnusedUnowned, TurnPaired, Asked
<1>1. CASE Send
  <2>1. /\ sends + 1 \in Turns /\ pc[sends + 1] = "none"
        /\ pc' = [pc EXCEPT ![sends + 1] = "waiting"]
        /\ UNCHANGED <<call, by, conv, store, pending>>
    BY <1>1, Bounds DEF Send, Goto, tools, runState, Turns, PairInv, RestInv, TypeOK,
                        FreshTurns
  <2>2. "waiting" \in TurnStates \ {"tools"} /\ Paired(conv[sends + 1])
    BY <1>p, <2>1 DEF TurnPaired, TurnStates
  <2> QED
    BY <1>p, <2>1, <2>2, SameMessages DEF PairParts, PendingIsSpeech
<1>2. CASE Interject
  <2>1. PendingIsSpeech'
    BY <1>2, <1>p, ConvType DEF Interject, PendingIsSpeech, Entry
  <2> QED
    BY <1>2, <1>p, <1>0, <2>1 DEF Interject, PairParts, turns, tools
<1>3. CASE Pause
  BY <1>3, <1>p, <1>0 DEF Pause, PairParts, PendingIsSpeech, turns, tools
<1>4. CASE Dispose
  BY <1>4, <1>p, <1>0 DEF Dispose, PairParts, PendingIsSpeech, turns, tools
<1>5. CASE Restart
  <2>1. /\ conv' = [u \in Turns |-> <<>>] /\ by' = [d \in Calls |-> 0] /\ store' = store
        /\ pending' = <<>>
        /\ pc' = [u \in Turns |-> IF InFlight(u) THEN "lost" ELSE pc[u]]
    BY <1>5 DEF Restart
  <2>2. Paired(<<>>) /\ \A u \in Turns : pc'[u] # "tools"
    BY <2>1 DEF Paired, InFlight
  <2> QED
    BY <1>p, <2>1, <2>2 DEF PairParts, PendingIsSpeech, UnusedUnowned, TurnPaired
<1>6. CASE \E t \in Turns : TurnStep(t)
  BY <1>6, TurnKeepsPairs
<1>7. CASE \E c \in Calls : CallStep(c)
  BY <1>7, CallKeepsPairs
<1>8. CASE UNCHANGED vars
  BY <1>8, <1>p, <1>0 DEF vars, runState, turns, tools, PairParts, PendingIsSpeech
<1> QED
  BY <1>1, <1>2, <1>3, <1>4, <1>5, <1>6, <1>7, <1>8 DEF Next

\* Tool calls stay next to their results (message-repair.ts:15) in messages.json
\* and in what the inferences of a turn and the memory flush are given, whatever
\* fails, is compacted, is cut off or overlaps: repairOrphanToolUses has nothing
\* to do on what this SDK wrote.  Of the summarize layer's own provider call,
\* which cuts the conversation anywhere (layers.ts:172-193), it says only that
\* no call but the last message can lack its results.
THEOREM PairingCorrect == Spec => []ConversationIsPaired
<1>1. Init => PairInv
  <2>1. Init => RestInv
    BY TypeCorrectInit DEF RestInv, Init, FreshTurns, CallsBelong, RestsWhenDone
  <2>2. Init => PairParts
    BY DEF Init, PairParts, PendingIsSpeech, UnusedUnowned, TurnPaired, Paired
  <2> QED
    BY <2>1, <2>2 DEF PairInv
<1>2. PairInv => ConversationIsPaired
  <2> SUFFICES ASSUME PairInv PROVE ConversationIsPaired
    OBVIOUS
  <2>1. /\ Paired(store)
        /\ \A t \in Turns : pc[t] \notin {"tools", "failing"} => Paired(conv[t])
    BY DEF PairInv, PairParts, TurnPaired
  <2>2. ASSUME NEW t \in Turns, Summarizing(t), NEW brief \in Briefs(conv[t])
        PROVE  PairedBefore(brief)
    <3>1. conv[t] \in Seq(Message) /\ Paired(conv[t])
      BY <2>1, <2>2, ConvType DEF Summarizing
    <3> QED
      BY <3>1, PairedBriefs
  <2> QED
    BY <2>1, <2>2 DEF ConversationIsPaired
<1> QED
  BY <1>1, <1>2, PairStep, PTL DEF Spec

=============================================================================
