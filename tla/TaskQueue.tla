----------------------------- MODULE TaskQueue ------------------------------
(***************************************************************************)
(* The polling execution environment                                       *)
(* (packages/tools-common/src/polling-environment.ts): commands of an      *)
(* agent wait in an InMemoryPullingTaskQueue, and PollingExecutorAgents on *)
(* other hosts pull, run and answer them.                                  *)
(*                                                                         *)
(* A task is one call of exec(): its command is left out.  The pending map *)
(* holds the tasks whose caller waits.  A step runs to the next await.     *)
(***************************************************************************)
EXTENDS Naturals, FiniteSets, Sequences, SequencesExt

CONSTANTS
  Tasks,
  Executors,  \* agents that poll, each run and stopped at most once
  NoTask

VARIABLES
  caller,   \* the promise of enqueue() for each task
  queued,   \* tasks nobody has polled
  waiters,  \* executors with a blocked poll, in order of arrival
  pc,       \* where the loop of each executor is
  task,     \* the task it was given last
  stopped,  \* executors whose stop() was called
  ran       \* how often each task was executed

vars == <<caller, queued, waiters, pc, task, stopped, ran>>

Init ==
  /\ caller = [t \in Tasks |-> "none"]
  /\ queued = <<>>
  /\ waiters = <<>>
  /\ pc = [e \in Executors |-> "loop"]
  /\ task = [e \in Executors |-> NoTask]
  /\ stopped = {}
  /\ ran = [t \in Tasks |-> 0]

-----------------------------------------------------------------------------
(* The agent's side *)

\* exec: enqueue arms the timer and hands the task to the first waiter.  A
\* waiter whose agent has left the race drops it.
Enqueue(t) ==
  /\ caller[t] = "none"
  /\ caller' = [caller EXCEPT ![t] = "waiting"]
  /\ IF waiters = <<>>
     THEN /\ queued' = Append(queued, t)
          /\ UNCHANGED <<waiters, pc, task>>
     ELSE LET e == Head(waiters)
          IN  /\ waiters' = Tail(waiters)
              /\ pc' = [pc EXCEPT ![e] = IF @ = "poll" THEN "woken" ELSE @]
              /\ task' = [task EXCEPT ![e] = t]
              /\ UNCHANGED queued
  /\ UNCHANGED <<stopped, ran>>

\* The caller gives up.  The task stays where it is.
Expire(t) ==
  /\ caller[t] = "waiting"
  /\ caller' = [caller EXCEPT ![t] = "timedOut"]
  /\ UNCHANGED <<queued, waiters, pc, task, stopped, ran>>

-----------------------------------------------------------------------------
(* The executor's side *)

\* Fault: a task is looked at and left in the queue.
Poll_Peeks(e) ==
  /\ pc[e] = "loop"
  /\ e \notin stopped
  /\ IF queued # <<>>
     THEN /\ task' = [task EXCEPT ![e] = Head(queued)]
          /\ pc' = [pc EXCEPT ![e] = "woken"]
          /\ UNCHANGED waiters
     ELSE /\ waiters' = Append(waiters, e)
          /\ pc' = [pc EXCEPT ![e] = "poll"]
          /\ UNCHANGED task
  /\ UNCHANGED <<caller, queued, stopped, ran>>

\* Fault: a poll takes its place among the waiters before it looks at the queue.
Poll_RegistersFirst(e) ==
  /\ pc[e] = "loop"
  /\ e \notin stopped
  /\ waiters' = Append(waiters, e)
  /\ IF queued # <<>>
     THEN /\ queued' = Tail(queued)
          /\ task' = [task EXCEPT ![e] = Head(queued)]
          /\ pc' = [pc EXCEPT ![e] = "woken"]
     ELSE /\ pc' = [pc EXCEPT ![e] = "poll"]
          /\ UNCHANGED <<queued, task>>
  /\ UNCHANGED <<caller, stopped, ran>>

\* poll(): the next task, or a place among the waiters.
Poll(e) ==
  /\ pc[e] = "loop"
  /\ e \notin stopped
  /\ IF queued # <<>>
     THEN /\ queued' = Tail(queued)
          /\ task' = [task EXCEPT ![e] = Head(queued)]
          /\ pc' = [pc EXCEPT ![e] = "woken"]
          /\ UNCHANGED waiters
     ELSE /\ waiters' = Append(waiters, e)
          /\ pc' = [pc EXCEPT ![e] = "poll"]
          /\ UNCHANGED <<queued, task>>
  /\ UNCHANGED <<caller, stopped, ran>>

\* A blocked poll answers null, whether or not its agent still listens.
PollTimeout(e) ==
  /\ \E i \in 1 .. Len(waiters) : waiters[i] = e /\ waiters' = RemoveAt(waiters, i)
  /\ pc' = [pc EXCEPT ![e] = IF @ = "poll" THEN "loop" ELSE @]
  /\ UNCHANGED <<caller, queued, task, stopped, ran>>

\* run() goes on with its task, or leaves when it was stopped.
Wake(e) ==
  /\ pc[e] = "woken"
  /\ IF e \in stopped
     THEN /\ pc' = [pc EXCEPT ![e] = "done"]
          /\ UNCHANGED ran
     ELSE /\ pc' = [pc EXCEPT ![e] = "execute"]
          /\ ran' = [ran EXCEPT ![task[e]] = @ + 1]
  /\ UNCHANGED <<caller, queued, waiters, task, stopped>>

\* execute() is over, well or not, and postResult answers whoever waits.
PostResult(e) ==
  /\ pc[e] = "execute"
  /\ pc' = [pc EXCEPT ![e] = "loop"]
  /\ caller' = [caller EXCEPT ![task[e]] = IF @ = "waiting" THEN "answered" ELSE @]
  /\ UNCHANGED <<queued, waiters, task, stopped, ran>>

\* stop(): the race with a blocked poll is over; its waiter stays behind.
Stop(e) ==
  /\ e \notin stopped
  /\ stopped' = stopped \cup {e}
  /\ pc' = [pc EXCEPT ![e] = IF @ \in {"loop", "poll"} THEN "done" ELSE @]
  /\ UNCHANGED <<caller, queued, waiters, task, ran>>

\* A stopped agent that has answered its task leaves the loop.
Leave(e) ==
  /\ pc[e] = "loop"
  /\ e \in stopped
  /\ pc' = [pc EXCEPT ![e] = "done"]
  /\ UNCHANGED <<caller, queued, waiters, task, stopped, ran>>

-----------------------------------------------------------------------------

Loop(e) == Poll(e) \/ Wake(e) \/ PostResult(e) \/ Leave(e)

Next ==
  \/ \E t \in Tasks : Enqueue(t) \/ Expire(t)
  \/ \E e \in Executors : Loop(e) \/ PollTimeout(e) \/ Stop(e)

\* Timers fire, and an agent that was given something to do goes on: execute()
\* returns.
Fairness ==
  /\ \A t \in Tasks : WF_vars(Expire(t))
  /\ \A e \in Executors : WF_vars(Loop(e)) /\ WF_vars(PollTimeout(e))

Spec == Init /\ [][Next]_vars /\ Fairness

-----------------------------------------------------------------------------
(* Properties *)

\* The variables hold what the code can put there.
TypeOK ==
  /\ caller \in [Tasks -> {"none", "waiting", "answered", "timedOut"}]
  /\ queued \in Seq(Tasks)
  /\ waiters \in Seq(Executors)
  /\ pc \in [Executors -> {"loop", "poll", "woken", "execute", "done"}]
  /\ task \in [Executors -> Tasks \cup {NoTask}]
  /\ stopped \subseteq Executors
  /\ ran \in [Tasks -> Nat]

Given(t) == \E e \in Executors : task[e] = t /\ pc[e] \in {"woken", "execute"}

Lost == {t \in Tasks : caller[t] # "none" /\ ran[t] = 0 /\ ~Given(t) /\ ~Contains(queued, t)}

\* A task leaves the queue to be executed, and once: the only tasks that get
\* lost are those handed to an agent that was stopped, one for each, whatever
\* races there are between a poll that times out, a stop and an enqueue.
ExecutedOnce ==
  /\ \A t \in Tasks : ran[t] <= 1
  /\ Cardinality(Lost) <= Cardinality(stopped)

\* Unless agents are stopped, every task is executed in the end, also when its
\* caller has stopped waiting for it (polling-environment.ts:138, "late
\* result; tolerated").
TasksAreRun ==
  <>[](\A t \in Tasks : caller[t] # "none" => ran[t] = 1 \/ stopped # {})

=============================================================================
