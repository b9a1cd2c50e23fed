------------------------------- MODULE Hands --------------------------------
(***************************************************************************)
(* An agent's container (packages/tools-common/src/container-environment.ts)*)
(* and the shell tool's background processes in it (shell.ts): started     *)
(* when a command first needs them, and gone when the agent is disposed.   *)
(*                                                                         *)
(* A container is named by the call of driver.start that made it.  A step  *)
(* runs from one await to the next.                                        *)
(***************************************************************************)
EXTENDS Naturals

CONSTANTS
  Callers,        \* commands and disposals in flight
  MaxContainers,  \* bound: containers started
  MaxProcesses    \* bound: background processes started

VARIABLES
  containers,   \* what docker runs
  containerId,  \* the environment's container, 0 for undefined
  starting,     \* the start that is under way, 0 for undefined
  calls,        \* commands and disposals
  processes,    \* background processes of the shell tool
  sessions,     \* those that ProcessSessionManager tracks as running
  disposals     \* history: what disposals have done about each container

vars == <<containers, containerId, starting, calls, processes, sessions, disposals>>

Containers == 1 .. MaxContainers
Container == Containers \cup {0}
Processes == 1 .. MaxProcesses

Idle == [pc |-> "idle"]
Call == [pc : {"start", "exec", "stop"}, container : Containers]

None == [state |-> "none"]

Init ==
  /\ containers = [i \in Containers |-> "none"]
  /\ containerId = 0
  /\ starting = 0
  /\ calls = [c \in Callers |-> Idle]
  /\ processes = [p \in Processes |-> None]
  /\ sessions = {}
  /\ disposals = [i \in Containers |-> "none"]

Goto(c, pc, i) == calls' = [calls EXCEPT ![c] = [pc |-> pc, container |-> i]]

-----------------------------------------------------------------------------

\* driver.start of the next container.
StartsNew(c) ==
  \E i \in Containers :
    /\ containers[i] = "none"
    /\ \A j \in 1 .. i - 1 : containers[j] # "none"
    /\ containers' = [containers EXCEPT ![i] = "starting"]
    /\ starting' = i
    /\ Goto(c, "start", i)

\* Fault: a command does not wait for a start that is under way.
Exec_NotShared(c) ==
  /\ calls[c] = Idle
  /\ \/ /\ containerId # 0
        /\ Goto(c, "exec", containerId)
        /\ UNCHANGED <<containers, starting>>
     \/ /\ containerId = 0
        /\ StartsNew(c)
  /\ UNCHANGED <<containerId, processes, sessions, disposals>>

\* exec: ensureContainer finds the container, joins the start under way, or
\* begins one.
Exec(c) ==
  /\ calls[c] = Idle
  /\ \/ /\ containerId # 0
        /\ Goto(c, "exec", containerId)
        /\ UNCHANGED <<containers, starting>>
     \/ /\ containerId = 0
        /\ starting # 0
        /\ Goto(c, "start", starting)
        /\ UNCHANGED <<containers, starting>>
     \/ /\ containerId = 0
        /\ starting = 0
        /\ StartsNew(c)
  /\ UNCHANGED <<containerId, processes, sessions, disposals>>

\* driver.start is over for all that wait for it, well or not.
Started(i) ==
  /\ containers[i] = "starting"
  /\ starting' = 0
  /\ \/ /\ containers' = [containers EXCEPT ![i] = "running"]
        /\ containerId' = i
        /\ calls' = [c \in Callers |->
                       IF calls[c] = [pc |-> "start", container |-> i]
                       THEN [pc |-> "exec", container |-> i] ELSE calls[c]]
     \/ /\ containers' = [containers EXCEPT ![i] = "gone"]
        /\ calls' = [c \in Callers |->
                       IF calls[c] = [pc |-> "start", container |-> i] THEN Idle ELSE calls[c]]
        /\ UNCHANGED containerId
  /\ UNCHANGED <<processes, sessions, disposals>>

\* driver.exec is over; in a container that has gone it fails.
Executed(c) ==
  /\ calls[c].pc = "exec"
  /\ calls' = [calls EXCEPT ![c] = Idle]
  /\ UNCHANGED <<containers, containerId, starting, processes, sessions, disposals>>

\* The containers that start or run, without those whose removal has failed.
Alive ==
  {i \in Containers : containers[i] \in {"starting", "running"} /\ disposals[i] # "failed"}

\* dispose: the id goes before the container does.
Dispose(c) ==
  /\ calls[c] = Idle
  /\ containerId # 0
  /\ containers' = [containers EXCEPT ![containerId] = IF @ = "running" THEN "stopping" ELSE @]
  /\ containerId' = 0
  /\ Goto(c, "stop", containerId)
  /\ disposals' = [i \in Containers |-> IF i \in Alive THEN "asked" ELSE disposals[i]]
  /\ UNCHANGED <<starting, processes, sessions>>

\* dispose without an id returns at once: it does not wait for a start that is
\* under way.
DisposeMisses ==
  /\ containerId = 0
  /\ starting # 0
  /\ disposals' = [i \in Containers |-> IF i \in Alive THEN "missed" ELSE disposals[i]]
  /\ UNCHANGED <<containers, containerId, starting, calls, processes, sessions>>

\* driver.stop removes the container, and all that ran in it.
Stopped(c) ==
  LET i == calls[c].container
  IN  /\ calls[c].pc = "stop"
      /\ containers' = [containers EXCEPT ![i] = "gone"]
      /\ processes' = [p \in Processes |->
                         IF processes[p] # None /\ processes[p].container = i
                         THEN [processes[p] EXCEPT !.state = "exited"] ELSE processes[p]]
      /\ sessions' = {p \in sessions : processes[p].container # i}
      /\ calls' = [calls EXCEPT ![c] = Idle]
      /\ UNCHANGED <<containerId, starting, disposals>>

\* driver.stop fails: the default driver does not look at the outcome of docker rm,
\* another one may throw.  The container runs on, and its id is gone.
StopFails(c) ==
  LET i == calls[c].container
  IN  /\ calls[c].pc = "stop"
      /\ containers' = [containers EXCEPT ![i] = "running"]
      /\ disposals' = [disposals EXCEPT ![i] = "failed"]
      /\ calls' = [calls EXCEPT ![c] = Idle]
      /\ UNCHANGED <<containerId, starting, processes, sessions>>

-----------------------------------------------------------------------------

\* shell in the background; without a container it throws.
Spawn ==
  /\ containerId # 0
  /\ \E p \in Processes :
       /\ processes[p] = None
       /\ \A q \in 1 .. p - 1 : processes[q] # None
       /\ processes' = [processes EXCEPT ![p] = [state |-> "running", container |-> containerId]]
       /\ sessions' = sessions \cup {p}
  /\ UNCHANGED <<containers, containerId, starting, calls, disposals>>

\* onExit, onError.
Exited(p) ==
  /\ processes[p].state \in {"running", "signalled"}
  /\ processes' = [processes EXCEPT ![p].state = "exited"]
  /\ sessions' = sessions \ {p}
  /\ UNCHANGED <<containers, containerId, starting, calls, disposals>>

\* process_kill asks it to go, and goes on tracking it.
Kill(p) ==
  /\ p \in sessions
  /\ processes' = [processes EXCEPT ![p].state = "signalled"]
  /\ UNCHANGED <<containers, containerId, starting, calls, sessions, disposals>>

\* The shell tool's dispose.
DisposeTools ==
  /\ processes' = [p \in Processes |->
                     IF p \in sessions THEN [processes[p] EXCEPT !.state = "signalled"]
                     ELSE processes[p]]
  /\ sessions' = {}
  /\ UNCHANGED <<containers, containerId, starting, calls, disposals>>

Next ==
  \/ \E c \in Callers : Exec(c) \/ Executed(c) \/ Dispose(c) \/ Stopped(c) \/ StopFails(c)
  \/ DisposeMisses
  \/ \E i \in Containers : Started(i)
  \/ Spawn
  \/ \E p \in Processes : Exited(p) \/ Kill(p)
  \/ DisposeTools

Spec == Init /\ [][Next]_vars

-----------------------------------------------------------------------------
(* Properties *)

\* The variables hold what the code can put there.
TypeOK ==
  /\ containers \in [Containers -> {"none", "starting", "running", "stopping", "gone"}]
  /\ containerId \in Container
  /\ starting \in Container
  /\ calls \in [Callers -> Call \cup {Idle}]
  /\ processes \in [Processes ->
       [state : {"running", "signalled", "exited"}, container : Containers] \cup {None}]
  /\ sessions \subseteq Processes
  /\ disposals \in [Containers -> {"none", "asked", "missed", "failed"}]

\* Whatever commands, disposals and starts overlap, a container that runs is the
\* one the environment knows, there is at most one that starts or runs, a disposal
\* has ended those it found, and a background process that runs on is tracked.  A
\* container runs on unknown, beside the next, only if driver.stop failed after
\* dispose had forgotten its id (container-environment.ts:178-181, 259-265); and
\* one runs on after a disposal only if the disposal came while it was being
\* started and did not wait (container-environment.ts:178).
NothingForgotten ==
  /\ \A i \in Containers :
       containers[i] = "running" => containerId = i \/ disposals[i] = "failed"
  /\ \A i, j \in Alive : i = j
  /\ \A i \in Alive : disposals[i] # "asked"
  /\ \A p \in Processes : processes[p].state = "running" => p \in sessions

=============================================================================
