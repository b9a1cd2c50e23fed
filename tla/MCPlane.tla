------------------------------ MODULE MCPlane -------------------------------
(***************************************************************************)
(* Small instances for TLC of what connects hosts with each other: the     *)
(* control plane with its workers (Cluster) and its wake schedulers        *)
(* (WakeScheduler), a machine connector (Machines) and the polling task    *)
(* queue (TaskQueue).                                                      *)
(*                                                                         *)
(* The four share no state here.  `chosen` says which one a behaviour is   *)
(* of; the others stay as they are, so that their states add up instead of *)
(* being multiplied.  The cluster is looked at twice: "cluster" has all    *)
(* workers and FewEvents failures or requests, "worker" has MaxEvents of   *)
(* them and leaves the Spare worker down.                                  *)
(***************************************************************************)
EXTENDS Cluster

CONSTANTS
  Spare, FewEvents,
  Schedulers, Single, Wakes, NoWake, MaxClaims, MaxFaults,
  Servers, Connections, Configurers, MachineTokens, MachineEvents,
  Tasks, Executors, NoTask

\* Single takes a wake at a time, the other schedulers all that are due.
Batches == [s \in Schedulers |-> IF s = Single THEN 1 ELSE Cardinality(Wakes)]

ASSUME PlaneAssumption ==
  /\ Spare \in Workers /\ FewEvents \in 0 .. MaxEvents
  /\ NoWake \notin Wakes
  /\ Batches \in [Schedulers -> Nat \ {0}]
  /\ MaxClaims \in Nat \ {0} /\ MaxFaults \in Nat
  /\ MachineTokens \in Nat /\ MachineEvents \in Nat
  /\ IsFiniteSet(Configurers) /\ Configurers # {}
  /\ NoTask \notin Tasks

VARIABLES
  chosen,
  requeues, state, due, stale, claims, deliveries, pc, batch, current, faults,
  entry, connector, connectorToken, handToken, timer, reported, host, file, sent, ops, mishaps,
  caller, queued, waiters, loop, task, stopped, ran

W == INSTANCE WakeScheduler WITH Limit <- Batches

M == INSTANCE Machines WITH
  Slots <- Connections, Operators <- Configurers,
  MaxTokens <- MachineTokens, MaxEvents <- MachineEvents,
  phase <- connector, clientToken <- connectorToken, daemonToken <- handToken,
  calls <- sent, events <- mishaps

Q == INSTANCE TaskQueue WITH pc <- loop

wakeVars == <<requeues, state, due, stale, claims, deliveries, pc, batch, current, faults>>
machineVars ==
  <<entry, connector, connectorToken, handToken, timer, reported, host, file, sent, ops, mishaps>>
queueVars == <<caller, queued, waiters, loop, task, stopped, ran>>
planeVars == <<chosen, vars, wakeVars, machineVars, queueVars>>

OfCluster == chosen \in {"cluster", "worker"}

\* Schedulers that are not looked at have one initial state.
PlaneInit ==
  /\ chosen \in {"cluster", "worker", "wakes", "machine", "queue"}
  /\ Init /\ W!Init /\ M!Init /\ Q!Init
  /\ events = IF chosen = "cluster" THEN MaxEvents - FewEvents ELSE 0
  /\ chosen # "wakes" => ~requeues

PlaneNext ==
  /\ UNCHANGED chosen
  /\ \/ /\ OfCluster /\ Next /\ UNCHANGED <<wakeVars, machineVars, queueVars>>
        /\ chosen = "worker" => phase'[Spare] = "down"
     \/ chosen = "wakes" /\ W!Next /\ UNCHANGED <<vars, machineVars, queueVars>>
     \/ chosen = "machine" /\ M!Next /\ UNCHANGED <<vars, wakeVars, queueVars>>
     \/ chosen = "queue" /\ Q!Next /\ UNCHANGED <<vars, wakeVars, machineVars>>

\* The fairness of the four, each where it is the one chosen.
ClusterFairness ==
  /\ \A c \in Requests :
       /\ WF_vars(OfCluster /\ Answered(c))
       /\ WF_vars(OfCluster /\ Stopped(c))
       /\ WF_vars(OfCluster /\ Heartbeat(c))
  /\ \A w \in Workers :
       /\ WF_vars(OfCluster /\ MountHome(w))
       /\ WF_vars(OfCluster /\ Mounted(w))
       /\ WF_vars(OfCluster /\ Dropped(w))
       /\ WF_vars(OfCluster /\ Exit(w))
  /\ \A a \in Agents : WF_vars(OfCluster /\ LapseUnrenewed(a))

WakeFairness ==
  /\ \A s \in Schedulers : WF_wakeVars(chosen = "wakes" /\ W!Work(s))
  /\ \A w \in Wakes :
       /\ WF_wakeVars(chosen = "wakes" /\ W!BecomeDue(w))
       /\ WF_wakeVars(chosen = "wakes" /\ W!GrowStale(w) /\ W!Holding(w) = {})

MachineFairness ==
  /\ \A c \in Connections :
       /\ WF_machineVars(chosen = "machine" /\ M!Request(c))
       /\ WF_machineVars(chosen = "machine" /\ M!Heartbeat(c))
  /\ \A o \in Configurers : WF_machineVars(chosen = "machine" /\ M!Configuring(o))

QueueFairness ==
  /\ \A t \in Tasks : WF_queueVars(chosen = "queue" /\ Q!Expire(t))
  /\ \A e \in Executors :
       /\ WF_queueVars(chosen = "queue" /\ Q!Loop(e))
       /\ WF_queueVars(chosen = "queue" /\ Q!PollTimeout(e))

PlaneSpec ==
  /\ PlaneInit /\ [][PlaneNext]_planeVars
  /\ ClusterFairness /\ WakeFairness /\ MachineFairness /\ QueueFairness

-----------------------------------------------------------------------------
(* The properties of the instances.  A component that is not chosen stays   *)
(* in an initial state, which a behaviour where it is chosen has as well.  *)

\* Every variable of the four components holds what the code can put there.
TypesOK ==
  /\ OfCluster => TypeOK
  /\ chosen = "wakes" => W!TypeOK
  /\ chosen = "machine" => M!TypeOK
  /\ chosen = "queue" => Q!TypeOK

\* A claim of a wake buys at most one delivery, and a wake is marked completed
\* only after it reached its agent.
ClaimsBuyDeliveries == W!OneDeliveryPerClaim /\ W!CompletedWasDelivered

\* Without requeueing, what is delivered is claimed at that moment.
DeliveredWhileClaimed == W!DeliveredWhileClaimed

\* With requeueing, every wake is settled in the end.
EveryWakeSettles == W!EveryWakeSettles

\* registration.ts:119: a machine that stays up is in the plane's table in the
\* end, with its token and with what it really offers.
MachineConverges == M!MachineConverges

\* A task of the polling queue runs once at most, and only stops lose one.
ExecutedOnce == Q!ExecutedOnce

\* Every task of the polling queue is run unless agents are stopped.
TasksAreRun == Q!TasksAreRun

=============================================================================
