---------------------------- MODULE Plane_proofs ----------------------------
(***************************************************************************)
(* Theorems about the components that connect hosts (MCPlane), for every   *)
(* number of workers, agents, requests, schedulers, wakes, tasks and       *)
(* executors.                                                              *)
(*                                                                         *)
(* A step is one of a single component and leaves the others as they are,  *)
(* so each theorem rests on an inductive invariant of its own component.   *)
(***************************************************************************)
EXTENDS MCPlane, FiniteSetTheorems, SequenceTheorems, WellFoundedInduction, TLAPS

\* A step is a step or a stutter of each component.
LEMMA PlaneStep ==
  ASSUME [PlaneNext]_planeVars
  PROVE  /\ [Next]_vars
         /\ [W!Next]_(W!vars)
         /\ [M!Next]_(M!vars)
         /\ [Q!Next]_(Q!vars)
<1> USE DEF wakeVars, machineVars, queueVars, W!vars, M!vars, M!client, Q!vars
<1>1. CASE UNCHANGED planeVars
      BY <1>1 DEF planeVars
<1>2. ASSUME OfCluster, Next, UNCHANGED <<wakeVars, machineVars, queueVars>>
      PROVE  UNCHANGED W!vars /\ UNCHANGED M!vars /\ UNCHANGED Q!vars
      BY <1>2
<1>3. ASSUME W!Next, UNCHANGED <<vars, machineVars, queueVars>>
      PROVE  UNCHANGED vars /\ UNCHANGED M!vars /\ UNCHANGED Q!vars
      BY <1>3
<1>4. ASSUME M!Next, UNCHANGED <<vars, wakeVars, queueVars>>
      PROVE  UNCHANGED vars /\ UNCHANGED W!vars /\ UNCHANGED Q!vars
      BY <1>4
<1>5. ASSUME Q!Next, UNCHANGED <<vars, wakeVars, machineVars>>
      PROVE  UNCHANGED vars /\ UNCHANGED W!vars /\ UNCHANGED M!vars
      BY <1>5
<1> QED BY <1>1, <1>2, <1>3, <1>4, <1>5 DEF PlaneNext


-----------------------------------------------------------------------------
(* The control plane and its workers *)

\* Only a daemon sends heartbeats, and every request is one the code can make.
CallsOK ==
  /\ calls \in [Requests -> Call \cup {Idle}]
  /\ \A c \in Requests : calls[c].pc = "beat" => c[1] \in Workers

LEMMA Pending ==
  ASSUME CallsOK, NEW c \in Requests, calls[c].pc # "idle"
  PROVE  /\ calls[c] \in Call /\ calls[c].op \in Ops /\ calls[c].worker \in Assignee
         /\ calls[c].token \in Token /\ calls[c].todo \subseteq Agents
         /\ calls[c].heard \in BOOLEAN
<1>1. calls[c] # Idle
      BY DEF Idle
<1> QED BY <1>1 DEF CallsOK, Call

\* One request moves on.
LEMMA MovesOn ==
  ASSUME CallsOK, NEW c \in Requests, NEW r \in Call \cup {Idle},
         r.pc = "beat" => c[1] \in Workers,
         calls' = [calls EXCEPT ![c] = r]
  PROVE  CallsOK'
BY DEF CallsOK

LEMMA ReturnOK ==
  ASSUME CallsOK, NEW c \in Requests, Return(c)
  PROVE  CallsOK'
BY MovesOn DEF Return, Idle

LEMMA GotoOK ==
  ASSUME CallsOK, NEW c \in Requests, calls[c].pc # "idle", NEW p, Goto(c, p),
         p \in {"hydrate", "lease", "stopped"}
  PROVE  CallsOK'
<1>1. calls[c] \in Call
      BY Pending
<1>2. PICK r : r = [calls[c] EXCEPT !.pc = p]
      OBVIOUS
<1>3. r \in Call /\ r.pc = p
      BY <1>1, <1>2 DEF Call
<1>4. calls' = [calls EXCEPT ![c] = r]
      BY <1>2 DEF Goto
<1> QED BY <1>3, <1>4, MovesOn

LEMMA LeftOK ==
  ASSUME CallsOK, NEW c \in Requests, calls[c].pc # "idle",
         NEW as \in SUBSET Agents, Left(c, as)
  PROVE  CallsOK'
<1>1. calls[c] \in Call
      BY Pending
<1>2. CASE as # {}
  <2>1. PICK r : r = [calls[c] EXCEPT !.pc = "converge", !.todo = as]
        OBVIOUS
  <2>2. r \in Call /\ r.pc = "converge"
        BY <1>1, <2>1 DEF Call
  <2>3. calls' = [calls EXCEPT ![c] = r]
        BY <1>2, <2>1 DEF Left
  <2> QED BY <2>2, <2>3, MovesOn
<1>3. CASE as = {} /\ calls[c].op = "heartbeat"
  <2>1. Return(c)
        BY <1>3 DEF Left, Return
  <2> QED BY <2>1, ReturnOK
<1>4. CASE as = {} /\ calls[c].op # "heartbeat"
  <2>1. PICK r : r = [calls[c] EXCEPT !.pc = "reply", !.todo = {}]
        OBVIOUS
  <2>2. r \in Call /\ r.pc = "reply"
        BY <1>1, <2>1 DEF Call
  <2>3. calls' = [calls EXCEPT ![c] = r]
        BY <1>4, <2>1 DEF Left
  <2> QED BY <2>2, <2>3, MovesOn
<1> QED BY <1>2, <1>3, <1>4

LEMMA EnrollOK ==
  ASSUME TypeOK, CallsOK, NEW c \in Requests, c[1] \in Workers,
         NEW op \in Ops, Enroll(c, op)
  PROVE  CallsOK' /\ tokens' \in [Workers -> Token]
<1>1. PICK t \in Tokens : /\ tokens' = [tokens EXCEPT ![c[1]] = t]
                          /\ calls' = [calls EXCEPT ![c] =
                               [op |-> op, worker |-> c[1], token |-> t, heard |-> TRUE,
                                todo |-> mounts[c[1]], pc |-> "register"]]
      BY DEF Enroll
<1>2. PICK r : r = [op |-> op, worker |-> c[1], token |-> t, heard |-> TRUE,
                    todo |-> mounts[c[1]], pc |-> "register"]
      OBVIOUS
<1>3. r \in Call /\ r.pc = "register"
      BY <1>2 DEF Call, TypeOK, Assignee, Token
<1>4. CallsOK'
      BY <1>1, <1>2, <1>3, MovesOn
<1> QED BY <1>1, <1>4 DEF TypeOK, Token

LEMMA ExitedOK ==
  ASSUME TypeOK, CallsOK, NEW w, NEW done, Exited(w, done)
  PROVE  /\ CallsOK'
         /\ phase' \in [Workers -> Phases]
         /\ mounts' \in [Workers -> SUBSET Agents]
         /\ disposing' \in [Workers -> SUBSET Agents]
         /\ clientToken' \in [Workers -> Token]
         /\ daemonToken' \in [Workers -> Token]
<1>1. ASSUME NEW c \in Requests
      PROVE  /\ calls'[c] \in Call \cup {Idle}
             /\ calls'[c].pc = "beat" => c[1] \in Workers
  <2>1. PICK r : r = [calls[c] EXCEPT !.heard = FALSE]
        OBVIOUS
  <2>2. calls[c] # Idle => r \in Call /\ r.pc = calls[c].pc
        BY <2>1 DEF CallsOK, Call
  <2>3. calls'[c] = Idle \/ calls'[c] = calls[c] \/ (calls[c] # Idle /\ calls'[c] = r)
        BY <2>1 DEF Exited
  <2> QED BY <2>2, <2>3 DEF CallsOK, Idle
<1>2. calls' \in [Requests -> Call \cup {Idle}]
      BY <1>1 DEF Exited
<1>3. CallsOK'
      BY <1>1, <1>2 DEF CallsOK
<1> QED BY <1>3 DEF Exited, TypeOK, Phases, Token

ClusterInv == TypeOK /\ CallsOK

LEMMA ClusterInit ==
  ASSUME Init
  PROVE  ClusterInv
BY ClusterAssumption DEF Init, ClusterInv, TypeOK, CallsOK, Idle, Token, Assignee, WorkerStates, Phases

\* The steps of a registration.
LEMMA RegistrationType ==
  ASSUME ClusterInv, NEW c \in Requests,
         Start(c) \/ Register(c) \/ Hydrate(c) \/ Converge(c) \/ Refuse(c)
  PROVE  ClusterInv'
<1> USE DEF server, table, daemon
<1> DEFINE w == calls[c].worker
<1>0. TypeOK /\ CallsOK
      BY DEF ClusterInv
<1>1. CASE Start(c)
  <2>1. CallsOK' /\ tokens' \in [Workers -> Token]
        BY <1>0, <1>1, EnrollOK DEF Start, Ops
  <2> QED BY <1>0, <1>1, <2>1 DEF Start, ClusterInv, TypeOK, CallsOK, Phases
<1>2. CASE Register(c)
  <2>1. w \in Assignee /\ calls[c].token \in Token
        BY <1>0, <1>2, Pending DEF Register
  <2>2. CallsOK'
        BY <1>0, <1>2, GotoOK DEF Register
  <2> QED BY <1>0, <1>2, <2>1, <2>2 DEF Register, ClusterInv, TypeOK, CallsOK, WorkerStates
<1>3. CASE Hydrate(c)
  <2>1. calls[c].todo \subseteq Agents
        BY <1>0, <1>3, Pending DEF Hydrate
  <2>2. CallsOK'
        BY <1>0, <1>3, <2>1, LeftOK DEF Hydrate
  <2>3. assignment' \in [Agents -> Assignee]
        BY <1>0, <1>3 DEF Hydrate, TypeOK
  <2> QED BY <1>0, <1>3, <2>2, <2>3 DEF Hydrate, ClusterInv, TypeOK, CallsOK
<1>4. CASE Converge(c)
  <2>1. calls[c].todo \subseteq Agents /\ w \in Assignee
        BY <1>0, <1>4, Pending DEF Converge
  <2>2. CallsOK'
        BY <1>0, <1>4, <2>1, LeftOK DEF Converge
  <2>3. assignment' \in [Agents -> Assignee] /\ holder' \in [Agents -> Assignee]
        BY <1>0, <1>4, <2>1 DEF Converge, TypeOK
  <2> QED BY <1>0, <1>4, <2>2, <2>3 DEF Converge, ClusterInv, TypeOK, CallsOK
<1>5. CASE Refuse(c)
  <2>1. CASE Exited(w, {c})
    <3>1. UNCHANGED <<server, table, homes, events>>
          BY <1>5 DEF Refuse
    <3> QED BY <1>0, <2>1, <3>1, ExitedOK DEF ClusterInv, TypeOK, CallsOK
  <2>2. CASE Return(c) /\ UNCHANGED daemon
    <3>1. UNCHANGED <<server, table, homes, events>>
          BY <1>5 DEF Refuse
    <3> QED BY <1>0, <2>2, <3>1, ReturnOK DEF ClusterInv, TypeOK, CallsOK
  <2> QED BY <1>5, <2>1, <2>2 DEF Refuse
<1> QED BY <1>1, <1>2, <1>3, <1>4, <1>5

\* Answers, heartbeats and what follows a heartbeat.
LEMMA HeartbeatType ==
  ASSUME ClusterInv, NEW c \in Requests,
         Reply(c) \/ ReplyLost(c) \/ Heartbeat(c) \/ Beat(c)
  PROVE  ClusterInv'
<1> USE DEF server, table, daemon
<1> DEFINE w == calls[c].worker
<1>0. TypeOK /\ CallsOK
      BY DEF ClusterInv
<1>e. Event => events' \in 0 .. MaxEvents
      BY <1>0, ClusterAssumption DEF Event, TypeOK
<1>1. CASE Reply(c)
  <2>1. calls[c].token \in Token
        BY <1>0, <1>1, Pending DEF Reply
  <2>2. CallsOK'
        BY <1>0, <1>1, ReturnOK DEF Reply
  <2>3. /\ clientToken' \in [Workers -> Token] /\ daemonToken' \in [Workers -> Token]
        /\ phase' \in [Workers -> Phases]
        BY <1>0, <1>1, <2>1 DEF Reply, TypeOK, Phases
  <2> QED BY <1>0, <1>1, <2>2, <2>3 DEF Reply, ClusterInv, TypeOK, CallsOK
<1>2. CASE ReplyLost(c)
  <2>1. events' \in 0 .. MaxEvents /\ UNCHANGED <<server, table, homes>>
        BY <1>2, <1>e DEF ReplyLost
  <2>2. CASE Exited(w, {c})
        BY <1>0, <2>1, <2>2, ExitedOK DEF ClusterInv, TypeOK, CallsOK
  <2>3. CASE Return(c) /\ UNCHANGED daemon
        BY <1>0, <2>1, <2>3, ReturnOK DEF ClusterInv, TypeOK, CallsOK
  <2> QED BY <1>2, <2>2, <2>3 DEF ReplyLost
<1>3. CASE Heartbeat(c)
  <2>1. /\ c[1] \in Workers /\ UNCHANGED <<node, assignment, table, daemon, homes>>
        /\ events' \in 0 .. MaxEvents
        BY <1>0, <1>3, <1>e DEF Heartbeat, TypeOK
  <2>2. CASE Enroll(c, "register")
        BY <1>0, <2>1, <2>2, EnrollOK DEF Ops, ClusterInv, TypeOK, CallsOK
  <2>3. CASE ~Enroll(c, "register")
    <3>1. PICK r : r = [op |-> "heartbeat", worker |-> c[1], token |-> clientToken[c[1]],
                        heard |-> TRUE, todo |-> mounts[c[1]], pc |-> "beat"]
          OBVIOUS
    <3>2. r \in Call
          BY <1>0, <2>1, <3>1 DEF Call, TypeOK, Assignee, Ops
    <3>3. calls' = [calls EXCEPT ![c] = r] /\ tokens' = tokens
          BY <1>3, <2>3, <3>1 DEF Heartbeat
    <3>4. CallsOK'
          BY <1>0, <2>1, <3>2, <3>3, MovesOn
    <3> QED BY <1>0, <2>1, <3>3, <3>4 DEF ClusterInv, TypeOK, CallsOK
  <2> QED BY <2>2, <2>3
<1>4. CASE Beat(c)
  <2>1. /\ c[1] \in Workers /\ UNCHANGED <<node, assignment, table, daemon, homes, events>>
        /\ calls[c].todo \subseteq Agents
        BY <1>0, <1>4, Pending DEF Beat, CallsOK
  <2>2. CASE Left(c, calls[c].todo) /\ UNCHANGED tokens
    <3>1. CallsOK'
          BY <1>0, <1>4, <2>1, <2>2, LeftOK DEF Beat
    <3> QED BY <1>0, <2>1, <2>2, <3>1 DEF ClusterInv, TypeOK, CallsOK
  <2>3. CASE Enroll(c, "register")
        BY <1>0, <2>1, <2>3, EnrollOK DEF Ops, ClusterInv, TypeOK, CallsOK
  <2>4. CASE Return(c) /\ UNCHANGED tokens
        BY <1>0, <2>1, <2>4, ReturnOK DEF ClusterInv, TypeOK, CallsOK
  <2> QED BY <1>4, <2>2, <2>3, <2>4 DEF Beat
<1> QED BY <1>1, <1>2, <1>3, <1>4

\* Creations and deletions of agents.
LEMMA OperatorType ==
  ASSUME ClusterInv, NEW c \in Requests,
         \/ Views(c) \/ Run(c) \/ Lease(c) \/ Stop(c) \/ Stopped(c)
         \/ \E a \in Agents : BeginCreate(c, a) \/ BeginDelete(c, a)
  PROVE  ClusterInv'
<1> USE DEF server, table, daemon
<1> DEFINE w == calls[c].worker
<1>0. TypeOK /\ CallsOK
      BY DEF ClusterInv
<1>e. Event => events' \in 0 .. MaxEvents
      BY <1>0, ClusterAssumption DEF Event, TypeOK
<1>u. ASSUME NEW as, Unassign(as)
      PROVE  assignment' \in [Agents -> Assignee]
      BY <1>0, <1>u DEF Unassign, TypeOK, Assignee
<1>p. ASSUME calls[c].pc # "idle"
      PROVE  calls[c] \in Call /\ w \in Assignee /\ calls[c].todo \subseteq Agents
      BY <1>0, <1>p, Pending
<1>1. ASSUME NEW a \in Agents, BeginCreate(c, a)
      PROVE  ClusterInv'
  <2>1. PICK r : r = [op |-> "create", worker |-> NoWorker, token |-> 0, heard |-> TRUE,
                      todo |-> {a}, pc |-> "views"]
        OBVIOUS
  <2>2. r \in Call
        BY <2>1 DEF Call, Assignee, Ops, Token
  <2>3. CallsOK'
        BY <1>0, <1>1, <2>1, <2>2, MovesOn DEF BeginCreate
  <2> QED BY <1>0, <1>1, <1>e, <2>3 DEF BeginCreate, ClusterInv, TypeOK, CallsOK
<1>2. ASSUME NEW a \in Agents, BeginDelete(c, a)
      PROVE  ClusterInv'
  <2>1. PICK r : r = [op |-> "delete", worker |-> assignment[a], token |-> node[assignment[a]],
                      heard |-> TRUE, todo |-> {a}, pc |-> "stop"]
        OBVIOUS
  <2>2. assignment[a] # NoWorker /\ assignment[a] \in Workers
        BY <1>0, <1>2 DEF BeginDelete, TypeOK, Assignee
  <2>3. r \in Call /\ r.pc = "stop"
        BY <1>0, <2>1, <2>2 DEF Call, Assignee, Ops, TypeOK
  <2>4. \/ calls' = [calls EXCEPT ![c] = r] /\ UNCHANGED assignment
        \/ Unassign({a}) /\ UNCHANGED calls
        BY <1>2, <2>1 DEF BeginDelete
  <2>5. CallsOK'
        BY <1>0, <2>3, <2>4, MovesOn DEF CallsOK
  <2>6. assignment' \in [Agents -> Assignee]
        BY <1>0, <1>u, <2>4 DEF TypeOK
  <2> QED BY <1>0, <1>2, <1>e, <2>5, <2>6 DEF BeginDelete, ClusterInv, TypeOK, CallsOK
<1>3. CASE Views(c)
  <2>1. CallsOK'
    <3>1. CASE Return(c)
          BY <1>0, <3>1, ReturnOK
    <3>2. ASSUME NEW v \in Workers,
                 calls' = [calls EXCEPT ![c].worker = v, ![c].token = node[v], ![c].pc = "run"]
          PROVE  CallsOK'
      <4>1. PICK r : r = [calls[c] EXCEPT !.worker = v, !.token = node[v], !.pc = "run"]
            OBVIOUS
      <4>2. r \in Call /\ r.pc = "run"
            BY <1>0, <1>3, <1>p, <4>1 DEF Views, Call, TypeOK, Assignee
      <4>3. calls' = [calls EXCEPT ![c] = r]
            BY <1>0, <3>2, <4>1 DEF CallsOK
      <4> QED BY <1>0, <4>2, <4>3, MovesOn
    <3> QED BY <1>3, <3>1, <3>2 DEF Views
  <2> QED BY <1>0, <1>3, <2>1 DEF Views, ClusterInv, TypeOK, CallsOK
<1>4. CASE Run(c)
  <2>1. calls[c].todo \subseteq Agents /\ w \in Assignee
        BY <1>4, <1>p DEF Run
  <2>2. CallsOK'
        BY <1>0, <1>4, GotoOK, ReturnOK DEF Run
  <2>3. assignment' \in [Agents -> Assignee]
        BY <1>0, <1>4, <2>1 DEF Run, TypeOK
  <2>4. mounts' \in [Workers -> SUBSET Agents] /\ homes' \subseteq Agents
        BY <1>0, <1>4, <2>1 DEF Run, TypeOK
  <2> QED BY <1>0, <1>4, <1>e, <2>2, <2>3, <2>4 DEF Run, ClusterInv, TypeOK, CallsOK
<1>5. CASE Lease(c)
  <2>1. CallsOK'
        BY <1>0, <1>5, ReturnOK DEF Lease
  <2>2. holder' \in [Agents -> Assignee]
        BY <1>0, <1>5, <1>p DEF Lease, TypeOK
  <2> QED BY <1>0, <1>5, <2>1, <2>2 DEF Lease, ClusterInv, TypeOK, CallsOK
<1>6. CASE Stop(c)
  <2>1. CallsOK'
        BY <1>0, <1>6, GotoOK, ReturnOK DEF Stop
  <2>2. assignment' \in [Agents -> Assignee]
        BY <1>0, <1>6, <1>u DEF Stop, TypeOK
  <2>3. disposing' \in [Workers -> SUBSET Agents]
        BY <1>0, <1>6, <1>p DEF Stop, TypeOK
  <2> QED BY <1>0, <1>6, <2>1, <2>2, <2>3 DEF Stop, ClusterInv, TypeOK, CallsOK
<1>7. CASE Stopped(c)
  <2>1. CallsOK'
        BY <1>0, <1>7, ReturnOK DEF Stopped
  <2>2. assignment' \in [Agents -> Assignee] /\ events' \in 0 .. MaxEvents
        BY <1>0, <1>7, <1>u, <1>e DEF Stopped, TypeOK
  <2> QED BY <1>0, <1>7, <2>1, <2>2 DEF Stopped, ClusterInv, TypeOK, CallsOK
<1> QED BY <1>1, <1>2, <1>3, <1>4, <1>5, <1>6, <1>7

\* What operators do to workers, daemons, and the rest of the world.
LEMMA WorkerType ==
  ASSUME ClusterInv,
         \/ \E w \in Workers :
              \/ Drain(w) \/ Undrain(w) \/ Evict(w) \/ MountHome(w) \/ Mounted(w) \/ Dropped(w)
              \/ Shutdown(w) \/ Exit(w) \/ Crash(w)
         \/ Restart
         \/ \E a \in Agents : Lapse(a) \/ LapseUnrenewed(a)
  PROVE  ClusterInv'
<1> USE DEF server, table, daemon
<1>0. TypeOK /\ CallsOK
      BY DEF ClusterInv
<1>e. Event => events' \in 0 .. MaxEvents
      BY <1>0, ClusterAssumption DEF Event, TypeOK
<1>1. ASSUME NEW w \in Workers, Drain(w) \/ Undrain(w)
      PROVE  ClusterInv'
  <2>1. registered' \in [Workers -> WorkerStates] /\ events' \in 0 .. MaxEvents
        BY <1>0, <1>1, <1>e DEF Drain, Undrain, TypeOK, WorkerStates
  <2>2. UNCHANGED <<server, holder, daemon, homes, calls>>
        BY <1>1 DEF Drain, Undrain
  <2> QED BY <1>0, <2>1, <2>2 DEF ClusterInv, TypeOK, CallsOK
<1>2. ASSUME NEW w \in Workers, Withdrawn(w), Removed(w)
      PROVE  /\ registered' \in [Workers -> WorkerStates] /\ holder' \in [Agents -> Assignee]
             /\ node' \in [Workers -> Token] /\ tokens' \in [Workers -> Token]
             /\ assignment' \in [Agents -> Assignee]
      BY <1>0, <1>2 DEF Withdrawn, Removed, TypeOK, WorkerStates, Assignee, Token
<1>3. ASSUME NEW w \in Workers, Evict(w)
      PROVE  ClusterInv'
      BY <1>0, <1>2, <1>3, <1>e DEF Evict, ClusterInv, TypeOK, CallsOK
<1>4. ASSUME NEW w \in Workers, MountHome(w) \/ Mounted(w) \/ Dropped(w)
      PROVE  ClusterInv'
  <2>1. mounts' \in [Workers -> SUBSET Agents]
        BY <1>0, <1>4 DEF MountHome, Mounted, Dropped, TypeOK
  <2>2. disposing' \in [Workers -> SUBSET Agents]
        BY <1>0, <1>4 DEF MountHome, Mounted, Dropped, TypeOK
  <2>3. phase' \in [Workers -> Phases]
        BY <1>0, <1>4 DEF MountHome, Mounted, Dropped, TypeOK, Phases
  <2>4. UNCHANGED <<server, table, clientToken, daemonToken, homes, calls, events>>
        BY <1>4 DEF MountHome, Mounted, Dropped
  <2> QED BY <1>0, <2>1, <2>2, <2>3, <2>4 DEF ClusterInv, TypeOK, CallsOK
<1>5. ASSUME NEW w \in Workers, Shutdown(w)
      PROVE  ClusterInv'
  <2>1. /\ phase' \in [Workers -> Phases] /\ clientToken' \in [Workers -> Token]
        /\ events' \in 0 .. MaxEvents
        BY <1>0, <1>5, <1>e DEF Shutdown, TypeOK, Phases, Token
  <2>2. (Withdrawn(w) /\ Removed(w)) \/ UNCHANGED <<server, table>>
        BY <1>5 DEF Shutdown
  <2>3. UNCHANGED <<mounts, disposing, daemonToken, homes, calls>>
        BY <1>5 DEF Shutdown
  <2> QED BY <1>0, <1>2, <2>1, <2>2, <2>3 DEF ClusterInv, TypeOK, CallsOK
<1>6. ASSUME NEW w \in Workers, Exit(w) \/ Crash(w)
      PROVE  ClusterInv'
  <2>1. Exited(w, {}) /\ UNCHANGED <<server, table, homes>> /\ events' \in 0 .. MaxEvents
        BY <1>0, <1>6, <1>e DEF Exit, Crash, TypeOK
  <2> QED BY <1>0, <2>1, ExitedOK DEF ClusterInv, TypeOK, CallsOK
<1>7. CASE Restart
  <2>1. /\ tokens' \in [Workers -> Token] /\ node' \in [Workers -> Token]
        /\ assignment' \in [Agents -> Assignee]
        /\ registered' \in [Workers -> WorkerStates] /\ holder' \in [Agents -> Assignee]
        BY <1>0, <1>7 DEF Restart, TypeOK, Token, Assignee, WorkerStates
  <2>2. /\ phase' \in [Workers -> Phases] /\ mounts' \in [Workers -> SUBSET Agents]
        /\ disposing' \in [Workers -> SUBSET Agents]
        BY <1>0, <1>7 DEF Restart, TypeOK, Phases
  <2>3. CallsOK'
        BY <1>7 DEF Restart, CallsOK, Idle
  <2> QED BY <1>0, <1>7, <1>e, <2>1, <2>2, <2>3 DEF Restart, ClusterInv, TypeOK, CallsOK
<1>8. ASSUME NEW a \in Agents, Lapse(a) \/ LapseUnrenewed(a)
      PROVE  ClusterInv'
  <2>1. /\ holder' \in [Agents -> Assignee] /\ events' \in 0 .. MaxEvents
        /\ UNCHANGED <<server, registered, daemon, homes, calls>>
        BY <1>0, <1>8, <1>e DEF Lapse, LapseUnrenewed, TypeOK, Assignee
  <2> QED BY <1>0, <2>1 DEF ClusterInv, TypeOK, CallsOK
<1> QED BY <1>1, <1>3, <1>4, <1>5, <1>6, <1>7, <1>8

LEMMA ClusterStep ==
  ASSUME ClusterInv, [Next]_vars
  PROVE  ClusterInv'
<1>1. CASE UNCHANGED vars
      BY <1>1 DEF vars, server, table, daemon, ClusterInv, TypeOK, CallsOK
<1> QED BY <1>1, RegistrationType, HeartbeatType, OperatorType, WorkerType DEF Next, Answered

\* A worker that loses its membership loses its leases in the same step.
LEMMA MembersStep ==
  ASSUME ClusterInv, LeasedToMembers, [Next]_vars
  PROVE  LeasedToMembers'
<1> USE DEF server, table, daemon
<1>0. TypeOK
      BY DEF ClusterInv
<1>k. ASSUME UNCHANGED table
      PROVE  LeasedToMembers'
      BY <1>k DEF LeasedToMembers, Live
<1>1. ASSUME NEW c \in Requests, Register(c)
      PROVE  LeasedToMembers'
  <2>1. \A w \in Workers : registered'[w] = registered[w] \/ registered'[w] = "active"
        BY <1>0, <1>1 DEF Register, TypeOK
  <2>2. holder' = holder /\ holder \in [Agents -> Assignee]
        BY <1>0, <1>1 DEF Register, TypeOK
  <2> QED BY <2>1, <2>2 DEF LeasedToMembers, Live, Assignee
<1>2. ASSUME NEW c \in Requests, Converge(c) \/ Lease(c)
      PROVE  LeasedToMembers'
  <2>1. \A a \in Agents :
          \/ holder'[a] = holder[a]
          \/ registered[holder'[a]] = "active"
        BY <1>0, <1>2 DEF Converge, Lease, Grants, TypeOK
  <2>2. registered' = registered
        BY <1>2 DEF Converge, Lease
  <2> QED BY <2>1, <2>2 DEF LeasedToMembers, Live
<1>3. ASSUME NEW w \in Workers, Drain(w) \/ Undrain(w)
      PROVE  LeasedToMembers'
  <2>1. \A v \in Workers : registered'[v] = registered[v] \/ registered'[v] \in {"active", "draining"}
        BY <1>0, <1>3 DEF Drain, Undrain, TypeOK
  <2>2. holder' = holder /\ holder \in [Agents -> Assignee]
        BY <1>0, <1>3 DEF Drain, Undrain, TypeOK
  <2> QED BY <2>1, <2>2 DEF LeasedToMembers, Live, Assignee
<1>4. ASSUME NEW w \in Workers, Withdrawn(w)
      PROVE  LeasedToMembers'
  <2>1. \A v \in Workers : v # w => registered'[v] = registered[v]
        BY <1>0, <1>4 DEF Withdrawn, TypeOK
  <2>2. ASSUME NEW a \in Agents, holder'[a] # NoWorker
        PROVE  holder'[a] = holder[a] /\ holder[a] # w
        BY <1>0, <1>4, <2>2 DEF Withdrawn, LeasedToMembers
  <2> QED BY <1>0, <2>1, <2>2 DEF LeasedToMembers, Live, TypeOK, Assignee
<1>5. CASE Restart
      BY <1>5, <1>k DEF Restart, LeasedToMembers
<1>6. ASSUME NEW a \in Agents, Lapse(a) \/ LapseUnrenewed(a)
      PROVE  LeasedToMembers'
      BY <1>0, <1>6 DEF Lapse, LapseUnrenewed, LeasedToMembers, Live, TypeOK
<1>7. ASSUME NEW c \in Requests,
             \/ Start(c) \/ Heartbeat(c) \/ ReplyLost(c) \/ Stopped(c) \/ Hydrate(c) \/ Refuse(c)
             \/ Reply(c) \/ Beat(c) \/ Views(c) \/ Run(c) \/ Stop(c)
             \/ \E a \in Agents : BeginCreate(c, a) \/ BeginDelete(c, a)
      PROVE  UNCHANGED table
      BY <1>7 DEF Start, Heartbeat, ReplyLost, Stopped, Hydrate, Refuse, Reply, Beat, Views, Run,
         Stop, BeginCreate, BeginDelete
<1>8. ASSUME NEW w \in Workers,
             MountHome(w) \/ Mounted(w) \/ Dropped(w) \/ Exit(w) \/ Crash(w)
      PROVE  UNCHANGED table
      BY <1>8 DEF MountHome, Mounted, Dropped, Exit, Crash
<1>9. ASSUME NEW w \in Workers, Evict(w) \/ Shutdown(w)
      PROVE  Withdrawn(w) \/ UNCHANGED table
      BY <1>9 DEF Evict, Shutdown
<1>10. CASE UNCHANGED vars
      BY <1>10, <1>k DEF vars
<1> QED BY <1>1, <1>2, <1>3, <1>4, <1>5, <1>6, <1>7, <1>8, <1>9, <1>10, <1>k DEF Next, Answered

\* A route that is new follows a lease, or is that of a creation.
Follows(a) ==
  assignment'[a] \notin {assignment[a], NoWorker} =>
    \/ holder'[a] = assignment'[a]
    \/ \E c \in Requests : calls[c] # Idle /\ calls[c].pc = "run" /\ a \in calls[c].todo

LEMMA RoutesStep ==
  ASSUME ClusterInv, [Next]_vars, NEW a \in Agents
  PROVE  Follows(a)
<1> USE DEF server, table, daemon
<1>0. TypeOK
      BY DEF ClusterInv
<1>k. ASSUME assignment' = assignment
      PROVE  Follows(a)
      BY <1>k DEF Follows
<1>1. ASSUME NEW c \in Requests, Hydrate(c)
      PROVE  Follows(a)
      BY <1>1 DEF Hydrate, Restored, Follows
<1>2. ASSUME NEW c \in Requests, Converge(c)
      PROVE  Follows(a)
      BY <1>0, <1>2 DEF Converge, TypeOK, Follows
<1>3. ASSUME NEW c \in Requests, Run(c)
      PROVE  Follows(a)
  <2>1. calls[c] # Idle /\ calls[c].pc = "run"
        BY <1>3 DEF Run, Idle
  <2>2. assignment' = assignment \/ assignment'[a] = assignment[a] \/ a \in calls[c].todo
        BY <1>3 DEF Run
  <2> QED BY <2>1, <2>2 DEF Follows
<1>4. ASSUME NEW as, Unassign(as)
      PROVE  Follows(a)
      BY <1>4 DEF Unassign, Follows
<1>5. ASSUME NEW w \in Workers, Removed(w)
      PROVE  Follows(a)
      BY <1>5 DEF Removed, Follows
<1>6. CASE Restart
      BY <1>6 DEF Restart, Follows
<1>7. ASSUME NEW c \in Requests,
             \/ Start(c) \/ Heartbeat(c) \/ ReplyLost(c) \/ Register(c) \/ Refuse(c)
             \/ Reply(c) \/ Beat(c) \/ Views(c) \/ Lease(c) \/ \E b \in Agents : BeginCreate(c, b)
      PROVE  assignment' = assignment
      BY <1>7 DEF Start, Heartbeat, ReplyLost, Register, Refuse, Reply, Beat, Views, Lease, BeginCreate
<1>8. ASSUME NEW c \in Requests, Stop(c) \/ Stopped(c) \/ \E b \in Agents : BeginDelete(c, b)
      PROVE  Follows(a)
      BY <1>8, <1>4, <1>k DEF Stop, Stopped, BeginDelete
<1>9. ASSUME NEW w \in Workers,
             \/ Drain(w) \/ Undrain(w) \/ MountHome(w) \/ Mounted(w) \/ Dropped(w)
             \/ Exit(w) \/ Crash(w)
      PROVE  assignment' = assignment
      BY <1>9 DEF Drain, Undrain, MountHome, Mounted, Dropped, Exit, Crash
<1>10. ASSUME NEW w \in Workers, Evict(w) \/ Shutdown(w)
      PROVE  Follows(a)
      BY <1>10, <1>5, <1>k DEF Evict, Shutdown
<1>11. ASSUME NEW b \in Agents, Lapse(b) \/ LapseUnrenewed(b)
      PROVE  assignment' = assignment
      BY <1>11 DEF Lapse, LapseUnrenewed
<1>12. CASE UNCHANGED vars
      BY <1>12, <1>k DEF vars
<1> QED BY <1>1, <1>2, <1>3, <1>6, <1>7, <1>8, <1>9, <1>10, <1>11, <1>12, <1>k DEF Next, Answered

\* No interleaving of creations, registrations and heartbeats with evictions
\* and withdrawals leaves an agent leased to a worker that is gone.
THEOREM MembersCorrect == PlaneSpec => []LeasedToMembers
<1>1. PlaneInit => ClusterInv /\ LeasedToMembers
      BY ClusterInit DEF PlaneInit, Init, LeasedToMembers
<1>2. ClusterInv /\ LeasedToMembers /\ [PlaneNext]_planeVars => (ClusterInv /\ LeasedToMembers)'
      BY PlaneStep, ClusterStep, MembersStep
<1> QED BY <1>1, <1>2, PTL DEF PlaneSpec

\* Outside of a creation, a route changes only to the worker that holds the
\* lease, whatever a daemon reports.
THEOREM RoutesCorrect == PlaneSpec => RoutesFollowLeases
<1>1. PlaneInit => ClusterInv
      BY ClusterInit DEF PlaneInit
<1>2. ClusterInv /\ [PlaneNext]_planeVars => ClusterInv'
      BY PlaneStep, ClusterStep
<1>3. ClusterInv /\ [PlaneNext]_planeVars =>
        [\A a \in Agents :
           assignment'[a] \notin {assignment[a], NoWorker} =>
             \/ holder'[a] = assignment'[a]
             \/ \E c \in Requests : calls[c] # Idle /\ calls[c].pc = "run" /\ a \in calls[c].todo]_vars
      BY PlaneStep, RoutesStep DEF Follows
<1> QED BY <1>1, <1>2, <1>3, PTL DEF PlaneSpec, RoutesFollowLeases
-----------------------------------------------------------------------------
(* Wake schedulers *)

\* The wakes of its batch that a scheduler has not delivered yet.
Undelivered(w) ==
  {p \in Schedulers : w \in batch[p] /\ ~(pc[p] \in {"complete", "fail"} /\ current[p] = w)}

\* Each claim is still to be delivered by the scheduler that made it, or has
\* bought its delivery, or was lost in a crash.
Bought(w) ==
  IsFiniteSet(Undelivered(w)) /\ deliveries[w] + Cardinality(Undelivered(w)) <= claims[w]

\* What a scheduler completes has reached its agent.
CompletesDelivered == \A p \in Schedulers : pc[p] = "complete" => deliveries[current[p]] > 0

\* Without requeueing, a wake is claimed once, and held by one scheduler.
ClaimedOnce ==
  /\ \A w \in Wakes : state[w] \in {"unused", "pending"} => claims[w] = 0
  /\ \A w \in Wakes : claims[w] <= 1
  /\ \A p \in Schedulers, w \in Wakes : w \in batch[p] => state[w] = "claimed"
  /\ \A p, q \in Schedulers, w \in Wakes : w \in batch[p] /\ w \in batch[q] => p = q

WakeInv ==
  /\ W!TypeOK
  /\ \A w \in Wakes : Bought(w)
  /\ CompletesDelivered /\ W!CompletedWasDelivered
  /\ ~requeues => ClaimedOnce

LEMMA WakeInit ==
  ASSUME W!Init
  PROVE  WakeInv
<1>1. \A w \in Wakes : Undelivered(w) = {}
      BY DEF W!Init, Undelivered
<1>2. \A w \in Wakes : Bought(w)
      BY <1>1, FS_EmptySet DEF W!Init, Bought
<1>3. W!TypeOK
      BY PlaneAssumption DEF W!Init, W!TypeOK, W!WakeStates, W!Steps
<1> QED BY <1>2, <1>3 DEF WakeInv, W!Init, CompletesDelivered, W!CompletedWasDelivered, ClaimedOnce

LEMMA WakeType ==
  ASSUME W!TypeOK, [W!Next]_(W!vars)
  PROVE  W!TypeOK'
<1> USE PlaneAssumption DEF W!TypeOK, W!WakeStates, W!Steps
<1>1. CASE UNCHANGED W!vars
      BY <1>1 DEF W!vars
<1>2. ASSUME NEW w \in Wakes,
             W!ScheduleWake(w) \/ W!CancelWake(w) \/ W!BecomeDue(w) \/ W!GrowStale(w)
      PROVE  W!TypeOK'
      BY <1>2 DEF W!ScheduleWake, W!CancelWake, W!BecomeDue, W!GrowStale
<1>3. ASSUME NEW p \in Schedulers, W!Tick(p)
      PROVE  W!TypeOK'
  <2> DEFINE requeued == IF requeues THEN {w \in stale : state[w] = "claimed"} ELSE {}
  <2>1. PICK b \in SUBSET {w \in due : state[w] = "pending" \/ w \in requeued} :
          /\ \A w \in b : claims[w] < MaxClaims
          /\ state' = [w \in Wakes |-> IF w \in b THEN "claimed"
                                       ELSE IF w \in requeued THEN "pending"
                                       ELSE state[w]]
          /\ claims' = [w \in Wakes |-> IF w \in b THEN claims[w] + 1 ELSE claims[w]]
          /\ stale' = stale \ (b \cup requeued)
          /\ batch' = [batch EXCEPT ![p] = b]
          /\ pc' = [pc EXCEPT ![p] = IF b = {} THEN "idle" ELSE "next"]
          /\ UNCHANGED <<requeues, due, deliveries, current, faults>>
        BY <1>3 DEF W!Tick
  <2>2. claims' \in [Wakes -> 0 .. MaxClaims]
        BY <2>1
  <2>3. stale' \subseteq {w \in Wakes : state'[w] = "claimed"}
        BY <2>1
  <2>4. /\ state' \in [Wakes -> W!WakeStates] /\ batch' \in [Schedulers -> SUBSET Wakes]
        /\ pc' \in [Schedulers -> W!Steps] /\ pc[p] = "idle"
        BY <1>3, <2>1 DEF W!Tick
  <2>5. \A q \in Schedulers :
          pc'[q] \in {"deliver", "complete", "fail"} => current'[q] \in batch'[q]
        BY <2>1, <2>4
  <2> QED BY <2>1, <2>2, <2>3, <2>4, <2>5
<1>4. ASSUME NEW p \in Schedulers, W!TakeNext(p)
      PROVE  W!TypeOK'
      BY <1>4 DEF W!TakeNext, W!table
<1>5. ASSUME NEW p \in Schedulers, W!Deliver(p)
      PROVE  W!TypeOK'
      BY <1>5 DEF W!Deliver, W!table
<1>6. ASSUME NEW p \in Schedulers, NEW how \in {"completed", "failed"}, W!Settle(p, how),
             pc[p] \in {"complete", "fail"}
      PROVE  W!TypeOK'
      BY <1>6 DEF W!Settle
<1>7. ASSUME NEW p \in Schedulers,
             W!CompleteThrows(p) \/ W!Restart(p)
      PROVE  W!TypeOK'
      BY <1>7 DEF W!CompleteThrows, W!Restart, W!table
<1>8. ASSUME NEW p \in Schedulers, W!FailThrows(p) \/ W!Crash(p)
      PROVE  W!TypeOK'
      BY <1>8 DEF W!FailThrows, W!Crash, W!table
<1> QED BY <1>1, <1>2, <1>3, <1>4, <1>5, <1>6, <1>7, <1>8 DEF W!Next, W!Work, W!Complete, W!Fail

\* What a step means for a claim: deliveries and claims as they were, nobody
\* new who has to deliver.
LEMMA BoughtStays ==
  ASSUME W!TypeOK, NEW w \in Wakes, Bought(w), Undelivered(w)' \subseteq Undelivered(w),
         deliveries'[w] = deliveries[w], claims'[w] = claims[w]
  PROVE  Bought(w)'
<1>1. /\ IsFiniteSet(Undelivered(w)') /\ Cardinality(Undelivered(w)') \in Nat
      /\ Cardinality(Undelivered(w)') <= Cardinality(Undelivered(w))
      /\ Cardinality(Undelivered(w)) \in Nat
      BY FS_Subset, FS_CardinalityType DEF Bought
<1>2. deliveries[w] \in Nat /\ claims[w] \in Nat
      BY DEF W!TypeOK
<1> QED BY <1>1, <1>2 DEF Bought

\* A wake that is claimed has one more scheduler that will deliver it.
LEMMA BoughtClaims ==
  ASSUME W!TypeOK, NEW w \in Wakes, Bought(w), NEW p \in Schedulers,
         Undelivered(w)' \subseteq Undelivered(w) \cup {p},
         deliveries'[w] = deliveries[w], claims'[w] = claims[w] + 1
  PROVE  Bought(w)'
<1>1. /\ IsFiniteSet(Undelivered(w) \cup {p})
      /\ Cardinality(Undelivered(w) \cup {p}) <= Cardinality(Undelivered(w)) + 1
      /\ Cardinality(Undelivered(w)) \in Nat
  <2>1. IsFiniteSet(Undelivered(w)) /\ Cardinality(Undelivered(w)) \in Nat
        BY FS_CardinalityType DEF Bought
  <2>2. PICK U : U = Undelivered(w)
        OBVIOUS
  <2>3. IsFiniteSet(U \cup {p}) /\ Cardinality(U \cup {p}) \in {Cardinality(U), Cardinality(U) + 1}
        BY <2>1, <2>2, FS_AddElement
  <2> QED BY <2>1, <2>2, <2>3
<1>2. /\ IsFiniteSet(Undelivered(w)') /\ Cardinality(Undelivered(w)') \in Nat
      /\ Cardinality(Undelivered(w)') <= Cardinality(Undelivered(w) \cup {p})
      BY <1>1, FS_Subset, FS_CardinalityType
<1>3. deliveries[w] \in Nat /\ claims[w] \in Nat /\ Cardinality(Undelivered(w) \cup {p}) \in Nat
      BY <1>1, FS_CardinalityType DEF W!TypeOK
<1> QED BY <1>1, <1>2, <1>3 DEF Bought

\* A delivery uses up the scheduler that makes it.
LEMMA BoughtDelivers ==
  ASSUME W!TypeOK, NEW w \in Wakes, Bought(w), NEW p \in Undelivered(w),
         Undelivered(w)' = Undelivered(w) \ {p},
         deliveries'[w] \in {deliveries[w], deliveries[w] + 1}, claims'[w] = claims[w]
  PROVE  Bought(w)'
<1>1. /\ IsFiniteSet(Undelivered(w) \ {p})
      /\ Cardinality(Undelivered(w) \ {p}) = Cardinality(Undelivered(w)) - 1
      /\ Cardinality(Undelivered(w)) \in Nat
      BY FS_RemoveElement, FS_CardinalityType DEF Bought
<1>2. deliveries[w] \in Nat /\ claims[w] \in Nat
      BY DEF W!TypeOK
<1> QED BY <1>1, <1>2 DEF Bought

\* A claim of a scheduler: the wakes of its batch are claimed once more.
LEMMA TickStep ==
  ASSUME WakeInv, W!TypeOK', NEW p \in Schedulers, W!Tick(p)
  PROVE  WakeInv'
<1> DEFINE requeued == IF requeues THEN {w \in stale : state[w] = "claimed"} ELSE {}
<1>1. PICK b \in SUBSET {w \in due : state[w] = "pending" \/ w \in requeued} :
        /\ state' = [w \in Wakes |-> IF w \in b THEN "claimed"
                                     ELSE IF w \in requeued THEN "pending"
                                     ELSE state[w]]
        /\ claims' = [w \in Wakes |-> IF w \in b THEN claims[w] + 1 ELSE claims[w]]
        /\ stale' = stale \ (b \cup requeued)
        /\ batch' = [batch EXCEPT ![p] = b]
        /\ pc' = [pc EXCEPT ![p] = IF b = {} THEN "idle" ELSE "next"]
        /\ UNCHANGED <<requeues, due, deliveries, current, faults>>
      BY DEF W!Tick
<1> USE DEF WakeInv
<1>2. /\ batch'[p] = b /\ pc'[p] \in {"idle", "next"} /\ b \subseteq Wakes
      /\ \A q \in Schedulers : q # p => batch'[q] = batch[q] /\ pc'[q] = pc[q]
      BY <1>1 DEF W!TypeOK
<1>3. ASSUME NEW w \in Wakes
      PROVE  Bought(w)'
  <2>1. CASE w \in b
    <3>1. Undelivered(w)' \subseteq Undelivered(w) \cup {p}
          BY <1>1, <1>2 DEF Undelivered
    <3> QED BY <1>1, <2>1, <3>1, BoughtClaims
  <2>2. CASE w \notin b
    <3>1. Undelivered(w)' \subseteq Undelivered(w)
          BY <1>1, <1>2, <2>2 DEF Undelivered
    <3> QED BY <1>1, <2>2, <3>1, BoughtStays
  <2> QED BY <2>1, <2>2
<1>4. CompletesDelivered'
      BY <1>1, <1>2 DEF CompletesDelivered
<1>5. W!CompletedWasDelivered'
      BY <1>1 DEF W!CompletedWasDelivered
<1>6. ASSUME ~requeues
      PROVE  ClaimedOnce'
  <2>1. \A w \in b : state[w] = "pending" /\ claims[w] = 0 /\ state'[w] = "claimed"
        BY <1>1, <1>2, <1>6 DEF ClaimedOnce
  <2>2. \A w \in Wakes : w \notin b => state'[w] = state[w] /\ claims'[w] = claims[w]
        BY <1>1, <1>6
  <2>3. \A w \in b : claims'[w] = 1
        BY <1>1, <1>2, <2>1
  <2>4. \A q \in Schedulers, w \in Wakes : w \in batch'[q] => state'[w] = "claimed"
        BY <1>2, <1>6, <2>1, <2>2 DEF ClaimedOnce
  <2>5. \A q \in Schedulers : q # p => batch'[q] \cap b = {}
        BY <1>2, <1>6, <2>1 DEF ClaimedOnce
  <2> QED BY <1>2, <1>6, <2>1, <2>2, <2>3, <2>4, <2>5 DEF ClaimedOnce
<1> QED BY <1>1, <1>3, <1>4, <1>5, <1>6

\* A delivery, which only a wake that is being claimed gets.
LEMMA DeliverStep ==
  ASSUME WakeInv, W!TypeOK', NEW p \in Schedulers, W!Deliver(p)
  PROVE  WakeInv'
<1> USE DEF WakeInv
<1>1. PICK reached \in BOOLEAN, resolved \in BOOLEAN :
        /\ pc[p] = "deliver"
        /\ resolved => reached
        /\ deliveries' = IF reached
                         THEN [deliveries EXCEPT ![current[p]] = deliveries[current[p]] + 1]
                         ELSE deliveries
        /\ pc' = [pc EXCEPT ![p] = IF resolved THEN "complete" ELSE "fail"]
        /\ UNCHANGED <<requeues, state, due, stale, claims, batch, current>>
      BY DEF W!Deliver, W!table
<1>2. PICK w \in Wakes : w = current[p] /\ w \in batch[p] /\ deliveries[w] \in Nat
      BY <1>1 DEF W!TypeOK
<1>3. /\ pc'[p] \in {"complete", "fail"} /\ (pc'[p] = "complete" => reached)
      /\ \A q \in Schedulers : q # p => pc'[q] = pc[q]
      /\ \A v \in Wakes : v # w => deliveries'[v] = deliveries[v]
      /\ deliveries'[w] = IF reached THEN deliveries[w] + 1 ELSE deliveries[w]
      BY <1>1, <1>2 DEF W!TypeOK
<1>4. \A v \in Wakes : deliveries'[v] \in Nat /\ deliveries[v] \in Nat /\ deliveries'[v] >= deliveries[v]
      BY <1>2, <1>3 DEF W!TypeOK
<1>5. Bought(w)'
  <2>1. p \in Undelivered(w) /\ Undelivered(w)' = Undelivered(w) \ {p}
        BY <1>1, <1>2, <1>3 DEF Undelivered
  <2> QED BY <1>1, <1>2, <1>3, <2>1, BoughtDelivers
<1>6. ASSUME NEW v \in Wakes, v # w
      PROVE  Bought(v)'
  <2>1. Undelivered(v)' \subseteq Undelivered(v)
        BY <1>1, <1>2, <1>3, <1>6 DEF Undelivered
  <2> QED BY <1>1, <1>3, <1>6, <2>1, BoughtStays
<1>7. CompletesDelivered'
  <2> SUFFICES ASSUME NEW q \in Schedulers, pc'[q] = "complete"
               PROVE  deliveries'[current[q]] > 0
      BY <1>1 DEF CompletesDelivered
  <2>1. CASE q = p
        BY <1>2, <1>3, <2>1
  <2>2. CASE q # p
    <3>1. pc[q] = "complete" /\ current[q] \in Wakes
          BY <1>3, <2>2 DEF W!TypeOK
    <3> QED BY <1>4, <3>1 DEF CompletesDelivered
  <2> QED BY <2>1, <2>2
<1>8. W!CompletedWasDelivered'
      BY <1>1, <1>4 DEF W!CompletedWasDelivered
<1>9. ~requeues => ClaimedOnce'
      BY <1>1 DEF ClaimedOnce
<1> QED BY <1>1, <1>5, <1>6, <1>7, <1>8, <1>9

\* The end of a wake: completed, as it was delivered, or failed.
LEMMA SettleStep ==
  ASSUME WakeInv, W!TypeOK', NEW p \in Schedulers, NEW how \in {"completed", "failed"},
         pc[p] = (IF how = "completed" THEN "complete" ELSE "fail"), W!Settle(p, how)
  PROVE  WakeInv'
<1> USE DEF WakeInv
<1>1. PICK w \in Wakes : w = current[p] /\ w \in batch[p]
      BY DEF W!TypeOK
<1>2. /\ UNCHANGED <<requeues, claims, deliveries, current>>
      /\ pc'[p] = "next" /\ batch'[p] = batch[p] \ {w}
      /\ \A q \in Schedulers : q # p => pc'[q] = pc[q] /\ batch'[q] = batch[q]
      /\ \A v \in Wakes : v # w => state'[v] = state[v]
      /\ state'[w] = IF state[w] = "claimed" THEN how ELSE state[w]
      BY <1>1 DEF W!Settle, W!TypeOK
<1>3. ASSUME NEW v \in Wakes
      PROVE  Bought(v)'
  <2>1. Undelivered(v)' \subseteq Undelivered(v)
        BY <1>1, <1>2 DEF Undelivered
  <2> QED BY <1>2, <2>1, BoughtStays
<1>4. CompletesDelivered'
      BY <1>2 DEF CompletesDelivered
<1>5. W!CompletedWasDelivered'
      BY <1>1, <1>2 DEF W!CompletedWasDelivered, CompletesDelivered
<1>6. ~requeues => ClaimedOnce'
  <2> SUFFICES ASSUME ~requeues PROVE ClaimedOnce'
      OBVIOUS
  <2>1. \A q \in Schedulers : batch'[q] \subseteq batch[q] /\ w \notin batch'[q]
        BY <1>1, <1>2 DEF ClaimedOnce
  <2>2. \A q \in Schedulers, v \in Wakes : v \in batch'[q] => state'[v] = "claimed"
        BY <1>2, <2>1 DEF ClaimedOnce
  <2>3. \A v \in Wakes : state'[v] \in {"unused", "pending"} => claims'[v] = 0
        BY <1>1, <1>2 DEF ClaimedOnce
  <2>4. \A v \in Wakes : claims'[v] <= 1
        BY <1>2 DEF ClaimedOnce
  <2>5. \A q, r \in Schedulers, v \in Wakes : v \in batch'[q] /\ v \in batch'[r] => q = r
        BY <2>1 DEF ClaimedOnce
  <2> QED BY <2>2, <2>3, <2>4, <2>5 DEF ClaimedOnce
<1> QED BY <1>2, <1>3, <1>4, <1>5, <1>6

\* Steps that deliver and claim nothing, and settle no wake but one that is
\* pending: batches get no larger, and who delivered has delivered.
LEMMA WakeOther ==
  ASSUME WakeInv, W!TypeOK', UNCHANGED <<requeues, claims, deliveries>>,
         \A w \in Wakes : Undelivered(w)' \subseteq Undelivered(w),
         \A p \in Schedulers :
           /\ batch'[p] \subseteq batch[p]
           /\ pc'[p] = "complete" => pc[p] = "complete" /\ current'[p] = current[p],
         \A w \in Wakes :
           \/ state'[w] = state[w]
           \/ /\ state[w] \in {"unused", "pending"}
              /\ state'[w] \in {"unused", "pending", "cancelled"}
  PROVE  WakeInv'
<1> USE DEF WakeInv
<1>1. \A w \in Wakes : Bought(w)'
      BY BoughtStays
<1>2. CompletesDelivered' /\ W!CompletedWasDelivered'
      BY DEF CompletesDelivered, W!CompletedWasDelivered
<1>3. ~requeues => ClaimedOnce'
  <2> SUFFICES ASSUME ~requeues PROVE ClaimedOnce'
      OBVIOUS
  <2>1. \A q \in Schedulers, v \in Wakes : v \in batch'[q] => state'[v] = "claimed"
        BY DEF ClaimedOnce
  <2>2. \A v \in Wakes : state'[v] \in {"unused", "pending"} => claims'[v] = 0
        BY DEF ClaimedOnce
  <2> QED BY <2>1, <2>2 DEF ClaimedOnce
<1> QED BY <1>1, <1>2, <1>3

\* Whatever wakes, schedulers and faults do, the invariant is kept.
LEMMA WakeStep ==
  ASSUME WakeInv, [W!Next]_(W!vars)
  PROVE  WakeInv'
<1>0. W!TypeOK /\ W!TypeOK'
      BY WakeType DEF WakeInv
<1>1. CASE UNCHANGED W!vars
      BY <1>0, <1>1, WakeOther DEF W!vars, Undelivered
<1>2. ASSUME NEW w \in Wakes,
             W!ScheduleWake(w) \/ W!CancelWake(w) \/ W!BecomeDue(w) \/ W!GrowStale(w)
      PROVE  WakeInv'
  <2>1. \A v \in Wakes :
          \/ state'[v] = state[v]
          \/ /\ state[v] \in {"unused", "pending"}
             /\ state'[v] \in {"unused", "pending", "cancelled"}
        BY <1>0, <1>2 DEF W!ScheduleWake, W!CancelWake, W!BecomeDue, W!GrowStale, W!TypeOK
  <2>2. UNCHANGED <<requeues, claims, deliveries, pc, batch, current>>
        BY <1>2 DEF W!ScheduleWake, W!CancelWake, W!BecomeDue, W!GrowStale
  <2> QED BY <1>0, <2>1, <2>2, WakeOther DEF Undelivered
<1>3. ASSUME NEW p \in Schedulers, W!Tick(p) \/ W!Deliver(p) \/ W!Complete(p) \/ W!Fail(p)
      PROVE  WakeInv'
      BY <1>0, <1>3, TickStep, DeliverStep, SettleStep DEF W!Complete, W!Fail
<1>4. ASSUME NEW p \in Schedulers, W!TakeNext(p)
      PROVE  WakeInv'
  <2>1. /\ UNCHANGED <<requeues, state, claims, deliveries, batch>>
        /\ pc[p] = "next" /\ pc'[p] \in {"deliver", "idle"}
        /\ \A q \in Schedulers : q # p => pc'[q] = pc[q] /\ current'[q] = current[q]
        BY <1>0, <1>4 DEF W!TakeNext, W!TypeOK, W!table
  <2>2. \A w \in Wakes : Undelivered(w)' \subseteq Undelivered(w)
        BY <2>1 DEF Undelivered
  <2>3. \A q \in Schedulers : pc'[q] = "complete" => pc[q] = "complete" /\ current'[q] = current[q]
        BY <2>1
  <2> QED BY <1>0, <2>1, <2>2, <2>3, WakeOther
<1>5. ASSUME NEW p \in Schedulers,
             W!CompleteThrows(p) \/ W!FailThrows(p) \/ W!Crash(p) \/ W!Restart(p)
      PROVE  WakeInv'
  <2>1. /\ UNCHANGED <<requeues, state, claims, deliveries>>
        /\ pc'[p] \in {"fail", "idle", "down"}
        /\ \/ batch'[p] = {}
           \/ batch'[p] = batch[p] /\ current'[p] = current[p]
        /\ \A q \in Schedulers :
             q # p => pc'[q] = pc[q] /\ current'[q] = current[q] /\ batch'[q] = batch[q]
        /\ batch'[p] # {} => \/ pc[p] = "complete" /\ pc'[p] = "fail"
                             \/ pc[p] = "down" /\ pc'[p] = "idle"
        BY <1>0, <1>5 DEF W!CompleteThrows, W!FailThrows, W!Crash, W!Restart, W!TypeOK, W!Steps, W!table
  <2>2. \A w \in Wakes : Undelivered(w)' \subseteq Undelivered(w)
        BY <2>1 DEF Undelivered
  <2>3. \A q \in Schedulers :
          /\ batch'[q] \subseteq batch[q]
          /\ pc'[q] = "complete" => pc[q] = "complete" /\ current'[q] = current[q]
        BY <2>1
  <2> QED BY <1>0, <2>1, <2>2, <2>3, WakeOther
<1> QED BY <1>1, <1>2, <1>3, <1>4, <1>5 DEF W!Next, W!Work

\* A delivery is of a wake that its scheduler holds, and so one that is claimed.
LEMMA DeliveriesAreClaimed ==
  ASSUME WakeInv, [W!Next]_(W!vars), NEW w \in Wakes, ~requeues, deliveries'[w] > deliveries[w]
  PROVE  state[w] = "claimed"
<1>1. \A v \in Wakes : deliveries[v] \in Nat
      BY DEF WakeInv, W!TypeOK
<1>2. ~(deliveries' = deliveries)
      BY <1>1
<1>3. PICK p \in Schedulers : W!Deliver(p)
      BY <1>2 DEF W!Next, W!Work, W!vars, W!ScheduleWake, W!CancelWake, W!BecomeDue, W!GrowStale,
         W!Tick, W!TakeNext, W!Complete, W!Fail, W!Settle, W!CompleteThrows, W!FailThrows,
         W!Crash, W!Restart
<1>4. pc[p] = "deliver" /\ current[p] = w
      BY <1>1, <1>3 DEF W!Deliver, WakeInv, W!TypeOK
<1> QED BY <1>4 DEF WakeInv, W!TypeOK, ClaimedOnce

\* Through crashes, throwing transactions and several schedulers, a claim buys
\* one delivery at most, and what is marked completed has reached its agent.
THEOREM ClaimsCorrect == PlaneSpec => []ClaimsBuyDeliveries
<1>1. PlaneInit => WakeInv
      BY WakeInit DEF PlaneInit
<1>2. WakeInv /\ [PlaneNext]_planeVars => WakeInv'
      BY PlaneStep, WakeStep
<1>3. WakeInv => ClaimsBuyDeliveries
  <2> SUFFICES ASSUME WakeInv, NEW w \in Wakes
               PROVE  deliveries[w] <= claims[w] /\ (~requeues => claims[w] <= 1)
      BY DEF ClaimsBuyDeliveries, W!OneDeliveryPerClaim, WakeInv
  <2>1. /\ Cardinality(Undelivered(w)) \in Nat /\ deliveries[w] \in Nat /\ claims[w] \in Nat
        /\ deliveries[w] + Cardinality(Undelivered(w)) <= claims[w]
        BY FS_CardinalityType DEF WakeInv, Bought, W!TypeOK
  <2>2. ~requeues => claims[w] <= 1
        BY DEF WakeInv, ClaimedOnce
  <2> QED BY <2>1, <2>2
<1> QED BY <1>1, <1>2, <1>3, PTL DEF PlaneSpec

\* Without requeueing, a wake that is delivered is claimed at that moment: it
\* was not cancelled, settled or taken back meanwhile.
THEOREM DeliveredAreClaimed == PlaneSpec => DeliveredWhileClaimed
<1>1. PlaneInit => WakeInv
      BY WakeInit DEF PlaneInit
<1>2. WakeInv /\ [PlaneNext]_planeVars => WakeInv'
      BY PlaneStep, WakeStep
<1>3. WakeInv /\ [PlaneNext]_planeVars =>
        [\A w \in Wakes : ~requeues /\ deliveries'[w] > deliveries[w] => state[w] = "claimed"]_(W!vars)
      BY PlaneStep, DeliveriesAreClaimed
<1> QED BY <1>1, <1>2, <1>3, PTL DEF PlaneSpec, DeliveredWhileClaimed, W!DeliveredWhileClaimed

-----------------------------------------------------------------------------
(* The machine connector *)

LEMMA LeastOf ==
  ASSUME NEW Ns, Ns \subseteq Nat, Ns # {}
  PROVE  \E d \in Ns : \A u \in Ns : d <= u
<1>1. PICK d \in Ns : \A u \in Ns : ~(<<u, d>> \in OpToRel(<, Nat))
      BY NatLessThanWellFounded, WFMin
<1>2. \A u \in Ns : ~(u < d)
      BY <1>1 DEF OpToRel
<1> QED BY <1>2

\* A token that the plane makes up is a token.
LEMMA FreshIsToken ==
  ASSUME M!Tokens \ M!Remembered # {}
  PROVE  M!Fresh \in M!Tokens
<1>1. PICK Ts : Ts = M!Tokens \ M!Remembered
      OBVIOUS
<1>2. Ts \subseteq Nat /\ Ts # {}
      BY <1>1 DEF M!Tokens
<1>3. \E d \in Ts : \A u \in Ts : d <= u
      BY <1>2, LeastOf
<1> QED BY <1>1, <1>3 DEF M!Fresh

\* The reloads that still may connect a server.
Connecting(s) == {o \in Configurers : ops[o].pc = "connect" /\ s \in ops[o].servers}

\* How often the tools of a server are listed, and may come to be.
ToolsFit ==
  \A s \in Servers : host.tools[s] + Cardinality(Connecting(s)) <= Cardinality(Configurers)

\* Requests carry what they can carry, and nothing is reloaded where no
\* process is.
MachineInv ==
  /\ M!TypeOK
  /\ ToolsFit
  /\ \A c \in Connections : sent[c].pc = "beat" => sent[c].token # 0
  /\ connector = "down" => \A o \in Configurers : ops[o].pc \notin {"dispose", "connect"}

LEMMA Reloaders ==
  /\ Cardinality(Configurers) \in Nat /\ Cardinality(Configurers) >= 1
  /\ M!Cardinality(Configurers) = Cardinality(Configurers)
  /\ \A s : /\ IsFiniteSet(Connecting(s)) /\ Cardinality(Connecting(s)) \in Nat
            /\ Cardinality(Connecting(s)) <= Cardinality(Configurers)
<1>1. IsFiniteSet(Configurers) /\ Configurers # {}
      BY PlaneAssumption
<1>2. Cardinality(Configurers) \in Nat /\ Cardinality(Configurers) # 0
      BY <1>1, FS_CardinalityType, FS_EmptySet
<1>3. ASSUME NEW s
      PROVE  /\ IsFiniteSet(Connecting(s)) /\ Cardinality(Connecting(s)) \in Nat
             /\ Cardinality(Connecting(s)) <= Cardinality(Configurers)
  <2>1. Connecting(s) \subseteq Configurers
        BY DEF Connecting
  <2> QED BY <1>1, <2>1, FS_Subset, FS_CardinalityType
<1>4. M!Cardinality(Configurers) = Cardinality(Configurers)
      BY DEF M!Cardinality, Cardinality
<1> QED BY <1>2, <1>3, <1>4

LEMMA NothingOffered == M!Nothing \in M!Capability
BY Reloaders DEF M!Nothing, M!Capability

\* The requests of the connector and of operators.
LEMMA Carried ==
  ASSUME M!TypeOK
  PROVE  /\ \A c \in Connections : sent[c].pc # "idle" => sent[c] \in M!Call
         /\ \A o \in Configurers : ops[o].pc # "idle" => ops[o] \in M!Op
         /\ M!Idle.pc = "idle"
BY DEF M!TypeOK, M!Idle

LEMMA MachineInit ==
  ASSUME M!Init
  PROVE  MachineInv
<1>1. M!TypeOK
  <2>1. reported \in M!Capability /\ host \in M!Capability
        BY NothingOffered DEF M!Init
  <2>2. sent \in [Connections -> M!Call \cup {M!Idle}] /\ ops \in [Configurers -> M!Op \cup {M!Idle}]
        BY DEF M!Init
  <2>3. /\ connector \in M!Phases /\ connectorToken \in M!Token /\ handToken \in M!Token
        /\ timer \in BOOLEAN
        BY DEF M!Init, M!Phases, M!Token
  <2>4. entry \in M!Entry \cup {M!Gone} /\ file \subseteq Servers /\ mishaps \in 0 .. MachineEvents
        BY PlaneAssumption DEF M!Init
  <2> QED BY <2>1, <2>2, <2>3, <2>4 DEF M!TypeOK
<1>2. ToolsFit
      BY Reloaders DEF M!Init, M!Nothing, ToolsFit
<1> QED BY <1>1, <1>2 DEF MachineInv, M!Init, M!Idle

\* What is still to be connected only gets less.
LEMMA FewerConnect ==
  ASSUME ToolsFit, M!TypeOK, host' = host,
         \A s \in Servers, o \in Configurers :
           ops'[o].pc = "connect" /\ s \in ops'[o].servers =>
             ops[o].pc = "connect" /\ s \in ops[o].servers
  PROVE  ToolsFit'
<1> SUFFICES ASSUME NEW s \in Servers
             PROVE  host.tools[s] + Cardinality(Connecting(s)') <= Cardinality(Configurers)
    BY DEF ToolsFit
<1>1. Connecting(s)' \subseteq Connecting(s)
      BY DEF Connecting
<1>2. Cardinality(Connecting(s)') <= Cardinality(Connecting(s)) /\ Cardinality(Connecting(s)') \in Nat
      BY <1>1, Reloaders, FS_Subset, FS_CardinalityType
<1>3. host.tools[s] \in Nat
      BY Reloaders DEF M!TypeOK, M!Capability
<1>4. host.tools[s] + Cardinality(Connecting(s)) <= Cardinality(Configurers)
      BY DEF ToolsFit
<1> QED BY <1>2, <1>3, <1>4, Reloaders

\* What is listed anew is listed once at most.
LEMMA NothingConnected ==
  ASSUME \A s \in Servers : host'.tools[s] = 0
  PROVE  ToolsFit'
<1>1. \A s \in Servers : Cardinality(Connecting(s)') <= Cardinality(Configurers)
                           /\ Cardinality(Connecting(s)') \in Nat
  <2> SUFFICES ASSUME NEW s \in Servers
               PROVE  Cardinality(Connecting(s)') <= Cardinality(Configurers)
                        /\ Cardinality(Connecting(s)') \in Nat
      OBVIOUS
  <2>1. Connecting(s)' \subseteq Configurers
        BY DEF Connecting
  <2> QED BY <2>1, PlaneAssumption, FS_Subset, FS_CardinalityType
<1> QED BY <1>1, Reloaders DEF ToolsFit

LEMMA MachineExits ==
  ASSUME MachineInv, M!Exited, UNCHANGED <<entry, file>>, mishaps' \in 0 .. MachineEvents
  PROVE  MachineInv'
<1>1. /\ \A o \in Configurers : ops'[o] = M!Idle \/ (ops'[o] = ops[o] /\ ops[o].pc \notin {"dispose", "connect"})
      /\ DOMAIN ops' = Configurers /\ ops' = [o \in Configurers |-> ops'[o]]
      BY DEF M!Exited, M!Idle
<1>2. ops' \in [Configurers -> M!Op \cup {M!Idle}]
      BY <1>1 DEF MachineInv, M!TypeOK
<1>3. /\ sent' \in [Connections -> M!Call \cup {M!Idle}]
      /\ \A c \in Connections : sent'[c].pc # "beat"
      BY DEF M!Exited, M!Idle
<1>4. M!TypeOK'
      BY <1>2, <1>3, NothingOffered DEF MachineInv, M!Exited, M!TypeOK, M!Phases, M!Token
<1>5. \A s \in Servers : host'.tools[s] = 0
      BY DEF M!Exited, M!Nothing
<1>6. ToolsFit'
      BY <1>5, NothingConnected
<1>7. \A o \in Configurers : ops'[o].pc \notin {"dispose", "connect"}
      BY <1>1 DEF M!Idle
<1> QED BY <1>3, <1>4, <1>6, <1>7 DEF MachineInv

\* The requests of the connector: what they leave of the plane is an entry.
LEMMA RequestStep ==
  ASSUME MachineInv, NEW c \in Connections, M!Request(c) \/ M!Heartbeat(c)
  PROVE  MachineInv'
<1> DEFINE r == sent[c]
<1>0. M!TypeOK
      BY DEF MachineInv
<1>e. M!Event => mishaps' \in 0 .. MachineEvents
      BY <1>0, PlaneAssumption DEF M!Event, M!TypeOK
<1>p. ASSUME r.pc # "idle"
      PROVE  r \in M!Call /\ r.token \in M!Token /\ r.capability \in M!Capability
      BY <1>0, <1>p, Carried DEF M!Call
<1>o. ASSUME UNCHANGED <<host, ops>>
      PROVE  ToolsFit'
      BY <1>o DEF MachineInv, ToolsFit, Connecting
<1>m. ASSUME NEW q \in M!Call \cup {M!Idle}, sent' = [sent EXCEPT ![c] = q],
             q.pc = "beat" => q.token # 0
      PROVE  /\ sent' \in [Connections -> M!Call \cup {M!Idle}]
             /\ \A d \in Connections : sent'[d].pc = "beat" => sent'[d].token # 0
      BY <1>0, <1>m DEF M!TypeOK, MachineInv
<1>r. ASSUME M!Return(c)
      PROVE  /\ sent' \in [Connections -> M!Call \cup {M!Idle}]
             /\ \A d \in Connections : sent'[d].pc = "beat" => sent'[d].token # 0
  <2>1. sent' = [sent EXCEPT ![c] = M!Idle] /\ M!Idle.pc = "idle"
        BY <1>r DEF M!Return, M!Idle
  <2> QED BY <2>1, <1>m
<1>1. CASE M!Heartbeat(c)
  <2>1. PICK q : q = [pc |-> "beat", token |-> connectorToken, capability |-> reported]
        OBVIOUS
  <2>2. q \in M!Call /\ q.token # 0 /\ sent' = [sent EXCEPT ![c] = q]
        BY <1>0, <1>1, <2>1 DEF M!Heartbeat, M!Call, M!TypeOK
  <2>3. /\ UNCHANGED <<entry, connector, connectorToken, handToken, timer, reported, host, file, ops>>
        /\ mishaps' \in 0 .. MachineEvents
        BY <1>0, <1>1, <1>e DEF M!Heartbeat, M!client, M!TypeOK
  <2> QED BY <1>m, <1>o, <2>2, <2>3 DEF MachineInv, M!TypeOK
<1>2. CASE M!Reregister(c)
  <2>1. PICK q : q = [pc |-> "register", token |-> 0, capability |-> reported]
        OBVIOUS
  <2>2. q \in M!Call /\ q.pc = "register" /\ sent' = [sent EXCEPT ![c] = q]
        BY <1>0, <1>2, <2>1 DEF M!Reregister, M!Call, M!TypeOK, M!Token
  <2>3. UNCHANGED <<entry, connector, connectorToken, handToken, timer, reported, host, file, ops, mishaps>>
        BY <1>2 DEF M!Reregister, M!client
  <2> QED BY <1>m, <1>o, <2>2, <2>3 DEF MachineInv, M!TypeOK
<1>3. CASE M!Reply(c)
  <2>1. r.token \in M!Token
        BY <1>3, <1>p DEF M!Reply
  <2>2. /\ connectorToken' \in M!Token /\ handToken' \in M!Token /\ timer' \in BOOLEAN
        /\ connector' \in M!Phases
        BY <1>0, <1>3, <2>1 DEF M!Reply, M!TypeOK, M!Phases
  <2>3. UNCHANGED <<entry, reported, host, file, ops, mishaps>> /\ M!Return(c)
        BY <1>3 DEF M!Reply
  <2>4. connector' = "down" => connector = "down"
        BY <1>3 DEF M!Reply
  <2> QED BY <1>r, <1>o, <2>2, <2>3, <2>4 DEF MachineInv, M!TypeOK
<1>4. CASE M!Register(c)
  <2>1. PICK t : t = IF entry = M!Gone THEN M!Fresh ELSE entry.token
        OBVIOUS
  <2>2. r \in M!Call /\ r.capability \in M!Capability
        BY <1>4, <1>p DEF M!Register
  <2>3. t \in M!Tokens
        BY <1>0, <1>4, <2>1, FreshIsToken DEF M!Register, M!TypeOK, M!Entry
  <2>4. entry' = [token |-> t, capability |-> r.capability, fresh |-> TRUE]
        BY <1>4, <2>1 DEF M!Register
  <2>5. entry' \in M!Entry
        BY <2>2, <2>3, <2>4 DEF M!Entry
  <2>6. PICK q : q = [r EXCEPT !.pc = "reply", !.token = t]
        OBVIOUS
  <2>7. q \in M!Call /\ q.pc = "reply"
        BY <2>2, <2>3, <2>6 DEF M!Call, M!Token
  <2>8. sent' = [sent EXCEPT ![c] = q]
        BY <1>0, <1>4, <2>1, <2>6 DEF M!Register, M!TypeOK
  <2>9. UNCHANGED <<connector, connectorToken, handToken, timer, reported, host, file, ops, mishaps>>
        BY <1>4 DEF M!Register, M!client
  <2> QED BY <1>m, <1>o, <2>5, <2>7, <2>8, <2>9 DEF MachineInv, M!TypeOK
<1>5. CASE M!Beat(c)
  <2>1. r \in M!Call /\ r.capability \in M!Capability /\ r.token # 0
        BY <1>5, <1>p DEF M!Beat, MachineInv
  <2>2. UNCHANGED <<connector, connectorToken, handToken, timer, reported, host, file, ops, mishaps>>
        BY <1>5 DEF M!Beat, M!client
  <2>3. CASE /\ entry.token = r.token
             /\ entry' = [entry EXCEPT !.fresh = TRUE, !.capability = r.capability]
             /\ M!Return(c)
    <3>1. entry \in M!Entry
          BY <1>0, <2>1, <2>3 DEF M!TypeOK, M!Gone
    <3>2. entry' \in M!Entry
          BY <2>1, <2>3, <3>1 DEF M!Entry
    <3> QED BY <1>r, <1>o, <2>2, <2>3, <3>2 DEF MachineInv, M!TypeOK
  <2>4. CASE M!Goto(c, "refused") /\ UNCHANGED entry
    <3>1. PICK q : q = [r EXCEPT !.pc = "refused"]
          OBVIOUS
    <3>2. q \in M!Call /\ q.pc = "refused"
          BY <2>1, <3>1 DEF M!Call
    <3>3. sent' = [sent EXCEPT ![c] = q]
          BY <1>0, <2>4, <3>1 DEF M!Goto, M!TypeOK
    <3> QED BY <1>m, <1>o, <2>2, <2>4, <3>2, <3>3 DEF MachineInv, M!TypeOK
  <2> QED BY <1>5, <2>3, <2>4 DEF M!Beat
<1>6. CASE M!Withdraw(c)
  <2>1. /\ entry' \in M!Entry \cup {M!Gone} /\ mishaps' \in 0 .. MachineEvents
        BY <1>0, <1>6, <1>e DEF M!Withdraw, M!TypeOK
  <2>2. connectorToken' \in M!Token /\ connector' \in M!Phases /\ connector' # "down"
        BY <1>6 DEF M!Withdraw, M!Token, M!Phases
  <2>3. UNCHANGED <<handToken, timer, reported, host, file, ops>> /\ M!Return(c)
        BY <1>6 DEF M!Withdraw
  <2> QED BY <1>r, <1>o, <2>1, <2>2, <2>3 DEF MachineInv, M!TypeOK
<1> QED BY <1>1, <1>2, <1>3, <1>4, <1>5, <1>6 DEF M!Request

\* The process of the connector, and the table of the plane.
LEMMA ConnectorStep ==
  ASSUME MachineInv,
         \/ \E c \in Connections : M!Boot(c) \/ M!Stop(c) \/ M!Lose(c)
         \/ M!Close \/ M!Exit \/ M!Expire \/ M!Restart
  PROVE  MachineInv'
<1>0. M!TypeOK
      BY DEF MachineInv
<1>e. M!Event => mishaps' \in 0 .. MachineEvents
      BY <1>0, PlaneAssumption DEF M!Event, M!TypeOK
<1>o. ASSUME host'.tools = host.tools, ops' = ops
      PROVE  ToolsFit'
      BY <1>o DEF MachineInv, ToolsFit, Connecting
<1>m. ASSUME NEW c \in Connections,
             NEW q \in M!Call \cup {M!Idle}, sent' = [sent EXCEPT ![c] = q], q.pc # "beat"
      PROVE  /\ sent' \in [Connections -> M!Call \cup {M!Idle}]
             /\ \A d \in Connections : sent'[d].pc = "beat" => sent'[d].token # 0
      BY <1>0, <1>m DEF M!TypeOK, MachineInv
<1>1. ASSUME NEW c \in Connections, M!Boot(c)
      PROVE  MachineInv'
  <2>1. PICK servers \in SUBSET file :
          \E offered : /\ offered = [servers |-> servers,
                                     tools |-> [s \in Servers |-> IF s \in servers THEN 1 ELSE 0]]
                       /\ host' = offered /\ reported' = offered
                       /\ sent' = [sent EXCEPT ![c] =
                                     [pc |-> "register", token |-> 0, capability |-> offered]]
        BY <1>1 DEF M!Boot
  <2>2. PICK offered : /\ offered = [servers |-> servers,
                                     tools |-> [s \in Servers |-> IF s \in servers THEN 1 ELSE 0]]
                       /\ host' = offered /\ reported' = offered
                       /\ sent' = [sent EXCEPT ![c] =
                                     [pc |-> "register", token |-> 0, capability |-> offered]]
        BY <2>1
  <2>3. offered \in M!Capability
    <3>1. [s \in Servers |-> IF s \in servers THEN 1 ELSE 0] \in [Servers -> 0 .. M!Cardinality(Configurers)]
          BY Reloaders
    <3>2. servers \subseteq Servers
          BY <1>0 DEF M!TypeOK
    <3> QED BY <2>2, <3>1, <3>2 DEF M!Capability
  <2>4. PICK q : q = [pc |-> "register", token |-> 0, capability |-> offered]
        OBVIOUS
  <2>5. q \in M!Call /\ q.pc = "register"
        BY <2>3, <2>4 DEF M!Call, M!Token
  <2>6. /\ connector = "down" /\ connector' = "boot"
        /\ UNCHANGED <<entry, connectorToken, handToken, timer, file, ops, mishaps>>
        BY <1>1 DEF M!Boot
  <2>7. ToolsFit'
    <3> SUFFICES ASSUME NEW s \in Servers
                 PROVE  host'.tools[s] + Cardinality(Connecting(s)') <= Cardinality(Configurers)
        BY DEF ToolsFit
    <3>1. Connecting(s)' = {}
          BY <2>6 DEF MachineInv, Connecting
    <3>2. host'.tools[s] \in {0, 1}
          BY <2>2
    <3> QED BY <3>1, <3>2, Reloaders, FS_EmptySet
  <2>8. M!TypeOK'
    <3>1. connector' \in M!Phases
          BY <2>6 DEF M!Phases
    <3>2. sent' \in [Connections -> M!Call \cup {M!Idle}]
          BY <1>m, <2>2, <2>4, <2>5
    <3> QED BY <1>0, <2>2, <2>3, <2>6, <3>1, <3>2 DEF M!TypeOK
  <2> QED BY <1>m, <2>2, <2>4, <2>5, <2>6, <2>7, <2>8 DEF MachineInv
<1>2. ASSUME NEW c \in Connections, M!Stop(c)
      PROVE  MachineInv'
  <2>1. PICK q : q = [pc |-> "withdraw", token |-> connectorToken, capability |-> M!Nothing]
        OBVIOUS
  <2>2. q \in M!Call /\ q.pc = "withdraw"
        BY <1>0, <2>1, NothingOffered DEF M!Call, M!TypeOK
  <2>3. sent' = [sent EXCEPT ![c] = q]
        BY <1>2, <2>1 DEF M!Stop
  <2>4. /\ connector' = "stopping" /\ timer' = FALSE /\ mishaps' \in 0 .. MachineEvents
        /\ UNCHANGED <<entry, connectorToken, handToken, reported, host, file, ops>>
        BY <1>2, <1>e DEF M!Stop
  <2> QED BY <1>0, <1>m, <1>o, <2>2, <2>3, <2>4 DEF MachineInv, M!TypeOK, M!Phases
<1>3. ASSUME NEW c \in Connections, M!Lose(c)
      PROVE  MachineInv'
  <2>1. UNCHANGED <<entry, file>> /\ mishaps' \in 0 .. MachineEvents
        BY <1>3, <1>e DEF M!Lose
  <2>2. CASE M!Exited
        BY <2>1, <2>2, MachineExits
  <2>3. CASE M!Return(c) /\ UNCHANGED <<connector, M!client, host, ops>>
    <3>1. sent' = [sent EXCEPT ![c] = M!Idle] /\ M!Idle.pc # "beat"
          BY <2>3 DEF M!Return, M!Idle
    <3> QED BY <1>0, <1>m, <1>o, <2>1, <2>3, <3>1 DEF MachineInv, M!TypeOK, M!client
  <2> QED BY <1>3, <2>2, <2>3 DEF M!Lose
<1>4. CASE M!Close
  <2>1. /\ connector' = "stopped" /\ host' = [host EXCEPT !.servers = {}]
        /\ UNCHANGED <<entry, connectorToken, handToken, timer, reported, file, sent, ops, mishaps>>
        BY <1>4 DEF M!Close, M!client
  <2>2. host' \in M!Capability /\ host'.tools = host.tools
        BY <1>0, <2>1 DEF M!TypeOK, M!Capability
  <2> QED BY <1>0, <1>o, <2>1, <2>2 DEF MachineInv, M!TypeOK, M!Phases
<1>5. CASE M!Exit
  <2>1. M!Exited /\ UNCHANGED <<entry, file>> /\ mishaps' \in 0 .. MachineEvents
        BY <1>0, <1>5, <1>e DEF M!Exit, M!TypeOK
  <2> QED BY <2>1, MachineExits
<1>6. CASE M!Expire
  <2>1. /\ entry # M!Gone /\ entry' = [entry EXCEPT !.fresh = FALSE]
        /\ UNCHANGED <<connector, connectorToken, handToken, timer, reported, host, file, sent, ops>>
        BY <1>6 DEF M!Expire, M!client
  <2>2. entry' \in M!Entry
        BY <1>0, <2>1 DEF M!TypeOK, M!Entry
  <2>3. mishaps' \in 0 .. MachineEvents
        BY <1>6, <1>e DEF M!Expire
  <2> QED BY <1>0, <1>o, <2>1, <2>2, <2>3 DEF MachineInv, M!TypeOK
<1>7. CASE M!Restart
  <2>1. /\ entry' = M!Gone /\ mishaps' \in 0 .. MachineEvents
        /\ UNCHANGED <<connector, connectorToken, handToken, timer, reported, host, file, sent>>
        BY <1>7, <1>e DEF M!Restart, M!client
  <2>2. /\ \A o \in Configurers : ops'[o] = M!Idle \/ ops'[o] = ops[o]
        /\ ops' = [o \in Configurers |-> ops'[o]]
        BY <1>7 DEF M!Restart
  <2>3. ops' \in [Configurers -> M!Op \cup {M!Idle}]
        BY <1>0, <2>2 DEF M!TypeOK
  <2>4. ToolsFit'
        BY <1>0, <2>1, <2>2, FewerConnect, Carried DEF MachineInv
  <2>5. \A o \in Configurers : ops[o].pc \notin {"dispose", "connect"} =>
          ops'[o].pc \notin {"dispose", "connect"}
        BY <2>2, Carried, <1>0
  <2> QED BY <1>0, <2>1, <2>3, <2>4, <2>5 DEF MachineInv, M!TypeOK
<1> QED BY <1>1, <1>2, <1>3, <1>4, <1>5, <1>6, <1>7

\* A new configuration: what is listed grows with what is connected.
LEMMA ReloadStep ==
  ASSUME MachineInv, NEW o \in Configurers,
         M!Configuring(o) \/ \E servers \in SUBSET Servers : M!Configure(o, servers)
  PROVE  MachineInv'
<1> DEFINE r == ops[o]
<1>0. M!TypeOK
      BY DEF MachineInv
<1>e. M!Event => mishaps' \in 0 .. MachineEvents
      BY <1>0, PlaneAssumption DEF M!Event, M!TypeOK
<1>p. ASSUME r.pc # "idle"
      PROVE  r \in M!Op /\ r.token \in M!Tokens /\ r.servers \subseteq Servers
      BY <1>0, <1>p, Carried DEF M!Op
<1>i. M!Idle.pc = "idle"
      BY DEF M!Idle
<1>f. ASSUME NEW q, ops' = [ops EXCEPT ![o] = q], host' = host,
             q.pc = "connect" => r.pc = "connect" /\ q.servers \subseteq r.servers
      PROVE  ToolsFit'
  <2>1. \A s \in Servers, p \in Configurers :
          ops'[p].pc = "connect" /\ s \in ops'[p].servers => ops[p].pc = "connect" /\ s \in ops[p].servers
        BY <1>0, <1>f DEF M!TypeOK
  <2> QED BY <1>0, <1>f, <2>1, FewerConnect DEF MachineInv
<1>m. ASSUME NEW q \in M!Op \cup {M!Idle}, ops' = [ops EXCEPT ![o] = q],
             q.pc \in {"dispose", "connect"} => r.pc \in {"dispose", "connect"} \/ connector # "down",
             connector' = connector
      PROVE  /\ ops' \in [Configurers -> M!Op \cup {M!Idle}]
             /\ connector' = "down" => \A p \in Configurers : ops'[p].pc \notin {"dispose", "connect"}
      BY <1>0, <1>m DEF M!TypeOK, MachineInv
<1>1. ASSUME NEW servers \in SUBSET Servers, M!Configure(o, servers)
      PROVE  MachineInv'
  <2>1. PICK q : q = [pc |-> "write", token |-> entry.token, servers |-> servers]
        OBVIOUS
  <2>2. q \in M!Op /\ q.pc = "write"
        BY <1>0, <1>1, <2>1 DEF M!Configure, M!Op, M!TypeOK, M!Entry
  <2>3. /\ ops' = [ops EXCEPT ![o] = q] /\ mishaps' \in 0 .. MachineEvents
        /\ UNCHANGED <<entry, connector, connectorToken, handToken, timer, reported, host, file, sent>>
        BY <1>1, <1>e, <2>1 DEF M!Configure, M!client
  <2> QED BY <1>0, <1>m, <1>f, <2>2, <2>3 DEF MachineInv, M!TypeOK
<1>2. CASE M!WriteConfig(o)
  <2>1. r \in M!Op /\ r.servers \subseteq Servers
        BY <1>2, <1>p DEF M!WriteConfig
  <2>2. PICK q : q = [r EXCEPT !.pc = "reload"]
        OBVIOUS
  <2>3. q \in M!Op /\ q.pc = "reload"
        BY <2>1, <2>2 DEF M!Op
  <2>4. ops' = [ops EXCEPT ![o] = q] \/ ops' = [ops EXCEPT ![o] = M!Idle]
        BY <1>0, <1>2, <2>2 DEF M!WriteConfig, M!TypeOK
  <2>5. file' \subseteq Servers /\ mishaps' \in 0 .. MachineEvents
        BY <1>0, <1>2, <1>e, <2>1 DEF M!WriteConfig, M!TypeOK
  <2>6. UNCHANGED <<entry, connector, connectorToken, handToken, timer, reported, host, sent>>
        BY <1>2 DEF M!WriteConfig, M!client
  <2>7. PICK p \in {q, M!Idle} : ops' = [ops EXCEPT ![o] = p]
        BY <2>4
  <2>8. p \in M!Op \cup {M!Idle} /\ p.pc \notin {"dispose", "connect"}
        BY <1>i, <2>3, <2>7
  <2> QED BY <1>0, <1>m, <1>f, <2>5, <2>6, <2>7, <2>8 DEF MachineInv, M!TypeOK
<1>3. CASE M!Reload(o)
  <2>1. r \in M!Op
        BY <1>3, <1>p DEF M!Reload
  <2>2. PICK q : q = [r EXCEPT !.pc = "dispose"]
        OBVIOUS
  <2>3. q \in M!Op /\ q.pc = "dispose"
        BY <2>1, <2>2 DEF M!Op
  <2>4. /\ UNCHANGED <<entry, connector, connectorToken, handToken, timer, reported, host, file, sent, mishaps>>
        BY <1>3 DEF M!Reload, M!client
  <2>5. CASE M!Answers(r.token)
    <3>1. ops' = [ops EXCEPT ![o] = q] /\ connector # "down"
          BY <1>0, <1>3, <2>2, <2>5 DEF M!Reload, M!Answers, M!TypeOK
    <3> QED BY <1>0, <1>m, <1>f, <2>3, <2>4, <3>1 DEF MachineInv, M!TypeOK
  <2>6. CASE ~M!Answers(r.token)
    <3>1. ops' = [ops EXCEPT ![o] = M!Idle]
          BY <1>3, <2>6 DEF M!Reload
    <3> QED BY <1>0, <1>i, <1>m, <1>f, <2>4, <3>1 DEF MachineInv, M!TypeOK
  <2> QED BY <2>5, <2>6
<1>4. CASE M!Disposed(o)
  <2>1. r \in M!Op /\ r.pc = "dispose"
        BY <1>4, <1>p DEF M!Disposed
  <2>2. PICK q : q = [r EXCEPT !.pc = "connect", !.servers = file]
        OBVIOUS
  <2>3. q \in M!Op
        BY <1>0, <2>1, <2>2 DEF M!Op, M!TypeOK
  <2>4. ops' = [ops EXCEPT ![o] = q]
        BY <1>0, <1>4, <2>2 DEF M!Disposed, M!TypeOK
  <2>5. /\ host' = M!Nothing
        /\ UNCHANGED <<entry, connector, connectorToken, handToken, timer, reported, file, sent, mishaps>>
        BY <1>4 DEF M!Disposed, M!client
  <2>6. ToolsFit'
        BY <2>5, NothingConnected DEF M!Nothing
  <2> QED BY <1>0, <1>m, <2>1, <2>3, <2>4, <2>5, <2>6, NothingOffered DEF MachineInv, M!TypeOK
<1>5. CASE M!Connect(o)
  <2>1. r \in M!Op /\ r.pc = "connect"
        BY <1>5, <1>p DEF M!Connect
  <2>2. PICK s \in r.servers :
          /\ ops' = [ops EXCEPT ![o].servers = @ \ {s}]
          /\ \/ host' = [servers |-> host.servers \cup {s}, tools |-> [host.tools EXCEPT ![s] = @ + 1]]
             \/ UNCHANGED host
        BY <1>5 DEF M!Connect
  <2>3. PICK q : q = [r EXCEPT !.servers = r.servers \ {s}]
        OBVIOUS
  <2>4. q \in M!Op /\ q.pc = "connect" /\ q.servers = r.servers \ {s} /\ s \in Servers
        BY <2>1, <2>2, <2>3 DEF M!Op
  <2>5. ops' = [ops EXCEPT ![o] = q]
        BY <1>0, <2>2, <2>3 DEF M!TypeOK
  <2>6. UNCHANGED <<entry, connector, connectorToken, handToken, timer, reported, file, sent, mishaps>>
        BY <1>5 DEF M!Connect, M!client
  <2>7. CASE UNCHANGED host
        BY <1>0, <1>m, <1>f, <2>1, <2>4, <2>5, <2>6, <2>7 DEF MachineInv, M!TypeOK
  <2>8. CASE host' = [servers |-> host.servers \cup {s}, tools |-> [host.tools EXCEPT ![s] = @ + 1]]
    <3>1. host.tools \in [Servers -> 0 .. Cardinality(Configurers)] /\ host.servers \subseteq Servers
          BY <1>0, Reloaders DEF M!TypeOK, M!Capability
    <3>2. \A u \in Servers : host'.tools[u] = IF u = s THEN host.tools[u] + 1 ELSE host.tools[u]
          BY <2>8, <3>1
    <3>3. ASSUME NEW u \in Servers
          PROVE  host'.tools[u] + Cardinality(Connecting(u)') <= Cardinality(Configurers)
      <4>1. host.tools[u] + Cardinality(Connecting(u)) <= Cardinality(Configurers)
            BY DEF MachineInv, ToolsFit
      <4>2. Connecting(u)' = IF u = s THEN Connecting(u) \ {o} ELSE Connecting(u)
            BY <1>0, <2>1, <2>4, <2>5 DEF Connecting, M!TypeOK
      <4>3. o \in Connecting(s)
            BY <2>1, <2>2 DEF Connecting
      <4>4. Cardinality(Connecting(s) \ {o}) = Cardinality(Connecting(s)) - 1
            BY <4>3, Reloaders, FS_RemoveElement
      <4>5. host.tools[u] \in Nat
            BY <3>1, Reloaders
      <4>6. CASE u = s
            BY <3>2, <4>1, <4>2, <4>4, <4>5, <4>6, Reloaders
      <4>7. CASE u # s
            BY <3>2, <4>1, <4>2, <4>7
      <4> QED BY <4>6, <4>7
    <3>4. host' \in M!Capability
      <4>1. \A u \in Servers : Cardinality(Connecting(u)') \in Nat
        <5> SUFFICES ASSUME NEW u \in Servers
                     PROVE  Cardinality(Connecting(u)') \in Nat
            OBVIOUS
        <5>1. Connecting(u)' \subseteq Configurers
              BY DEF Connecting
        <5> QED BY <5>1, PlaneAssumption, FS_Subset, FS_CardinalityType
      <4>2. ASSUME NEW u \in Servers
            PROVE  host'.tools[u] \in 0 .. Cardinality(Configurers)
        <5>1. host'.tools[u] \in Nat
              BY <3>1, <3>2, Reloaders
        <5> QED BY <5>1, <3>3, <4>1, Reloaders
      <4>3. host'.tools \in [Servers -> 0 .. Cardinality(Configurers)]
            BY <2>8, <3>1, <4>2
      <4> QED BY <2>4, <2>8, <3>1, <4>3, Reloaders DEF M!Capability
    <3> QED BY <1>0, <1>m, <2>1, <2>4, <2>5, <2>6, <3>3, <3>4 DEF MachineInv, M!TypeOK, ToolsFit
  <2> QED BY <2>2, <2>7, <2>8
<1>6. CASE M!Reloaded(o)
  <2>1. /\ ops' = [ops EXCEPT ![o] = M!Idle] /\ reported' = host
        /\ UNCHANGED <<entry, connector, connectorToken, handToken, timer, host, file, sent, mishaps>>
        BY <1>6 DEF M!Reloaded
  <2> QED BY <1>0, <1>i, <1>m, <1>f, <2>1 DEF MachineInv, M!TypeOK
<1> QED BY <1>1, <1>2, <1>3, <1>4, <1>5, <1>6 DEF M!Configuring

LEMMA MachineStep ==
  ASSUME MachineInv, [M!Next]_(M!vars)
  PROVE  MachineInv'
<1>1. CASE UNCHANGED M!vars
      BY <1>1 DEF M!vars, M!client, MachineInv, M!TypeOK, ToolsFit, Connecting
<1> QED BY <1>1, RequestStep, ConnectorStep, ReloadStep DEF M!Next

-----------------------------------------------------------------------------
(* The polling task queue *)

\* What a list holds, and that it holds nothing twice.
In(s, x) == \E i \in 1 .. Len(s) : s[i] = x
NoTwice(s) == \A i, j \in 1 .. Len(s) : s[i] = s[j] => i = j

\* push()
LEMMA Pushed ==
  ASSUME NEW S, NEW s \in Seq(S), NEW x \in S
  PROVE  /\ Append(s, x) \in Seq(S)
         /\ \A y : In(Append(s, x), y) <=> In(s, y) \/ y = x
         /\ NoTwice(s) /\ ~In(s, x) => NoTwice(Append(s, x))
<1>1. /\ Append(s, x) \in Seq(S) /\ Len(Append(s, x)) = Len(s) + 1 /\ Len(s) \in Nat
      /\ \A i \in 1 .. Len(s) : Append(s, x)[i] = s[i]
      /\ Append(s, x)[Len(s) + 1] = x
      OBVIOUS
<1>2. \A i \in 1 .. Len(s) + 1 : i \in 1 .. Len(s) \/ i = Len(s) + 1
      BY <1>1
<1>3. ASSUME NEW y
      PROVE  In(Append(s, x), y) <=> In(s, y) \/ y = x
      BY <1>1, <1>2 DEF In
<1>4. ASSUME NoTwice(s), ~In(s, x)
      PROVE  NoTwice(Append(s, x))
      BY <1>1, <1>2, <1>4 DEF In, NoTwice
<1> QED BY <1>1, <1>3, <1>4

\* shift()
LEMMA Shifted ==
  ASSUME NEW S, NEW s \in Seq(S), s # <<>>, NoTwice(s)
  PROVE  /\ Head(s) \in S /\ Tail(s) \in Seq(S) /\ In(s, Head(s))
         /\ \A y : In(Tail(s), y) <=> In(s, y) /\ y # Head(s)
         /\ NoTwice(Tail(s))
<1>1. /\ Head(s) \in S /\ Tail(s) \in Seq(S) /\ Len(s) \in Nat \ {0} /\ Head(s) = s[1]
      /\ Len(Tail(s)) = Len(s) - 1
      /\ \A i \in 1 .. Len(s) - 1 : Tail(s)[i] = s[i + 1]
      BY HeadTailProperties
<1>2. ASSUME NEW y
      PROVE  In(Tail(s), y) <=> In(s, y) /\ y # Head(s)
  <2>1. ASSUME NEW i \in 1 .. Len(s), i # 1
        PROVE  \E j \in 1 .. Len(s) - 1 : Tail(s)[j] = s[i]
    <3>1. PICK j \in 1 .. Len(s) - 1 : j + 1 = i
          BY <1>1, <2>1
    <3> QED BY <1>1, <3>1
  <2>2. \A j \in 1 .. Len(s) - 1 : j + 1 \in 1 .. Len(s) /\ j + 1 # 1 /\ 1 \in 1 .. Len(s)
        BY <1>1
  <2> QED BY <1>1, <2>1, <2>2 DEF In, NoTwice
<1>3. NoTwice(Tail(s))
      BY <1>1 DEF NoTwice
<1>4. In(s, Head(s))
      BY <1>1 DEF In
<1> QED BY <1>1, <1>2, <1>3, <1>4

\* splice(i, 1)
LEMMA Spliced ==
  ASSUME NEW S, NEW s \in Seq(S), NEW i \in 1 .. Len(s)
  PROVE  /\ Q!RemoveAt(s, i) \in Seq(S)
         /\ Len(Q!RemoveAt(s, i)) = Len(s) - 1
         /\ \A j \in 1 .. Len(s) - 1 : Q!RemoveAt(s, i)[j] = IF j < i THEN s[j] ELSE s[j + 1]
<1>1. PICK a, b : a = SubSeq(s, 1, i - 1) /\ b = SubSeq(s, i + 1, Len(s))
      OBVIOUS
<1>2. a \in Seq(S) /\ Len(a) = i - 1 /\ \A j \in 1 .. i - 1 : a[j] = s[j]
      BY <1>1
<1>3. b \in Seq(S) /\ Len(b) = Len(s) - i /\ \A j \in 1 .. Len(s) - i : b[j] = s[j + i]
      BY <1>1
<1>4. Q!RemoveAt(s, i) = a \o b
      BY <1>1 DEF Q!RemoveAt
<1>5. /\ a \o b \in Seq(S) /\ Len(a \o b) = Len(a) + Len(b)
      /\ \A j \in 1 .. Len(a) + Len(b) : (a \o b)[j] = IF j <= Len(a) THEN a[j] ELSE b[j - Len(a)]
      BY <1>2, <1>3, ConcatProperties
<1>6. \A j \in 1 .. Len(s) - 1 : (a \o b)[j] = IF j < i THEN s[j] ELSE b[j - (i - 1)]
      BY <1>2, <1>3, <1>5
<1>7. \A j \in i .. Len(s) - 1 : b[j - (i - 1)] = s[j + 1]
  <2> SUFFICES ASSUME NEW j \in i .. Len(s) - 1
               PROVE  b[j - (i - 1)] = s[j + 1]
      OBVIOUS
  <2>1. PICK k \in 1 .. Len(s) - i : k = j - (i - 1) /\ k + i = j + 1
        OBVIOUS
  <2> QED BY <1>3, <2>1
<1>8. \A j \in 1 .. Len(s) - 1 : j < i \/ j \in i .. Len(s) - 1
      OBVIOUS
<1> QED BY <1>2, <1>3, <1>4, <1>5, <1>6, <1>7, <1>8

\* What a splice leaves was there before, and nothing of it twice.
LEMMA SplicedIn ==
  ASSUME NEW S, NEW s \in Seq(S), NEW i \in 1 .. Len(s), NoTwice(s)
  PROVE  /\ Q!RemoveAt(s, i) \in Seq(S)
         /\ \A y : In(Q!RemoveAt(s, i), y) => In(s, y) /\ y # s[i]
         /\ NoTwice(Q!RemoveAt(s, i))
<1>1. PICK r : r = Q!RemoveAt(s, i)
      OBVIOUS
<1>2. /\ r \in Seq(S) /\ Len(r) = Len(s) - 1 /\ Len(s) \in Nat
      /\ \A j \in 1 .. Len(s) - 1 : r[j] = IF j < i THEN s[j] ELSE s[j + 1]
  <2>1. /\ Q!RemoveAt(s, i) \in Seq(S) /\ Len(Q!RemoveAt(s, i)) = Len(s) - 1
        /\ \A j \in 1 .. Len(s) - 1 :
             Q!RemoveAt(s, i)[j] = IF j < i THEN s[j] ELSE s[j + 1]
        BY SMTT(30), Spliced
  <2> QED BY <1>1, <2>1
<1>3. ASSUME NEW j \in 1 .. Len(s) - 1
      PROVE  \E k \in 1 .. Len(s) : k = (IF j < i THEN j ELSE j + 1) /\ k # i /\ r[j] = s[k]
  <2>1. CASE j < i
    <3>1. j \in 1 .. Len(s) /\ r[j] = s[j] /\ j # i
          BY <1>2, <2>1
    <3> QED BY <2>1, <3>1
  <2>2. CASE ~(j < i)
    <3>1. j + 1 \in 1 .. Len(s) /\ j + 1 # i /\ r[j] = s[j + 1]
          BY <1>2, <2>2
    <3> QED BY <2>2, <3>1
  <2> QED BY <2>1, <2>2
<1>4. NoTwice(r)
  <2> SUFFICES ASSUME NEW j \in 1 .. Len(s) - 1, NEW k \in 1 .. Len(s) - 1, r[j] = r[k]
               PROVE  j = k
      BY <1>2 DEF NoTwice
  <2>1. (IF j < i THEN j ELSE j + 1) = (IF k < i THEN k ELSE k + 1)
        BY <1>3 DEF NoTwice
  <2> QED BY <1>2, <2>1
<1>5. \A y : In(r, y) => In(s, y) /\ y # s[i]
      BY <1>2, <1>3 DEF In, NoTwice
<1> QED BY <1>1, <1>2, <1>4, <1>5

\* Where a task is that was submitted and has not run: in the queue, with an
\* executor that will run it, or with one that was stopped.
Woken(e) == loop[e] = "woken"
Unrun(t) == caller[t] # "none" /\ ran[t] = 0
Stranded(t) == \E e \in stopped : loop[e] = "done" /\ task[e] = t
Kept(t) == In(queued, t) \/ Stranded(t) \/ \E e \in Executors : Woken(e) /\ task[e] = t

\* What an executor was given has run, or it was given nothing.
Free(e) == task[e] = NoTask \/ ran[task[e]] = 1

\* What an executor has, wherever it stands.
Stands(e) ==
  /\ Woken(e) => task[e] \in Tasks /\ Unrun(task[e]) /\ ~In(queued, task[e])
  /\ loop[e] = "execute" => task[e] \in Tasks /\ ran[task[e]] = 1
  /\ loop[e] \in {"loop", "poll"} \/ In(waiters, e) => Free(e)
  /\ In(waiters, e) => loop[e] = "poll" \/ (loop[e] = "done" /\ e \in stopped)

\* No two executors were woken for one task.
WokenOnce ==
  \A e, f \in Executors : Woken(e) /\ Woken(f) /\ task[e] = task[f] => e = f

RunsOnce == \A t \in Tasks : ran[t] = 0 \/ (ran[t] = 1 /\ caller[t] # "none")

QueueInv ==
  /\ Q!TypeOK /\ IsFiniteSet(stopped)
  /\ NoTwice(queued) /\ NoTwice(waiters)
  /\ RunsOnce /\ WokenOnce
  /\ \A e \in Executors : Stands(e)
  /\ \A t \in Tasks : In(queued, t) => Unrun(t)
  /\ \A t \in Tasks : Unrun(t) => Kept(t)

LEMMA QueueInit ==
  ASSUME Q!Init
  PROVE  QueueInv
<1>1. \A x : ~In(<<>>, x)
      BY DEF In
<1>2. NoTwice(<<>>)
      BY DEF NoTwice
<1>3. Q!TypeOK /\ IsFiniteSet(stopped)
      BY FS_EmptySet DEF Q!Init, Q!TypeOK
<1>4. queued = <<>> /\ waiters = <<>>
      BY DEF Q!Init
<1>5. /\ \A t \in Tasks : ran[t] = 0 /\ caller[t] = "none"
      /\ \A e \in Executors : loop[e] = "loop" /\ task[e] = NoTask
      BY DEF Q!Init
<1> QED BY <1>1, <1>2, <1>3, <1>4, <1>5
        DEF QueueInv, RunsOnce, WokenOnce, Stands, Woken, Unrun, Free

\* One executor moves; the others stand where they stood.
OneMoves(e) == \A f \in Executors : f # e => loop'[f] = loop[f] /\ task'[f] = task[f]

\* What the move of one executor keeps, when nothing is run.
LEMMA MoveStep ==
  ASSUME QueueInv, Q!TypeOK', IsFiniteSet(stopped'), NoTwice(queued'), NoTwice(waiters'),
         NEW e \in Executors, OneMoves(e), ran' = ran, stopped \subseteq stopped',
         \A t \in Tasks : caller[t] # "none" => caller'[t] # "none",
         \A t \in Tasks : In(queued', t) => Unrun(t)',
         \A f \in Executors : f # e => (In(waiters', f) => In(waiters, f)),
         \A t \in Tasks : Woken(e)' /\ task'[e] = t =>
           \A f \in Executors : f # e => ~(Woken(f) /\ task[f] = t),
         \A t \in Tasks : In(queued', t) =>
           \A f \in Executors : f # e => ~(Woken(f) /\ task[f] = t),
         Stands(e)', \A t \in Tasks : Unrun(t)' => Kept(t)'
  PROVE  QueueInv'
<1>1. RunsOnce'
      BY DEF QueueInv, RunsOnce
<1>2. ASSUME NEW f \in Executors
      PROVE  Stands(f)'
  <2>1. CASE f = e
        BY <2>1
  <2>2. CASE f # e
    <3>1. loop'[f] = loop[f] /\ task'[f] = task[f] /\ (Free(f)' <=> Free(f))
          BY <2>2 DEF OneMoves, Free
    <3>2. ASSUME Woken(f)
          PROVE  task[f] \in Tasks /\ Unrun(task[f]) /\ ~In(queued', task[f])
          BY <2>2, <3>2 DEF QueueInv, Stands
    <3>3. Woken(f)' => task'[f] \in Tasks /\ Unrun(task[f])' /\ ~In(queued', task[f])
          BY <3>1, <3>2 DEF Woken, Unrun
    <3> QED BY <2>2, <3>1, <3>3 DEF QueueInv, Stands, Unrun
  <2> QED BY <2>1, <2>2
<1>3. WokenOnce'
  <2> SUFFICES ASSUME NEW f \in Executors, NEW g \in Executors, Woken(f)', Woken(g)',
                      task'[f] = task'[g], f # g
               PROVE  FALSE
      BY DEF WokenOnce
  <2>1. task'[f] \in Tasks
        BY <1>2 DEF Stands
  <2>2. CASE f # e /\ g # e
        BY <2>2 DEF QueueInv, WokenOnce, OneMoves, Woken
  <2>3. CASE f = e
        BY <2>1, <2>3 DEF OneMoves, Woken
  <2>4. CASE g = e
        BY <2>1, <2>4 DEF OneMoves, Woken
  <2> QED BY <2>2, <2>3, <2>4
<1> QED BY <1>1, <1>2, <1>3 DEF QueueInv

\* A task that was kept is kept, when no executor that holds it moves and the
\* queue lets go of no other.
LEMMA KeptStays ==
  ASSUME QueueInv, NEW e \in Executors, OneMoves(e), NEW t \in Tasks, Kept(t),
         stopped \subseteq stopped', In(queued, t) => In(queued', t),
         task[e] = t => ~Woken(e) /\ ~Stranded(t)
  PROVE  Kept(t)'
<1>1. CASE In(queued, t)
      BY <1>1 DEF Kept
<1>2. ASSUME NEW f \in Executors, Woken(f), task[f] = t
      PROVE  Kept(t)'
  <2>1. f # e
        BY <1>2
  <2> QED BY <1>2, <2>1 DEF Kept, Woken, OneMoves
<1>3. CASE Stranded(t)
  <2>1. PICK f \in stopped : loop[f] = "done" /\ task[f] = t
        BY <1>3 DEF Stranded
  <2>2. f # e /\ f \in Executors
        BY <1>3, <2>1 DEF QueueInv, Q!TypeOK
  <2> QED BY <2>1, <2>2 DEF Kept, Stranded, OneMoves
<1> QED BY <1>1, <1>2, <1>3 DEF Kept

\* exec()
LEMMA EnqueueStep ==
  ASSUME QueueInv, NEW t \in Tasks, Q!Enqueue(t)
  PROVE  QueueInv'
<1>0. Q!TypeOK /\ NoTwice(queued) /\ NoTwice(waiters)
      BY DEF QueueInv
<1>1. /\ caller[t] = "none" /\ caller' = [caller EXCEPT ![t] = "waiting"]
      /\ UNCHANGED <<stopped, ran>>
      BY DEF Q!Enqueue
<1>2. /\ ran[t] = 0 /\ ~Unrun(t) /\ ~In(queued, t)
      /\ \A e \in Executors : ~(Woken(e) /\ task[e] = t)
      BY <1>1 DEF QueueInv, RunsOnce, Stands, Unrun
<1>3. /\ \A u \in Tasks : Unrun(u)' <=> Unrun(u) \/ u = t
      /\ \A u \in Tasks : caller[u] # "none" => caller'[u] # "none"
      /\ caller' \in [Tasks -> {"none", "waiting", "answered", "timedOut"}]
      BY <1>0, <1>1, <1>2 DEF Unrun, Q!TypeOK
<1>4. CASE waiters = <<>>
  <2>1. queued' = Append(queued, t) /\ UNCHANGED <<waiters, loop, task>>
        BY <1>4 DEF Q!Enqueue
  <2>2. /\ queued' \in Seq(Tasks) /\ NoTwice(queued')
        /\ \A u : In(queued', u) <=> In(queued, u) \/ u = t
        BY <1>0, <1>2, <2>1, Pushed DEF Q!TypeOK
  <2>3. Q!TypeOK'
        BY <1>0, <1>1, <1>3, <2>1, <2>2 DEF Q!TypeOK
  <2>4. \A e \in Executors : /\ Woken(e)' <=> Woken(e)
                             /\ Free(e)' <=> Free(e)
        BY <1>1, <2>1 DEF Woken, Free
  <2>5. \A e \in Executors : Stands(e)'
        BY <1>1, <1>2, <1>3, <2>1, <2>2, <2>4 DEF QueueInv, Stands
  <2>6. WokenOnce'
        BY <2>1, <2>4 DEF QueueInv, WokenOnce
  <2>7. \A u \in Tasks : Unrun(u)' => Kept(u)'
        BY <1>1, <1>3, <2>1, <2>2, <2>4 DEF QueueInv, Kept, Stranded
  <2>8. RunsOnce'
        BY <1>1, <1>3 DEF QueueInv, RunsOnce
  <2> QED BY <1>0, <1>1, <1>3, <2>1, <2>2, <2>3, <2>5, <2>6, <2>7, <2>8 DEF QueueInv
<1>5. CASE waiters # <<>>
  <2>1. PICK e \in Executors :
          /\ In(waiters, e) /\ waiters' \in Seq(Executors) /\ NoTwice(waiters')
          /\ \A x : In(waiters', x) <=> In(waiters, x) /\ x # e
          /\ loop' = [loop EXCEPT ![e] = IF loop[e] = "poll" THEN "woken" ELSE loop[e]]
          /\ task' = [task EXCEPT ![e] = t]
          /\ queued' = queued
    <3>1. /\ Head(waiters) \in Executors /\ In(waiters, Head(waiters))
          /\ Tail(waiters) \in Seq(Executors) /\ NoTwice(Tail(waiters))
          /\ \A x : In(Tail(waiters), x) <=> In(waiters, x) /\ x # Head(waiters)
          BY <1>0, <1>5, Shifted DEF Q!TypeOK
    <3>2. PICK e \in Executors : e = Head(waiters)
          BY <3>1
    <3>3. /\ waiters' = Tail(waiters) /\ task' = [task EXCEPT ![e] = t] /\ queued' = queued
          /\ loop' = [loop EXCEPT ![e] = IF loop[e] = "poll" THEN "woken" ELSE loop[e]]
          BY <1>5, <3>2 DEF Q!Enqueue
    <3> QED BY <3>1, <3>2, <3>3
  <2>2. /\ loop[e] = "poll" \/ (loop[e] = "done" /\ e \in stopped)
        /\ Free(e)
        BY <2>1 DEF QueueInv, Stands
  <2>3. /\ task'[e] = t /\ OneMoves(e)
        /\ loop'[e] = "woken" \/ (loop'[e] = "done" /\ e \in stopped)
        /\ ~Woken(e) /\ \A u \in Tasks : task[e] = u => ~Unrun(u)
        BY <1>0, <2>1, <2>2, PlaneAssumption DEF Q!TypeOK, OneMoves, Woken, Free, Unrun
  <2>4. Q!TypeOK'
        BY <1>0, <1>1, <1>3, <2>1 DEF Q!TypeOK
  <2>5. Stands(e)'
        BY <1>1, <1>2, <1>3, <2>1, <2>3 DEF Stands, Woken
  <2>6. ASSUME NEW u \in Tasks, Unrun(u)'
        PROVE  Kept(u)'
    <3>1. CASE u = t
          BY <1>1, <2>3, <3>1 DEF Kept, Woken, Stranded
    <3>2. CASE u # t
      <4>1. Unrun(u) /\ Kept(u) /\ task[e] # u
            BY <1>3, <2>3, <2>6, <3>2 DEF QueueInv
      <4> QED BY <1>1, <2>1, <2>3, <4>1, KeptStays
    <3> QED BY <3>1, <3>2
  <2>7. \A u \in Tasks : In(queued', u) => Unrun(u)' /\ u # t
        BY <1>2, <1>3, <2>1 DEF QueueInv
  <2>8. \A u \in Tasks : In(queued', u) => \A f \in Executors : ~(Woken(f) /\ task[f] = u)
        BY <2>1 DEF QueueInv, Stands
  <2>9. IsFiniteSet(stopped') /\ NoTwice(queued') /\ ran' = ran /\ stopped \subseteq stopped'
        BY <1>0, <1>1, <2>1 DEF QueueInv
  <2> QED BY <1>2, <1>3, <2>1, <2>3, <2>4, <2>5, <2>6, <2>7, <2>8, <2>9, MoveStep
<1> QED BY <1>4, <1>5

\* poll()
LEMMA PollStep ==
  ASSUME QueueInv, NEW e \in Executors, Q!Poll(e)
  PROVE  QueueInv'
<1>0. Q!TypeOK /\ NoTwice(queued) /\ NoTwice(waiters) /\ IsFiniteSet(stopped)
      BY DEF QueueInv
<1>1. /\ loop[e] = "loop" /\ e \notin stopped /\ UNCHANGED <<caller, stopped, ran>>
      BY DEF Q!Poll
<1>2. Free(e) /\ ~In(waiters, e) /\ ~Woken(e)
      BY <1>1 DEF QueueInv, Stands, Woken
<1>3. /\ \A u \in Tasks : Unrun(u)' <=> Unrun(u)
      /\ \A u \in Tasks : task[e] = u => ~Unrun(u)
      BY <1>1, <1>2, PlaneAssumption DEF Unrun, Free
<1>4. CASE queued # <<>>
  <2>1. PICK t \in Tasks :
          /\ In(queued, t) /\ queued' \in Seq(Tasks) /\ NoTwice(queued')
          /\ \A x : In(queued', x) <=> In(queued, x) /\ x # t
          /\ loop' = [loop EXCEPT ![e] = "woken"] /\ task' = [task EXCEPT ![e] = t]
          /\ waiters' = waiters
    <3>1. /\ Head(queued) \in Tasks /\ In(queued, Head(queued))
          /\ Tail(queued) \in Seq(Tasks) /\ NoTwice(Tail(queued))
          /\ \A x : In(Tail(queued), x) <=> In(queued, x) /\ x # Head(queued)
          BY <1>0, <1>4, Shifted DEF Q!TypeOK
    <3>2. /\ queued' = Tail(queued) /\ task' = [task EXCEPT ![e] = Head(queued)]
          /\ loop' = [loop EXCEPT ![e] = "woken"] /\ waiters' = waiters
          BY <1>4 DEF Q!Poll
    <3> QED BY <3>1, <3>2
  <2>2. /\ task'[e] = t /\ loop'[e] = "woken" /\ OneMoves(e)
        BY <1>0, <2>1 DEF OneMoves, Q!TypeOK
  <2>3. Q!TypeOK'
        BY <1>0, <1>1, <2>1 DEF Q!TypeOK
  <2>4. Unrun(t)
        BY <2>1 DEF QueueInv
  <2>5. Stands(e)'
        BY <1>2, <1>3, <2>1, <2>2, <2>4 DEF Stands, Woken
  <2>6. ASSUME NEW u \in Tasks, Unrun(u)'
        PROVE  Kept(u)'
    <3>1. CASE u = t
          BY <2>2, <3>1 DEF Kept, Woken
    <3>2. CASE u # t
      <4>1. Kept(u) /\ task[e] # u
            BY <1>3, <2>6 DEF QueueInv
      <4> QED BY <1>1, <2>1, <2>2, <3>2, <4>1, KeptStays
    <3> QED BY <3>1, <3>2
  <2>7. \A u \in Tasks : In(queued, u) => Unrun(u)' /\ \A f \in Executors : ~(Woken(f) /\ task[f] = u)
        BY <1>3 DEF QueueInv, Stands
  <2> QED BY <1>0, <1>1, <2>1, <2>2, <2>3, <2>5, <2>6, <2>7, MoveStep
<1>5. CASE queued = <<>>
  <2>1. /\ waiters' = Append(waiters, e) /\ loop' = [loop EXCEPT ![e] = "poll"]
        /\ UNCHANGED <<queued, task>>
        BY <1>5 DEF Q!Poll
  <2>2. /\ waiters' \in Seq(Executors) /\ NoTwice(waiters')
        /\ \A x : In(waiters', x) <=> In(waiters, x) \/ x = e
        BY <1>0, <1>2, <2>1, Pushed DEF Q!TypeOK
  <2>3. loop'[e] = "poll" /\ task'[e] = task[e] /\ OneMoves(e) /\ (Free(e)' <=> Free(e))
        BY <1>0, <1>1, <2>1 DEF Q!TypeOK, OneMoves, Free
  <2>4. Q!TypeOK'
        BY <1>0, <1>1, <2>1, <2>2 DEF Q!TypeOK
  <2>5. Stands(e)'
        BY <1>2, <2>3 DEF Stands, Woken
  <2>6. \A u \in Tasks : Unrun(u)' => Kept(u)'
        BY <1>1, <1>3, <2>1, <2>3, KeptStays DEF QueueInv
  <2>7. \A u \in Tasks : In(queued', u) => Unrun(u)' /\ \A f \in Executors : ~(Woken(f) /\ task[f] = u)
        BY <1>3, <2>1 DEF QueueInv, Stands
  <2>8. ~Woken(e)'
        BY <2>3 DEF Woken
  <2> QED BY <1>0, <1>1, <2>1, <2>2, <2>3, <2>4, <2>5, <2>6, <2>7, <2>8, MoveStep
<1> QED BY <1>4, <1>5

\* A poll that times out.
LEMMA PollTimeoutStep ==
  ASSUME QueueInv, NEW e \in Executors, Q!PollTimeout(e)
  PROVE  QueueInv'
<1>0. Q!TypeOK /\ NoTwice(queued) /\ NoTwice(waiters) /\ IsFiniteSet(stopped)
      BY DEF QueueInv
<1>1. /\ loop' = [loop EXCEPT ![e] = IF loop[e] = "poll" THEN "loop" ELSE loop[e]]
      /\ UNCHANGED <<caller, queued, task, stopped, ran>>
      BY DEF Q!PollTimeout
<1>2. PICK i \in 1 .. Len(waiters) : waiters[i] = e /\ waiters' = Q!RemoveAt(waiters, i)
      BY DEF Q!PollTimeout
<1>3. /\ waiters' \in Seq(Executors) /\ NoTwice(waiters')
      /\ \A x : In(waiters', x) => In(waiters, x) /\ x # e
      BY <1>0, <1>2, SplicedIn DEF Q!TypeOK
<1>4. In(waiters, e) /\ Free(e) /\ (loop[e] = "poll" \/ (loop[e] = "done" /\ e \in stopped))
      BY <1>2 DEF In, QueueInv, Stands
<1>5. /\ loop'[e] \in {"loop", "done"} /\ task'[e] = task[e] /\ OneMoves(e) /\ (Free(e)' <=> Free(e))
      /\ ~Woken(e)
      BY <1>0, <1>1, <1>4 DEF Q!TypeOK, OneMoves, Free, Woken
<1>6. Q!TypeOK'
      BY <1>0, <1>1, <1>3 DEF Q!TypeOK
<1>7. Stands(e)' /\ ~Woken(e)'
      BY <1>3, <1>4, <1>5 DEF Stands, Woken
<1>8. /\ \A u \in Tasks : Unrun(u)' <=> Unrun(u)
      /\ \A u \in Tasks : task[e] = u => ~Unrun(u)
      BY <1>1, <1>4, PlaneAssumption DEF Unrun, Free
<1>9. \A u \in Tasks : Unrun(u)' => Kept(u)'
      BY <1>1, <1>5, <1>8, KeptStays DEF QueueInv
<1>10. \A u \in Tasks : In(queued', u) => Unrun(u)' /\ \A f \in Executors : ~(Woken(f) /\ task[f] = u)
      BY <1>1, <1>8 DEF QueueInv, Stands
<1> QED BY <1>0, <1>1, <1>3, <1>5, <1>6, <1>7, <1>9, <1>10, MoveStep

\* stop(), and an agent that leaves its loop.
LEMMA StopStep ==
  ASSUME QueueInv, NEW e \in Executors, Q!Stop(e) \/ Q!Leave(e)
  PROVE  QueueInv'
<1>0. Q!TypeOK /\ NoTwice(queued) /\ NoTwice(waiters) /\ IsFiniteSet(stopped)
      BY DEF QueueInv
<1>1. /\ stopped' = stopped \cup {e} /\ UNCHANGED <<caller, queued, waiters, task, ran>>
      /\ loop' = [loop EXCEPT ![e] = IF loop[e] \in {"loop", "poll"} THEN "done" ELSE loop[e]]
      BY DEF Q!Stop, Q!Leave
<1>2. Q!TypeOK' /\ OneMoves(e)
      BY <1>0, <1>1 DEF Q!TypeOK, OneMoves
<1>3. IsFiniteSet(stopped') /\ stopped \subseteq stopped'
      BY <1>0, <1>1, FS_AddElement
<1>4. \A u \in Tasks : Unrun(u)' <=> Unrun(u)
      BY <1>1 DEF Unrun
<1>5. CASE loop[e] \in {"loop", "poll"}
  <2>1. loop'[e] = "done" /\ task'[e] = task[e] /\ (Free(e)' <=> Free(e)) /\ Free(e) /\ ~Woken(e)
        BY <1>0, <1>1, <1>5 DEF Q!TypeOK, Free, QueueInv, Stands, Woken
  <2>2. Stands(e)' /\ ~Woken(e)'
        BY <1>1, <2>1 DEF Stands, Woken
  <2>3. \A u \in Tasks : task[e] = u => ~Unrun(u)
        BY <2>1, PlaneAssumption DEF Unrun, Free
  <2>4. \A u \in Tasks : Unrun(u)' => Kept(u)'
        BY <1>1, <1>2, <1>3, <1>4, <2>3, KeptStays DEF QueueInv
  <2>5. \A u \in Tasks :
          In(queued', u) => Unrun(u)' /\ \A f \in Executors : ~(Woken(f) /\ task[f] = u)
        BY <1>1, <1>4 DEF QueueInv, Stands
  <2> QED BY <1>0, <1>1, <1>2, <1>3, <2>2, <2>4, <2>5, MoveStep
<1>6. CASE loop[e] \notin {"loop", "poll"}
  <2>1. loop' = loop
        BY <1>0, <1>1, <1>6 DEF Q!TypeOK
  <2>2. \A f \in Executors : /\ Woken(f)' <=> Woken(f)
                             /\ Free(f)' <=> Free(f)
        BY <1>1, <2>1 DEF Woken, Free
  <2>3. \A f \in Executors : Stands(f)'
        BY <1>1, <1>4, <2>1, <2>2 DEF QueueInv, Stands
  <2>4. \A u \in Tasks : Unrun(u)' => Kept(u)'
        BY <1>1, <1>4, <2>1, <2>2 DEF QueueInv, Kept, Stranded
  <2>5. RunsOnce' /\ WokenOnce'
        BY <1>1, <2>2 DEF QueueInv, RunsOnce, WokenOnce
  <2> QED BY <1>0, <1>1, <1>2, <1>3, <1>4, <2>3, <2>4, <2>5 DEF QueueInv
<1> QED BY <1>5, <1>6

\* A caller that gives up, and one that is answered.
LEMMA ExpireStep ==
  ASSUME QueueInv, NEW t \in Tasks, Q!Expire(t)
  PROVE  QueueInv'
<1>1. /\ caller' = [caller EXCEPT ![t] = "timedOut"] /\ caller[t] = "waiting" /\ Q!TypeOK
      /\ UNCHANGED <<queued, waiters, loop, task, stopped, ran>>
      BY DEF Q!Expire, QueueInv
<1>2. /\ Q!TypeOK'
      /\ \A u \in Tasks : caller'[u] = "none" <=> caller[u] = "none"
      BY <1>1 DEF Q!TypeOK
<1>3. \A u \in Tasks : Unrun(u)' <=> Unrun(u)
      BY <1>1, <1>2 DEF Unrun
<1>4. \A f \in Executors : /\ Woken(f)' <=> Woken(f)
                           /\ Free(f)' <=> Free(f)
      BY <1>1 DEF Woken, Free
<1>5. \A f \in Executors : Stands(f)'
      BY <1>1, <1>3, <1>4 DEF QueueInv, Stands
<1>6. \A u \in Tasks : Unrun(u)' => Kept(u)'
      BY <1>1, <1>3, <1>4 DEF QueueInv, Kept, Stranded
<1>7. RunsOnce' /\ WokenOnce'
      BY <1>1, <1>2, <1>4 DEF QueueInv, RunsOnce, WokenOnce
<1> QED BY <1>1, <1>2, <1>3, <1>5, <1>6, <1>7 DEF QueueInv

LEMMA PostResultStep ==
  ASSUME QueueInv, NEW e \in Executors, Q!PostResult(e)
  PROVE  QueueInv'
<1>0. Q!TypeOK /\ NoTwice(queued) /\ NoTwice(waiters) /\ IsFiniteSet(stopped)
      BY DEF QueueInv
<1>1. /\ loop[e] = "execute" /\ loop' = [loop EXCEPT ![e] = "loop"]
      /\ caller' = [caller EXCEPT ![task[e]] = IF caller[task[e]] = "waiting" THEN "answered"
                                               ELSE caller[task[e]]]
      /\ UNCHANGED <<queued, waiters, task, stopped, ran>>
      BY DEF Q!PostResult
<1>2. task[e] \in Tasks /\ ran[task[e]] = 1 /\ ~In(waiters, e) /\ ~Woken(e)
      BY <1>1 DEF QueueInv, Stands, Woken
<1>3. /\ Q!TypeOK' /\ OneMoves(e)
      /\ \A u \in Tasks : caller'[u] = "none" <=> caller[u] = "none"
      BY <1>0, <1>1, <1>2 DEF Q!TypeOK, OneMoves
<1>4. /\ \A u \in Tasks : Unrun(u)' <=> Unrun(u)
      /\ \A u \in Tasks : task[e] = u => ~Unrun(u)
      BY <1>1, <1>2, <1>3 DEF Unrun
<1>5. loop'[e] = "loop" /\ task'[e] = task[e] /\ Free(e)'
      BY <1>0, <1>1, <1>2 DEF Q!TypeOK, Free
<1>6. Stands(e)' /\ ~Woken(e)'
      BY <1>1, <1>2, <1>5 DEF Stands, Woken
<1>7. \A u \in Tasks : Unrun(u)' => Kept(u)'
      BY <1>1, <1>3, <1>4, KeptStays DEF QueueInv
<1>8. \A u \in Tasks : In(queued', u) => Unrun(u)' /\ \A f \in Executors : ~(Woken(f) /\ task[f] = u)
      BY <1>1, <1>4 DEF QueueInv, Stands
<1> QED BY <1>0, <1>1, <1>3, <1>6, <1>7, <1>8, MoveStep

\* An executor that wakes up runs its task, or leaves with it.
LEMMA WakeUpStep ==
  ASSUME QueueInv, NEW e \in Executors, Q!Wake(e)
  PROVE  QueueInv'
<1>0. Q!TypeOK /\ NoTwice(queued) /\ NoTwice(waiters) /\ IsFiniteSet(stopped)
      BY DEF QueueInv
<1>1. /\ loop[e] = "woken" /\ Woken(e) /\ task[e] \in Tasks /\ Unrun(task[e])
      /\ ~In(queued, task[e]) /\ ~In(waiters, e)
      /\ UNCHANGED <<caller, queued, waiters, task, stopped>>
      BY DEF Q!Wake, QueueInv, Stands, Woken
<1>2. CASE e \in stopped
  <2>1. loop' = [loop EXCEPT ![e] = "done"] /\ ran' = ran
        BY <1>2 DEF Q!Wake
  <2>2. Q!TypeOK' /\ OneMoves(e) /\ loop'[e] = "done" /\ task'[e] = task[e]
        BY <1>0, <1>1, <2>1 DEF Q!TypeOK, OneMoves
  <2>3. \A u \in Tasks : Unrun(u)' <=> Unrun(u)
        BY <1>1, <2>1 DEF Unrun
  <2>4. Stands(e)' /\ ~Woken(e)'
        BY <1>1, <2>2 DEF Stands, Woken
  <2>5. ASSUME NEW u \in Tasks, Unrun(u)'
        PROVE  Kept(u)'
    <3>1. CASE u = task[e]
          BY <1>1, <1>2, <2>2, <3>1 DEF Kept, Stranded
    <3>2. CASE u # task[e]
          BY <1>1, <2>2, <2>3, <2>5, <3>2, KeptStays DEF QueueInv
    <3> QED BY <3>1, <3>2
  <2>6. \A u \in Tasks :
          In(queued', u) => Unrun(u)' /\ \A f \in Executors : ~(Woken(f) /\ task[f] = u)
        BY <1>1, <2>3 DEF QueueInv, Stands
  <2> QED BY <1>0, <1>1, <2>1, <2>2, <2>4, <2>5, <2>6, MoveStep
<1>3. CASE e \notin stopped
  <2>1. PICK t \in Tasks : t = task[e]
        BY <1>1
  <2>2. /\ loop' = [loop EXCEPT ![e] = "execute"]
        /\ ran' = [ran EXCEPT ![t] = ran[t] + 1] /\ ran[t] = 0
        BY <1>1, <1>3, <2>1 DEF Q!Wake, Unrun
  <2>3. /\ loop'[e] = "execute" /\ OneMoves(e) /\ ran'[t] = 1
        /\ \A u \in Tasks : u # t => ran'[u] = ran[u]
        BY <1>0, <1>1, <2>2 DEF Q!TypeOK, OneMoves
  <2>4. Q!TypeOK'
        BY <1>0, <1>1, <2>2 DEF Q!TypeOK
  <2>5. \A u \in Tasks : Unrun(u)' <=> Unrun(u) /\ u # t
        BY <1>1, <2>3 DEF Unrun
  <2>6. RunsOnce'
        BY <1>1, <2>1, <2>3 DEF QueueInv, RunsOnce, Unrun
  <2>7. ASSUME NEW f \in Executors, f # e
        PROVE  Stands(f)'
    <3>1. loop'[f] = loop[f] /\ task'[f] = task[f] /\ (Woken(f)' <=> Woken(f))
          BY <2>3, <2>7 DEF OneMoves, Woken
    <3>2. Woken(f) => task[f] # t
          BY <1>1, <2>1, <2>7 DEF QueueInv, WokenOnce
    <3>3. Free(f) => Free(f)'
      <4>1. task[f] \in Tasks \cup {NoTask}
            BY <1>0 DEF Q!TypeOK
      <4> QED BY <2>3, <3>1, <4>1 DEF Free
    <3>4. loop[f] = "execute" => task[f] \in Tasks /\ ran'[task[f]] = 1
          BY <2>3 DEF QueueInv, Stands
    <3>5. Woken(f) => task[f] \in Tasks /\ Unrun(task[f]) /\ ~In(queued, task[f])
          BY DEF QueueInv, Stands
    <3>6. Woken(f)' => task'[f] \in Tasks /\ Unrun(task[f])' /\ ~In(queued', task'[f])
      <4>1. \A u \in Tasks : u = task[f] /\ Unrun(u) /\ u # t => Unrun(u)'
            BY <2>5
      <4> QED BY <1>1, <3>1, <3>2, <3>5, <4>1 DEF Unrun
    <3> QED BY <1>1, <3>1, <3>3, <3>4, <3>6 DEF QueueInv, Stands, Unrun
  <2>8. Stands(e)' /\ ~Woken(e)'
        BY <1>1, <2>1, <2>3 DEF Stands, Woken
  <2>9. WokenOnce'
        BY <1>1, <2>3, <2>8 DEF QueueInv, WokenOnce, OneMoves, Woken
  <2>10. \A u \in Tasks : Unrun(u)' => Kept(u)'
        BY <1>1, <2>1, <2>3, <2>5, KeptStays DEF QueueInv
  <2>11. \A u \in Tasks : In(queued', u) => Unrun(u)'
        BY <1>1, <2>1, <2>5 DEF QueueInv
  <2> QED BY <1>0, <1>1, <2>4, <2>6, <2>7, <2>8, <2>9, <2>10, <2>11 DEF QueueInv
<1> QED BY <1>2, <1>3

LEMMA QueueStep ==
  ASSUME QueueInv, [Q!Next]_(Q!vars)
  PROVE  QueueInv'
<1>1. CASE UNCHANGED Q!vars
  <2>1. UNCHANGED <<caller, queued, waiters, loop, task, stopped, ran>>
        BY <1>1 DEF Q!vars
  <2> QED BY <2>1 DEF QueueInv, Q!TypeOK, RunsOnce, WokenOnce, Stands, Kept, Stranded, Unrun,
         Woken, Free, In, NoTwice
<1> QED BY <1>1, EnqueueStep, ExpireStep, PollStep, WakeUpStep, PostResultStep, StopStep,
       PollTimeoutStep DEF Q!Next, Q!Loop

\* Each lost task is with an executor that was stopped, and not two with one.
LEMMA QueueSafe ==
  ASSUME QueueInv
  PROVE  ExecutedOnce
<1>1. \A t \in Tasks : ran[t] <= 1
      BY DEF QueueInv, RunsOnce
<1>2. PICK f : f = [e \in stopped |-> task[e]]
      OBVIOUS
<1>3. Q!Lost \subseteq {f[e] : e \in stopped}
  <2> SUFFICES ASSUME NEW t \in Q!Lost
               PROVE  \E e \in stopped : task[e] = t
      BY <1>2
  <2>1. t \in Tasks /\ Unrun(t) /\ ~Q!Given(t) /\ ~In(queued, t)
        BY DEF Q!Lost, Q!Contains, Unrun, In
  <2>2. Kept(t) /\ ~\E e \in Executors : Woken(e) /\ task[e] = t
        BY <2>1 DEF QueueInv, Q!Given, Woken
  <2> QED BY <2>1, <2>2 DEF Kept, Stranded
<1>4. /\ IsFiniteSet({f[e] : e \in stopped})
      /\ Cardinality({f[e] : e \in stopped}) <= Cardinality(stopped)
  <2>1. PICK R : R = {f[e] : e \in stopped}
        OBVIOUS
  <2>2. f \in Surjection(stopped, R)
        BY <1>2, <2>1 DEF Surjection
  <2>3. IsFiniteSet(stopped)
        BY DEF QueueInv
  <2>4. IsFiniteSet(R) /\ Cardinality(R) <= Cardinality(stopped)
        BY <2>2, <2>3, FS_Surjection
  <2> QED BY <2>1, <2>4
<1>5. /\ Cardinality(Q!Lost) <= Cardinality({f[e] : e \in stopped})
      /\ Cardinality(Q!Lost) \in Nat /\ Cardinality({f[e] : e \in stopped}) \in Nat
      /\ Cardinality(stopped) \in Nat
      BY <1>3, <1>4, FS_Subset, FS_CardinalityType DEF QueueInv
<1>6. Q!Cardinality(Q!Lost) = Cardinality(Q!Lost) /\ Q!Cardinality(stopped) = Cardinality(stopped)
      BY DEF Q!Cardinality, Cardinality
<1>7. Q!Cardinality(Q!Lost) <= Q!Cardinality(stopped)
      BY <1>4, <1>5, <1>6
<1> QED BY <1>1, <1>7 DEF ExecutedOnce, Q!ExecutedOnce

\* However polls, timeouts, stops and callers race, a task runs once at most,
\* and the tasks that get lost are no more than the executors that were stopped.
THEOREM TasksRunOnce == PlaneSpec => []ExecutedOnce
<1>1. PlaneInit => QueueInv
      BY QueueInit DEF PlaneInit
<1>2. QueueInv /\ [PlaneNext]_planeVars => QueueInv'
      BY PlaneStep, QueueStep
<1> QED BY <1>1, <1>2, QueueSafe, PTL DEF PlaneSpec

-----------------------------------------------------------------------------

\* Each component keeps to its types: so requests, claims, machines and tasks
\* stay within what their code can write, whatever the interleaving.
THEOREM TypesCorrect == PlaneSpec => []TypesOK
<1>1. PlaneInit => ClusterInv /\ WakeInv /\ MachineInv /\ QueueInv
      BY ClusterInit, WakeInit, MachineInit, QueueInit DEF PlaneInit
<1>2. ClusterInv /\ WakeInv /\ MachineInv /\ QueueInv /\ [PlaneNext]_planeVars =>
        (ClusterInv /\ WakeInv /\ MachineInv /\ QueueInv)'
      BY PlaneStep, ClusterStep, WakeStep, MachineStep, QueueStep
<1>3. ClusterInv /\ WakeInv /\ MachineInv /\ QueueInv => TypesOK
      BY DEF ClusterInv, WakeInv, MachineInv, QueueInv, TypesOK
<1> QED BY <1>1, <1>2, <1>3, PTL DEF PlaneSpec

=============================================================================
