------------------------------ MODULE Cluster -------------------------------
(***************************************************************************)
(* The a8s control plane, its worker daemons and the durable lease table   *)
(* (packages/a8s/src/control-plane.ts, packages/a8s-server/src/routes,     *)
(* packages/worker-daemon/src/registration.ts and cli.ts).                 *)
(*                                                                         *)
(* The control plane routes by `assignment`, which lives in its memory and *)
(* is rebuilt from the lease table and from what workers report.  A daemon *)
(* runs what is in `mounts`, whatever the table says.  The two are brought *)
(* together by registrations and heartbeats only.                          *)
(*                                                                         *)
(* A request is a program counter; a step runs from one await to the next, *)
(* and a transaction of the orchestrator together with the code behind it  *)
(* is one step.  The lease table is that of module Orchestration, reduced  *)
(* to who holds each agent.                                                *)
(***************************************************************************)
EXTENDS Integers, FiniteSets

CONSTANTS
  Agents, Workers,
  Operators,   \* clients of the agent routes
  Slots,       \* requests one client may have in flight
  NoWorker,
  Capacity,    \* leases a worker accepts
  MaxTokens,   \* bound: tokens told apart
  MaxEvents    \* bound: failures and operator requests in one behaviour

ASSUME ClusterAssumption ==
  /\ Capacity \in Nat
  /\ MaxTokens \in Nat
  /\ MaxEvents \in Nat
  /\ NoWorker \notin Workers
  /\ Workers \cap Operators = {}

VARIABLES
  tokens,       \* server: the token each worker must present, 0 without one
  node,         \* server: the token of plane.workers.get(id), 0 without a node
  assignment,   \* server: agent -> worker
  registered,   \* table: state of each worker
  holder,       \* table: the worker that holds each agent's active lease
  phase,        \* daemon: its process
  mounts,       \* daemon: agents in its registry
  disposing,    \* daemon: those a stop is tearing down
  clientToken,  \* daemon: the registration client's token, 0 for null
  daemonToken,  \* daemon: what its HTTP server asks for, 0 for anything
  homes,        \* disk: agents with an agent.json under the shared agentsRoot
  calls,        \* requests in flight
  events        \* failures and operator requests so far

server == <<tokens, node, assignment>>
table == <<registered, holder>>
daemon == <<phase, mounts, disposing, clientToken, daemonToken>>
vars == <<server, table, daemon, homes, calls, events>>

Clients == Workers \cup Operators
Requests == Clients \X Slots
Tokens == 1 .. MaxTokens
Token == Tokens \cup {0}
Assignee == Workers \cup {NoWorker}

\* gone: withdrawn or evicted.
WorkerStates == {"none", "active", "draining", "gone"}

\* boot: listening and registering; mounting: reading agent homes from disk;
\* stopping: withdrawn, about to exit.
Phases == {"down", "boot", "mounting", "up", "stopping"}

Ops == {"boot", "register", "heartbeat", "create", "delete"}

\* todo: mountedAgents not converged yet; heard: the client still waits.
Call == [op : Ops, worker : Assignee, token : Token, todo : SUBSET Agents,
         heard : BOOLEAN,
         pc : {"register", "hydrate", "converge", "reply", "beat",
               "views", "run", "lease", "stop", "stopped"}]

Idle == [pc |-> "idle"]

Init ==
  /\ tokens = [w \in Workers |-> 0]
  /\ node = [w \in Workers |-> 0]
  /\ assignment = [a \in Agents |-> NoWorker]
  /\ registered = [w \in Workers |-> "none"]
  /\ holder = [a \in Agents |-> NoWorker]
  /\ phase = [w \in Workers |-> "down"]
  /\ mounts = [w \in Workers |-> {}]
  /\ disposing = [w \in Workers |-> {}]
  /\ clientToken = [w \in Workers |-> 0]
  /\ daemonToken = [w \in Workers |-> 0]
  /\ homes = {}
  /\ calls = [c \in Requests |-> Idle]
  /\ events \in 0 .. MaxEvents  \* a behaviour may have fewer

-----------------------------------------------------------------------------
(* State formulae *)

Event == events < MaxEvents /\ events' = events + 1

\* A random token is one that nobody remembers.
Remembered(w) ==
  {tokens[w], node[w], clientToken[w], daemonToken[w]}
    \cup {calls[c].token : c \in {d \in Requests : calls[d] # Idle /\ calls[d].worker = w}}

Fresh(w, t) ==
  /\ t \in Tokens \ Remembered(w)
  /\ \A u \in Tokens \ Remembered(w) : t <= u

Live(w) == registered[w] \in {"active", "draining"}

\* acquireLease of an agent that nobody holds.
Grants(w) ==
  registered[w] = "active" /\ Cardinality({a \in Agents : holder[a] = w}) < Capacity

\* WorkerDaemon's authorization, seen by a caller that presents token t.
Answers(w, t) ==
  phase[w] # "down" /\ (daemonToken[w] = 0 \/ daemonToken[w] = t)

\* Fault: the worker's leases outlive it.
Withdrawn_KeepsLeases(w) ==
  /\ registered' = [registered EXCEPT ![w] = IF Live(w) THEN "gone" ELSE @]
  /\ holder' = holder

\* withdrawWorker: the worker goes and its leases with it.
Withdrawn(w) ==
  /\ registered' = [registered EXCEPT ![w] = IF Live(w) THEN "gone" ELSE @]
  /\ holder' = [a \in Agents |-> IF holder[a] = w /\ Live(w) THEN NoWorker ELSE holder[a]]

\* removeWorker, and tokens.delete.
Removed(w) ==
  /\ node' = [node EXCEPT ![w] = 0]
  /\ tokens' = [tokens EXCEPT ![w] = 0]
  /\ assignment' = [a \in Agents |-> IF assignment[a] = w THEN NoWorker ELSE assignment[a]]

\* The process is gone, and nobody waits for its requests any more; those in
\* `done` are over on the server, too.
Exited(w, done) ==
  /\ phase' = [phase EXCEPT ![w] = "down"]
  /\ mounts' = [mounts EXCEPT ![w] = {}]
  /\ disposing' = [disposing EXCEPT ![w] = {}]
  /\ clientToken' = [clientToken EXCEPT ![w] = 0]
  /\ daemonToken' = [daemonToken EXCEPT ![w] = 0]
  /\ calls' = [c \in Requests |->
                 IF c \in done THEN Idle
                 ELSE IF c[1] = w /\ calls[c] # Idle THEN [calls[c] EXCEPT !.heard = FALSE]
                 ELSE calls[c]]

Return(c) == calls' = [calls EXCEPT ![c] = Idle]

\* The agents still to converge; after the last one a heartbeat is done and a
\* registration answers.
Left(c, as) ==
  calls' = [calls EXCEPT ![c] =
              IF as # {} THEN [@ EXCEPT !.pc = "converge", !.todo = as]
              ELSE IF @.op = "heartbeat" THEN Idle
              ELSE [@ EXCEPT !.pc = "reply", !.todo = {}]]

Goto(c, pc) == calls' = [calls EXCEPT ![c].pc = pc]

-----------------------------------------------------------------------------
(* Registration and heartbeats *)

\* register(): handleRegister stores a new token before its first await.
Enroll(c, op) ==
  LET w == c[1]
  IN  \E t \in Tokens :
        /\ Fresh(w, t)
        /\ tokens' = [tokens EXCEPT ![w] = t]
        /\ calls' = [calls EXCEPT ![c] =
                       [op |-> op, worker |-> w, token |-> t, heard |-> TRUE,
                        todo |-> mounts[w], pc |-> "register"]]

\* The daemon listens, open to every caller, and registers.
Start(c) ==
  LET w == c[1]
  IN  /\ w \in Workers
      /\ calls[c] = Idle
      /\ phase[w] = "down"
      /\ phase' = [phase EXCEPT ![w] = "boot"]
      /\ Enroll(c, "boot")
      /\ UNCHANGED <<node, assignment, table, mounts, disposing, clientToken,
                     daemonToken, homes, events>>

\* registerWorker, then addWorker with a node that knows the new token.
Register(c) ==
  LET w == calls[c].worker
  IN  /\ calls[c].pc = "register"
      /\ registered' = [registered EXCEPT ![w] = "active"]
      /\ node' = [node EXCEPT ![w] = calls[c].token]
      /\ Goto(c, "hydrate")
      /\ UNCHANGED <<tokens, assignment, holder, daemon, homes, events>>

\* A lease that hydrateAssignments turns into a route.
Restored(a) == holder[a] # NoWorker /\ node[holder[a]] # 0

\* hydrateAssignments, for every agent and not only this worker's.
Hydrate(c) ==
  LET w == calls[c].worker
  IN  /\ calls[c].pc = "hydrate"
      /\ assignment' = [a \in Agents |-> IF Restored(a) THEN holder[a] ELSE assignment[a]]
      /\ Left(c, {a \in calls[c].todo : ~(Restored(a) /\ holder[a] = w)})
      /\ UNCHANGED <<tokens, node, table, daemon, homes, events>>

\* Fault: a lease that ran out, or was never granted, is not acquired.
Converge_RenewsOnly(c) ==
  LET w == calls[c].worker
  IN  /\ calls[c].pc = "converge"
      /\ \E a \in calls[c].todo :
           /\ assignment' = [assignment EXCEPT ![a] = IF holder[a] = w THEN w ELSE @]
           /\ Left(c, calls[c].todo \ {a})
      /\ UNCHANGED <<tokens, node, table, daemon, homes, events>>

\* Fault: the worker that reports an agent gets its route, conflict or not.
Converge_BindsAnyway(c) ==
  LET w == calls[c].worker
  IN  /\ calls[c].pc = "converge"
      /\ \E a \in calls[c].todo :
           /\ holder' = [holder EXCEPT ![a] = IF @ = NoWorker /\ Grants(w) THEN w ELSE @]
           /\ assignment' = [assignment EXCEPT ![a] = w]
           /\ Left(c, calls[c].todo \ {a})
      /\ UNCHANGED <<tokens, node, registered, daemon, homes, events>>

\* convergeMountedAgent: renew or acquire, and bind; a conflict changes nothing.
Converge(c) ==
  LET w == calls[c].worker
  IN  /\ calls[c].pc = "converge"
      /\ \E a \in calls[c].todo :
           /\ \/ /\ holder[a] = w
                 /\ holder' = holder
                 /\ assignment' = [assignment EXCEPT ![a] = w]
              \/ /\ holder[a] = NoWorker
                 /\ Grants(w)
                 /\ holder' = [holder EXCEPT ![a] = w]
                 /\ assignment' = [assignment EXCEPT ![a] = w]
              \/ /\ holder[a] \notin {w, NoWorker}
                 /\ UNCHANGED <<holder, assignment>>
           /\ Left(c, calls[c].todo \ {a})
      /\ UNCHANGED <<tokens, node, registered, daemon, homes, events>>

\* acquireLease throws: the request fails, and the agents still to come are
\* not looked at.  A daemon that cannot register at boot exits.
Refuse(c) ==
  LET w == calls[c].worker
  IN  /\ calls[c].pc = "converge"
      /\ \E a \in calls[c].todo : holder[a] = NoWorker
      /\ ~Grants(w)
      /\ IF calls[c].op = "boot" /\ calls[c].heard
         THEN Exited(w, {c})
         ELSE Return(c) /\ UNCHANGED daemon
      /\ UNCHANGED <<server, table, homes, events>>

\* The answer arrives.  The registration client keeps the token; only at boot
\* the command line hands it to the daemon as well.
Reply(c) ==
  LET w == calls[c].worker
      boots == calls[c].op = "boot" /\ calls[c].heard
  IN  /\ calls[c].pc = "reply"
      /\ clientToken' = [clientToken EXCEPT ![w] = IF calls[c].heard THEN calls[c].token ELSE @]
      /\ daemonToken' = [daemonToken EXCEPT ![w] = IF boots THEN calls[c].token ELSE @]
      /\ phase' = [phase EXCEPT ![w] = IF boots THEN "mounting" ELSE @]
      /\ Return(c)
      /\ UNCHANGED <<server, table, mounts, disposing, homes, events>>

\* The answer is lost: register() throws, which ends a daemon at boot.
ReplyLost(c) ==
  /\ calls[c].pc = "reply"
  /\ calls[c].heard
  /\ Event
  /\ IF calls[c].op = "boot" THEN Exited(calls[c].worker, {c})
     ELSE Return(c) /\ UNCHANGED daemon
  /\ UNCHANGED <<server, table, homes>>

\* Fault: only an unknown worker registers again, not one with an old token.
Heartbeat_Ignores401(c) ==
  LET w == c[1]
  IN  /\ w \in Workers
      /\ calls[c] = Idle
      /\ phase[w] \in {"mounting", "up"}
      /\ clientToken[w] # 0
      /\ \A i \in Slots : calls[<<w, i>>] = Idle
      /\ \/ /\ tokens[w] = clientToken[w]
            /\ calls' = [calls EXCEPT ![c] =
                           [op |-> "heartbeat", worker |-> w, token |-> clientToken[w],
                            heard |-> TRUE, todo |-> mounts[w], pc |-> "beat"]]
            /\ UNCHANGED tokens
         \/ /\ tokens[w] = 0
            /\ Enroll(c, "register")
      /\ UNCHANGED <<node, assignment, table, daemon, homes, events>>

\* heartbeatOnce(): requireWorkerToken lets it in, or the client registers
\* again.  The timer does not wait for the previous heartbeat.
Heartbeat(c) ==
  LET w == c[1]
  IN  /\ w \in Workers
      /\ calls[c] = Idle
      /\ phase[w] \in {"mounting", "up"}
      /\ clientToken[w] # 0
      /\ IF \A i \in Slots : calls[<<w, i>>] = Idle THEN UNCHANGED events ELSE Event
      /\ \/ /\ tokens[w] = clientToken[w]
            /\ calls' = [calls EXCEPT ![c] =
                           [op |-> "heartbeat", worker |-> w, token |-> clientToken[w],
                            heard |-> TRUE, todo |-> mounts[w], pc |-> "beat"]]
            /\ UNCHANGED tokens
         \/ /\ tokens[w] # clientToken[w]
            /\ Enroll(c, "register")
      /\ UNCHANGED <<node, assignment, table, daemon, homes>>

\* heartbeatWorker answers; a worker that is gone is told to register again.
Beat(c) ==
  LET w == calls[c].worker
  IN  /\ calls[c].pc = "beat"
      /\ \/ /\ Live(w)
            /\ Left(c, calls[c].todo)
            /\ UNCHANGED tokens
         \/ /\ ~Live(w)
            /\ calls[c].heard
            /\ Enroll(c, "register")
         \/ /\ ~Live(w)
            /\ ~calls[c].heard
            /\ Return(c)
            /\ UNCHANGED tokens
      /\ UNCHANGED <<node, assignment, table, daemon, homes, events>>

-----------------------------------------------------------------------------
(* Operators: agents *)

\* createAgent, up to gatherWorkerViews.
BeginCreate(c, a) ==
  /\ c[1] \in Operators
  /\ calls[c] = Idle
  /\ assignment[a] = NoWorker
  /\ \E w \in Workers : node[w] # 0
  /\ Event
  /\ calls' = [calls EXCEPT ![c] =
                 [op |-> "create", worker |-> NoWorker, token |-> 0, heard |-> TRUE,
                  todo |-> {a}, pc |-> "views"]]
  /\ UNCHANGED <<server, table, daemon, homes>>

\* capacity() of every node: one that throws fails the creation.  A daemon
\* without a supervisor reports no limit, so any node may be picked.
Views(c) ==
  /\ calls[c].pc = "views"
  /\ \/ /\ \E w \in Workers : node[w] # 0 /\ ~Answers(w, node[w])
        /\ Return(c)
     \/ /\ \A w \in Workers : node[w] # 0 => Answers(w, node[w])
        /\ \E w \in Workers :
             /\ node[w] # 0
             /\ calls' = [calls EXCEPT ![c].worker = w, ![c].token = node[w], ![c].pc = "run"]
     \/ /\ \A w \in Workers : node[w] = 0
        /\ Return(c)
  /\ UNCHANGED <<server, table, daemon, homes, events>>

\* node.runAgent: the daemon mounts what it has not mounted and writes its
\* home; the plane records the worker when the answer arrives.
Run(c) ==
  LET w == calls[c].worker
  IN  /\ calls[c].pc = "run"
      /\ \/ /\ Answers(w, calls[c].token)
            /\ mounts' = [mounts EXCEPT ![w] = @ \cup calls[c].todo]
            /\ homes' = homes \cup calls[c].todo
            /\ \/ /\ assignment' = [a \in Agents |-> IF a \in calls[c].todo THEN w
                                                     ELSE assignment[a]]
                  /\ Goto(c, "lease")
                  /\ UNCHANGED events
               \/ /\ Event
                  /\ Return(c)
                  /\ UNCHANGED assignment
         \/ /\ ~Answers(w, calls[c].token)
            /\ Return(c)
            /\ UNCHANGED <<assignment, mounts, homes, events>>
      /\ UNCHANGED <<tokens, node, table, phase, disposing, clientToken, daemonToken>>

\* handleCreateAgent's acquireLease: a lease in force is only warned about,
\* and a throw comes after the agent was mounted and assigned.
Lease(c) ==
  /\ calls[c].pc = "lease"
  /\ holder' = [a \in Agents |->
                  IF a \in calls[c].todo /\ holder[a] = NoWorker /\ Grants(calls[c].worker)
                  THEN calls[c].worker ELSE holder[a]]
  /\ Return(c)
  /\ UNCHANGED <<server, registered, daemon, homes, events>>

Unassign(as) == assignment' = [a \in Agents |-> IF a \in as THEN NoWorker ELSE assignment[a]]

\* deleteAgent, up to stopAgent.
BeginDelete(c, a) ==
  LET w == assignment[a]
  IN  /\ c[1] \in Operators
      /\ calls[c] = Idle
      /\ w # NoWorker
      /\ Event
      /\ \/ /\ node[w] # 0
            /\ calls' = [calls EXCEPT ![c] =
                           [op |-> "delete", worker |-> w, token |-> node[w],
                            heard |-> TRUE, todo |-> {a}, pc |-> "stop"]]
            /\ UNCHANGED assignment
         \/ /\ node[w] = 0
            /\ Unassign({a})
            /\ UNCHANGED calls
      /\ UNCHANGED <<tokens, node, table, daemon, homes>>

\* The daemon starts to drop the mount, or refuses the call.
Stop(c) ==
  LET w == calls[c].worker
  IN  /\ calls[c].pc = "stop"
      /\ \/ /\ Answers(w, calls[c].token)
            /\ disposing' = [disposing EXCEPT ![w] = @ \cup (calls[c].todo \cap mounts[w])]
            /\ Goto(c, "stopped")
            /\ UNCHANGED assignment
         \/ /\ ~Answers(w, calls[c].token)
            /\ Unassign(calls[c].todo)
            /\ Return(c)
            /\ UNCHANGED disposing
      /\ UNCHANGED <<tokens, node, table, phase, mounts, clientToken, daemonToken,
                     homes, events>>

\* stopAgent is over, one way or the other: the route goes, the lease stays.
Stopped(c) ==
  /\ calls[c].pc = "stopped"
  /\ IF calls[c].todo \cap disposing[calls[c].worker] = {} THEN UNCHANGED events ELSE Event
  /\ Unassign(calls[c].todo)
  /\ Return(c)
  /\ UNCHANGED <<tokens, node, table, daemon, homes>>

-----------------------------------------------------------------------------
(* Operators: workers *)

Drain(w) ==
  /\ registered[w] = "active"
  /\ Event
  /\ registered' = [registered EXCEPT ![w] = "draining"]
  /\ UNCHANGED <<server, holder, daemon, homes, calls>>

Undrain(w) ==
  /\ tokens[w] # 0
  /\ Event
  /\ registered' = [registered EXCEPT ![w] = "active"]
  /\ UNCHANGED <<server, holder, daemon, homes, calls>>

Evict(w) ==
  /\ Live(w)
  /\ Event
  /\ Withdrawn(w)
  /\ Removed(w)
  /\ UNCHANGED <<daemon, homes, calls>>

-----------------------------------------------------------------------------
(* Daemons *)

\* A home is mounted: an owned agent's, or one the disk scan finds.
MountHome(w) ==
  /\ phase[w] = "mounting"
  /\ \E a \in homes \ mounts[w] : mounts' = [mounts EXCEPT ![w] = @ \cup {a}]
  /\ UNCHANGED <<server, table, phase, disposing, clientToken, daemonToken, homes,
                 calls, events>>

\* The scan is over; homes that do not load have been skipped.
Mounted(w) ==
  /\ phase[w] = "mounting"
  /\ phase' = [phase EXCEPT ![w] = "up"]
  /\ UNCHANGED <<server, table, mounts, disposing, clientToken, daemonToken, homes,
                 calls, events>>

\* registry.drop is over.
Dropped(w) ==
  /\ \E a \in disposing[w] :
       /\ mounts' = [mounts EXCEPT ![w] = @ \ {a}]
       /\ disposing' = [disposing EXCEPT ![w] = @ \ {a}]
  /\ UNCHANGED <<server, table, phase, clientToken, daemonToken, homes, calls, events>>

\* SIGTERM: withdraw, whose errors are swallowed, before anything is stopped.
Shutdown(w) ==
  /\ phase[w] \in {"mounting", "up"}
  /\ Event
  /\ phase' = [phase EXCEPT ![w] = "stopping"]
  /\ clientToken' = [clientToken EXCEPT ![w] = 0]
  /\ \/ /\ clientToken[w] # 0 /\ clientToken[w] = tokens[w]
        /\ Withdrawn(w)
        /\ Removed(w)
     \/ UNCHANGED <<server, table>>
  /\ UNCHANGED <<mounts, disposing, daemonToken, homes, calls>>

Exit(w) ==
  /\ phase[w] = "stopping"
  /\ Exited(w, {})
  /\ UNCHANGED <<server, table, homes, events>>

Crash(w) ==
  /\ phase[w] # "down"
  /\ Event
  /\ Exited(w, {})
  /\ UNCHANGED <<server, table, homes>>

-----------------------------------------------------------------------------
(* The rest of the world *)

\* The control plane restarts, with a durable store or with an empty one.
\* A daemon that was registering at boot exits.
Restart ==
  /\ Event
  /\ tokens' = [w \in Workers |-> 0]
  /\ node' = [w \in Workers |-> 0]
  /\ assignment' = [a \in Agents |-> NoWorker]
  /\ \/ UNCHANGED table
     \/ /\ registered' = [w \in Workers |-> "none"]
        /\ holder' = [a \in Agents |-> NoWorker]
  /\ phase' = [w \in Workers |-> IF phase[w] = "boot" THEN "down" ELSE phase[w]]
  /\ mounts' = [w \in Workers |-> IF phase[w] = "boot" THEN {} ELSE mounts[w]]
  /\ disposing' = [w \in Workers |-> IF phase[w] = "boot" THEN {} ELSE disposing[w]]
  /\ calls' = [c \in Requests |-> Idle]
  /\ UNCHANGED <<clientToken, daemonToken, homes>>

\* A lease that is being renewed runs out all the same: heartbeats are late.
Lapse(a) ==
  /\ holder[a] # NoWorker
  /\ Event
  /\ holder' = [holder EXCEPT ![a] = NoWorker]
  /\ UNCHANGED <<server, registered, daemon, homes, calls>>

\* A lease that no heartbeat mentions runs out.
LapseUnrenewed(a) ==
  LET w == holder[a]
  IN  /\ w # NoWorker
      /\ ~(phase[w] \in {"mounting", "up"} /\ a \in mounts[w])
      /\ holder' = [holder EXCEPT ![a] = NoWorker]
      /\ UNCHANGED <<server, registered, daemon, homes, calls, events>>

Answered(c) ==
  Register(c) \/ Hydrate(c) \/ Converge(c) \/ Refuse(c) \/ Reply(c)
    \/ Beat(c) \/ Views(c) \/ Run(c) \/ Lease(c) \/ Stop(c)

Next ==
  \/ \E c \in Requests :
       \/ Start(c) \/ Heartbeat(c) \/ ReplyLost(c) \/ Stopped(c) \/ Answered(c)
       \/ \E a \in Agents : BeginCreate(c, a) \/ BeginDelete(c, a)
  \/ \E w \in Workers :
       \/ Drain(w) \/ Undrain(w) \/ Evict(w) \/ MountHome(w) \/ Mounted(w) \/ Dropped(w)
       \/ Shutdown(w) \/ Exit(w) \/ Crash(w)
  \/ Restart
  \/ \E a \in Agents : Lapse(a) \/ LapseUnrenewed(a)

\* Handlers run on, the heartbeat timer fires, a stop comes to its end and
\* time passes.  No request is owed, and no start of a daemon.
Fairness ==
  /\ \A c \in Requests : WF_vars(Answered(c)) /\ WF_vars(Stopped(c)) /\ WF_vars(Heartbeat(c))
  /\ \A w \in Workers :
       WF_vars(MountHome(w)) /\ WF_vars(Mounted(w)) /\ WF_vars(Dropped(w)) /\ WF_vars(Exit(w))
  /\ \A a \in Agents : WF_vars(LapseUnrenewed(a))

Spec == Init /\ [][Next]_vars /\ Fairness

-----------------------------------------------------------------------------
(* Properties *)

\* The variables hold what the code can put there.
TypeOK ==
  /\ tokens \in [Workers -> Token]
  /\ node \in [Workers -> Token]
  /\ assignment \in [Agents -> Assignee]
  /\ registered \in [Workers -> WorkerStates]
  /\ holder \in [Agents -> Assignee]
  /\ phase \in [Workers -> Phases]
  /\ mounts \in [Workers -> SUBSET Agents]
  /\ disposing \in [Workers -> SUBSET Agents]
  /\ clientToken \in [Workers -> Token]
  /\ daemonToken \in [Workers -> Token]
  /\ homes \subseteq Agents
  /\ calls \in [Requests -> Call \cup {Idle}]
  /\ events \in 0 .. MaxEvents

\* "an evicted worker loses its leases" all the way: no interleaving of a
\* creation, a late heartbeat or a registration with an eviction or a
\* withdrawal leaves an agent leased to a worker that is gone.
LeasedToMembers == \A a \in Agents : holder[a] # NoWorker => Live(holder[a])

\* bindAssignment (control-plane.ts:234): whoever changes a route outside of
\* a creation has secured the lease; a worker's claim alone never moves one.
RoutesFollowLeases ==
  [][\A a \in Agents :
       assignment'[a] \notin {assignment[a], NoWorker} =>
         \/ holder'[a] = assignment'[a]
         \/ \E c \in Requests : calls[c] # Idle /\ calls[c].pc = "run" /\ a \in calls[c].todo]_vars

\* "the worker process is the truth, a8s metadata is the index"
\* (registration.ts:47): once failures and operators leave off, whatever they
\* did, an agent that runs on a worker in service is leased, and is routed to
\* the worker with the lease, which runs it.
RoutingConverges ==
  <>[](\A w \in Workers, a \in Agents :
         phase[w] = "up" /\ registered[w] = "active" /\ a \in mounts[w] =>
           \E v \in Workers :
             /\ holder[a] = v /\ assignment[a] = v
             /\ phase[v] = "up" /\ a \in mounts[v])

\* A daemon that is up is a member again in the end, under a token that the
\* server knows: no 401, 404 or 410 locks it out.
MembershipConverges ==
  <>[](\A w \in Workers :
         phase[w] = "up" => Live(w) /\ tokens[w] # 0 /\ tokens[w] = clientToken[w])

=============================================================================
