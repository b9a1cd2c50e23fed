------------------------------ MODULE Machines ------------------------------
(***************************************************************************)
(* A machine connector and its entry in the control plane                  *)
(* (packages/machine-connector/src, a8s-server/src/machine-registry.ts,    *)
(* a8s-server/src/routes/machines.ts): registration, heartbeats and        *)
(* withdrawal, and an operator that gives the machine a new .mcp.json.     *)
(*                                                                         *)
(* The plane keeps its table in memory, and machines do not share state,   *)
(* so one machine is modelled.  A step runs from one await to the next.    *)
(***************************************************************************)
EXTENDS Naturals, FiniteSets

CONSTANTS
  Servers,    \* MCP servers a configuration may name
  Slots,      \* requests of the registration client in flight
  Operators,  \* requests for a new configuration in flight
  MaxTokens,  \* bound: tokens told apart
  MaxEvents   \* bound: failures, stops and operator requests

VARIABLES
  entry,        \* plane: machines.get(id)
  phase,        \* connector: its process
  clientToken,  \* connector: the registration client's token, 0 for null
  daemonToken,  \* connector: what /exec and /reload ask for, 0 for anything
  timer,        \* connector: whether heartbeatTimer is set
  reported,     \* connector: the capability the next heartbeat carries
  host,         \* connector: the MCP host's clients and tools
  file,         \* disk: the servers .mcp.json names
  calls,        \* requests of the registration client
  ops,          \* requests of operators
  events

client == <<clientToken, daemonToken, timer, reported>>
vars == <<entry, phase, client, host, file, calls, ops, events>>

Tokens == 1 .. MaxTokens
Token == Tokens \cup {0}

\* tools: how often the tools of each server are listed.
Capability == [servers : SUBSET Servers, tools : [Servers -> 0 .. Cardinality(Operators)]]
Nothing == [servers |-> {}, tools |-> [s \in Servers |-> 0]]

Gone == [token |-> 0]
Entry == [token : Tokens, capability : Capability, fresh : BOOLEAN]

Idle == [pc |-> "idle"]

\* boot: registering; stopping: withdrawing; closing: withdrawn; stopped:
\* stop() is over, and the process of an embedding application goes on.
Phases == {"down", "boot", "up", "stopping", "closing", "stopped"}

Call == [pc : {"beat", "refused", "register", "reply", "withdraw"},
         token : Token, capability : Capability]
Op == [pc : {"write", "reload", "dispose", "connect"}, token : Tokens, servers : SUBSET Servers]

Init ==
  /\ entry = Gone
  /\ phase = "down"
  /\ clientToken = 0
  /\ daemonToken = 0
  /\ timer = FALSE
  /\ reported = Nothing
  /\ host = Nothing
  /\ file = {}
  /\ calls = [c \in Slots |-> Idle]
  /\ ops = [o \in Operators |-> Idle]
  /\ events = 0

Event == events < MaxEvents /\ events' = events + 1

Quiet == \A c \in Slots : calls[c] = Idle

Goto(c, pc) == calls' = [calls EXCEPT ![c].pc = pc]
Return(c) == calls' = [calls EXCEPT ![c] = Idle]

Remembered ==
  {entry.token, clientToken, daemonToken}
    \cup {calls[c].token : c \in {d \in Slots : calls[d] # Idle}}
    \cup {ops[o].token : o \in {p \in Operators : ops[p] # Idle}}

Fresh == CHOOSE t \in Tokens \ Remembered : \A u \in Tokens \ Remembered : t <= u

\* The process is gone.
Exited ==
  /\ phase' = "down"
  /\ clientToken' = 0
  /\ daemonToken' = 0
  /\ timer' = FALSE
  /\ reported' = Nothing
  /\ host' = Nothing
  /\ calls' = [c \in Slots |-> Idle]
  /\ ops' = [o \in Operators |-> IF ops[o] # Idle /\ ops[o].pc \in {"dispose", "connect"}
                                 THEN Idle ELSE ops[o]]

-----------------------------------------------------------------------------
(* The connector *)

\* startMachineConnector, up to the registration: servers that do not connect
\* are skipped, and the daemon is open.
Boot(c) ==
  /\ phase = "down"
  /\ phase' = "boot"
  /\ \E servers \in SUBSET file :
       LET offered == [servers |-> servers,
                       tools |-> [s \in Servers |-> IF s \in servers THEN 1 ELSE 0]]
       IN  /\ host' = offered
           /\ reported' = offered
           /\ calls' = [calls EXCEPT ![c] =
                          [pc |-> "register", token |-> 0, capability |-> offered]]
  /\ UNCHANGED <<entry, clientToken, daemonToken, timer, file, ops, events>>

\* heartbeatOnce.  The timer does not wait for the one before.
Heartbeat(c) ==
  /\ timer
  /\ clientToken # 0
  /\ calls[c] = Idle
  /\ IF Quiet THEN UNCHANGED events ELSE Event
  /\ calls' = [calls EXCEPT ![c] =
                 [pc |-> "beat", token |-> clientToken, capability |-> reported]]
  /\ UNCHANGED <<entry, phase, client, host, file, ops>>

\* 401 or 410 made it register again.
Reregister(c) ==
  /\ calls[c].pc = "refused"
  /\ calls' = [calls EXCEPT ![c] =
                 [pc |-> "register", token |-> 0, capability |-> reported]]
  /\ UNCHANGED <<entry, phase, client, host, file, ops, events>>

\* Fault: the token stays with the client.
Reply_NotPublished(c) ==
  /\ calls[c].pc = "reply"
  /\ clientToken' = calls[c].token
  /\ daemonToken' = IF phase = "boot" THEN calls[c].token ELSE daemonToken
  /\ timer' = TRUE
  /\ phase' = IF phase = "boot" THEN "up" ELSE phase
  /\ Return(c)
  /\ UNCHANGED <<entry, reported, host, file, ops, events>>

\* register() is answered, in whatever phase the connector is by now.
Reply(c) ==
  /\ calls[c].pc = "reply"
  /\ clientToken' = calls[c].token
  /\ daemonToken' = calls[c].token
  /\ timer' = TRUE
  /\ phase' = IF phase = "boot" THEN "up" ELSE phase
  /\ Return(c)
  /\ UNCHANGED <<entry, reported, host, file, ops, events>>

\* stop(), up to the answer of withdraw.
Stop(c) ==
  /\ phase = "up"
  /\ calls[c] = Idle
  /\ Event
  /\ phase' = "stopping"
  /\ timer' = FALSE
  /\ calls' = [calls EXCEPT ![c] =
                 [pc |-> "withdraw", token |-> clientToken, capability |-> Nothing]]
  /\ UNCHANGED <<entry, clientToken, daemonToken, reported, host, file, ops>>

\* The daemon closes when its last request is over.
Close ==
  /\ phase = "closing"
  /\ \A o \in Operators : ops[o] # Idle => ops[o].pc \notin {"dispose", "connect"}
  /\ phase' = "stopped"
  /\ host' = [host EXCEPT !.servers = {}]
  /\ UNCHANGED <<entry, client, file, calls, ops, events>>

\* The command line exits after stop(), and a process may die.
Exit ==
  /\ \/ phase = "stopped" /\ UNCHANGED events
     \/ phase # "down" /\ Event
  /\ Exited
  /\ UNCHANGED <<entry, file>>

-----------------------------------------------------------------------------
(* The plane *)

\* register: an entry keeps its token.
Register(c) ==
  LET token == IF entry = Gone THEN Fresh ELSE entry.token
  IN  /\ calls[c].pc = "register"
      /\ Tokens \ Remembered # {} \/ entry # Gone
      /\ entry' = [token |-> token, capability |-> calls[c].capability, fresh |-> TRUE]
      /\ calls' = [calls EXCEPT ![c].pc = "reply", ![c].token = token]
      /\ UNCHANGED <<phase, client, host, file, ops, events>>

\* requireMachineToken, then heartbeat.
Beat(c) ==
  /\ calls[c].pc = "beat"
  /\ \/ /\ entry.token = calls[c].token
        /\ entry' = [entry EXCEPT !.fresh = TRUE, !.capability = calls[c].capability]
        /\ Return(c)
     \/ /\ entry.token # calls[c].token
        /\ Goto(c, "refused")
        /\ UNCHANGED entry
  /\ UNCHANGED <<phase, client, host, file, ops, events>>

\* withdraw, and its answer: whatever it is, the client forgets its token.
Withdraw(c) ==
  /\ calls[c].pc = "withdraw"
  /\ \/ /\ entry' = IF entry.token = calls[c].token THEN Gone ELSE entry
        /\ UNCHANGED events
     \/ /\ Event
        /\ UNCHANGED entry
  /\ clientToken' = 0
  /\ phase' = "closing"
  /\ Return(c)
  /\ UNCHANGED <<daemonToken, timer, reported, host, file, ops>>

\* A request fails, or its answer is lost; a connector that cannot register at
\* boot takes everything down.
Lose(c) ==
  /\ calls[c] # Idle
  /\ calls[c].pc \in {"beat", "register", "reply"}
  /\ Event
  /\ IF phase = "boot"
     THEN Exited
     ELSE Return(c) /\ UNCHANGED <<phase, client, host, ops>>
  /\ UNCHANGED <<entry, file>>

\* No heartbeat for the length of its term.
Expire ==
  /\ entry # Gone
  /\ entry.fresh
  /\ Event
  /\ entry' = [entry EXCEPT !.fresh = FALSE]
  /\ UNCHANGED <<phase, client, host, file, calls, ops>>

\* The plane restarts with an empty table; reloads at the machine go on.
Restart ==
  /\ Event
  /\ entry' = Gone
  /\ ops' = [o \in Operators |-> IF ops[o] # Idle /\ ops[o].pc \in {"write", "reload"}
                                 THEN Idle ELSE ops[o]]
  /\ UNCHANGED <<phase, client, host, file, calls>>

-----------------------------------------------------------------------------
(* An operator sets mcp-config *)

Answers(token) ==
  phase \in {"boot", "up", "stopping"} /\ (daemonToken = 0 \/ daemonToken = token)

\* requireActiveMachine; the request keeps the entry it found.
Configure(o, servers) ==
  /\ ops[o] = Idle
  /\ entry # Gone
  /\ entry.fresh
  /\ Event
  /\ ops' = [ops EXCEPT ![o] = [pc |-> "write", token |-> entry.token, servers |-> servers]]
  /\ UNCHANGED <<entry, phase, client, host, file, calls>>

\* writeMachineMcpConfig over /exec, and the install commands.
WriteConfig(o) ==
  /\ ops[o].pc = "write"
  /\ IF Answers(ops[o].token)
     THEN /\ file' = ops[o].servers
          /\ \/ ops' = [ops EXCEPT ![o].pc = "reload"] /\ UNCHANGED events
             \/ Event /\ ops' = [ops EXCEPT ![o] = Idle]
     ELSE ops' = [ops EXCEPT ![o] = Idle] /\ UNCHANGED <<file, events>>
  /\ UNCHANGED <<entry, phase, client, host, calls>>

\* reloadMachine: /reload starts to dispose of the clients.
Reload(o) ==
  /\ ops[o].pc = "reload"
  /\ ops' = [ops EXCEPT ![o] = IF Answers(ops[o].token) THEN [@ EXCEPT !.pc = "dispose"] ELSE Idle]
  /\ UNCHANGED <<entry, phase, client, host, file, calls, events>>

\* The clients are gone, and start() reads the file.
Disposed(o) ==
  /\ ops[o].pc = "dispose"
  /\ host' = Nothing
  /\ ops' = [ops EXCEPT ![o].pc = "connect", ![o].servers = file]
  /\ UNCHANGED <<entry, phase, client, file, calls, events>>

\* A server of the list connects, or is skipped.
Connect(o) ==
  /\ ops[o].pc = "connect"
  /\ \E s \in ops[o].servers :
       /\ ops' = [ops EXCEPT ![o].servers = @ \ {s}]
       /\ \/ host' = [servers |-> host.servers \cup {s}, tools |-> [host.tools EXCEPT ![s] = @ + 1]]
          \/ UNCHANGED host
  /\ UNCHANGED <<entry, phase, client, file, calls, events>>

\* onReload: the next heartbeat carries what the host offers by now.
Reloaded(o) ==
  /\ ops[o].pc = "connect"
  /\ ops[o].servers = {}
  /\ reported' = host
  /\ ops' = [ops EXCEPT ![o] = Idle]
  /\ UNCHANGED <<entry, phase, clientToken, daemonToken, timer, host, file, calls,
                 events>>

-----------------------------------------------------------------------------

Request(c) == Reregister(c) \/ Reply(c) \/ Register(c) \/ Beat(c) \/ Withdraw(c)
Configuring(o) == WriteConfig(o) \/ Reload(o) \/ Disposed(o) \/ Connect(o) \/ Reloaded(o)

Next ==
  \/ \E c \in Slots : Boot(c) \/ Heartbeat(c) \/ Stop(c) \/ Lose(c) \/ Request(c)
  \/ \E o \in Operators :
       \/ \E servers \in SUBSET Servers : Configure(o, servers)
       \/ Configuring(o)
  \/ Close \/ Exit \/ Expire \/ Restart

\* Requests are answered, the heartbeat timer fires and reloads come to their
\* end.
Fairness ==
  /\ \A c \in Slots : WF_vars(Request(c)) /\ WF_vars(Heartbeat(c))
  /\ \A o \in Operators : WF_vars(Configuring(o))

Spec == Init /\ [][Next]_vars /\ Fairness

-----------------------------------------------------------------------------
(* Properties *)

\* The variables hold what the code can put there.
TypeOK ==
  /\ entry \in Entry \cup {Gone}
  /\ phase \in Phases
  /\ clientToken \in Token
  /\ daemonToken \in Token
  /\ timer \in BOOLEAN
  /\ reported \in Capability
  /\ host \in Capability
  /\ file \subseteq Servers
  /\ calls \in [Slots -> Call \cup {Idle}]
  /\ ops \in [Operators -> Op \cup {Idle}]
  /\ events \in 0 .. MaxEvents

\* registration.ts:119, connector.ts:140: whatever is lost, restarted or
\* reloaded, a connector that stays up is in the table again in the end, its
\* daemon takes the token that the plane presents, and the plane knows the
\* servers and tools it really has.
MachineConverges ==
  <>[](phase = "up" =>
         /\ entry # Gone
         /\ entry.token = daemonToken
         /\ entry.capability = host)

=============================================================================
