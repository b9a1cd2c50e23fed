----------------------------- MODULE McpServers -----------------------------
(***************************************************************************)
(* The MCP manager (packages/mcp/src/manager.ts, client.ts): it connects,  *)
(* restarts, disables and releases the MCP servers of a host and of its    *)
(* agents, each a subprocess or a remote session that only its client can  *)
(* close.  One agent is modelled; a step runs from one await to the next.  *)
(***************************************************************************)
EXTENDS Naturals

CONSTANTS
  Servers,
  Shared,     \* those all agents share; the others are the agent's
  Requests,   \* calls of the manager in flight
  MaxClients  \* bound: connections attempted

VARIABLES
  managed,    \* sharedServers and agentServers
  clients,    \* every client that was made
  calls,
  overlapped, \* history: servers that two calls were under way for at a time
  stranded    \* history: clients that connected and whose tools could not be listed

vars == <<managed, clients, calls, overlapped, stranded>>

Clients == 1 .. MaxClients

None == [status |-> "none"]
Entry == [status : {"connecting", "connected", "failed", "disabled"}, client : 0 .. MaxClients]

Client == [server : Servers, state : {"opening", "open", "closed"}]

\* servers: those the call is about; todo: those a release has yet to visit.
Idle == [pc |-> "idle"]
Call == [op : {"start", "restart", "disable", "release", "dispose"},
         pc : {"disconnect", "open", "list", "next"},
         servers : SUBSET Servers, todo : SUBSET Servers, client : 0 .. MaxClients]

Init ==
  /\ managed = [s \in Servers |-> None]
  /\ clients = [c \in Clients |-> None]
  /\ calls = [r \in Requests |-> Idle]
  /\ overlapped = {}
  /\ stranded = {}

Return(r) == calls' = [calls EXCEPT ![r] = Idle]

Put(s, status, c) == managed' = [managed EXCEPT ![s] = [status |-> status, client |-> c]]

ClientOf(s) == IF managed[s] = None THEN 0 ELSE managed[s].client

Unused == {c \in Clients : clients[c] = None}

\* A call that is made while another one is about the same servers.
Begins(r, ss) ==
  /\ calls[r] = Idle
  /\ overlapped' = overlapped \cup
       {s \in ss : \E q \in Requests : calls[q] # Idle /\ s \in calls[q].servers}

\* The call of r about server s, once it has the client c.
About(op, pc, s, c) ==
  [op |-> op, pc |-> pc, servers |-> {s}, todo |-> {}, client |-> c]

\* connectOne, up to the answer of connect: the entry is replaced at once, and
\* a new client is made next to those in `cs`.
Connecting(r, op, s, cs) ==
  LET c == CHOOSE d \in Unused : \A u \in Unused : d <= u
  IN  /\ Unused # {}
      /\ Put(s, "connecting", 0)
      /\ clients' = [cs EXCEPT ![c] = [server |-> s, state |-> "opening"]]
      /\ calls' = [calls EXCEPT ![r] = About(op, "open", s, c)]

-----------------------------------------------------------------------------

\* startSharedServers, startAgentServers: hosts call them for servers they
\* have not started, or have released.
Start(r, s) ==
  /\ managed[s] = None
  /\ Begins(r, {s})
  /\ Connecting(r, "start", s, clients)
  /\ UNCHANGED stranded

\* connect() is answered; when it fails or times out the client is closed.
Opened(r) ==
  LET c == calls[r].client
      s == clients[c].server
  IN  /\ calls[r].pc = "open"
      /\ \/ /\ clients' = [clients EXCEPT ![c].state = "open"]
            /\ calls' = [calls EXCEPT ![r].pc = "list"]
            /\ UNCHANGED managed
         \/ /\ clients' = [clients EXCEPT ![c].state = "closed"]
            /\ Put(s, "failed", 0)
            /\ Return(r)
      /\ UNCHANGED <<overlapped, stranded>>

\* createMCPHand: listTools is answered, or it fails or times out, and the entry is
\* replaced by one without the client: the client stays open.
ToolsListed(r) ==
  LET c == calls[r].client
      s == clients[c].server
  IN  /\ calls[r].pc = "list"
      /\ \/ Put(s, "connected", c) /\ UNCHANGED stranded
         \/ Put(s, "failed", 0) /\ stranded' = stranded \cup {c}
      /\ Return(r)
      /\ UNCHANGED <<clients, overlapped>>

\* Fault: a restart connects without closing what was there.
Restart_NotClosed(r, op, s) ==
  /\ Begins(r, {s})
  /\ calls' = [calls EXCEPT ![r] = About(op, "disconnect", s, IF op = "restart" THEN 0 ELSE ClientOf(s))]
  /\ UNCHANGED <<managed, clients, stranded>>

\* restartShared, restartAgent, disableShared, disableAgent: they close what
\* they find first.
Restart(r, op, s) ==
  /\ Begins(r, {s})
  /\ calls' = [calls EXCEPT ![r] = About(op, "disconnect", s, ClientOf(s))]
  /\ UNCHANGED <<managed, clients, stranded>>

\* releaseAgent visits the agent's servers, dispose the shared ones first.
Release(r, op, ss) ==
  /\ Begins(r, ss)
  /\ calls' = [calls EXCEPT ![r] =
                 [op |-> op, pc |-> "next", servers |-> ss, client |-> 0,
                  todo |-> IF op = "dispose" THEN Shared ELSE Servers \ Shared]]
  /\ UNCHANGED <<managed, clients, stranded>>

\* The loop of a release: the next server, or the end, where the map is
\* dropped as it is by then.
Visit(r) ==
  LET group == IF calls[r].op = "dispose" THEN Shared ELSE Servers \ Shared
  IN  /\ calls[r].pc = "next"
      /\ \/ /\ \E s \in calls[r].todo :
                 calls' = [calls EXCEPT ![r].todo = @ \ {s}, ![r].client = ClientOf(s),
                                        ![r].pc = "disconnect"]
            /\ UNCHANGED managed
         \/ /\ calls[r].todo = {}
            /\ managed' = [s \in Servers |-> IF s \in group THEN None ELSE managed[s]]
            /\ IF calls[r].op = "dispose"
               THEN calls' = [calls EXCEPT ![r].op = "release", ![r].todo = Servers \ Shared]
               ELSE Return(r)
      /\ UNCHANGED <<clients, overlapped, stranded>>

\* disconnect is over, which may throw: the call fails, but for a release.
Disconnected(r) ==
  LET c == calls[r].client
      closed == [d \in Clients |-> IF d = c THEN [clients[d] EXCEPT !.state = "closed"]
                                   ELSE clients[d]]
  IN  /\ calls[r].pc = "disconnect"
      /\ \/ /\ calls[r].op = "restart"
            /\ \E s \in calls[r].servers : Connecting(r, "restart", s, closed)
         \/ /\ calls[r].op = "disable"
            /\ \E s \in calls[r].servers : Put(s, "disabled", 0)
            /\ clients' = closed
            /\ Return(r)
         \/ /\ calls[r].op \in {"restart", "disable"}
            /\ c # 0
            /\ clients' = closed
            /\ Return(r)
            /\ UNCHANGED managed
         \/ /\ calls[r].op \in {"release", "dispose"}
            /\ clients' = closed
            /\ calls' = [calls EXCEPT ![r].pc = "next", ![r].client = 0]
            /\ UNCHANGED managed
      /\ UNCHANGED <<overlapped, stranded>>

Next ==
  \E r \in Requests :
    \/ \E s \in Servers :
         Start(r, s) \/ \E op \in {"restart", "disable"} : Restart(r, op, s)
    \/ Release(r, "release", Servers \ Shared) \/ Release(r, "dispose", Servers)
    \/ Opened(r) \/ ToolsListed(r) \/ Visit(r) \/ Disconnected(r)

Spec == Init /\ [][Next]_vars

-----------------------------------------------------------------------------
(* Properties *)

\* The variables hold what the code can put there.
TypeOK ==
  /\ managed \in [Servers -> Entry \cup {None}]
  /\ clients \in [Clients -> Client \cup {None}]
  /\ calls \in [Requests -> Call \cup {Idle}]
  /\ overlapped \subseteq Servers
  /\ stranded \subseteq Clients

\* An open client, which is a running server, is one that the manager lists or a
\* call has in hand, through failing connects, restarts and releases (client.ts:46,
\* "so we don't leak descriptors"), but for two leaks of the code.  A client that
\* connected and whose listTools fails or times out is dropped by connectOne
\* (manager.ts:216-245) and nobody disconnects it, although the timeout leaves that
\* to its callers (client.ts:159-161).  And where two calls are about one server at a
\* time, one may replace an entry that the other has just stored, or drop it at the
\* end of a release that visited the server while it connected (manager.ts:134-150).
ServersAreTracked ==
  \A c \in Clients :
    clients[c] # None /\ clients[c].state = "open" =>
      \/ ClientOf(clients[c].server) = c
      \/ \E r \in Requests : calls[r] # Idle /\ calls[r].client = c
      \/ c \in stranded
      \/ clients[c].server \in overlapped

=============================================================================
