------------------------------- MODULE MCHost -------------------------------
(***************************************************************************)
(* Small instances for TLC of what one host keeps beside the turns of its  *)
(* agents: the files of a session (SessionFiles), the stream of a          *)
(* session's events (EventStream), approvals (Approvals), provider         *)
(* failover (Failover), the observer (Observer), team stores (Teams), MCP  *)
(* servers (McpServers), an agent's container (Hands), and its hands and   *)
(* tools (Capabilities).                                                   *)
(*                                                                         *)
(* They share no state here.  `chosen` says which one a behaviour is of;   *)
(* the others stay as they are, so that their states add up instead of     *)
(* being multiplied.                                                       *)
(***************************************************************************)
EXTENDS SessionFiles, TLC

CONSTANTS
  Sessions, OneSession, Appenders, OneAppender, Everything, MaxStreamed, MaxDrops,
  Guarded, Listed, Parallel, Bridge, GuardTimeout, BrokerTimeout, MaxConsecutive, MaxTotal,
  NumProviders, MaxRetries, Turns,
  ObservedSessions, MaxQueries, MaxAsked, MaxTools,
  Tasks, Members, Posts, Requests, MaxStarts,
  Servers, Shared, ManagerCalls, MaxClients,
  Callers, MaxContainers, MaxProcesses,
  Order, Added, RuntimeTools, Capability, Offers, Env, Refused, Denylists,
  Selections, MaxMounts, MaxChanges,
  Workspace, Web, Laptop, Phone, Tool, Shell, Fetch

ASSUME HostAssumption ==
  /\ MaxStreamed \in Nat /\ MaxDrops \in Nat /\ Everything \notin Sessions
  /\ OneSession \in Sessions /\ OneAppender \in Appenders
  /\ Listed \subseteq Guarded
  /\ {Bridge, GuardTimeout, BrokerTimeout} \subseteq BOOLEAN
  /\ {Parallel, MaxConsecutive, MaxTotal} \subseteq Nat \ {0}
  /\ NumProviders \in Nat \ {0} /\ MaxRetries \in Nat
  /\ {MaxQueries, MaxAsked, MaxTools} \subseteq Nat
  /\ Shared \subseteq Servers /\ MaxClients \in Nat
  /\ MaxMounts \in Nat /\ MaxChanges \in Nat
  /\ Order \in Seq(Range(Order)) /\ IsInjective(Order)
  /\ Range(Order) \cap Added = {} /\ RuntimeTools \subseteq Added /\ IsFiniteSet(Added)
  /\ IsFiniteSet(Capability)
  /\ Offers \in [Range(Order) \cup Added -> SUBSET Capability]
  /\ \A h \in RuntimeTools : \E b \in Capability : Offers[h] = {b}
  /\ DOMAIN Env = Range(Order) \cup Added
  /\ Denylists \subseteq SUBSET Capability

VARIABLES
  chosen,
  log, unlisted, listed, count, append, overtaken, stream, wire, got, last, filter, drops,
  call, consecutive, total, pending,
  pointer, exhausted, current, agentTurn, blamed, disturbed,
  query, resolved, recovery, turnId, session, lastCall, latest, row, unmixed, mislinked,
  projects, seq, req, inodes, file, tmp, starts, acked, recent, calm, reloaded,
  managed, clients, managerCalls, overlapped, stranded,
  containers, containerId, starting, commands, processes, sessions, disposals,
  agentJson, agentState, tools, names, denylist, selecting, mounts, changes, asked, taken, agreed

\* One session with appends that overlap, and several without.
E == INSTANCE EventStream WITH
  Sessions <- {OneSession}, MaxEvents <- MaxStreamed, saved <- listed

M == INSTANCE EventStream WITH
  Appenders <- {OneAppender}, MaxEvents <- MaxStreamed, saved <- listed

A == INSTANCE Approvals WITH Calls <- Guarded

F == INSTANCE Failover WITH turn <- agentTurn

O == INSTANCE Observer WITH
  Sessions <- ObservedSessions, pending <- recovery, turn <- turnId, calm <- unmixed

Claims == {[task |-> t, by |-> m] : t \in Tasks, m \in Members}

T == INSTANCE Teams WITH Patches <- Claims, Parallel <- Requests

S == INSTANCE McpServers WITH Requests <- ManagerCalls, calls <- managerCalls

H == INSTANCE Hands WITH calls <- commands

C == INSTANCE Capabilities WITH
  Slots <- Selections, file <- agentJson, state <- agentState, calls <- selecting

\* What the runs take for the constants of Capabilities: two built-in hands, and
\* two machines of one environment and a tool that are added to them; three of the
\* hands offer the same capability.  Where there is no environment, Env is the name
\* of the hand.
BuiltinOrder == <<Workspace, Web>>

AddedHands == {Laptop, Phone, Tool}

ToolHands == {Tool}

CapabilityNames == {Shell, Fetch}

Offered ==
  Workspace :> {Shell} @@ Web :> {Fetch} @@ Laptop :> {Shell, Fetch} @@ Phone :> {Shell} @@
  Tool :> {Fetch}

Environment ==
  Workspace :> "local" @@ Web :> "web" @@ Laptop :> "home" @@ Phone :> "home" @@ Tool :> "tool"

Denied == {<<Laptop, Fetch>>}

Lists == {{}, {Shell}}

streamVars == <<log, unlisted, listed, count, append, overtaken, stream, wire, got, last, filter, drops>>
approvalVars == <<call, consecutive, total, pending>>
failoverVars == <<pointer, exhausted, current, agentTurn, blamed, disturbed>>
observerVars ==
  <<query, resolved, recovery, turnId, session, lastCall, latest, row, unmixed, mislinked>>
teamVars == <<projects, seq, req, inodes, file, tmp, starts, acked, recent, calm, reloaded>>
serverVars == <<managed, clients, managerCalls, overlapped, stranded>>
handVars == <<containers, containerId, starting, commands, processes, sessions, disposals>>
capabilityVars ==
  <<agentJson, agentState, tools, names, denylist, selecting, mounts, changes, asked, taken, agreed>>
hostVars == <<chosen, vars, streamVars, approvalVars, failoverVars, observerVars, teamVars,
              serverVars, handVars, capabilityVars>>

Components ==
  {"files", "stream", "streams", "approvals", "failover", "observer", "teams", "servers", "hands",
   "capabilities"}

\* A stream that is not looked at has one initial state.
HostInit ==
  /\ chosen \in Components
  /\ IF chosen = "streams" THEN M!Init ELSE E!Init
  /\ Init /\ A!Init /\ F!Init /\ O!Init /\ T!Init /\ S!Init /\ H!Init /\ C!Init
  /\ chosen \notin {"stream", "streams"} => listed = {} /\ filter = Everything

Stays(components) ==
  /\ "files" \in components => UNCHANGED vars
  /\ {"stream", "streams"} \subseteq components => UNCHANGED streamVars
  /\ "approvals" \in components => UNCHANGED approvalVars
  /\ "failover" \in components => UNCHANGED failoverVars
  /\ "observer" \in components => UNCHANGED observerVars
  /\ "teams" \in components => UNCHANGED teamVars
  /\ "servers" \in components => UNCHANGED serverVars
  /\ "hands" \in components => UNCHANGED handVars
  /\ "capabilities" \in components => UNCHANGED capabilityVars

HostNext ==
  /\ UNCHANGED chosen
  /\ \/ chosen = "files" /\ Next
     \/ chosen = "stream" /\ E!Next
     \/ chosen = "streams" /\ M!Next
     \/ chosen = "approvals" /\ A!Next
     \/ chosen = "failover" /\ F!Next
     \/ chosen = "observer" /\ O!Next
     \/ chosen = "teams" /\ T!Next
     \/ chosen = "servers" /\ S!Next
     \/ chosen = "hands" /\ H!Next
     \/ chosen = "capabilities" /\ C!Next
  /\ Stays(Components \ {chosen})

HostSpec == HostInit /\ [][HostNext]_hostVars

-----------------------------------------------------------------------------
(* The properties of the instances.  A component that is not chosen stays   *)
(* in an initial state, which a behaviour where it is chosen has as well.  *)

\* Every variable of the components holds what the code can put there.
TypesOK ==
  /\ chosen = "files" => TypeOK
  /\ chosen = "stream" => E!TypeOK
  /\ chosen = "streams" => M!TypeOK
  /\ chosen = "approvals" => A!TypeOK
  /\ chosen = "failover" => F!TypeOK
  /\ chosen = "observer" => O!TypeOK
  /\ chosen = "teams" => T!TypeOK
  /\ chosen = "servers" => S!TypeOK
  /\ chosen = "hands" => H!TypeOK
  /\ chosen = "capabilities" => C!TypeOK

\* The log of a session can be read from either end, around torn lines: a
\* crash costs one event that listeners have seen at most (HeardIsReadable is
\* the stronger promise, which the code does not keep), and a tail read, wherever
\* it stops, is an end of the whole, if not always as long as it was asked for.
LogIsReadable == chosen = "files" => OneLossPerCrash /\ TailAgrees

\* A reconnecting client of the event stream has no gap behind it.
NoGap ==
  /\ chosen = "stream" => E!NoGap
  /\ chosen = "streams" => M!NoGap

\* Guards that run side by side exceed the denial limits by a bounded number.
DenialsBounded == chosen = "approvals" => A!DenialsBounded

\* The resolver gives up only after every provider has failed.
GivesUpAfterAll == chosen = "failover" => F!GivesUpAfterAll

\* The row of a turn tells of that turn.
TurnsAreTold == chosen = "observer" => O!TurnsAreTold

\* What the team store answered is there.
AckedIsKept == chosen = "teams" => T!AckedIsKept

\* An open MCP client is one that the manager can close.
ServersAreTracked == chosen = "servers" => S!ServersAreTracked

\* A running container or background process is one that a disposal ends.
NothingForgotten == chosen = "hands" => H!NothingForgotten

\* The tools that the model sees are those of the hands that are mounted, and the
\* built-in hands that are mounted are those that agent.json names.
ToolsAreKept == chosen = "capabilities" => C!ToolsAreHands /\ C!SelectionIsKept

\* agent.ts:575: a restart keeps the tool denylist.
DenylistSurvives == chosen = "capabilities" => C!DenylistSurvives

=============================================================================
