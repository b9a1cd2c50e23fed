# Berry agent SDK: TLA+ models, model checking and proofs

The Berry agent SDK runs long-lived agents. An agent is a conversation, a set of
tools and a loop that talks to a model provider; a *worker* hosts the runtimes of
several agents; a control plane (*a8s*) places agents on workers, wakes them and
watches them; leases in one database make sure that an agent runs in one place at a
time. This directory holds specifications of the parts of it where the order of
steps matters, configurations that check them with TLC, and proofs that TLAPS checks.
Paths below are relative to `src/packages/`.

## 1. Inventory

| Component | State it keeps | Operations | What makes it correct |
|---|---|---|---|
| Runtime orchestrator (`runtime/src/orchestration.ts`) | tables of leases, wakes, workers | acquire, renew, release, observe leases; schedule, claim, complete, fail, cancel, list wakes; register, heartbeat, drain, withdraw, evict workers | an agent has one holder; a dead lease stays dead; leases end for cause; claims are spaced and ordered |
| Orchestration stores (`runtime-sqlite/src/store.ts`, `runtime/src/orchestration-store.ts`) | the rows, the write lock | `transact(mutator)` | a call lands as a whole or leaves no trace; the lock comes back |
| Wake scheduler (`runtime/src/scheduler.ts`, wired in `a8s-server/src/server.ts`) | `ticking`, the batch it claimed | tick, handleWake | at most one delivery per claim; a due wake is settled |
| Runtime supervisor and registry (`runtime/src/supervisor.ts`, `registry.ts`) | mounts, tracked leases, renewal flags, the registered worker | start, stop, renew, dispose, drop, clear | no two runtimes of an agent unless a lease lapsed or its host shuts down; no lease is leaked |
| Worker (`worker/src/worker.ts`) | none of its own | runAgent, stopAgent, dispose | shuts down without stranding anything |
| Agent turn loop (`core/src/agent.ts`, `agent-helpers/`) | status, abort controller, interject queue, sleepers | send, interject, pause, dispose, the sleep tool | turns end; interjects are heard; the status is right |
| Sessions and event log (`core/src/session`, `event-log`, `agent-helpers/session-controller.ts`) | `messages.json`, `events.jsonl` | save, load, append, detect crash artifacts | calls and results stay paired; interrupted calls are reported |
| Compaction (`core/src/compaction`) | the messages of a session | layered `compact` | pairs are not cut; nothing recent is lost |
| Control plane and server (`a8s`, `a8s-server`) | assignments, worker nodes and tokens, in memory | register, heartbeat, create, delete, drain, evict, hydrate | routes agree with leases and daemons in the end; no route moves without its lease |
| Worker daemon (`worker-daemon`) | tokens of its client and of its HTTP server, mounted agents, disk homes | register, rehydrate, run, stop, shut down, stream events | it is a member again after any loss; a stream has no gaps |
| Hands, tools, environments (`core/src/hands.ts`, `agent-helpers/capabilities.ts`, `tools-common`) | the hand registry and its tools, `agent.json`; the polling queue, the agent's container, background processes | add and remove hands and tools, select built-in hands, set the denylist; enqueue, poll, execute, stop; start, exec, dispose | tools are those of the hands that are mounted; a restart brings back what was set; a task runs once; what is started is disposed |
| MCP bridge (`mcp`) | managed servers and their clients | start, restart, disable, release, dispose | no open client is forgotten |
| Machine connector (`machine-connector`, `a8s-server/src/machine-registry.ts`) | the plane's entry, the connector's tokens, its servers | register, heartbeat, withdraw, configure, reload | the plane knows the machine as it is |
| Team store (`a8s-server/src/team-store.ts`) | worklist and messages, one JSON file | add, patch, post | an acknowledged change stays |
| Products, skills, templates, audit (`a8s-server`) | tables | single requests | - |
| Approvals (`safe`) | denial counters, pending questions | classify, ask, answer, expire | limits hold with guards side by side |
| Provider fail-over (`models/src/resolver.ts`, `core/.../provider-call.ts`) | pointer, exhausted flag, retries | call, retry, rotate, reset | gives up only after all failed |
| Observation (`observe`) | the current turn, inference, pending crash; rows | one handler per event | a turn's row tells of that turn |
| Memory, config, prompts, avatars (`memory-file`, `config`, `prompt-pack`, `avatar`, `small-shared-core`) | caches, files | sequential library calls | covered by their tests |
| Clients (`client`, `cluster-protocol`), interfaces (`a8s-server/ui`, `observe/ui`, `a8s-admin`) | the subscriber's cursor | reconnect | - |

How they interact:

```
 operator/product --HTTP--> a8s server --HTTP--> worker daemon --calls--> Worker
                              |  |                                          |
             wake scheduler <-+  |                              supervisor + registry
                   |             v                                 |            |
                   +----> RuntimeOrchestrator <--- leases ---------+       Agent runtime
                                 |                                              |
                            transact(): SQLite                     query loop <-> provider, tools
                                                                         |
                                                             messages.json, events.jsonl
```

The processes share nothing but the database and HTTP; inside a process everything is
one thread, so state can change under a function only at its awaits. The models cut
each function at those awaits.

Hard behaviours: overlapping calls on one mount (every method of supervisor and
registry awaits in the middle); leases that lapse while a call is under way;
several schedulers and claims that are requeued; a transaction whose mutator is
awaited on the only connection; crashes between any two awaits; turns that overlap or
unwind after `pause`/`dispose`; sleeps racing interjects; compaction against the
crash detector, which reads two files that are written at different times; a control
plane that keeps its routes in memory while leases are durable and daemons go by what is
on their disk; requests that are carried out although their answer is lost; timers that
race late answers (polls, approvals, heartbeats); and state that is read before an await
and written after it (denial counters, team stores, containers, MCP servers).
`PROJECT.json` lists each hazard at its line with the properties that watch it.

## 2. Modules and how they correspond to the code

| Module | Models | Lines of code it stands for |
|---|---|---|
| `LeaseService` | what the lease table promises: a set of grants, at most one per agent | abstract |
| `Orchestration` | every method of `RuntimeOrchestrator` | `runtime/src/orchestration.ts` |
| `AtomicStore` | what `transact` promises | abstract |
| `SqliteStore` | `transact` with the mutator's await, nested BEGIN, busy lock, rollback, a dying process | `runtime-sqlite/src/store.ts` |
| `WakeScheduler` | tick and handleWake of several schedulers, with faults | `runtime/src/scheduler.ts` |
| `Supervisor` | start/stop/renew/dispose of several processes, cut at each await | `supervisor.ts`, `registry.ts`, `worker.ts` |
| `AgentTurn` | one agent and its session: turns, tool calls, run state, compaction, crash detection | `core/src/agent-helpers`, `compaction`, `event-log`, `session` |
| `Cluster` | control plane, registration clients, daemons and the disk they share, over who holds each lease | `a8s`, `a8s-server/src/routes`, `worker-daemon/src/registration.ts`, `cli.ts` |
| `Machines` | a machine connector, its entry in the plane and operators that configure it | `machine-connector`, `a8s-server/src/machine-registry.ts`, `routes/machines.ts` |
| `TaskQueue` | the polling queue and its executors | `tools-common/src/polling-environment.ts` |
| `SessionFiles` | the log line by line, the atomic save, and the conversation rebuilt from the log | `core/src/event-log`, `atomic-write.ts`, `session/file-store.ts`, `message-repair.ts` |
| `EventStream` | append, fan-out and replay to a client that reconnects | `jsonl-store.ts`, `worker-daemon/src/daemon.ts`, `client/src/agent-handle.ts` |
| `Approvals` | classifier limits, human approval and broker, with their timeouts | `safe/src` |
| `Failover` | provider calls, retries and the resolver, for turns that may overlap | `models/src/resolver.ts`, `provider-call.ts`, `provider-controller.ts` |
| `Observer` | the collector fed by turns and delegates | `observe/src/collector/collector.ts`, `turn.ts`, `delegate.ts`, `tool-executor.ts` |
| `Teams` | the team store and its file, requests that overlap, restarts | `a8s-server/src/team-store.ts` |
| `McpServers` | the MCP manager and its clients | `mcp/src/manager.ts`, `client.ts` |
| `Hands` | the agent's container and background processes | `tools-common/src/container-environment.ts`, `shell.ts` |
| `Capabilities` | an agent's hands, the names of their tools, and what `agent.json` keeps of them from one mount to the next | `core/src/hands.ts`, `agent-helpers/capabilities.ts`, `agent.ts`, `workspace/initializer.ts`, `runtime/src/build.ts`, `worker-daemon/src/cli.ts` |
| `MC*` | instances for TLC; each `.cfg` names the instance in its first line | - |
| `Orchestration_proofs`, `AgentTurn_proofs`, `SessionFiles_proofs`, `Teams_proofs`, `EventStream_proofs` | theorems about one module, and lemmas that the next ones conclude from | - |
| `Processes_proofs`, `Plane_proofs`, `Host_proofs` | theorems about the instances of several components | - |

**Orchestration.** A method runs inside `transact`, hence is one action. Every method
begins with `reapExpiredLeases(now)` and writes the result even when it answers null,
so each action applies `ReapedAndReleased` first. A method that throws has no effect
and no action. Rows are functions over a finite pool of ids. `Lookaheads` is the set of
offsets with which callers of `listPendingWakes` pass a time beyond the clock: `{0}`
except for the operator's wake route, which looks 100 years ahead.
`ImplementsLeaseService` is the refinement: the grants in force
(`GrantsInForce`) behave like `LeaseService`, whatever rows wait to be reaped.

**SqliteStore.** Looks below the assumption that a method is one step. A process has
one connection and may have several calls in flight, because the mutator is awaited
between BEGIN IMMEDIATE and COMMIT. A call that starts in that window fails at its
BEGIN (`BeginNested`); another process waits for the lock or gives up (`BeginBusy`).
`ImplementsAtomicStore` shows that what remains is atomic. A version number stands for
the content of a row. One consequence is visible in the model and not counted as a
property: the comment at `orchestration.ts:10-11` makes the store responsible for
serializing concurrent transactions, while the second of two overlapping calls of one
process is rejected.

**WakeScheduler.** Reads and writes the wake table with the operations of
Orchestration and reduces time to "is due" and "claim is stale". `Deliver` covers
`deliverWake` reaching the worker or not, and resolving or not, as two separate facts.
`requeues` is whether `staleClaimedMs` is set; the server leaves it unset.

**Supervisor.** One agent, several processes; a call is a program counter that stops at
every await. A lease in force may lapse between any two steps, since the deadline, an
eviction and a withdrawal are all outside the process. A runtime is named by the lease
it was mounted under, which makes "mounted under a lease that is over" expressible. The history
variable `overlapped` tells processes that have had two calls in flight at once from those that
have not: nothing in the code prevents it, and a mount may be lost then (`OneRuntimePerHost`).
`Worker.dispose` first withdraws the worker, which gives its leases back, and then tears the
runtimes down one by one: `BeginShutdown` releases the leases of runtimes that still run.

**AgentTurn.** A turn's `pc` follows `runAgentTurn` and `runAgentQueryLoop`:
waiting (memoryReady) -> checking (first resume only) -> begun -> looping -> saving ->
loading -> calling -> tools -> committing -> looping, and closing or failing at the
end. Tool calls are processes of their own, because `Promise.all` does not stop the
siblings of a call that rejects. A conversation is a sequence of entries
(prompt, interject, crash report, tool calls, their results, other text). Compaction is
what the layers can make of it: old pairs become text (`ClearOldPairs`), then only the
newest messages stay behind a summary (`KeepNewest`); which layers run depends on token
estimates the model does not have, so the choice is free, as is the number of kept
messages from `KeepRecent` on. The summarize layer calls the provider itself: the turn is
"summarizing" (before an inference) or "resummarizing" (after a prompt that was too long), the
provider is given one of `Briefs`, and what happens to the other variables meanwhile is as free as
at any await. The memory flush before a hard compaction gives the provider the conversation as it is
at "looping". Layers that shorten a single message or join
neighbouring strings change nothing the properties look at. `Overlap` says whether the
host calls `send()` while a turn is in flight: neither `Agent` nor `ManagedAgentRuntime`
nor the daemon prevents it. The history variables (`ran`, `interrupted`, `committed`,
`surfaced`, `excused`) record what happened and influence no action.

**Cluster.** Each daemon and each operator is a client of the control plane with a few
requests in flight; a request is a program counter that stops at the awaits of the
handler that serves it. What a daemon runs (`mounts`), what the lease table says
(`holder`, module Orchestration reduced to who holds each agent) and how the plane routes
(`assignment`) are three variables on purpose: only registrations, heartbeats and
hydration bring them together. A token is a number nobody else remembers. Requests and
answers can get lost, a process can die at any step and be started again, the plane
forgets everything but the table, and leases lapse. `homes` is the disk that two daemons
share.

**Machines.** The same protocol for hand machines, whose table lives in the plane's memory
only. A capability is the set of MCP servers a machine really runs; an operator replaces the
configuration file, runs nothing else, and asks for a reload.

**TaskQueue.** A task is one `exec()`; an executor is the loop of a `PollingExecutorAgent`
with a blocked poll, its timeout, and `stop()`. `Lost` is a task that no executor has any
more and that never ran.

**SessionFiles.** A line of the log is what bytes make of it: whole, torn, or a torn line
continued by the next append. Reading forward and reading the tail are operators over the
lines. A tail read goes back to some line (`Scanned`): it stops at `maxBytes`, or when enough
lines contain the name of a type, which torn lines and events that quote others can do as well,
so the model lets it stop anywhere; of what it has it keeps `LinesPerEvent` lines for each
event asked for (4 in the code, 2 in the cfg) and parses those (`TailOf`). A character that is
split between two chunks is not modelled. The rebuilt conversation is another operator over
them (`Replayed`, then `Repaired`, then `Merged`, in the order of `buildMessages`). Each of
these goes through a sequence one element after the other, as the loop it stands for does: a
fold with a named step (`Found`, `Replayed`, `Placed`, `Merged`). A save is three steps per
file (open, write, rename), a clear the same for a shorter history, a delete one step. Saves of
one session that overlap share their temporary file; the repository's hosts do not do that on
purpose, and the model leaves it out (`Savers` has one member at most).

**EventStream.** Replay lists the sessions and reads their logs with awaits in between,
while live events are buffered. `overtaken` and `unlisted` record the two exceptions named
in `NoGap`.

**Approvals, Failover, Observer, Teams, McpServers, Hands.** One object of the code each, with
as many callers as the program has: a step runs from one await to the next, callers take turns
in any order, and every failing call is a step of its own. History variables (`disturbed`,
`unmixed`, `calm`, `overlapped`, `stranded`, `disposals`) tell apart the executions in which the code
loses something or does not claim to keep it, and influence no action; each property that looks at
one names in its comment, with the lines, what it excepts.
In Observer a turn can fail before `query_start` (`StartFails`), at the append of its user message,
which is awaited before the `try` (`UserLogged`), anywhere in its loop (`Throws`, or the provider),
and in the hook behind the loop, which sends a second `query_end` (`HookEnds`). A middleware that
throws after an answer, which another one then counts a second time as an error, is left out. In
Hands `driver.stop` may fail after `dispose` has forgotten the id (`StopFails`), and a disposal during
a start does nothing (`DisposeMisses`).

**Capabilities.** A tool's name is a bare name, or one with the environment of its hand and perhaps
a number behind it, so two machines of one environment collide in the way the code
resolves. `names` is the registry of hands (`handToolNames`), `tools` what the model sees.
Which hands there are and what they offer is given by constants (`Order`, `Added`, `Offers`, `Env`),
so that the theorems are about any hands. `RegisteredAll` registers hands one after the other,
and `setBuiltinHands` awaits the disposal of each hand it removes and goes on in `Removed`,
maybe on an agent that was disposed, or replaced by a new mount (`old`), meanwhile.
`agreed` is history: nobody overlapped two selections, no old call wrote late, and no spec differed from the file.

**MCPlane, MCHost, MCProcesses.** Several components in one instance: what connects hosts, what a
host keeps for itself, and what processes share. Components of one instance share no state, so a behaviour is of one of them
(`chosen`) and the others stay in their initial state; state spaces add up instead of being
multiplied; fairness is stated for the chosen one, and properties bind it only, because
the initial state an unchosen component keeps is one of a behaviour where it is chosen. The
cluster is looked at twice (two workers with few failures, one worker with more of them), and so
are the event stream (one session with overlapping appends, two sessions without) and the supervisors
(two processes that await each call, one whose calls overlap). Composition where components do share
state is inside the modules: Cluster is the control plane with its daemons and the lease
table, WakeScheduler the schedulers with the wake table, AgentTurn the turn with session,
log, compaction and crash detection.

**MCOrchestration.** The wake calls of the orchestrator do nothing to leases and workers but reap.
`ApartSpec` takes the behaviours that have lease and worker rows and those that have wakes one after
the other, so that their states add up; in the first kind wakes are still listed. The theorems are
about `Spec`, with rows of all kinds at once.

**Fault variants.** Operators whose comment begins with `Fault:` and whose name is that
of a definition with a suffix (`AcquireLease_Reentrant`, `Finish_ActiveOnly`) are that
definition with a plausible bug. Nothing uses them; putting one in the place of its
original makes the property named with it in `PROJECT.json` ("mutants") fail, which
shows that the property can fail at all.

## 3. Runs

| Run | Instance | Question |
|---|---|---|
| `tables` | 2 agents, 2 workers, 2 lease rows, 3 instants; 3 wakes, 4 instants, batches of 1 and 2, two ages | Are leases exclusive, final, ended for cause, within capacity, and is the table a `LeaseService`? Are claims spaced, settled wakes final? |
| `lookahead` | 2 agents, 1 worker, 3 lease rows, callers look 5 instants ahead | **Fails**: does a lease end only for cause when `listPendingWakes` is asked about the future? |
| `plane` | cluster: 1 agent, 2 operators, and 2 workers on one disk with 2 failures or requests or 1 worker with 4; schedulers: 2, with 2 wakes, 2 faults, 4 claims; machine: 1 server, 2 requests in flight, 3 failures; queue: 3 tasks, 2 executors | Do routes, leases and daemons agree in the end, and tokens? At most one delivery per claim, and are wakes settled? Is the machine known as it is? Do tasks run once? |
| `host` | log of 4 events, 2 saves, 1 crash; stream of 3 events (1 session with 2 appenders, 2 sessions with 1), 1 dropped connection; 5 guarded calls, 2 at once; 3 providers, 2 turns; 2 queries with 2 inferences; 1 task, 2 members, 1 message, 2 starts; 2 MCP servers, 2 calls; 3 containers, 2 callers; 5 hands, 2 mounts, 4 changes, 2 selections at once | How much of log and session does a crash cost? Has the stream gaps? Are limits kept, acknowledged changes too, MCP servers and containers lost only through the failures named, rows true, tools those of the hands? |
| `denylist` | as `host` | **Fails**: does a restart keep the tool denylist? |
| `glued` | as `host` | **Fails**: does a later read return every event that listeners were told of? |
| `processes` | supervisors: 2 processes with one call each at a time and 3 leases, or 1 with two at a time and 2 leases; store: 2 processes with 2 calls each, shared rows | Two runtimes of the agent only after a lapse or while the host of the older one shuts down; does a stale one stop? Is a lease that a process holds tracked once its calls are over? Is `transact` atomic? |
| `orphan` | 1 process, 2 calls in flight, 3 leases | **Fails**: one live runtime per host. |
| `serial` | 2 turns one after the other, 2 tool calls, 1 interject, 1 restart, 2 inferences per turn, 1 prompt-too-long retry | Interrupted calls, interjects, end of turns. |
| `overlap` | 2 turns that may overlap, 1 tool call, 1 interject, 1 restart | Pairing of what is saved and sent, sleepers, resting status under overlap. |
| `cutpair` | 2 turns, 2 calls, compaction | **Fails**: does every tool result given to a provider follow its call? |
| `falsealarm` | the same with a restart | **Fails**: is a finished call never reported as interrupted? |

Why the bounds suffice for the cases of interest. *tables*: two rows and three instants
with a term of two let a lease be renewed, lapse unreaped, be reaped by somebody else's
call and be followed by another one of the same agent; a capacity of one is reached by
one lease; two agents make the capacity compete (a capacity that a new registration lowers is left to the
theorem `CapacityCorrect`). Three wakes with a batch of
two leave one behind, and ages of one and two allow a requeue into the same batch.
*plane*: the claim budget exceeds the fault budget by more than one, so the bound
never stops a retry; two failures let a restart of the plane meet a lost answer or an
operator's eviction, and two workers on one disk let both mount the agent; four with one worker
let it be lost and its agent be deleted or stopped without a route. Tokens never run out within
these failures. *host*: four events are a prompt, a call, its result and
one behind a torn line, and two lines for each event asked for let other lines crowd an event out of a tail read; guards that exceed `MaxConsecutive` need two side by side; three providers
and two turns let an error of a provider that was left rotate past one in use; two
members and a message overlap at load, at write and at rename; five hands of which three offer one capability
need the name, the environment and the number. The supervisors of *processes* and
*orphan*: three leases are a mount, a restart and a restart during the teardown; two are enough for the
process of *processes* whose calls overlap to hold one that it does not track. *serial*: two turns are needed for anything to be reported
or to wait over the end of a turn, two calls for parallel tools and for a pair that is
old; `KeepPairs = 1` and `KeepRecent` = 3 to 5 instead of 5 and 3 make compaction bite on
short conversations.

Checking for deadlock is off where the system may stop: a scheduler whose wakes are
all settled, an agent nobody sends to. Symmetry is used over ids (`tables`, `lookahead`) only where
no liveness property is checked.

### Fairness

- `WakeScheduler` (in `plane`): the timer keeps ticking, awaited calls return and time
  passes. New wakes, cancellations and faults are never assumed.
- `Cluster` (in `plane`): a request that is under way is answered or fails, the heartbeat timer
  fires (`setInterval`), a starting daemon reads its disk, a stop that tears down ends, and a
  lease that nobody renews lapses. Operators, failures, starts and restarts are never assumed, and
  are bounded: convergence is about what follows the last of them.
- `Machines` (in `plane`): the same for requests, heartbeats and an operator's request under way.
- `TaskQueue` (in `plane`): timeouts fire and the loop of an executor goes on. Callers and
  stops are never assumed.
- `Supervisor` (in `processes`): of the calls that a process awaits one returns; the renewal timer
  fires while a lease is tracked (`setInterval`). Starts, stops, lapses and crashes are never assumed.
- `AgentTurn`: what a turn or a tool call awaits is answered (the provider answers or
  fails, the files are written, the guard decides, a tool returns, a sleep's timer
  fires). This is an assumption about providers, guards and tools: a guard that asks a
  person and never hears back blocks its turn in the code as well.
- `Orchestration`, `SqliteStore` and the components of `host`: safety only.

### Findings

Six runs end with a counterexample to a sentence of the repository; `PROJECT.json`
quotes it and the line of code:

1. `lookahead`: `GET` on the operator's wakes (`a8s-server/src/routes/wakes.ts:50`) calls
   `listPendingWakes(now + 100 years)`, which reaps with that time and expires every
   active lease.
2. `orphan`: `registry.drop` deletes by id after awaiting `dispose`
   (`runtime/src/registry.ts:104`); overlapping stops with a start in between leave a live
   runtime that the registry does not know.
3. `cutpair`: summarizing and truncating keep the newest messages wherever the cut falls
   (`core/src/compaction/layers.ts:172`, `:291`), so the first one kept can be a
   tool result without its call. (The other half of the cut, a call without its results, is what the
   summarizing call itself is given; `ConversationIsPaired` excepts it.)
4. `falsealarm`: the crash detector compares the whole event log with a conversation from
   which compaction took old results (`core/src/event-log/crash-detector.ts:80`), so
   finished calls are reported as interrupted at the first resume of a process.
5. `denylist`: "a restart keeps the same denylist" (`core/src/agent.ts:575`), but the spec that a
   restarting worker reads from disk has none, `worker/src/builder.ts:56` makes that an empty
   list, and setting it saves it over the one in `agent.json`.
6. `glued`: "what the listener sees and what `getEvents()` will return on a later read are guaranteed
   consistent" (`core/src/event-log/types.ts:349`), but the first event that a new process appends
   behind a torn line is on that line (`jsonl-store.ts:51`), and `parseLine` skips it.

### Seen while modelling, no finding

Behaviour that the models show and no sentence of the repository clearly denies, or that a
property therefore excepts:

- `worker-daemon/src/registration.ts:74` keeps the token "so the daemon will accept a8s calls", but
  the token of a registration repeated by a heartbeat is not handed to the daemon's HTTP
  server, which goes on asking for the first one (`Answers` in Cluster).
- A control plane whose workers have less capacity than agents placed on them does not
  converge; the instance of `plane` has room.
- `delegate` sends `query_start` and no `query_end`, so its events go to a row of its
  own that stays active, and those of the parent's turn after it as well; `TurnsAreTold`
  excepts turns with a delegate or another turn beside them.
- `worker-daemon/src/daemon.ts:797`: dropped connections are invisible to the client except for
  events that overtook each other and first events of a session that was not saved yet
  (`NoGap` names both).
- `mcp/src/client.ts:159` leaves it to the caller to tear down a client whose `listTools` fails or
  times out after connecting, and the manager drops it (`manager.ts:216-245`); an agent that is
  released while a server of it connects, and other calls about one server at a time, can leave an
  open client that nobody knows. `ServersAreTracked` names both as its exceptions (`stranded`,
  `overlapped`).
- `claim_task` is an unconditional PATCH: two teammates can both be told they claimed a task.
  Requests that load the team store side by side at the start of the server drop each other's
  acknowledged changes, and overlapping persists can share a temporary name.
- A container whose start is pending while the agent is disposed starts anyway (`container-environment.ts:178`);
  the environment still knows it, but nobody disposes the agent again. `dispose` forgets the id before
  `driver.stop`, and the default driver ignores a failing `docker rm -f` (`:178-181`, `:259-265`): the
  container runs on, and the next command starts a second one. `NothingForgotten` names both as its
  exceptions ("missed" and "failed" in `disposals`).
- `Worker.dispose` withdraws the worker, and so gives its leases back, while its runtimes still run
  (`worker/src/worker.ts:214-217`): a peer can start an agent that is still being shut down
  (`TwoBrainsForCause`).
- When the append of `user_message` throws (`core/src/agent-helpers/turn.ts:75`), the turn has sent
  `query_start` and never sends `query_end`: its row stays active, which `TurnsAreTold` says; the
  aborted turn also stays registered in the run state.
- A tail read returns fewer events than the "newest N matching events" of
  `core/src/event-log/types.ts:306` when more than `4 * N` newer lines are of other types
  (`jsonl-store.ts:239`) or when it stopped at lines that only look like a match (`:234`). `TailAgrees`
  says when it has them all, and that it never returns an event of the middle.
- The summarize layer gives its provider `messages.slice(0, -recentCount)` (`layers.ts:172-193`), which
  may end in a tool call without its results; a provider that rejects it makes the layer do nothing.
- The index of hands in the system prompt resolves an exposed tool name by prefix (`hands.ts:444`), so of
  `read` and `read_file` it may show the wrong one. A suffixed name inside one batch may equal the
  bare name of a later capability, whose tool then replaces it.
- `agent.ts:549` says that changes "take effect on the next LLM inference": tools and system prompt are
  resolved once per turn (`query-loop.ts:97`), so a hand removed in a turn is offered until its end.
- Two `setBuiltinHands` at a time, or one that still awaits a disposal while the agent is mounted anew,
  leave `agent.json` with another selection than the one mounted; creating an agent over a home that
  exists mounts the selection of the spec and keeps that of the file (`SelectionIsKept`, a part of `ToolsAreKept`, excepts all three).
- Compaction after a prompt that is too long may find no layer to apply; the retry then
  sends the same conversation, and the retry count ends it.
- A machine's heartbeat under way at `withdraw()` registers it again and restarts the timer;
  two reloads at a time can list tools twice.
- Overlapping turns make the resolver give up with providers that never failed, and with two or
  more providers a stream that fails after the last one is not retried.
- With the classifier unavailable or its limits reached, a tool that is not in `hitlTools`
  goes through although the message says "Escalating to human".
- `ControlPlane.migrateAgent` and `sweepStaleWorkers` have no caller outside the tests.

## 4. Proofs

TLAPS checks each theorem for every value of the constants that satisfies the named assumption
of the module it extends (`OrchestrationAssumption`, `AgentTurnAssumption`, `ClusterAssumption`,
`PlaneAssumption`, `HostAssumption`, `SessionFilesAssumption`, `ProcessesAssumption`) and the hypotheses that a theorem states itself: any number of agents,
workers, processes, calls, turns, tasks, events and crashes. The bounds of the runs are
constants that may be any number.

A safety theorem has the same shape throughout: an inductive invariant, checked by TLC on the
run first, holds at the start (`...Init`) and is kept by every step (`...Step`, with one lemma
per action or group of actions), and gives the property. For the composed instances (`MCPlane`,
`MCHost`, `MCProcesses`) a step is a step or a stutter of each component (`HostStep`,
`StoreHolds`), so each theorem rests on the invariant of its component alone.

Some properties are about what a loop over a sequence computes: the events found in the lines of
a log, the conversation rebuilt from them, the hands registered one after the other. The models
say it with the folds of the community modules. The proofs expand a fold to the function on sets
of places that it is defined by, and derive from it the sequence of values after each step
(`Replaying`, `Placing`, `Merging`, `Reading`, `Registering`); what holds of the first value and is
kept by each step holds of the last (`Stepwise`). That induction needs no theorem with an operator
as its parameter: it is the least number at which something fails (`LeastOf`), which exists because
`<` is well-founded on the natural numbers.

### The lease and wake tables: `Orchestration_proofs`

- `TypeCorrect`: `Spec => []TypeOK`. One lemma per table row that is rewritten (`ExpiredType`,
  `ReapedType`, `ExtendedType`) and `TypeStep`, with a step per action.
- `LeaseExclusion`: at most one active row per agent. `TypeOK` and the property itself are
  inductive once one knows what any step does to a row, which `LeaseSteps` states: a row is
  unchanged, reaped, released, revoked, extended, or freshly acquired for an agent that has no
  active row. The lemmas `ReapSteps` ... `AcquireSteps` prove it action by action; the theorems
  below all use it.
- `DepartedCorrect`: workers that left hold nothing. Needs `WorkerSteps`: the state of a worker
  leaves "present" only in a step that ends its leases.
- `NoResurrection`: the action property `LapsedStaysLapsed`. A lapsed row is reaped by the step
  that would renew it.
- `CapacityCorrect`: a step takes a worker beyond its capacity only if it was there before. The
  active rows of a worker are finitely many, a step that is not an acquisition adds none, and an
  acquisition adds one row after it counted fewer than the capacity.
- `SettledIsFinal` and `SpacedClaims`: the action properties of the wakes, from `WakeSteps`,
  what a step can do to a wake. For the spacing one needs that a wake which is pending after a
  claim was requeued when that claim was stale, and so is stale still (`RequeuedAreStale`).
- `EndsForCause`, `TermsCorrect` and `ServiceRefinement`, under the hypothesis that nobody looks
  past the clock (`Lookaheads \subseteq {0}`): the run `lookahead` shows that it is needed.
  `TermsCorrect` is `DisjointTerms`, about the whole history of the table; the inductive
  invariant adds that no row was acquired or ended later than the clock reads, and that an
  active row ends later than it was acquired. `ServiceRefinement` maps an acquisition, an
  extension, a release and a worker that leaves to the grant, renewal, release and revocation of
  `LeaseService`, a tick to its tick, at which the grants whose deadline comes lapse, and every
  other call to a stutter: a row that waits to be reaped is no grant in force any more
  (`ReapingIsInvisible`). One lemma per kind of call (`AcquireRefines` ... `RevokeRefines`).

### Stores and runtimes: `Processes_proofs`

- `TypeCorrect` of the supervisors, `StoreTyped` of the store.
- `LockAlwaysReturned`: the lock of the database is held exactly by the
  process of a call that awaits its mutator. `LockHeld` is the strengthening: a call in that
  state belongs to the process that holds the lock, and a process has one such call.
- `Refinement`: `ImplementsAtomicStore`. A commit maps to a call that lands on the
  current rows (`CommitLands`, which needs that the snapshot the call works on is still current
  because it holds the lock), a rejection or crash to one that is rejected (`RejectLands`),
  every other step to a stutter.
- `LeasesAreKept`: `NoLeaseLeaked`, for any number of processes with at most two calls in flight
  each. `LeakInv` relates the program counter of each call to what its process has mounted and
  tracks (`Bookkeeping`, `Working`), says that an active lease is tracked or in the hands of a
  call (`ActiveAreHeld`) and what a call beside one that is creating a runtime can be doing
  (`CreatesAlone`). The hypothesis is needed: of three calls that overlap, one can mount over
  what another has tracked, and TLC finds the lease that is lost.
- `TornDownCorrect` and `TwoBrainsCorrect`: `TornDownBeforeGone` and `TwoBrainsForCause`,
  for any number of processes and calls. `BrainInv` says that a process whose calls have not
  overlapped has at most one in flight (`Singles`), what its registry holds at each program counter
  of that call (`InStep`), that what runs is mounted, under a lease that was given back only by a
  shutdown that is still under way (`RunsMounted`), and that of the leases granted only the last can be in force (`InOrder`).
  `SoleSteps` says of each step that it is of such a call alone. Both properties are about
  processes whose calls have not overlapped; without that they are false, as the run `orphan` shows.

### One agent: `AgentTurn_proofs`

Whether turns overlap or not:

- `TypeCorrect`: the lemmas on conversations (`ClearOldPairsType`, `KeepNewestType`,
  `CompactionsType`, `ResultsType`) carry the data; `TurnTypes` and `CallTypes` have a step per
  action.
- `SleepersHear`: `SleepersHearInterjects` is inductive as it stands, once each step of a turn
  or call is known to treat queue and wakers in one of few ways (`TurnQueueSteps`,
  `CallQueueSteps`).
- `RestsCorrect`: `RestsWhenDone` needs `RestInv`: turns that `send` has not numbered have no
  state (`FreshTurns`), so a new turn is never one that already runs; and a call that is not
  over belongs to a turn that awaits it or has failed (`CallsBelong`), so no call can end and
  leave the status of a turn that succeeded.
- `PairedCompactions`: neither clearing old pairs nor keeping the newest messages takes the
  results of a call away from it. The converse, results that lose their call, is what the run
  `cutpair` refutes.
- `PairingCorrect`: `ConversationIsPaired`. The property says nothing of a turn whose tools run,
  and there the conversation is not paired. `PairInv` says what it is instead: a paired
  conversation followed by one response that asks for exactly the calls the turn still awaits
  (`TurnPaired`). So the results that `Promise.all` collects answer that response, and a turn
  that loses one of its calls has failed and saves nothing. It also needs that the interject
  queue holds no tool calls (`PendingIsSpeech`) and that a fresh call belongs to nobody
  (`UnusedUnowned`). It builds on `RestInv`. What a summarizing call is given is the beginning of a
  paired conversation with old pairs cleared, and so paired before its last message (`PairedPrefix`,
  `PairedBriefs`).

For a host that awaits its turns (`Overlap = FALSE`; turns that overlap overwrite each other's
messages, see section 3):

- `InterjectsCorrect`: `InterjectsSurface`. `SerialInv` says that the turn in flight holds all
  news of `messages.json` that no inference has seen, and that from the first save of a round on
  it holds no others: whatever fails then, nothing is only in the memory of the turn.
- `InterruptedCorrect`: `InterruptedCallsSurface`, through any number of restarts. `LostInv`
  adds that a call which ran is in the event log, that the results in `messages.json` are those
  that were committed, and that no conversation holds a result of a call that was interrupted,
  so each process that looks finds it again.

### What connects hosts: `Plane_proofs`

- `MembersCorrect`: `LeasedToMembers`, and `RoutesCorrect`: the action property
  `RoutesFollowLeases`. Both are close to the code once `ClusterInv` says what a request carries
  at each program counter (`CallsOK`): a handler that goes on after an await checks the lease
  table, not what it read before.
- `ClaimsCorrect`: a claim buys at most one delivery. Deliveries are made by schedulers that
  took the wake in a batch, possibly long after it was requeued, so the count must include them:
  `WakeInv` says that the deliveries of a wake and the schedulers that have it in hand
  undelivered (`Undelivered`) are together no more than its claims. A completion may be of a
  claim that is not the delivered one, so `CompletesDelivered` is about the wake.
- `DeliveredAreClaimed`: without requeueing a wake is claimed once, and is in the batch of one
  scheduler (`ClaimedOnce`).
- `TasksRunOnce`: no task runs twice, and at most one task is lost for each stopped agent.
  `QueueInv` says where every task is (`Kept`): queued, in the hands of one executor, run, or
  lost. For the count, the lost tasks are mapped one to one into the executors that were stopped
  with them.
- `TypesCorrect`: the types of all four. The only one that is not a matter of bookkeeping bounds
  the number of times a reload lists tools: every list an entry has, and every reload that is
  connecting, belongs to one of the operators' requests (`ToolsFit`).

### What a host keeps: `Host_proofs`, `SessionFiles_proofs`, `Teams_proofs`, `EventStream_proofs`

The theorems are about the host; the invariants of the files, the team store and the stream are in the
modules named after them.

- `NothingIsForgotten` (`HandInv`): a container that starts is the one the environment awaits,
  it does not await one while it knows one, and each container that is being stopped is in the hands
  of one disposal, which ends it or records that `driver.stop` failed.
- `GivesUpCorrect` (`FailInv`): while turns do not overlap, the providers blamed are those the
  pointer has passed (`Walked`), and a call is to the provider in use.
- `DenialsCorrect` (`GuardInv`): a guard whose classifier is awaited has room for its denial
  reserved: the counter and the guards that classify stay below limit plus parallel guards.
- `ServersTracked` (`ServerInv`): which client a manager call holds at each program counter
  (`InOrder`: a client that connects is known to its call alone), that calls about one server at
  a time are on record (`Apart`), and that what the manager lists was made (`Made`). An open client
  is then listed, in the hands of a call, or one of the two leaks that the property names.
- `SavedIsKept` (`SaveInv`): a save under way is newer than the answered one, and the temporary
  file that it is about to rename is its own or deleted.
- `LogReadable` (`LogInv`): `LogIsReadable`. A crash costs one event at most because a torn line is
  always the last one (`Orderly`): the next append continues it, and every other line ends. What
  listeners have heard of is never being written and never in the line the file is cut in, and
  what of it no reader finds is at most one event for each crash; a file that is cut is one loss
  to come, which is counted already (`WriteAdds`: an append loses no line but the cut one). That a
  tail read is the end of a full one, wherever it stops, is a fact about the readers (`TailOfLog`): what
  is found in the last lines is the end of what is found in all (`SomeLines`, `TailOfSome`), and the
  newest of an end are the newest of the whole as far as they go (`NewestOfEnd`). That the event
  behind a torn line is lost is what the run `glued` shows; the theorem says that no more is.
- `RebuiltCorrect`: `RebuiltIsPaired`, for whatever events the lines hold, in any order
  (`RebuiltPaired`). Replaying yields messages of which a user's has no calls (`Spoken`); each message that is
  placed leaves the calls of all but the last message answered right behind them (`Answered`,
  `PlacedType`); the last one gets its results at the end (`RepairedPaired`); merging neighbours of
  one role keeps it, because no message with calls is followed by another of its role
  (`MergedPaired`).
- `ToolsCorrect` (`CapInv`): `ToolsAreKept`. Every tool is of a hand that is registered, and a hand
  has one tool for each of its admitted capabilities that `removeTool` did not take
  (`HandsOK`). The name a tool gets is one that no other tool has: of the numbers up to that of
  the hands, the tools of the other hands cannot use up all (`FewSuffixes`, by counting), so
  registering a hand neither replaces a tool nor fails to name one (`RegisteredOK`). While no calls of
  `setBuiltinHands` overlap, the built-in hands are those of `agent.json`, or exactly one call is
  on its way, and the hands it is done with are as it was asked (`SelectionInv`, `Progress`), also
  where it waits in the middle of its loop (`LoopStops`).
- `TypesCorrect`: the host's `TypesOK`, from the invariants above. Hypotheses: the
  changes of a team store are finitely many, and the server starts at least once.
- `TurnsCorrect` (`TurnInv`): the row of a turn which nothing ran beside counts what the turn asked,
  called and guarded (`Told`), and the collector points at that turn while it is in flight (`Leads`). A
  turn that ended without a `query_end` is still the collector's current one, so its row keeps its
  counts only because nothing is in flight until the next query starts (`Undisturbed`).
- `AckedCorrect`: `AckedIsKept`. `TeamInv` follows a file through its inodes: no two names are
  of one inode (`NamesApart`), the memory has every change answered since the start until a
  second load replaces it (`MemoryHas`), and, as long as no requests overlapped, the file and
  the memory have all that was ever answered, and so has what the one request under way reads,
  makes and writes (`DiskHas`). Hypotheses: the changes are finitely many, and "torn", which
  stands for a file cut off in the middle of a write, is not one of them.
- `NoGapCorrect`: `NoGap`, in `EventStream_proofs` for any number of sessions and appenders at
  once and in `Host_proofs` for the two streams of the run. `StreamInv` generalises the property
  from what the client has to every prefix of what is written to it (`Gapless`), and accounts
  for every event the client listens to: received, on the wire, buffered, pending in an append,
  excepted, or in a session still to be replayed (`Accounted`). What is buffered is in order but
  for overtaken events (`BufferedInOrder`). The proof of a replay (`SendStep`) shows that events
  may be appended to the wire when each of them has its predecessors; the id seen last is such a
  point because the client's own events have no gap (`ReplayStep`). What is sent of the buffer
  is described by places (`UnsentFacts`), which counts the elements before one.

### What the proofs needed of the models

- `Observer`: `TurnsAreTold` as it stood before was false beyond the two queries of the run. A
  crash that was found for a turn which then failed to start marks the next row, and that may be
  a delegate's; TLC shows it with three queries. `crashed` now says that a crash was found which
  no row tells of yet, and the property that the row which tells of it is the first one since.
- `Supervisor`: `NoLeaseLeaked` is false with three overlapping calls, which its comment says
  now.
- `MCPlane`, `MCHost`, `MCProcesses`: what the proofs assume of the constants is named
  (`PlaneAssumption`, `HostAssumption`, `ProcessesAssumption`).
- `WakeScheduler`: its `TypeOK` did not say that `current` is a function. `Teams`: its `TypeOK`
  was ambiguous to read.
- `SessionFiles`, `Capabilities`: filters (`SelectSeq`) became folds with a named step, `Torn` names what
  a torn write is (`Stopped`), and the hands of the run, which were fixed in an INSTANCE, are constants of
  `MCHost` that the cfg gives values. The runs have the same states as before.
- Three definitions mean what they meant, in words the provers understand: `PollTimeout` of
  `TaskQueue` and `Unsent` of `EventStream` speak of places in a sequence where they used a
  filter (TLC compared the two on all short sequences), and `StreamFails` of `Failover` names
  the turn it changes.

### Proved but in no run

`Orchestration`'s `TypeOK`, `OneActiveLeasePerAgent`, `DepartedHoldNothing` and
`LapsedStaysLapsed`; the `TypeOK` of `SqliteStore`, `Supervisor` and `AgentTurn`;
`NoTransactionLeftOpen`; the operator lemma `PairedCompactions`.

### Only model-checked

- All liveness (`EveryWakeSettles`, `RoutingConverges`, `MembershipConverges`,
  `MachineConverges`, `TasksAreRun`, `StaleBrainStops`, `TurnsEnd`): liveness under fairness and
  ENABLED are out of the prover's reach.
- The properties of the six runs that fail.

The modules declare no RECURSIVE operator.

## 5. Not modelled, and why

- `migrateAgent` and `sweepStaleWorkers` of the control plane (no caller), proxy and read-only
  routes of server and daemon: no state of their own.
- The child conversation of a `delegate` beyond the events it sends; forks of a session;
  hands that the SDK adds around configured tools and memory; overlapping saves of one session.
- In `AgentTurn`, failing appends to the event log and a failing save: a turn then fails where it
  stands; that model covers failures of the provider, a guard and the process only. What the observer
  makes of a turn that such a failure ends is modelled in `Observer` (`StartFails`, `UserLogged`,
  `Throws`, `HookEnds`).
- Shell and HTTP I/O, wire schemas, clients, user interfaces, the analyzer's queries,
  configuration, memory and prompts: sequential code or presentation, which is most of the
  repository's lines and why the map covers a small share of them. There is no state machine
  in them that a check would add to.
- The file-backed store's own promise chain: documented as single-process.

## 6. Plan

Every safety property that a passing run checks is a theorem now: invariants, action properties
and the refinements. What could follow, the most valuable first:

1. The safety parts of convergence that `Cluster`'s liveness properties rest on: which token a daemon
   and the plane agree on, and that a route is to a worker whose token the plane knows.
2. Saves of one session that overlap, which share a temporary file, once a host in the repository
   allows them (`Savers` with more than one member).
3. `migrateAgent` and `sweepStaleWorkers` of the control plane, once something calls them.
