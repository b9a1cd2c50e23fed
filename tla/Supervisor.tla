----------------------------- MODULE Supervisor -----------------------------
(***************************************************************************)
(* ManagedRuntimeSupervisor over ManagedRuntimeRegistry                    *)
(* (packages/runtime/src/supervisor.ts, registry.ts), as Worker            *)
(* (packages/worker/src/worker.ts) drives them: hosts that share one lease *)
(* table and mount the runtime of one agent under its lease.               *)
(*                                                                         *)
(* A call of the supervisor is a program counter that stops at each await; *)
(* what the code does between two awaits is one step.  The lease table is  *)
(* that of module Orchestration, seen from one agent: a lease in force may *)
(* lapse (expire, or be revoked when the worker is evicted) between any    *)
(* two steps.                                                              *)
(* A runtime is named by the lease it was mounted under.                   *)
(***************************************************************************)
EXTENDS Integers, FiniteSets

CONSTANTS
  Supervisors,  \* processes
  Slots,        \* how many calls a process may have in flight
  MaxLeases     \* bound: leases the agent is ever granted

VARIABLES
  lease,    \* state of each lease of the agent, in the order of acquisition
  host,     \* the process that acquired it
  runtime,  \* state of the runtime mounted under it
  mounted,  \* registry.mounts.get(agentId), 0 when there is none
  tracked,  \* renewals.get(agentId).leaseId, 0 when there is none
  renewing, \* renewals.get(agentId).renewing
  worker,   \* the worker the process registered as
  calls,    \* the calls in flight
  overlapped  \* history: whether the process has had two calls in flight at once

vars == <<lease, host, runtime, mounted, tracked, renewing, worker, calls, overlapped>>

Leases == 1 .. MaxLeases

\* stranded: active in the table, but its process died or failed to release;
\* released: given back by its host; lapsed: over without its doing.
LeaseStates == {"unused", "active", "stranded", "released", "lapsed"}

\* dying: dispose() has stopped the agent and is releasing its hands.
RuntimeStates == {"none", "live", "dying", "gone"}

\* none: not registered; gone: evicted, while `ready` still resolves to it.
WorkerStates == {"none", "active", "gone"}

Ops == {"start", "stop", "renew", "shutdown"}

\* lease is the local leaseId, mount the local mount of registry.drop, and
\* tears says that this call's dispose() is the one that does the work.
Call == [pc : {"check", "ensure", "acquire", "create", "renew", "clear",
               "dispose", "release"},
         op : Ops, lease : 0 .. MaxLeases, mount : 0 .. MaxLeases, tears : BOOLEAN]

Idle == [pc |-> "idle"]

InForce == {l \in Leases : lease[l] \in {"active", "stranded"}}

Init ==
  /\ lease = [l \in Leases |-> "unused"]
  /\ host = [l \in Leases |-> CHOOSE s \in Supervisors : TRUE]
  /\ runtime = [l \in Leases |-> "none"]
  /\ mounted = [s \in Supervisors |-> 0]
  /\ tracked = [s \in Supervisors |-> 0]
  /\ renewing = [s \in Supervisors |-> FALSE]
  /\ worker = [s \in Supervisors |-> "none"]
  /\ calls = [c \in Supervisors \X Slots |-> Idle]
  /\ overlapped = [s \in Supervisors |-> FALSE]

-----------------------------------------------------------------------------
(* Parts of calls that run without an await *)

Goto(c, pc, op, l) ==
  calls' = [calls EXCEPT ![c] =
              [pc |-> pc, op |-> op, lease |-> l, mount |-> 0, tears |-> FALSE]]

Return(c) == calls' = [calls EXCEPT ![c] = Idle]

\* Where a call goes on once it has stopped what was mounted.
AfterStop(c, op) == IF op = "start" THEN Goto(c, "ensure", op, 0) ELSE Return(c)

\* registry.drop up to its first await.  The first dispose() of a runtime
\* tears it down; another one finds it disposed and returns early.
Drop(c, op, l) ==
  LET m == mounted[c[1]]
  IN  /\ m # 0
      /\ calls' = [calls EXCEPT ![c] =
                     [pc |-> "dispose", op |-> op, lease |-> l, mount |-> m,
                      tears |-> runtime[m] = "live"]]
      /\ runtime' = [runtime EXCEPT ![m] = IF @ = "live" THEN "dying" ELSE @]

\* Fault: the lease is given back before the runtime is torn down.
EnterStop_ReleasesFirst(c, op) ==
  LET s == c[1]
      l == tracked[s]
  IN  /\ tracked' = [tracked EXCEPT ![s] = 0]
      /\ renewing' = [renewing EXCEPT ![s] = FALSE]
      /\ lease' = [k \in Leases |-> IF k = l /\ lease[k] = "active" THEN "released"
                                    ELSE lease[k]]
      /\ \/ Drop(c, op, 0)
         \/ mounted[s] = 0 /\ AfterStop(c, op) /\ UNCHANGED runtime
      /\ UNCHANGED <<host, mounted, worker>>

\* stop() up to its first await: untrack the lease, start to drop the mount.
EnterStop(c, op) ==
  LET s == c[1]
      l == tracked[s]
  IN  /\ tracked' = [tracked EXCEPT ![s] = 0]
      /\ renewing' = [renewing EXCEPT ![s] = FALSE]
      /\ \/ Drop(c, op, l)
         \/ /\ mounted[s] = 0
            /\ IF l # 0 THEN Goto(c, "release", op, l) ELSE AfterStop(c, op)
            /\ UNCHANGED runtime
      /\ UNCHANGED <<lease, host, mounted, worker>>

-----------------------------------------------------------------------------
(* Calls of the host, and the renewal timer *)

\* History: the call begins beside another one, or alone.
Begins(c) ==
  overlapped' = [overlapped EXCEPT ![c[1]] = @ \/ \E i \in Slots : calls[<<c[1], i>>] # Idle]

\* start(), and reuseExistingMount's first checks.
BeginStart(c) ==
  LET s == c[1]
  IN  /\ calls[c] = Idle
      /\ Begins(c)
      /\ \/ /\ mounted[s] # 0 /\ tracked[s] = 0
            /\ EnterStop(c, "start")
         \/ /\ ~(mounted[s] # 0 /\ tracked[s] = 0)
            /\ IF mounted[s] = 0 THEN Goto(c, "ensure", "start", 0)
               ELSE Goto(c, "check", "start", tracked[s])
            /\ UNCHANGED <<lease, host, runtime, mounted, tracked, renewing, worker>>

BeginStop(c) ==
  /\ calls[c] = Idle
  /\ Begins(c)
  /\ EnterStop(c, "stop")

BeginRenew(c) ==
  LET s == c[1]
  IN  /\ calls[c] = Idle
      /\ Begins(c)
      /\ tracked[s] # 0
      /\ ~renewing[s]
      /\ renewing' = [renewing EXCEPT ![s] = TRUE]
      /\ Goto(c, "renew", "renew", tracked[s])
      /\ UNCHANGED <<lease, host, runtime, mounted, tracked, worker>>

\* Worker.dispose(): stopWorker withdraws the worker, which gives its leases
\* back, and only then registry.clear drops the mounts.
BeginShutdown(c) ==
  LET s == c[1]
  IN  /\ calls[c] = Idle
      /\ Begins(c)
      /\ worker' = [worker EXCEPT ![s] = "none"]
      /\ lease' = [l \in Leases |->
                     IF worker[s] = "active" /\ host[l] = s /\ lease[l] = "active"
                     THEN "released" ELSE lease[l]]
      /\ Goto(c, "clear", "shutdown", 0)
      /\ UNCHANGED <<host, runtime, mounted, tracked, renewing>>

-----------------------------------------------------------------------------
(* What calls do after an await *)

\* getActiveLease answers: reuse the mount if its lease is the one in force.
Check(c) ==
  /\ calls[c].pc = "check"
  /\ \/ /\ calls[c].lease \in InForce
        /\ Return(c)
        /\ UNCHANGED <<lease, host, runtime, mounted, tracked, renewing, worker>>
     \/ /\ calls[c].lease \notin InForce
        /\ EnterStop(c, "start")

\* ensureWorkerId: registers at most once, and keeps a worker that is gone.
Ensure(c) ==
  /\ calls[c].pc = "ensure"
  /\ worker' = [worker EXCEPT ![c[1]] = IF @ = "none" THEN "active" ELSE @]
  /\ Goto(c, "acquire", "start", 0)
  /\ UNCHANGED <<lease, host, runtime, mounted, tracked, renewing>>

\* acquireLease: throws for a worker that is gone, reports a lease in force,
\* or grants a new one.
Acquire(c) ==
  LET s == c[1]
  IN  /\ calls[c].pc = "acquire"
      /\ IF worker[s] # "active" \/ InForce # {}
         THEN Return(c) /\ UNCHANGED <<lease, host>>
         ELSE \E l \in Leases :
                /\ lease[l] = "unused"
                /\ \A k \in Leases : k < l => lease[k] # "unused"
                /\ lease' = [lease EXCEPT ![l] = "active"]
                /\ host' = [host EXCEPT ![l] = s]
                /\ Goto(c, "create", "start", l)
      /\ UNCHANGED <<runtime, mounted, tracked, renewing, worker>>

\* Fault: a failed mount does not give its lease back.
Create_KeepsLease(c) ==
  LET s == c[1]
      l == calls[c].lease
  IN  /\ calls[c].pc = "create"
      /\ \/ /\ mounted[s] = 0
            /\ mounted' = [mounted EXCEPT ![s] = l]
            /\ runtime' = [runtime EXCEPT ![l] = "live"]
            /\ tracked' = [tracked EXCEPT ![s] = l]
            /\ renewing' = [renewing EXCEPT ![s] = FALSE]
         \/ UNCHANGED <<runtime, mounted, tracked, renewing>>
      /\ Return(c)
      /\ UNCHANGED <<lease, host, worker>>

\* registry.create and trackLease, or the catch block when something is
\* mounted already or the factory throws.
Create(c) ==
  LET s == c[1]
      l == calls[c].lease
  IN  /\ calls[c].pc = "create"
      /\ \/ /\ mounted[s] = 0
            /\ mounted' = [mounted EXCEPT ![s] = l]
            /\ runtime' = [runtime EXCEPT ![l] = "live"]
            /\ tracked' = [tracked EXCEPT ![s] = l]
            /\ renewing' = [renewing EXCEPT ![s] = FALSE]
            /\ Return(c)
         \/ /\ Goto(c, "release", "stop", l)
            /\ UNCHANGED <<runtime, mounted, tracked, renewing>>
      /\ UNCHANGED <<lease, host, worker>>

\* Fault: a lost lease is noticed and nothing is done about it.
Renew_KeepsRunning(c) ==
  LET s == c[1]
  IN  /\ calls[c].pc = "renew"
      /\ renewing' = [renewing EXCEPT ![s] = FALSE]
      /\ Return(c)
      /\ UNCHANGED <<lease, host, runtime, mounted, tracked, worker>>

\* renewLease answers; null stops whatever the agent has mounted by now.
Renew(c) ==
  LET s == c[1]
      l == calls[c].lease
  IN  /\ calls[c].pc = "renew"
      /\ \/ /\ l \in InForce
            /\ renewing' = [renewing EXCEPT ![s] = @ /\ tracked[s] # l]
            /\ Return(c)
            /\ UNCHANGED <<lease, host, runtime, mounted, tracked, worker>>
         \/ /\ l \notin InForce
            /\ EnterStop(c, "renew")

\* registry.clear drops the mount and leaves the renewal tracked.
Clear(c) ==
  /\ calls[c].pc = "clear"
  /\ \/ Drop(c, "shutdown", 0)
     \/ mounted[c[1]] = 0 /\ Return(c) /\ UNCHANGED runtime
  /\ UNCHANGED <<lease, host, mounted, tracked, renewing, worker>>

\* Fault: the mount is deleted without waiting for dispose().
Dispose_NotAwaited(c) ==
  LET s == c[1]
      call == calls[c]
  IN  /\ call.pc = "dispose"
      /\ mounted' = [mounted EXCEPT ![s] = 0]
      /\ IF call.lease # 0 THEN Goto(c, "release", call.op, call.lease)
         ELSE AfterStop(c, call.op)
      /\ UNCHANGED <<lease, host, runtime, tracked, renewing, worker>>

\* dispose() is over: registry.drop deletes the agent's entry, whichever
\* mount it holds by now.
Dispose(c) ==
  LET s == c[1]
      call == calls[c]
  IN  /\ call.pc = "dispose"
      /\ runtime' = [runtime EXCEPT ![call.mount] = IF call.tears THEN "gone" ELSE @]
      /\ mounted' = [mounted EXCEPT ![s] = 0]
      /\ IF call.lease # 0 THEN Goto(c, "release", call.op, call.lease)
         ELSE AfterStop(c, call.op)
      /\ UNCHANGED <<lease, host, tracked, renewing, worker>>

\* releaseLease, or its transaction throws and so does the call.
Release(c) ==
  LET l == calls[c].lease
  IN  /\ calls[c].pc = "release"
      /\ \/ /\ lease' = [lease EXCEPT ![l] = IF @ = "active" THEN "released" ELSE @]
            /\ AfterStop(c, calls[c].op)
         \/ /\ lease' = [lease EXCEPT ![l] = IF @ = "active" THEN "stranded" ELSE @]
            /\ Return(c)
      /\ UNCHANGED <<host, runtime, mounted, tracked, renewing, worker>>

Step(c) ==
  /\ Check(c) \/ Ensure(c) \/ Acquire(c) \/ Create(c) \/ Renew(c) \/ Clear(c)
       \/ Dispose(c) \/ Release(c)
  /\ UNCHANGED overlapped

-----------------------------------------------------------------------------
(* The rest of the world *)

\* The lease expires, or the worker of a dead process is evicted.
Lapse(l) ==
  /\ l \in InForce
  /\ lease' = [lease EXCEPT ![l] = "lapsed"]
  /\ UNCHANGED <<host, runtime, mounted, tracked, renewing, worker, calls, overlapped>>

\* Heartbeats come late and a peer evicts this worker, with its leases.
Evict(s) ==
  /\ worker[s] = "active"
  /\ worker' = [worker EXCEPT ![s] = "gone"]
  /\ lease' = [l \in Leases |-> IF host[l] = s /\ lease[l] = "active"
                                THEN "lapsed" ELSE lease[l]]
  /\ UNCHANGED <<host, runtime, mounted, tracked, renewing, calls, overlapped>>

\* The process dies with everything it had mounted, and is started again.
Crash(s) ==
  /\ lease' = [l \in Leases |-> IF host[l] = s /\ lease[l] = "active"
                                THEN "stranded" ELSE lease[l]]
  /\ runtime' = [l \in Leases |-> IF host[l] = s /\ runtime[l] # "none"
                                  THEN "gone" ELSE runtime[l]]
  /\ mounted' = [mounted EXCEPT ![s] = 0]
  /\ tracked' = [tracked EXCEPT ![s] = 0]
  /\ renewing' = [renewing EXCEPT ![s] = FALSE]
  /\ worker' = [worker EXCEPT ![s] = "none"]
  /\ calls' = [c \in Supervisors \X Slots |-> IF c[1] = s THEN Idle ELSE calls[c]]
  /\ overlapped' = [overlapped EXCEPT ![s] = FALSE]
  /\ UNCHANGED host

Moves(c) == BeginStart(c) \/ BeginStop(c) \/ BeginRenew(c) \/ BeginShutdown(c) \/ Step(c)

Happens ==
  \/ \E l \in Leases : Lapse(l)
  \/ \E s \in Supervisors : Evict(s) \/ Crash(s)

Next == (\E c \in Supervisors \X Slots : Moves(c)) \/ Happens

\* Awaited calls are answered, and the renewal timer fires: hosts that set
\* renewIntervalMs.  Nothing else is owed.
Fairness ==
  \A c \in Supervisors \X Slots : WF_vars(Step(c)) /\ WF_vars(BeginRenew(c))

Spec == Init /\ [][Next]_vars /\ Fairness

-----------------------------------------------------------------------------
(* Properties *)

\* The variables hold what the code can put there.
TypeOK ==
  /\ lease \in [Leases -> LeaseStates]
  /\ host \in [Leases -> Supervisors]
  /\ runtime \in [Leases -> RuntimeStates]
  /\ mounted \in [Supervisors -> 0 .. MaxLeases]
  /\ tracked \in [Supervisors -> 0 .. MaxLeases]
  /\ renewing \in [Supervisors -> BOOLEAN]
  /\ worker \in [Supervisors -> WorkerStates]
  /\ calls \in [Supervisors \X Slots -> Call \cup {Idle}]
  /\ overlapped \in [Supervisors -> BOOLEAN]

Running(l) == runtime[l] \in {"live", "dying"}

Quiet(s) == \A i \in Slots : calls[<<s, i>>] = Idle

\* "exactly one live runtime per id" (registry.ts:33): a host that runs two
\* of them has lost one, which nothing will ever dispose.
OneRuntimePerHost ==
  \A k, l \in Leases :
    runtime[k] = "live" /\ runtime[l] = "live" /\ host[k] = host[l] => k = l

\* "teardown before a mount disappears from the host cache" (registry.ts:34):
\* what runs or is being torn down on a host is what its registry holds, so
\* no new runtime starts beside the hands of the old one.  A host that lets
\* calls overlap may lose a mount, as OneRuntimePerHost shows.
TornDownBeforeGone ==
  \A l \in Leases : Running(l) /\ ~overlapped[host[l]] => mounted[host[l]] = l

ShuttingDown(s) ==
  \E c \in Supervisors \X Slots : c[1] = s /\ calls[c] # Idle /\ calls[c].op = "shutdown"

\* Two runtimes of the agent run at once for one of two causes: the lease of the
\* older one lapsed, or its host is shutting down.  The second is the order of
\* Worker.dispose (worker.ts:214-217, supervisor.ts:236-247): the worker is
\* withdrawn, and its leases given back, before the runtimes are torn down, so a
\* peer may mount the agent meanwhile; it lasts no longer than that call.  No other
\* call of a host that awaits its calls gives a lease back while its runtime runs.
TwoBrainsForCause ==
  \A k, l \in Leases :
    k < l /\ Running(k) /\ Running(l) /\ ~overlapped[host[k]] =>
      \/ lease[k] = "lapsed"
      \/ lease[k] = "released" /\ ShuttingDown(host[k])

\* Once its calls are over, a process that still holds an active lease tracks
\* it, so that the lease is renewed and released: no path through a failed
\* start, a lost race or a shutdown leaves the agent locked for a full term.
\* It is true of a process with at most two calls in flight: of three that
\* overlap, one can mount over what another has tracked.
NoLeaseLeaked ==
  \A s \in Supervisors, l \in Leases :
    lease[l] = "active" /\ host[l] = s /\ Quiet(s) => tracked[s] = l

\* A runtime whose lease is over is torn down in the end, whatever the host
\* does meanwhile, when the renewal timer is on and calls do not overlap.
StaleBrainStops ==
  \A l \in Leases :
    Running(l) /\ lease[l] \notin {"active", "stranded"} /\ ~overlapped[host[l]]
      ~> ~Running(l) \/ overlapped[host[l]]

=============================================================================
