-------------------------- MODULE Processes_proofs --------------------------
(***************************************************************************)
(* What processes share, for every number of processes, calls and rows.    *)
(*                                                                         *)
(* About Supervisor, the leases under which hosts mount an agent: Steps    *)
(* sums up what a call may do between two awaits; the invariants are       *)
(* carried over its cases.  That no lease leaks is proved for processes    *)
(* with at most two calls in flight; what is said of the runtimes is about *)
(* processes whose calls have not overlapped, whatever the others do.      *)
(*                                                                         *)
(* About the database file of SqliteStore: the type invariant, the         *)
(* discipline of the write lock, and that transact implements the atomic   *)
(* store its interface promises.                                           *)
(***************************************************************************)
EXTENDS MCProcesses, TLAPS

-----------------------------------------------------------------------------
(* The supervisors: typing *)

Ids == Supervisors \X Slots

\* Every call but c is where it was.
OthersStay(c) == \A d \in Ids \ {c} : calls'[d] = calls[d]

\* Where calls get to.
At(c, stage, op, l) ==
  /\ calls'[c] = [pc |-> stage, op |-> op, lease |-> l, mount |-> 0, tears |-> FALSE]
  /\ OthersStay(c)

\* The call has returned.
Over(c) == calls'[c] = Idle /\ OthersStay(c)

\* A call that goes on gets where it goes, and no other call moves.
LEMMA GotoFacts ==
  ASSUME TypeOK, NEW c \in Ids, NEW stage, NEW op, NEW l, Goto(c, stage, op, l)
  PROVE  At(c, stage, op, l)
BY DEF TypeOK, Goto, At, OthersStay, Ids

\* A call that returns is over, and no other call moves.
LEMMA ReturnFacts ==
  ASSUME TypeOK, NEW c \in Ids, Return(c)
  PROVE  Over(c)
BY DEF TypeOK, Return, Over, OthersStay, Ids

\* Where a call is when it starts to tear down what its process has mounted.
Disposes(c, op, l) ==
  LET m == mounted[c[1]]
  IN  /\ m # 0
      /\ calls'[c] = [pc |-> "dispose", op |-> op, lease |-> l, mount |-> m,
                      tears |-> runtime[m] = "live"]
      /\ OthersStay(c)
      /\ runtime' = [runtime EXCEPT ![m] = IF @ = "live" THEN "dying" ELSE @]

\* A drop of the mount makes the call wait for its disposal.
LEMMA DropFacts ==
  ASSUME TypeOK, NEW c \in Ids, NEW op, NEW l, Drop(c, op, l)
  PROVE  Disposes(c, op, l)
BY DEF TypeOK, Drop, Disposes, OthersStay, Ids

\* The variables of the code.
Typed ==
  /\ lease \in [Leases -> LeaseStates]
  /\ host \in [Leases -> Supervisors]
  /\ runtime \in [Leases -> RuntimeStates]
  /\ mounted \in [Supervisors -> 0 .. MaxLeases]
  /\ tracked \in [Supervisors -> 0 .. MaxLeases]
  /\ renewing \in [Supervisors -> BOOLEAN]
  /\ worker \in [Supervisors -> WorkerStates]
  /\ calls \in [Ids -> Call \cup {Idle}]

\* Those of the code stay well-formed over every step.
LEMMA TypedStep ==
  ASSUME MaxLeases \in Nat, TypeOK, [Next]_vars
  PROVE  Typed'
<1> USE DEF Leases
<1>0. Supervisors \X Slots = Ids /\ 0 \in 0 .. MaxLeases
      BY DEF Ids
<1>1. ASSUME NEW c \in Ids,
             NEW stage \in {"check", "ensure", "acquire", "create", "renew", "clear",
                        "dispose", "release"},
             NEW op \in Ops, NEW l \in 0 .. MaxLeases, Goto(c, stage, op, l)
      PROVE  calls' \in [Ids -> Call \cup {Idle}]
  <2>1. [pc |-> stage, op |-> op, lease |-> l, mount |-> 0, tears |-> FALSE] \in Call
        BY <1>1 DEF Call
  <2> QED BY <1>1, <2>1 DEF TypeOK, Typed, Goto, Ids
<1>2. ASSUME NEW c \in Ids, Return(c)
      PROVE  calls' \in [Ids -> Call \cup {Idle}]
      BY <1>2 DEF TypeOK, Typed, Return, Ids
<1>3. ASSUME NEW c \in Ids, NEW op \in Ops, AfterStop(c, op)
      PROVE  calls' \in [Ids -> Call \cup {Idle}]
      BY <1>1, <1>2, <1>3 DEF AfterStop
<1>4. ASSUME NEW c \in Ids, NEW op \in Ops, NEW l \in 0 .. MaxLeases, Drop(c, op, l)
      PROVE  /\ calls' \in [Ids -> Call \cup {Idle}]
             /\ runtime' \in [Leases -> RuntimeStates]
  <2>1. c[1] \in Supervisors
        BY DEF Ids
  <2>2. mounted[c[1]] \in 0 .. MaxLeases
        BY <2>1 DEF TypeOK, Typed
  <2>3. [pc |-> "dispose", op |-> op, lease |-> l, mount |-> mounted[c[1]],
         tears |-> runtime[mounted[c[1]]] = "live"] \in Call
        BY <2>2 DEF Call
  <2> QED BY <1>4, <2>3 DEF TypeOK, Typed, Drop, Ids, RuntimeStates
<1>5. ASSUME NEW c \in Ids, NEW op \in Ops, EnterStop(c, op)
      PROVE  Typed'
  <2>1. c[1] \in Supervisors
        BY DEF Ids
  <2>2. tracked[c[1]] \in 0 .. MaxLeases
        BY <2>1 DEF TypeOK, Typed
  <2>3. calls' \in [Ids -> Call \cup {Idle}] /\ runtime' \in [Leases -> RuntimeStates]
        BY <1>1, <1>3, <1>4, <1>5, <2>2 DEF EnterStop, TypeOK, Typed
  <2> QED BY <1>0, <1>5, <2>1, <2>3 DEF EnterStop, TypeOK, Typed
<1>6. CASE UNCHANGED vars
      BY <1>6 DEF vars, TypeOK, Typed, Ids
<1>7. ASSUME NEW c \in Ids,
             BeginStart(c) \/ BeginStop(c) \/ BeginRenew(c) \/ BeginShutdown(c)
      PROVE  Typed'
  <2>1. c[1] \in Supervisors /\ tracked[c[1]] \in 0 .. MaxLeases
        BY DEF Ids, TypeOK, Typed
  <2>2. CASE BeginStart(c)
    <3>1. CASE mounted[c[1]] # 0 /\ tracked[c[1]] = 0
          BY <1>5, <2>2, <3>1 DEF BeginStart, Ops
    <3>2. CASE ~(mounted[c[1]] # 0 /\ tracked[c[1]] = 0)
      <4>1. Goto(c, "ensure", "start", 0) \/ Goto(c, "check", "start", tracked[c[1]])
            BY <2>2, <3>2 DEF BeginStart
      <4>2. calls' \in [Ids -> Call \cup {Idle}]
            BY <1>0, <1>1, <2>1, <4>1 DEF Ops
      <4> QED BY <1>0, <2>2, <3>2, <4>2 DEF BeginStart, TypeOK, Typed
    <3> QED BY <3>1, <3>2
  <2>3. CASE BeginStop(c)
        BY <1>5, <2>3 DEF BeginStop, Ops
  <2>4. CASE BeginRenew(c)
    <3>1. calls' \in [Ids -> Call \cup {Idle}]
          BY <1>1, <2>1, <2>4 DEF BeginRenew, Ops
    <3> QED BY <1>0, <2>1, <2>4, <3>1 DEF BeginRenew, TypeOK, Typed
  <2>5. CASE BeginShutdown(c)
    <3>1. calls' \in [Ids -> Call \cup {Idle}]
          BY <1>1, <2>5 DEF BeginShutdown, Ops
    <3> QED BY <1>0, <2>1, <2>5, <3>1 DEF BeginShutdown, TypeOK, Typed, LeaseStates, WorkerStates
  <2> QED BY <1>7, <2>2, <2>3, <2>4, <2>5
<1>8. ASSUME NEW c \in Ids, Step(c)
      PROVE  Typed'
  <2>1. c[1] \in Supervisors /\ calls[c] \in Call \cup {Idle}
        BY DEF Ids, TypeOK, Typed
  <2>2. calls[c] # Idle => /\ calls[c].lease \in 0 .. MaxLeases
                           /\ calls[c].mount \in 0 .. MaxLeases
                           /\ calls[c].op \in Ops
        BY <2>1 DEF Call
  <2>3. CASE Check(c)
        BY <1>0, <1>2, <1>5, <2>3 DEF Check, TypeOK, Typed, Ops
  <2>4. CASE Ensure(c)
        BY <1>0, <1>1, <2>1, <2>4 DEF Ensure, TypeOK, Typed, Ops, WorkerStates
  <2>5. CASE Acquire(c)
    <3>1. CASE worker[c[1]] # "active" \/ InForce # {}
          BY <1>0, <1>2, <2>5, <3>1 DEF Acquire, TypeOK, Typed
    <3>2. CASE ~(worker[c[1]] # "active" \/ InForce # {})
      <4>1. PICK l \in Leases : /\ lease' = [lease EXCEPT ![l] = "active"]
                                /\ host' = [host EXCEPT ![l] = c[1]]
                                /\ Goto(c, "create", "start", l)
            BY <2>5, <3>2 DEF Acquire
      <4>2. calls' \in [Ids -> Call \cup {Idle}]
            BY <1>1, <4>1 DEF Ops
      <4> QED BY <1>0, <2>1, <2>5, <4>1, <4>2 DEF Acquire, TypeOK, Typed, LeaseStates
    <3> QED BY <3>1, <3>2
  <2>6. CASE Create(c)
    <3>1. calls[c] # Idle
          BY <2>6 DEF Create, Idle
    <3>2. calls' \in [Ids -> Call \cup {Idle}]
          BY <1>1, <1>2, <2>2, <2>6, <3>1 DEF Create, Ops
    <3> QED BY <1>0, <2>1, <2>2, <2>6, <3>1, <3>2 DEF Create, TypeOK, Typed, RuntimeStates
  <2>7. CASE Renew(c)
        BY <1>0, <1>2, <1>5, <2>1, <2>7 DEF Renew, TypeOK, Typed, Ops
  <2>8. CASE Clear(c)
    <3>1. calls' \in [Ids -> Call \cup {Idle}] /\ runtime' \in [Leases -> RuntimeStates]
          BY <1>0, <1>2, <1>4, <2>8 DEF Clear, TypeOK, Typed, Ops
    <3> QED BY <1>0, <2>8, <3>1 DEF Clear, TypeOK, Typed
  <2>9. CASE Dispose(c)
    <3>1. calls[c] # Idle
          BY <2>9 DEF Dispose, Idle
    <3>2. calls' \in [Ids -> Call \cup {Idle}]
          BY <1>1, <1>3, <2>2, <2>9, <3>1 DEF Dispose
    <3> QED BY <1>0, <2>1, <2>9, <3>2 DEF Dispose, TypeOK, Typed, RuntimeStates
  <2>10. CASE Release(c)
    <3>1. calls[c] # Idle
          BY <2>10 DEF Release, Idle
    <3>2. calls' \in [Ids -> Call \cup {Idle}]
          BY <1>2, <1>3, <2>2, <2>10, <3>1 DEF Release
    <3>3. lease' \in [Leases -> LeaseStates]
      <4>1. PICK st \in {"released", "stranded"} :
              lease' = [lease EXCEPT ![calls[c].lease] = IF @ = "active" THEN st ELSE @]
            BY <2>10 DEF Release
      <4>2. lease \in [Leases -> LeaseStates] /\ {"released", "stranded"} \subseteq LeaseStates
            BY DEF TypeOK, Typed, LeaseStates
      <4> QED BY <4>1, <4>2
    <3> QED BY <1>0, <2>10, <3>2, <3>3 DEF Release, TypeOK, Typed
  <2> QED BY <1>8, <2>3, <2>4, <2>5, <2>6, <2>7, <2>8, <2>9, <2>10 DEF Step
<1>9. ASSUME NEW l \in Leases, Lapse(l)
      PROVE  Typed'
      BY <1>9 DEF Lapse, TypeOK, Typed, LeaseStates, Ids
<1>10. ASSUME NEW s \in Supervisors, Evict(s) \/ Crash(s)
       PROVE  Typed'
  <2>1. CASE Evict(s)
        BY <2>1 DEF Evict, TypeOK, Typed, LeaseStates, WorkerStates, Ids
  <2>2. CASE Crash(s)
        BY <2>2 DEF Crash, TypeOK, Typed, LeaseStates, WorkerStates, RuntimeStates, Ids
  <2> QED BY <1>10, <2>1, <2>2
<1> QED BY <1>0, <1>6, <1>7, <1>8, <1>9, <1>10 DEF Next, Moves, Happens

\* So does the history of what overlapped.
LEMMA HistoryStep ==
  ASSUME TypeOK, [Next]_vars
  PROVE  overlapped' \in [Supervisors -> BOOLEAN]
<1>1. ASSUME NEW c \in Ids, Moves(c)
      PROVE  overlapped' \in [Supervisors -> BOOLEAN]
  <2>1. Begins(c) \/ UNCHANGED overlapped
        BY <1>1 DEF Moves, BeginStart, BeginStop, BeginRenew, BeginShutdown, Step
  <2> QED BY <2>1 DEF Begins, TypeOK
<1>2. CASE Happens
      BY <1>2 DEF Happens, Lapse, Evict, Crash, TypeOK
<1> QED BY <1>1, <1>2 DEF Next, vars, TypeOK, Ids

\* The variables stay well-formed over every step.
LEMMA TypeStep ==
  ASSUME MaxLeases \in Nat, TypeOK, [Next]_vars
  PROVE  TypeOK'
BY TypedStep, HistoryStep DEF TypeOK, Typed, Ids

\* Every reachable state of the supervisors is well-formed.
THEOREM TypeCorrect ==
  ASSUME MaxLeases \in Nat, Supervisors # {}
  PROVE  Spec => []TypeOK
<1>1. Init => TypeOK
      BY DEF Init, TypeOK, LeaseStates, RuntimeStates, WorkerStates
<1> QED BY <1>1, TypeStep, PTL DEF Spec

-----------------------------------------------------------------------------
(* The shape of a step *)

\* Only the call moves on: nothing is acquired, mounted, stopped or released.
Walks(c) ==
  /\ UNCHANGED <<lease, host, runtime, mounted, tracked>>
  /\ \A s \in Supervisors : worker[s] = "active" => worker'[s] = "active"
  /\ \/ calls[c] = Idle /\ mounted[c[1]] = 0 /\ At(c, "ensure", "start", 0)
     \/ /\ calls[c] = Idle /\ tracked[c[1]] # 0
        /\ \/ At(c, "check", "start", tracked[c[1]])
           \/ At(c, "renew", "renew", tracked[c[1]])
     \/ calls[c].pc = "ensure" /\ At(c, "acquire", "start", 0)
     \/ calls[c].pc \in {"check", "acquire", "renew"} /\ Over(c)
     \/ calls[c].pc = "clear" /\ mounted[c[1]] = 0 /\ Over(c)
     \/ calls[c].pc = "create" /\ At(c, "release", "stop", calls[c].lease)

\* What stop() does up to its first await.
Stops(c) ==
  LET s == c[1]
  IN  /\ calls[c].pc \in {"idle", "check", "renew"}
      /\ tracked' = [tracked EXCEPT ![s] = 0]
      /\ UNCHANGED <<lease, host, mounted, worker>>
      /\ \E op \in Ops :
           \/ Disposes(c, op, tracked[s])
           \/ /\ mounted[s] = 0 /\ tracked[s] # 0 /\ UNCHANGED runtime
              /\ At(c, "release", op, tracked[s])
           \/ /\ mounted[s] = 0 /\ tracked[s] = 0 /\ UNCHANGED runtime
              /\ At(c, "ensure", op, 0) \/ Over(c)

\* Worker.dispose() up to its first await.
Shuts(c) ==
  /\ calls[c] = Idle
  /\ BeginShutdown(c)
  /\ At(c, "clear", "shutdown", 0)

\* acquireLease grants a lease.
Wins(c, l) ==
  /\ calls[c].pc = "acquire"
  /\ worker[c[1]] = "active" /\ InForce = {}
  /\ lease[l] = "unused"
  /\ \A k \in Leases : k < l => lease[k] # "unused"
  /\ lease' = [lease EXCEPT ![l] = "active"]
  /\ host' = [host EXCEPT ![l] = c[1]]
  /\ At(c, "create", "start", l)
  /\ UNCHANGED <<runtime, mounted, tracked, renewing, worker>>

\* registry.create succeeds, and the lease is tracked.
Mounts(c) ==
  LET s == c[1]
      l == calls[c].lease
  IN  /\ calls[c].pc = "create"
      /\ mounted[s] = 0
      /\ mounted' = [mounted EXCEPT ![s] = l]
      /\ runtime' = [runtime EXCEPT ![l] = "live"]
      /\ tracked' = [tracked EXCEPT ![s] = l]
      /\ Over(c)
      /\ UNCHANGED <<lease, host, worker>>

\* registry.clear starts to drop the mount.
Clears(c) ==
  /\ calls[c].pc = "clear"
  /\ Disposes(c, "shutdown", 0)
  /\ UNCHANGED <<lease, host, mounted, tracked, worker>>

\* dispose() is over.
TearsDown(c) ==
  LET s == c[1]
      call == calls[c]
  IN  /\ call.pc = "dispose"
      /\ runtime' = [runtime EXCEPT ![call.mount] = IF call.tears THEN "gone" ELSE @]
      /\ mounted' = [mounted EXCEPT ![s] = 0]
      /\ \/ call.lease # 0 /\ At(c, "release", call.op, call.lease)
         \/ call.lease = 0 /\ (At(c, "ensure", call.op, 0) \/ Over(c))
      /\ UNCHANGED <<lease, host, tracked, worker>>

\* The lease goes back, or its release fails.
Releases(c) ==
  LET l == calls[c].lease
  IN  /\ calls[c].pc = "release"
      /\ \E st \in {"released", "stranded"} :
           lease' = [lease EXCEPT ![l] = IF @ = "active" THEN st ELSE @]
      /\ At(c, "ensure", calls[c].op, 0) \/ Over(c)
      /\ UNCHANGED <<host, runtime, mounted, tracked, worker>>

CallSteps(c) ==
  \/ Walks(c) \/ Stops(c) \/ Shuts(c) \/ Mounts(c) \/ Clears(c) \/ TearsDown(c) \/ Releases(c)
  \/ \E l \in Leases : Wins(c, l)

\* What comes after a stop.
LEMMA AfterStopFacts ==
  ASSUME TypeOK, NEW c \in Ids, NEW op, AfterStop(c, op)
  PROVE  At(c, "ensure", op, 0) \/ Over(c)
BY GotoFacts, ReturnFacts DEF AfterStop

\* stop() drops the mount, or releases the lease, or has nothing to do.
LEMMA EnterStopFacts ==
  ASSUME TypeOK, NEW c \in Ids, NEW op \in Ops, EnterStop(c, op),
         calls[c].pc \in {"idle", "check", "renew"}
  PROVE  Stops(c)
<1> DEFINE s == c[1]
<1>1. CASE Drop(c, op, tracked[s])
      BY <1>1, DropFacts DEF EnterStop, Stops
<1>2. CASE mounted[s] = 0 /\ tracked[s] # 0
      BY <1>2, GotoFacts DEF EnterStop, Stops, Drop
<1>3. CASE mounted[s] = 0 /\ tracked[s] = 0
      BY <1>3, AfterStopFacts DEF EnterStop, Stops, Drop
<1> QED BY <1>1, <1>2, <1>3 DEF EnterStop

\* So a call moves.
LEMMA MoveFacts ==
  ASSUME TypeOK, NEW c \in Ids, Moves(c)
  PROVE  CallSteps(c)
<1>1. ASSUME BeginStart(c) \/ BeginStop(c) \/ BeginRenew(c) \/ BeginShutdown(c)
      PROVE  CallSteps(c)
  <2>1. calls[c] = Idle /\ calls[c].pc = "idle"
        BY <1>1 DEF BeginStart, BeginStop, BeginRenew, BeginShutdown, Idle
  <2>2. CASE BeginStart(c)
    <3>1. CASE EnterStop(c, "start")
          BY <2>1, <3>1, EnterStopFacts DEF CallSteps, Ops
    <3>2. CASE mounted[c[1]] = 0 /\ Goto(c, "ensure", "start", 0)
                 /\ UNCHANGED <<lease, host, runtime, mounted, tracked, renewing, worker>>
          BY <2>1, <3>2, GotoFacts DEF CallSteps, Walks
    <3>3. CASE tracked[c[1]] # 0 /\ Goto(c, "check", "start", tracked[c[1]])
                 /\ UNCHANGED <<lease, host, runtime, mounted, tracked, renewing, worker>>
          BY <2>1, <3>3, GotoFacts DEF CallSteps, Walks, Ops
    <3> QED BY <2>2, <3>1, <3>2, <3>3 DEF BeginStart
  <2>3. CASE BeginStop(c)
        BY <2>1, <2>3, EnterStopFacts DEF BeginStop, CallSteps, Ops
  <2>4. CASE BeginRenew(c)
        BY <2>1, <2>4, GotoFacts DEF BeginRenew, CallSteps, Walks, Ops
  <2>5. CASE BeginShutdown(c)
        BY <2>1, <2>5, GotoFacts DEF BeginShutdown, CallSteps, Shuts
  <2> QED BY <1>1, <2>2, <2>3, <2>4, <2>5
<1>2. ASSUME Step(c)
      PROVE  CallSteps(c)
  <2>1. CASE Check(c)
        BY <2>1, EnterStopFacts, ReturnFacts DEF Check, CallSteps, Walks, Ops
  <2>2. CASE Ensure(c)
        BY <2>2, GotoFacts DEF Ensure, CallSteps, Walks, TypeOK
  <2>3. CASE Acquire(c)
    <3>1. CASE Return(c) /\ UNCHANGED <<lease, host>>
          BY <2>3, <3>1, ReturnFacts DEF Acquire, CallSteps, Walks
    <3>2. CASE ~(worker[c[1]] # "active" \/ InForce # {})
          BY <2>3, <3>2, GotoFacts DEF Acquire, CallSteps, Wins
    <3> QED BY <2>3, <3>1, <3>2 DEF Acquire
  <2>4. CASE Create(c)
        BY <2>4, GotoFacts, ReturnFacts DEF Create, CallSteps, Walks, Mounts
  <2>5. CASE Renew(c)
        BY <2>5, EnterStopFacts, ReturnFacts DEF Renew, CallSteps, Walks, Ops
  <2>6. CASE Clear(c)
        BY <2>6, DropFacts, ReturnFacts DEF Clear, CallSteps, Walks, Clears
  <2>7. CASE Dispose(c)
        BY <2>7, GotoFacts, AfterStopFacts DEF Dispose, CallSteps, TearsDown
  <2>8. CASE Release(c)
        BY <2>8, AfterStopFacts, ReturnFacts DEF Release, CallSteps, Releases
  <2> QED BY <1>2, <2>1, <2>2, <2>3, <2>4, <2>5, <2>6, <2>7, <2>8 DEF Step
<1> QED BY <1>1, <1>2 DEF Moves

\* Every step is one of a call, or of the rest of the world, or no step.
LEMMA Steps ==
  ASSUME TypeOK, [Next]_vars
  PROVE  \/ \E c \in Ids : CallSteps(c)
         \/ \E l \in Leases : Lapse(l)
         \/ \E s \in Supervisors : Evict(s) \/ Crash(s)
         \/ UNCHANGED vars
BY MoveFacts DEF Next, Happens, Ids

-----------------------------------------------------------------------------
(* Leases and who knows of them *)

\* The lease was granted to the process.
Known(l, s) == l \in Leases /\ host[l] = s /\ lease[l] # "unused"

\* A call has in hand only leases and mounts of its own process.
CallKnows(c) ==
  calls[c] # Idle =>
    /\ calls[c].lease # 0 => Known(calls[c].lease, c[1])
    /\ calls[c].pc \in {"create", "release"} => calls[c].lease # 0
    /\ calls[c].pc = "dispose" => /\ Known(calls[c].mount, c[1])
                                  /\ runtime[calls[c].mount] # "none"

\* So does the registry, and the renewal timer.
ProcessKnows(s) ==
  /\ tracked[s] # 0 => Known(tracked[s], s)
  /\ mounted[s] # 0 => Known(mounted[s], s) /\ runtime[mounted[s]] # "none"

Bookkeeping ==
  /\ \A s \in Supervisors : ProcessKnows(s)
  /\ \A c \in Ids : CallKnows(c)
  /\ \A l \in Leases : runtime[l] # "none" => lease[l] # "unused"

\* At most one lease is in force, the last that was granted.
InOrder ==
  \A k, l \in Leases :
    k < l /\ lease[l] # "unused" => lease[k] # "unused" /\ k \notin InForce

\* An active lease is one of a worker that is registered.
Working == \A l \in Leases : lease[l] = "active" => worker[host[l]] = "active"

\* A lease that was granted keeps its host, and what was mounted under it stays
\* recorded.
LEMMA KnownSteps ==
  ASSUME TypeOK, [Next]_vars, NEW l \in Leases, lease[l] # "unused"
  PROVE  /\ lease'[l] # "unused"
         /\ host'[l] = host[l]
         /\ runtime[l] # "none" => runtime'[l] # "none"
<1>1. ASSUME NEW c \in Ids, CallSteps(c)
      PROVE  /\ lease'[l] # "unused"
             /\ host'[l] = host[l]
             /\ runtime[l] # "none" => runtime'[l] # "none"
  <2>1. CASE Walks(c) \/ Mounts(c)
        BY <2>1 DEF Walks, Mounts, TypeOK
  <2>2. CASE Stops(c) \/ Clears(c)
        BY <2>2 DEF Stops, Clears, Disposes, TypeOK
  <2>3. CASE Shuts(c)
        BY <2>3 DEF Shuts, BeginShutdown, TypeOK
  <2>4. CASE TearsDown(c) \/ Releases(c)
        BY <2>4 DEF TearsDown, Releases, TypeOK
  <2>5. CASE \E k \in Leases : Wins(c, k)
        BY <2>5 DEF Wins, TypeOK
  <2> QED BY <1>1, <2>1, <2>2, <2>3, <2>4, <2>5 DEF CallSteps
<1>2. ASSUME NEW k \in Leases, Lapse(k)
      PROVE  /\ lease'[l] # "unused"
             /\ host'[l] = host[l]
             /\ runtime'[l] = runtime[l]
      BY <1>2 DEF Lapse, TypeOK
<1>3. ASSUME NEW s \in Supervisors, Evict(s) \/ Crash(s)
      PROVE  /\ lease'[l] # "unused"
             /\ host'[l] = host[l]
             /\ runtime[l] # "none" => runtime'[l] # "none"
      BY <1>3 DEF Evict, Crash, TypeOK
<1> QED BY <1>1, <1>2, <1>3, Steps DEF vars

\* A process goes on knowing its leases.
LEMMA KnownStays ==
  ASSUME TypeOK, [Next]_vars, NEW l, NEW s, Known(l, s)
  PROVE  Known(l, s)'
BY KnownSteps DEF Known, Leases

\* No step makes a process or a call refer to a lease that is not its own.
LEMMA BookkeepingStep ==
  ASSUME MaxLeases \in Nat, TypeOK, Bookkeeping, [Next]_vars
  PROVE  Bookkeeping'
<1>0. ASSUME NEW c \in Ids
      PROVE  c[1] \in Supervisors
      BY DEF Ids
<1>1. ASSUME NEW s \in Supervisors, tracked'[s] = tracked[s] \/ tracked'[s] = 0,
             mounted'[s] = mounted[s] \/ mounted'[s] = 0
      PROVE  ProcessKnows(s)'
  <2>1. ProcessKnows(s)
        BY DEF Bookkeeping
  <2>2. mounted[s] # 0 => lease[mounted[s]] # "unused" /\ mounted[s] \in Leases
        BY <2>1 DEF ProcessKnows, Known
  <2> QED BY <1>1, <2>1, <2>2, KnownStays, KnownSteps DEF ProcessKnows
<1>2. ASSUME NEW c \in Ids, calls'[c] = calls[c]
      PROVE  CallKnows(c)'
  <2>1. CallKnows(c)
        BY DEF Bookkeeping
  <2> QED BY <1>2, <2>1, KnownStays, KnownSteps DEF CallKnows, Known
<1>3. ASSUME NEW c \in Ids, calls'[c] = Idle
      PROVE  CallKnows(c)'
      BY <1>3 DEF CallKnows
<1>4. ASSUME NEW c \in Ids, NEW stage, NEW op, NEW l, At(c, stage, op, l),
             l # 0 => Known(l, c[1]) \/ Known(l, c[1])',
             stage \in {"create", "release"} => l # 0, stage # "dispose"
      PROVE  CallKnows(c)'
  <2>1. l # 0 => Known(l, c[1])'
        BY <1>4, KnownStays
  <2> QED BY <1>4, <2>1 DEF CallKnows, Known, At
<1>5. ASSUME NEW c \in Ids, NEW op, NEW l, Disposes(c, op, l), l # 0 => Known(l, c[1])
      PROVE  CallKnows(c)'
  <2>1. ProcessKnows(c[1])
        BY <1>0 DEF Bookkeeping
  <2>2. PICK m \in Leases : m = mounted[c[1]] /\ Known(m, c[1]) /\ runtime[m] # "none"
        BY <1>5, <2>1 DEF ProcessKnows, Disposes, Known
  <2>3. Known(m, c[1])' /\ runtime'[m] # "none"
        BY <2>2, KnownStays, KnownSteps DEF Known
  <2>4. l # 0 => Known(l, c[1])'
        BY <1>5, KnownStays
  <2>5. calls'[c].lease = l /\ calls'[c].mount = m /\ calls'[c].pc = "dispose"
        BY <1>5, <2>2 DEF Disposes
  <2> QED BY <2>3, <2>4, <2>5 DEF CallKnows, Known
<1>6. ASSUME NEW l \in Leases, runtime[l] # "none" \/ runtime'[l] = runtime[l]
      PROVE  runtime'[l] # "none" => lease'[l] # "unused"
      BY <1>6, KnownSteps DEF Bookkeeping
<1>7. ASSUME NEW c \in Ids, CallSteps(c)
      PROVE  Bookkeeping'
  <2>0. CallKnows(c) /\ ProcessKnows(c[1]) /\ c[1] \in Supervisors
        BY <1>0 DEF Bookkeeping
  <2>1. CASE Walks(c)
    <3>1. CallKnows(c)'
      <4>1. CASE At(c, "ensure", "start", 0) \/ At(c, "acquire", "start", 0) \/ Over(c)
            BY <1>3, <1>4, <4>1 DEF Over
      <4>2. CASE /\ tracked[c[1]] # 0
                 /\ \/ At(c, "check", "start", tracked[c[1]])
                    \/ At(c, "renew", "renew", tracked[c[1]])
        <5>1. Known(tracked[c[1]], c[1])
              BY <2>0, <4>2 DEF ProcessKnows
        <5> QED BY <1>4, <4>2, <5>1
      <4>3. CASE calls[c].pc = "create" /\ At(c, "release", "stop", calls[c].lease)
        <5>1. calls[c].lease # 0 /\ Known(calls[c].lease, c[1])
              BY <2>0, <4>3 DEF CallKnows, Idle
        <5> QED BY <1>4, <4>3, <5>1
      <4> QED BY <2>1, <4>1, <4>2, <4>3 DEF Walks
    <3>2. \A d \in Ids \ {c} : CallKnows(d)'
          BY <1>2, <2>1 DEF Walks, At, Over, OthersStay
    <3>3. \A s \in Supervisors : ProcessKnows(s)'
          BY <1>1, <2>1 DEF Walks
    <3> QED BY <1>6, <2>1, <3>1, <3>2, <3>3 DEF Walks, Bookkeeping
  <2>2. CASE Stops(c)
    <3>1. CallKnows(c)'
      <4>1. tracked[c[1]] # 0 => Known(tracked[c[1]], c[1])
            BY <2>0 DEF ProcessKnows
      <4>2. ASSUME NEW op \in Ops, Disposes(c, op, tracked[c[1]])
            PROVE  CallKnows(c)'
            BY <1>5, <4>1, <4>2
      <4>3. ASSUME NEW op \in Ops, tracked[c[1]] # 0, At(c, "release", op, tracked[c[1]])
            PROVE  CallKnows(c)'
            BY <1>4, <4>1, <4>3
      <4>4. ASSUME NEW op \in Ops, At(c, "ensure", op, 0) \/ Over(c)
            PROVE  CallKnows(c)'
            BY <1>3, <1>4, <4>4 DEF Over
      <4> QED BY <2>2, <4>2, <4>3, <4>4 DEF Stops
    <3>2. \A d \in Ids \ {c} : CallKnows(d)'
          BY <1>2, <2>2 DEF Stops, At, Over, OthersStay, Disposes
    <3>3. \A s \in Supervisors : ProcessKnows(s)'
          BY <1>1, <2>2 DEF Stops, TypeOK
    <3>4. \A l \in Leases : runtime[l] # "none" \/ runtime'[l] = runtime[l]
          BY <2>0, <2>2 DEF Stops, Disposes, TypeOK, ProcessKnows
    <3> QED BY <1>6, <3>1, <3>2, <3>3, <3>4 DEF Bookkeeping
  <2>3. CASE Shuts(c)
    <3>1. CallKnows(c)'
          BY <1>4, <2>3 DEF Shuts
    <3>2. \A d \in Ids \ {c} : CallKnows(d)'
          BY <1>2, <2>3 DEF Shuts, At, OthersStay
    <3>3. \A s \in Supervisors : ProcessKnows(s)'
          BY <1>1, <2>3 DEF Shuts, BeginShutdown
    <3> QED BY <1>6, <2>3, <3>1, <3>2, <3>3 DEF Shuts, BeginShutdown, Bookkeeping
  <2>4. CASE Mounts(c)
    <3>1. PICK l \in Leases : l = calls[c].lease /\ Known(l, c[1])
          BY <2>0, <2>4 DEF Mounts, CallKnows, Idle, Known
    <3>2. Known(l, c[1])' /\ runtime'[l] # "none"
      <4>1. runtime'[l] = "live"
            BY <2>4, <3>1 DEF Mounts, TypeOK
      <4>2. Known(l, c[1])'
            BY <2>4, <3>1 DEF Mounts, Known
      <4> QED BY <4>1, <4>2
    <3>3. \A d \in Ids : CallKnows(d)'
          BY <1>2, <1>3, <2>4 DEF Mounts, Over, OthersStay
    <3>4. \A s \in Supervisors \ {c[1]} : ProcessKnows(s)'
          BY <1>1, <2>4 DEF Mounts, TypeOK
    <3>5. ProcessKnows(c[1])'
          BY <2>0, <2>4, <3>1, <3>2 DEF Mounts, ProcessKnows, Known, TypeOK
    <3>6. \A k \in Leases : k # l => runtime'[k] = runtime[k]
          BY <2>4, <3>1 DEF Mounts, TypeOK
    <3>7. lease'[l] # "unused"
          BY <3>2 DEF Known
    <3> QED BY <1>6, <3>3, <3>4, <3>5, <3>6, <3>7 DEF Bookkeeping
  <2>5. CASE Clears(c)
    <3>1. CallKnows(c)'
          BY <1>5, <2>5 DEF Clears
    <3>2. \A d \in Ids \ {c} : CallKnows(d)'
          BY <1>2, <2>5 DEF Clears, OthersStay, Disposes
    <3>3. \A s \in Supervisors : ProcessKnows(s)'
          BY <1>1, <2>5 DEF Clears
    <3>4. \A l \in Leases : runtime[l] # "none" \/ runtime'[l] = runtime[l]
          BY <2>0, <2>5 DEF Clears, Disposes, TypeOK, ProcessKnows
    <3> QED BY <1>6, <3>1, <3>2, <3>3, <3>4 DEF Bookkeeping
  <2>6. CASE TearsDown(c)
    <3>1. CallKnows(c)'
      <4>1. CASE calls[c].lease # 0 /\ At(c, "release", calls[c].op, calls[c].lease)
        <5>1. Known(calls[c].lease, c[1])
              BY <2>0, <2>6, <4>1 DEF TearsDown, CallKnows, Idle
        <5> QED BY <1>4, <4>1, <5>1
      <4>2. CASE At(c, "ensure", calls[c].op, 0) \/ Over(c)
            BY <1>3, <1>4, <4>2 DEF Over
      <4> QED BY <2>6, <4>1, <4>2 DEF TearsDown
    <3>2. \A d \in Ids \ {c} : CallKnows(d)'
          BY <1>2, <2>6 DEF TearsDown, At, Over, OthersStay
    <3>3. \A s \in Supervisors : ProcessKnows(s)'
          BY <1>1, <2>6 DEF TearsDown, TypeOK
    <3>4. \A l \in Leases : runtime[l] # "none" \/ runtime'[l] = runtime[l]
          BY <2>0, <2>6 DEF TearsDown, TypeOK, CallKnows, Idle
    <3> QED BY <1>6, <3>1, <3>2, <3>3, <3>4 DEF Bookkeeping
  <2>7. CASE Releases(c)
    <3>1. CallKnows(c)'
          BY <1>3, <1>4, <2>7 DEF Releases, Over
    <3>2. \A d \in Ids \ {c} : CallKnows(d)'
          BY <1>2, <2>7 DEF Releases, At, Over, OthersStay
    <3>3. \A s \in Supervisors : ProcessKnows(s)'
          BY <1>1, <2>7 DEF Releases
    <3> QED BY <1>6, <2>7, <3>1, <3>2, <3>3 DEF Releases, Bookkeeping
  <2>8. ASSUME NEW l \in Leases, Wins(c, l)
        PROVE  Bookkeeping'
    <3>1. Known(l, c[1])' /\ l # 0
          BY <2>8 DEF Wins, Known, TypeOK, Leases
    <3>2. CallKnows(c)'
          BY <1>4, <2>8, <3>1 DEF Wins
    <3>3. \A d \in Ids \ {c} : CallKnows(d)'
          BY <1>2, <2>8 DEF Wins, At, OthersStay
    <3>4. \A s \in Supervisors : ProcessKnows(s)'
          BY <1>1, <2>8 DEF Wins
    <3> QED BY <1>6, <2>8, <3>2, <3>3, <3>4 DEF Wins, Bookkeeping
  <2> QED BY <1>7, <2>1, <2>2, <2>3, <2>4, <2>5, <2>6, <2>7, <2>8 DEF CallSteps
<1>8. ASSUME UNCHANGED <<runtime, mounted, tracked, calls>>
      PROVE  Bookkeeping'
      BY <1>1, <1>2, <1>6, <1>8 DEF Bookkeeping
<1>9. ASSUME NEW s \in Supervisors, Crash(s)
      PROVE  Bookkeeping'
  <2>1. \A d \in Ids : CallKnows(d)'
        BY <1>2, <1>3, <1>9 DEF Crash, Ids
  <2>2. \A z \in Supervisors : ProcessKnows(z)'
        BY <1>1, <1>9 DEF Crash, TypeOK
  <2>3. \A l \in Leases : runtime[l] # "none" \/ runtime'[l] = runtime[l]
        BY <1>9 DEF Crash
  <2> QED BY <1>6, <2>1, <2>2, <2>3 DEF Bookkeeping
<1>10. CASE (\E l \in Leases : Lapse(l)) \/ (\E s \in Supervisors : Evict(s)) \/ UNCHANGED vars
      BY <1>8, <1>10 DEF Lapse, Evict, vars
<1> QED BY <1>7, <1>9, <1>10, Steps

\* A lease is granted only when all the earlier ones are over.
LEMMA InOrderStep ==
  ASSUME MaxLeases \in Nat, TypeOK, InOrder, [Next]_vars
  PROVE  InOrder'
<1>1. ASSUME \A l \in Leases : l \in InForce' => l \in InForce,
             \A l \in Leases : lease'[l] # "unused" => lease[l] # "unused"
      PROVE  InOrder'
      BY <1>1, KnownSteps DEF InOrder, InForce
<1>2. ASSUME NEW c \in Ids, CallSteps(c)
      PROVE  InOrder'
  <2>1. CASE Walks(c) \/ Mounts(c) \/ Stops(c) \/ Clears(c) \/ TearsDown(c)
        BY <1>1, <2>1 DEF Walks, Mounts, Stops, Clears, TearsDown, InForce
  <2>2. CASE Shuts(c)
        BY <1>1, <2>2 DEF Shuts, BeginShutdown, InForce, TypeOK
  <2>3. CASE Releases(c)
        BY <1>1, <2>3 DEF Releases, InForce, TypeOK
  <2>4. ASSUME NEW l \in Leases, Wins(c, l)
        PROVE  InOrder'
    <3>1. \A k \in Leases \ {l} : k \notin InForce' /\ lease'[k] = lease[k]
          BY <2>4 DEF Wins, InForce, TypeOK
    <3>2. \A k \in Leases : k > l => lease[k] = "unused"
          BY <2>4 DEF Wins, InOrder
    <3> QED BY SMTT(30), <2>4, <3>1, <3>2 DEF InOrder, Wins, Leases, TypeOK
  <2> QED BY <1>2, <2>1, <2>2, <2>3, <2>4 DEF CallSteps
<1>3. ASSUME NEW l \in Leases, Lapse(l)
      PROVE  InOrder'
      BY <1>1, <1>3 DEF Lapse, InForce, TypeOK
<1>4. ASSUME NEW s \in Supervisors, Evict(s) \/ Crash(s)
      PROVE  InOrder'
      BY <1>1, <1>4 DEF Evict, Crash, InForce, TypeOK
<1> QED BY <1>1, <1>2, <1>3, <1>4, Steps DEF vars, InForce

\* A worker that leaves takes its active leases with it.
LEMMA WorkingStep ==
  ASSUME TypeOK, Working, [Next]_vars
  PROVE  Working'
<1>1. ASSUME \A s \in Supervisors : worker[s] = "active" => worker'[s] = "active",
             \A l \in Leases : lease'[l] = "active" => lease[l] = "active"
      PROVE  Working'
  <2>1. \A l \in Leases : lease[l] # "unused" => host'[l] = host[l]
        BY KnownSteps
  <2> QED BY <1>1, <2>1 DEF Working, TypeOK
<1>2. ASSUME NEW c \in Ids, CallSteps(c)
      PROVE  Working'
  <2>0. c[1] \in Supervisors
        BY DEF Ids
  <2>1. CASE Walks(c)
        BY <1>1, <2>1 DEF Walks
  <2>2. CASE Mounts(c) \/ Stops(c) \/ Clears(c) \/ TearsDown(c)
        BY <1>1, <2>2 DEF Mounts, Stops, Clears, TearsDown
  <2>3. CASE Shuts(c)
        BY <2>0, <2>3 DEF Shuts, BeginShutdown, Working, TypeOK
  <2>4. CASE Releases(c)
        BY <1>1, <2>4 DEF Releases, TypeOK
  <2>5. CASE \E l \in Leases : Wins(c, l)
        BY <2>0, <2>5 DEF Wins, Working, TypeOK
  <2> QED BY <1>2, <2>1, <2>2, <2>3, <2>4, <2>5 DEF CallSteps
<1>3. ASSUME NEW l \in Leases, Lapse(l)
      PROVE  Working'
      BY <1>1, <1>3 DEF Lapse, TypeOK
<1>4. ASSUME NEW s \in Supervisors, Evict(s) \/ Crash(s)
      PROVE  Working'
      BY <1>4 DEF Evict, Crash, Working, TypeOK
<1> QED BY <1>1, <1>2, <1>3, <1>4, Steps DEF vars

-----------------------------------------------------------------------------
(* No lease leaks while at most two calls of a process are in flight *)

\* The call has the lease in hand, and gives it back or has it tracked.
Holds(c, l) == calls[c].pc \in {"create", "dispose", "release"} /\ calls[c].lease = l

\* Somebody is responsible for each active lease.
ActiveAreHeld ==
  \A l \in Leases :
    lease[l] = "active" => tracked[host[l]] = l \/ \E c \in Ids : Holds(c, l)

\* The renewal timer is on for a lease that is active.
TracksActive(s) == tracked[s] # 0 /\ lease[tracked[s]] = "active"

\* A call is about to mount while the process tracks another, active lease: then
\* something is mounted, and no other call is about to drop it.
Alone(c) ==
  calls[c].pc = "create" /\ TracksActive(c[1]) =>
    /\ mounted[c[1]] # 0
    /\ \A d \in Ids : d[1] = c[1] => calls[d].pc \notin {"clear", "dispose"}

CreatesAlone == \A c \in Ids : Alone(c)

\* Whoever had an active lease still has it, unless the step gives it back.
LEMMA HeldStep ==
  ASSUME MaxLeases \in Nat, TypeOK, Bookkeeping, ActiveAreHeld, CreatesAlone, [Next]_vars
  PROVE  ActiveAreHeld'
<1>1. ASSUME \A l \in Leases : lease'[l] = "active" => lease[l] = "active",
             NEW c \in Ids, OthersStay(c),
             \A l \in Leases :
               lease'[l] = "active" /\ (tracked[host[l]] = l \/ Holds(c, l)) =>
                 tracked'[host[l]] = l \/ Holds(c, l)'
      PROVE  ActiveAreHeld'
  <2> SUFFICES ASSUME NEW l \in Leases, lease'[l] = "active"
               PROVE  tracked'[host'[l]] = l \/ \E d \in Ids : Holds(d, l)'
      BY DEF ActiveAreHeld
  <2>1. lease[l] = "active" /\ host'[l] = host[l]
        BY <1>1, KnownSteps
  <2>2. CASE tracked[host[l]] = l \/ Holds(c, l)
        BY <1>1, <2>1, <2>2
  <2>3. ASSUME NEW d \in Ids, d # c, Holds(d, l)
        PROVE  Holds(d, l)'
        BY <1>1, <2>3 DEF OthersStay, Holds
  <2> QED BY <2>1, <2>2, <2>3 DEF ActiveAreHeld
<1>2. ASSUME NEW c \in Ids, CallSteps(c)
      PROVE  ActiveAreHeld'
  <2>0. c[1] \in Supervisors /\ CallKnows(c)
        BY DEF Ids, Bookkeeping
  <2>1. CASE Walks(c)
    <3>1. \A l \in Leases : Holds(c, l) => Holds(c, l)'
          BY <2>1 DEF Walks, At, Holds, Idle
    <3> QED BY <1>1, <2>1, <3>1 DEF Walks, At, Over
  <2>2. CASE Stops(c)
    <3>1. \A l \in Leases : ~Holds(c, l)
          BY <2>2 DEF Stops, Holds
    <3>2. ASSUME NEW l \in Leases, tracked[c[1]] = l
          PROVE  Holds(c, l)'
      <4>1. l # 0
            BY DEF Leases
      <4> QED BY <2>2, <3>2, <4>1 DEF Stops, Disposes, At, Holds
    <3>3. \A l \in Leases : host[l] # c[1] => tracked'[host[l]] = tracked[host[l]]
          BY <2>2 DEF Stops, TypeOK
    <3>4. OthersStay(c) /\ lease' = lease
          BY <2>2 DEF Stops, Disposes, At, Over
    <3> QED BY <1>1, <3>1, <3>2, <3>3, <3>4
  <2>3. CASE Shuts(c)
    <3>1. \A l \in Leases : ~Holds(c, l)
          BY <2>3 DEF Shuts, Holds, Idle
    <3> QED BY <1>1, <2>3, <3>1 DEF Shuts, BeginShutdown, At, TypeOK
  <2>4. CASE Mounts(c)
    <3>1. \A l \in Leases : Holds(c, l) => host[l] = c[1] /\ tracked'[c[1]] = l
          BY <2>0, <2>4 DEF Mounts, Holds, CallKnows, Known, Idle, Leases, TypeOK
    <3>2. ASSUME NEW l \in Leases, lease[l] = "active", tracked[host[l]] = l
          PROVE  host[l] # c[1]
      <4>1. l # 0
            BY DEF Leases
      <4> QED BY <2>4, <3>2, <4>1 DEF Mounts, CreatesAlone, Alone, TracksActive
    <3>3. \A l \in Leases : host[l] # c[1] => tracked'[host[l]] = tracked[host[l]]
          BY <2>4 DEF Mounts, TypeOK
    <3> QED BY <1>1, <2>4, <3>1, <3>2, <3>3 DEF Mounts, Over
  <2>5. CASE Clears(c)
    <3>1. \A l \in Leases : ~Holds(c, l)
          BY <2>5 DEF Clears, Holds
    <3> QED BY <1>1, <2>5, <3>1 DEF Clears, Disposes
  <2>6. CASE TearsDown(c)
    <3>1. ASSUME NEW l \in Leases, Holds(c, l)
          PROVE  Holds(c, l)'
      <4>1. l # 0
            BY DEF Leases
      <4> QED BY <2>6, <3>1, <4>1 DEF TearsDown, At, Holds
    <3> QED BY <1>1, <2>6, <3>1 DEF TearsDown, At, Over
  <2>7. CASE Releases(c)
    <3>1. \A l \in Leases : lease'[l] = "active" => lease[l] = "active" /\ ~Holds(c, l)
          BY <2>7 DEF Releases, Holds, TypeOK
    <3> QED BY <1>1, <2>7, <3>1 DEF Releases, At, Over
  <2>8. ASSUME NEW n \in Leases, Wins(c, n)
        PROVE  ActiveAreHeld'
    <3>1. \A l \in Leases \ {n} : lease'[l] # "active"
          BY <2>8 DEF Wins, InForce, TypeOK
    <3>2. Holds(c, n)'
          BY <2>8 DEF Wins, At, Holds
    <3> QED BY <3>1, <3>2 DEF ActiveAreHeld
  <2> QED BY <1>2, <2>1, <2>2, <2>3, <2>4, <2>5, <2>6, <2>7, <2>8 DEF CallSteps
<1>3. ASSUME \A l \in Leases : lease'[l] = "active" =>
               lease[l] = "active" /\ tracked'[host[l]] = tracked[host[l]],
             \A l \in Leases, c \in Ids : lease'[l] = "active" /\ Holds(c, l) => Holds(c, l)'
      PROVE  ActiveAreHeld'
      BY <1>3, KnownSteps DEF ActiveAreHeld
<1>4. ASSUME NEW l \in Leases, Lapse(l)
      PROVE  ActiveAreHeld'
      BY <1>3, <1>4 DEF Lapse, TypeOK, Holds
<1>5. ASSUME NEW s \in Supervisors, Evict(s)
      PROVE  ActiveAreHeld'
      BY <1>3, <1>5 DEF Evict, TypeOK, Holds
<1>6. ASSUME NEW s \in Supervisors, Crash(s)
      PROVE  ActiveAreHeld'
  <2>1. \A l \in Leases : lease'[l] = "active" => lease[l] = "active" /\ host[l] # s
        BY <1>6 DEF Crash
  <2>2. ASSUME NEW l \in Leases, NEW c \in Ids, lease'[l] = "active", Holds(c, l)
        PROVE  Holds(c, l)'
    <3>1. CallKnows(c) /\ l # 0
          BY DEF Bookkeeping, Leases
    <3>2. c[1] = host[l]
          BY <2>2, <3>1 DEF CallKnows, Known, Holds, Idle
    <3>3. calls'[c] = calls[c]
          BY <1>6, <2>1, <2>2, <3>2 DEF Crash, Ids
    <3> QED BY <2>2, <3>3 DEF Holds
  <2>3. \A l \in Leases : host[l] # s => tracked'[host[l]] = tracked[host[l]]
        BY <1>6 DEF Crash, TypeOK
  <2> QED BY <1>3, <2>1, <2>2, <2>3
<1>7. CASE UNCHANGED vars
      BY <1>3, <1>7 DEF vars, Holds
<1> QED BY <1>2, <1>4, <1>5, <1>6, <1>7, Steps

\* A lease that is over is over for good.
LEMMA OverStaysOver ==
  ASSUME TypeOK, [Next]_vars, NEW l \in Leases, lease[l] # "unused", lease'[l] = "active"
  PROVE  lease[l] = "active"
<1>1. ASSUME NEW c \in Ids, CallSteps(c)
      PROVE  lease[l] = "active"
      BY <1>1 DEF CallSteps, Walks, Mounts, Stops, Clears, TearsDown, Shuts, BeginShutdown,
                  Releases, Wins, TypeOK
<1>2. (\E k \in Leases : Lapse(k)) => lease[l] = "active"
      BY DEF Lapse, TypeOK
<1>3. (\E s \in Supervisors : Evict(s) \/ Crash(s)) => lease[l] = "active"
      BY DEF Evict, Crash, TypeOK
<1> QED BY <1>1, <1>2, <1>3, Steps DEF vars

\* A call that mounts under an older lease never finds room beside a newer one.
LEMMA AloneStep ==
  ASSUME \A i, j, k \in Slots : i = j \/ j = k \/ i = k,
         MaxLeases \in Nat, TypeOK, Bookkeeping, Working, CreatesAlone, [Next]_vars,
         NEW b \in Ids
  PROVE  Alone(b)'
<1>0. /\ Alone(b) /\ b[1] \in Supervisors
      /\ \A c, d \in Ids : b[1] = c[1] /\ b[1] = d[1] => b = c \/ b = d \/ c = d
      BY DEF Ids, CreatesAlone
<1>1. ASSUME tracked'[b[1]] = tracked[b[1]], TracksActive(b[1])'
      PROVE  TracksActive(b[1])
  <2>1. tracked[b[1]] # 0 => tracked[b[1]] \in Leases /\ lease[tracked[b[1]]] # "unused"
        BY <1>0 DEF Bookkeeping, ProcessKnows, Known
  <2> QED BY <1>1, <2>1, OverStaysOver DEF TracksActive
<1>2. ASSUME tracked'[b[1]] = tracked[b[1]], mounted'[b[1]] = mounted[b[1]],
             \A d \in Ids : \/ calls'[d] = calls[d]
                            \/ calls'[d].pc \notin {"create", "clear", "dispose"}
      PROVE  Alone(b)'
      BY <1>0, <1>1, <1>2 DEF Alone
<1>3. tracked'[b[1]] = 0 => Alone(b)'
      BY DEF Alone, TracksActive
<1>4. ASSUME NEW c \in Ids, CallSteps(c)
      PROVE  Alone(b)'
  <2>1. CASE Walks(c)
    <3>1. calls'[c].pc \notin {"create", "clear", "dispose"} /\ OthersStay(c)
      <4>1. ASSUME NEW stage \in {"ensure", "check", "renew", "acquire", "release"}, NEW op, NEW l,
                   At(c, stage, op, l)
            PROVE  calls'[c].pc \notin {"create", "clear", "dispose"} /\ OthersStay(c)
            BY <4>1 DEF At
      <4>2. Over(c) => calls'[c].pc \notin {"create", "clear", "dispose"} /\ OthersStay(c)
            BY DEF Over, Idle
      <4> QED BY <2>1, <4>1, <4>2 DEF Walks
    <3> QED BY <1>2, <2>1, <3>1 DEF Walks, OthersStay
  <2>2. CASE Stops(c)
    <3>1. CASE b[1] = c[1]
          BY <1>0, <1>3, <2>2, <3>1 DEF Stops, TypeOK
    <3>2. CASE b[1] # c[1]
      <4>1. tracked'[b[1]] = tracked[b[1]] /\ mounted'[b[1]] = mounted[b[1]]
            BY <2>2, <3>2 DEF Stops, TypeOK
      <4>2. \A d \in Ids : d[1] = b[1] => calls'[d] = calls[d]
            BY <2>2, <3>2 DEF Stops, Disposes, At, Over, OthersStay
      <4> QED BY <1>0, <1>1, <4>1, <4>2 DEF Alone
    <3> QED BY <3>1, <3>2
  <2>3. CASE Shuts(c)
    <3>1. CASE b[1] = c[1]
      <4>1. ProcessKnows(b[1])
            BY <1>0 DEF Bookkeeping
      <4>2. ASSUME TracksActive(b[1])' PROVE FALSE
        <5>1. TracksActive(b[1]) /\ tracked'[b[1]] = tracked[b[1]]
              BY <1>1, <2>3, <4>2 DEF Shuts, BeginShutdown
        <5> QED BY <2>3, <3>1, <4>1, <4>2, <5>1
                DEF TracksActive, ProcessKnows, Known, Working, Shuts, BeginShutdown
      <4> QED BY <4>2 DEF Alone
    <3>2. CASE b[1] # c[1]
      <4>1. tracked'[b[1]] = tracked[b[1]] /\ mounted'[b[1]] = mounted[b[1]]
            BY <2>3 DEF Shuts, BeginShutdown
      <4>2. \A d \in Ids : d[1] = b[1] => calls'[d] = calls[d]
            BY <2>3, <3>2 DEF Shuts, At, OthersStay
      <4> QED BY <1>0, <1>1, <4>1, <4>2 DEF Alone
    <3> QED BY <3>1, <3>2
  <2>4. CASE Mounts(c)
    <3>1. CASE b[1] = c[1]
      <4>1. mounted'[b[1]] # 0
            BY <1>0, <2>4, <3>1 DEF Mounts, Bookkeeping, CallKnows, Idle, TypeOK
      <4>2. calls'[c].pc = "idle" /\ OthersStay(c)
            BY <2>4 DEF Mounts, Over, Idle
      <4>3. ASSUME NEW d \in Ids, d[1] = b[1], calls'[b].pc = "create"
            PROVE  calls'[d].pc \notin {"clear", "dispose"}
            BY <1>0, <3>1, <4>2, <4>3
      <4> QED BY <4>1, <4>3 DEF Alone
    <3>2. CASE b[1] # c[1]
      <4>1. tracked'[b[1]] = tracked[b[1]] /\ mounted'[b[1]] = mounted[b[1]]
            BY <1>0, <2>4, <3>2 DEF Mounts, TypeOK
      <4>2. \A d \in Ids : d[1] = b[1] => calls'[d] = calls[d]
            BY <2>4, <3>2 DEF Mounts, Over, OthersStay
      <4> QED BY <1>0, <1>1, <4>1, <4>2 DEF Alone
    <3> QED BY <3>1, <3>2
  <2>5. CASE Clears(c) \/ TearsDown(c)
    <3>1. /\ calls[c].pc \in {"clear", "dispose"} /\ calls'[c].pc # "create"
          /\ tracked' = tracked /\ OthersStay(c)
          BY <2>5 DEF Clears, TearsDown, Disposes, At, Over, Idle
    <3>2. CASE b[1] = c[1]
          BY <1>0, <1>1, <3>1, <3>2 DEF Alone, OthersStay
    <3>3. CASE b[1] # c[1]
      <4>1. mounted'[b[1]] = mounted[b[1]]
            BY <1>0, <2>5, <3>3 DEF Clears, TearsDown, TypeOK
      <4>2. \A d \in Ids : d[1] = b[1] => calls'[d] = calls[d]
            BY <3>1, <3>3 DEF OthersStay
      <4> QED BY <1>0, <1>1, <3>1, <4>1, <4>2 DEF Alone
    <3> QED BY <3>2, <3>3
  <2>6. CASE Releases(c)
    <3>1. calls'[c].pc \notin {"create", "clear", "dispose"} /\ OthersStay(c)
          BY <2>6 DEF Releases, At, Over, Idle
    <3> QED BY <1>2, <2>6, <3>1 DEF Releases, OthersStay
  <2>7. ASSUME NEW l \in Leases, Wins(c, l)
        PROVE  Alone(b)'
    <3>1. ~TracksActive(b[1])
          BY <1>0, <2>7 DEF Wins, InForce, TracksActive, Bookkeeping, ProcessKnows, Known
    <3> QED BY <1>1, <2>7, <3>1 DEF Wins, Alone
  <2> QED BY <1>4, <2>1, <2>2, <2>3, <2>4, <2>5, <2>6, <2>7 DEF CallSteps
<1>5. ASSUME UNCHANGED <<mounted, tracked, calls>>
      PROVE  Alone(b)'
      BY <1>2, <1>5
<1>6. ASSUME NEW s \in Supervisors, Crash(s)
      PROVE  Alone(b)'
  <2>1. CASE b[1] = s
        BY <1>3, <1>6, <2>1 DEF Crash, TypeOK
  <2>2. CASE b[1] # s
        BY <1>2, <1>6, <2>2 DEF Crash, TypeOK, Idle, Ids
  <2> QED BY <2>1, <2>2
<1>7. CASE (\E l \in Leases : Lapse(l)) \/ (\E s \in Supervisors : Evict(s)) \/ UNCHANGED vars
      BY <1>5, <1>7 DEF Lapse, Evict, vars
<1> QED BY <1>4, <1>6, <1>7, Steps

LeakInv ==
  TypeOK /\ Bookkeeping /\ Working /\ ActiveAreHeld /\ CreatesAlone

\* The invariant of the leases holds at the start.
LEMMA LeakInit ==
  ASSUME MaxLeases \in Nat, Supervisors # {}, Init
  PROVE  LeakInv
BY DEF Init, LeakInv, TypeOK, LeaseStates, RuntimeStates, WorkerStates, Bookkeeping,
       ProcessKnows, CallKnows, Working, ActiveAreHeld, CreatesAlone, Alone, Ids, Idle

\* It is inductive as long as at most two calls of a process overlap.
LEMMA LeakStep ==
  ASSUME MaxLeases \in Nat, \A i, j, k \in Slots : i = j \/ j = k \/ i = k,
         Supervisors # {}, LeakInv, [Next]_vars
  PROVE  LeakInv'
<1>1. TypeOK' /\ Bookkeeping' /\ Working' /\ ActiveAreHeld'
      BY TypeStep, BookkeepingStep, WorkingStep, HeldStep DEF LeakInv
<1>2. \A b \in Ids : Alone(b)'
      BY AloneStep DEF LeakInv
<1> QED BY <1>1, <1>2 DEF LeakInv, CreatesAlone

\* It says who tracks a lease that no call holds.
LEMMA LeakSafe ==
  ASSUME LeakInv
  PROVE  NoLeaseLeaked
<1> SUFFICES ASSUME NEW s \in Supervisors, NEW l \in Leases,
                    lease[l] = "active", host[l] = s, Quiet(s)
             PROVE  tracked[s] = l
    BY DEF NoLeaseLeaked
<1>1. ASSUME NEW c \in Ids, Holds(c, l)
      PROVE  FALSE
  <2>1. l # 0 /\ calls[c] # Idle /\ calls[c].lease = l
        BY <1>1 DEF Holds, Idle, Leases
  <2>2. c[1] = s
        BY <2>1 DEF LeakInv, Bookkeeping, CallKnows, Known
  <2>3. PICK i \in Slots : c = <<s, i>>
        BY <2>2 DEF Ids
  <2> QED BY <2>1, <2>3 DEF Quiet
<1> QED BY <1>1 DEF LeakInv, ActiveAreHeld

\* However at most two calls of each process overlap, a process that has none
\* in flight tracks each active lease it has.
THEOREM LeasesAreKept ==
  ASSUME MaxLeases \in Nat, Supervisors # {},
         \A i, j, k \in Slots : i = j \/ j = k \/ i = k
  PROVE  Spec => []NoLeaseLeaked
BY LeakInit, LeakStep, LeakSafe, PTL DEF Spec

-----------------------------------------------------------------------------
(* Calls that overlap *)

\* A call touches the mount, the leases and the runtimes of its own process.
LEMMA Local ==
  ASSUME TypeOK, Bookkeeping, NEW c \in Ids, CallSteps(c)
  PROVE  /\ OthersStay(c)
         /\ \A s \in Supervisors : s # c[1] => mounted'[s] = mounted[s]
         /\ \A l \in Leases : lease[l] = "unused" => runtime'[l] = runtime[l]
         /\ \A l \in Leases : lease[l] # "unused" =>
              /\ host'[l] = host[l]
              /\ host[l] # c[1] => lease'[l] = lease[l] /\ runtime'[l] = runtime[l]
<1>0. /\ CallKnows(c) /\ ProcessKnows(c[1]) /\ c[1] \in Supervisors
      BY DEF Ids, Bookkeeping
<1>1. CASE Walks(c)
      BY <1>1 DEF Walks, At, Over
<1>2. CASE Stops(c) \/ Clears(c)
  <2>1. OthersStay(c) /\ UNCHANGED <<lease, host, mounted>>
        BY <1>2 DEF Stops, Clears, At, Over, Disposes
  <2>2. \A l \in Leases : l # mounted[c[1]] => runtime'[l] = runtime[l]
        BY <1>2 DEF Stops, Clears, Disposes, TypeOK
  <2>3. \A l \in Leases : l = mounted[c[1]] => host[l] = c[1] /\ lease[l] # "unused"
        BY <1>0 DEF ProcessKnows, Known, Leases
  <2> QED BY <2>1, <2>2, <2>3
<1>3. CASE Shuts(c)
      BY <1>3 DEF Shuts, BeginShutdown, At, TypeOK
<1>4. CASE Mounts(c)
  <2>1. Known(calls[c].lease, c[1])
        BY <1>0, <1>4 DEF Mounts, CallKnows, Idle
  <2> QED BY <1>4, <2>1 DEF Mounts, Over, Known, TypeOK
<1>5. CASE TearsDown(c)
  <2>1. Known(calls[c].mount, c[1])
        BY <1>0, <1>5 DEF TearsDown, CallKnows, Idle
  <2> QED BY <1>5, <2>1 DEF TearsDown, At, Over, Known, TypeOK
<1>6. CASE Releases(c)
  <2>1. Known(calls[c].lease, c[1])
        BY <1>0, <1>6 DEF Releases, CallKnows, Idle
  <2> QED BY <1>6, <2>1 DEF Releases, At, Over, Known, TypeOK
<1>7. CASE \E l \in Leases : Wins(c, l)
      BY <1>7 DEF Wins, At, TypeOK
<1> QED BY <1>1, <1>2, <1>3, <1>4, <1>5, <1>6, <1>7 DEF CallSteps

\* The process has at most one call in flight.
Single(s) ==
  \A c, d \in Ids :
    c[1] = s /\ d[1] = s /\ calls[c] # Idle /\ calls[d] # Idle => c = d

Singles == \A s \in Supervisors : ~overlapped[s] => Single(s)

\* As long as the calls of its process have not overlapped, the call moves alone.
Sole(c) ==
  /\ \A s \in Supervisors : s # c[1] => overlapped'[s] = overlapped[s]
  /\ ~overlapped'[c[1]] =>
       ~overlapped[c[1]] /\ \A d \in Ids \ {c} : d[1] = c[1] => calls[d] = Idle

\* Calls that begin beside another one are recorded.
LEMMA SoleStep ==
  ASSUME TypeOK, Singles, NEW c \in Ids, Moves(c)
  PROVE  Sole(c)
<1>0. c[1] \in Supervisors
      BY DEF Ids
<1>1. ASSUME Begins(c), calls[c] = Idle
      PROVE  Sole(c)
  <2>1. \A d \in Ids : d[1] = c[1] => d[2] \in Slots /\ d = <<c[1], d[2]>>
        BY DEF Ids
  <2>2. overlapped'[c[1]] = (overlapped[c[1]] \/ \E i \in Slots : calls[<<c[1], i>>] # Idle)
        BY <1>0, <1>1 DEF Begins, TypeOK
  <2>3. \A s \in Supervisors : s # c[1] => overlapped'[s] = overlapped[s]
        BY <1>1 DEF Begins, TypeOK
  <2> QED BY <2>1, <2>2, <2>3 DEF Sole
<1>2. CASE Step(c)
  <2>1. calls[c] # Idle /\ UNCHANGED overlapped
        BY <1>2 DEF Step, Check, Ensure, Acquire, Create, Renew, Clear, Dispose, Release, Idle
  <2> QED BY <1>0, <2>1 DEF Singles, Single, Sole
<1> QED BY <1>1, <1>2 DEF Moves, BeginStart, BeginStop, BeginRenew, BeginShutdown

\* Every step is one of a call that moves alone, where calls have not
\* overlapped, or of the rest of the world, or no step.
LEMMA SoleSteps ==
  ASSUME TypeOK, Singles, [Next]_vars
  PROVE  \/ \E c \in Ids : CallSteps(c) /\ Sole(c)
         \/ \E l \in Leases : Lapse(l)
         \/ \E s \in Supervisors : Evict(s) \/ Crash(s)
         \/ UNCHANGED vars
BY MoveFacts, SoleStep DEF Next, Happens, Ids

\* Calls that have not overlapped do not.
LEMMA SinglesStep ==
  ASSUME TypeOK, Bookkeeping, Singles, [Next]_vars
  PROVE  Singles'
<1>1. ASSUME NEW c \in Ids, CallSteps(c), Sole(c), NEW s \in Supervisors, ~overlapped'[s]
      PROVE  Single(s)'
  <2>1. OthersStay(c)
        BY <1>1, Local
  <2>2. CASE s = c[1]
        BY <1>1, <2>1, <2>2 DEF Sole, OthersStay, Single
  <2>3. CASE s # c[1]
        BY <1>1, <2>1, <2>3 DEF Sole, OthersStay, Single, Singles
  <2> QED BY <2>2, <2>3
<1>2. CASE UNCHANGED <<calls, overlapped>>
      BY <1>2 DEF Singles, Single
<1>3. ASSUME NEW dead \in Supervisors, Crash(dead), NEW s \in Supervisors, ~overlapped'[s]
      PROVE  Single(s)'
  <2>1. \A c \in Ids : calls'[c] = IF c[1] = dead THEN Idle ELSE calls[c]
        BY <1>3 DEF Crash, Ids
  <2>2. s # dead => ~overlapped[s]
        BY <1>3 DEF Crash, TypeOK
  <2> QED BY <2>1, <2>2 DEF Singles, Single
<1> QED BY <1>1, <1>2, <1>3, SoleSteps DEF Singles, Lapse, Evict, vars

-----------------------------------------------------------------------------
(* Runtimes, where the calls of a process have not overlapped *)

\* Where a call of a process is, and what its registry holds then.
InStep(c) ==
  /\ calls[c].pc \in {"ensure", "acquire", "create", "release"} => mounted[c[1]] = 0
  /\ calls[c].pc = "create" => lease[calls[c].lease] \in {"active", "lapsed"}
  /\ calls[c].pc \in {"check", "renew"} => calls[c].op # "shutdown"
  /\ calls[c].pc = "dispose" =>
       /\ mounted[c[1]] = calls[c].mount
       /\ runtime[calls[c].mount] = IF calls[c].tears THEN "dying" ELSE "gone"

\* What runs is mounted, under a lease that was not given back but by a shutdown
\* that has yet to drop it.
RunsMounted(l) ==
  /\ Running(l) =>
       /\ mounted[host[l]] = l
       /\ \/ lease[l] \in {"active", "lapsed"}
          \/ lease[l] = "released" /\ ShuttingDown(host[l])
  /\ runtime[l] = "dying" => \E c \in Ids : c[1] = host[l] /\ calls[c].pc = "dispose"

BrainInv ==
  /\ TypeOK /\ Bookkeeping /\ InOrder /\ Singles
  /\ \A c \in Ids : ~overlapped[c[1]] => InStep(c)
  /\ \A l \in Leases : ~overlapped[host[l]] => RunsMounted(l)

\* A mounted runtime that no call disposes of lives, or is gone already.
LEMMA Undisposed ==
  ASSUME BrainInv, NEW c \in Ids, ~overlapped[c[1]],
         \A d \in Ids \ {c} : d[1] = c[1] => calls[d] = Idle,
         calls[c].pc # "dispose", NEW l \in Leases, host[l] = c[1]
  PROVE  runtime[l] # "dying"
BY DEF BrainInv, RunsMounted, Idle

\* Each call keeps in step with the registry of its process.
LEMMA InStepStep ==
  ASSUME BrainInv, NEW c \in Ids, CallSteps(c), Sole(c), NEW b \in Ids, ~overlapped'[b[1]]
  PROVE  InStep(b)'
<1> USE DEF BrainInv
<1>a. ~overlapped[b[1]] /\ b[1] \in Supervisors
      BY DEF Sole, Ids
<1>0. CallKnows(b) /\ ProcessKnows(b[1]) /\ b[1] \in Supervisors /\ InStep(b)
      BY <1>a DEF Bookkeeping
<1>b. CASE b # c /\ b[1] = c[1]
  <2>1. calls'[b] = Idle
        BY <1>b, Local DEF Sole, OthersStay
  <2> QED BY <2>1 DEF InStep, Idle
<1>1. CASE b[1] # c[1]
  <2>1. calls'[b] = calls[b] /\ mounted'[b[1]] = mounted[b[1]]
        BY <1>0, <1>1, Local DEF OthersStay
  <2>2. ASSUME calls[b].pc = "create"
        PROVE  lease'[calls[b].lease] = lease[calls[b].lease]
        BY <1>0, <1>1, <2>1, <2>2, Local DEF CallKnows, Known, Idle
  <2>3. ASSUME calls[b].pc = "dispose"
        PROVE  runtime'[calls[b].mount] = runtime[calls[b].mount]
        BY <1>0, <1>1, <2>1, <2>3, Local DEF CallKnows, Known, Idle
  <2> QED BY <1>0, <2>1, <2>2, <2>3 DEF InStep
<1>2. CASE b = c
  <2>0. ~overlapped[c[1]] /\ \A d \in Ids \ {c} : d[1] = c[1] => calls[d] = Idle
        BY <1>2 DEF Sole
  <2>1. CASE Walks(c)
    <3>1. ASSUME NEW l, At(c, "check", "start", l) \/ At(c, "renew", "renew", l)
          PROVE  InStep(c)'
          BY <3>1 DEF At, InStep
    <3>2. ASSUME NEW stage \in {"ensure", "acquire", "release"}, NEW op, NEW l,
                 mounted'[c[1]] = 0, At(c, stage, op, l)
          PROVE  InStep(c)'
          BY <3>2 DEF At, InStep
    <3>3. Over(c) => InStep(c)'
          BY DEF Over, InStep, Idle
    <3> QED BY <1>0, <1>2, <2>1, <3>1, <3>2, <3>3 DEF Walks, InStep
  <2>2. ASSUME NEW op, NEW l, Disposes(c, op, l), calls[c].pc # "dispose", mounted' = mounted
        PROVE  InStep(c)'
    <3>1. PICK m \in Leases : m = mounted[c[1]] /\ host[m] = c[1] /\ runtime[m] # "none"
          BY <1>0, <1>2, <2>2 DEF Disposes, ProcessKnows, Known
    <3>2. runtime[m] \in {"live", "gone"}
          BY <2>0, <2>2, <3>1, Undisposed DEF TypeOK, RuntimeStates
    <3>3. /\ calls'[c].pc = "dispose" /\ calls'[c].mount = m
          /\ calls'[c].tears = (runtime[m] = "live")
          /\ runtime'[m] = IF runtime[m] = "live" THEN "dying" ELSE runtime[m]
          BY <2>2, <3>1 DEF Disposes, TypeOK
    <3> QED BY <2>2, <3>1, <3>2, <3>3 DEF InStep
  <2>3. CASE Stops(c)
    <3>1. ASSUME NEW op, Disposes(c, op, tracked[c[1]])
          PROVE  InStep(c)'
          BY <2>2, <2>3, <3>1 DEF Stops
    <3>2. ASSUME NEW stage \in {"ensure", "release"}, NEW op, NEW l,
                 mounted[c[1]] = 0, At(c, stage, op, l)
          PROVE  InStep(c)'
          BY <2>3, <3>2 DEF Stops, At, InStep
    <3>3. Over(c) => InStep(c)'
          BY DEF Over, InStep, Idle
    <3> QED BY <1>2, <2>3, <3>1, <3>2, <3>3 DEF Stops
  <2>4. CASE Clears(c)
        BY <1>2, <2>2, <2>4 DEF Clears
  <2>5. CASE Shuts(c)
        BY <1>2, <2>5 DEF Shuts, At, InStep
  <2>6. CASE Mounts(c)
        BY <1>2, <2>6 DEF Mounts, Over, InStep, Idle
  <2>7. CASE TearsDown(c)
        BY <1>0, <1>2, <2>7 DEF TearsDown, At, Over, InStep, Idle, TypeOK
  <2>8. CASE Releases(c)
        BY <1>0, <1>2, <2>8 DEF Releases, At, Over, InStep, Idle
  <2>9. CASE \E l \in Leases : Wins(c, l)
        BY <1>0, <1>2, <2>9 DEF Wins, At, InStep, TypeOK
  <2> QED BY <2>1, <2>3, <2>4, <2>5, <2>6, <2>7, <2>8, <2>9 DEF CallSteps
<1> QED BY <1>b, <1>1, <1>2

\* What runs on a process stays what its registry holds.
LEMMA RunsMountedStep ==
  ASSUME BrainInv, NEW c \in Ids, CallSteps(c), Sole(c), NEW l \in Leases,
         ~overlapped'[host'[l]]
  PROVE  RunsMounted(l)'
<1> USE DEF BrainInv
<1>0. host[l] \in Supervisors /\ c[1] \in Supervisors
      BY DEF Ids, TypeOK
<1>1. ASSUME runtime'[l] \notin {"live", "dying"}
      PROVE  RunsMounted(l)'
      BY <1>1 DEF RunsMounted, Running
<1>2. CASE lease[l] = "unused"
      BY <1>1, <1>2, Local DEF Bookkeeping
<1>3. CASE lease[l] # "unused" /\ host[l] # c[1]
  <2>1. \A d \in Ids : d[1] = host[l] => calls'[d] = calls[d]
        BY <1>3, Local DEF OthersStay
  <2>2. host'[l] = host[l] /\ RunsMounted(l)
        BY <1>0, <1>3, Local DEF Sole
  <2>3. ShuttingDown(host[l])' = ShuttingDown(host[l])
        BY <2>1, <2>2 DEF ShuttingDown, Ids
  <2> QED BY <1>0, <1>3, <2>1, <2>2, <2>3, Local DEF RunsMounted, Running
<1>4. CASE lease[l] # "unused" /\ host[l] = c[1]
  <2>0. host'[l] = c[1]
        BY <1>4, Local
  <2>a. ~overlapped[c[1]] /\ \A d \in Ids \ {c} : d[1] = c[1] => calls[d] = Idle
        BY <2>0 DEF Sole
  <2>b. /\ RunsMounted(l) /\ InStep(c) /\ host[l] \in Supervisors /\ c[1] \in Supervisors
        /\ CallKnows(c) /\ ProcessKnows(c[1])
        BY <1>0, <1>4, <2>a DEF Bookkeeping
  <2>s. lease[l] = "released" /\ Running(l) => calls[c].pc \in {"clear", "dispose"}
    <3>1. ASSUME ShuttingDown(c[1])
          PROVE  calls[c] \in Call /\ calls[c].op = "shutdown"
          BY <2>a, <3>1 DEF ShuttingDown, Ids, TypeOK
    <3> QED BY <1>4, <2>b, <3>1 DEF RunsMounted, InStep, Leases, Call
  <2>1. ASSUME calls[c].pc # "dispose", calls[c].pc = "clear" => mounted[c[1]] = 0,
               runtime'[l] = runtime[l], mounted'[c[1]] = mounted[c[1]], lease'[l] = lease[l]
        PROVE  RunsMounted(l)'
    <3>1. runtime[l] # "dying"
          BY <1>4, <2>a, <2>1, Undisposed
    <3>2. Running(l) => mounted[c[1]] = l /\ lease[l] \in {"active", "lapsed"}
          BY <1>4, <2>b, <2>s, <2>1 DEF RunsMounted, Leases
    <3> QED BY <2>0, <2>1, <3>1, <3>2 DEF RunsMounted, Running
  <2>2. CASE Walks(c)
        BY <2>1, <2>2 DEF Walks, Idle
  <2>3. CASE Shuts(c)
    <3>1. calls[c].pc = "idle" /\ runtime[l] # "dying"
          BY <1>4, <2>a, <2>3, Undisposed DEF Shuts, Idle
    <3>2. Running(l) => mounted[c[1]] = l /\ lease[l] \in {"active", "lapsed"}
          BY <1>4, <2>b, <2>s, <3>1 DEF RunsMounted
    <3>3. lease'[l] \in {lease[l], "released"} /\ UNCHANGED <<runtime, mounted>>
          BY <2>3 DEF Shuts, BeginShutdown
    <3>4. ShuttingDown(c[1])'
          BY <2>3 DEF Shuts, At, ShuttingDown, Ids, Idle
    <3> QED BY <2>0, <3>1, <3>2, <3>3, <3>4 DEF RunsMounted, Running
  <2>4. ASSUME NEW op, NEW k, Disposes(c, op, k), calls[c].pc # "dispose",
               calls[c].pc = "clear" => op = "shutdown", UNCHANGED <<lease, mounted>>
        PROVE  RunsMounted(l)'
    <3>1. CASE l = mounted[c[1]]
      <4>1. calls'[c].pc = "dispose"
            BY <2>4 DEF Disposes
      <4>2. runtime'[l] = IF runtime[l] = "live" THEN "dying" ELSE runtime[l]
            BY <2>4, <3>1 DEF Disposes, TypeOK
      <4>3. lease[l] = "released" /\ Running(l) => ShuttingDown(c[1])'
            BY <2>s, <2>4 DEF Disposes, ShuttingDown, Ids, Idle
      <4> QED BY <2>b, <1>4, <2>0, <2>4, <3>1, <4>1, <4>2, <4>3 DEF RunsMounted, Running
    <3>2. CASE l # mounted[c[1]]
      <4>1. runtime'[l] = runtime[l] /\ ~Running(l)
            BY <1>4, <2>b, <2>4, <3>2 DEF Disposes, TypeOK, RunsMounted
      <4> QED BY <1>1, <4>1 DEF Running
    <3> QED BY <3>1, <3>2
  <2>5. CASE Stops(c)
    <3>1. calls[c].pc \notin {"dispose", "clear"} /\ UNCHANGED <<lease, mounted>>
          BY <2>5 DEF Stops
    <3>2. CASE UNCHANGED runtime
          BY <2>1, <3>1, <3>2
    <3>3. CASE \E op \in Ops : Disposes(c, op, tracked[c[1]])
          BY <2>4, <3>1, <3>3
    <3> QED BY <2>5, <3>2, <3>3 DEF Stops
  <2>6. CASE Clears(c)
        BY <2>4, <2>6 DEF Clears
  <2>7. CASE Mounts(c)
    <3>1. CASE l = calls[c].lease
          BY <2>b, <1>4, <2>0, <2>7, <3>1 DEF Mounts, RunsMounted, Running, InStep, TypeOK
    <3>2. CASE l # calls[c].lease
      <4>1. runtime[l] \notin {"live", "dying"} /\ runtime'[l] = runtime[l]
            BY <2>b, <1>4, <2>7, <3>2 DEF Mounts, RunsMounted, Running, TypeOK, Leases
      <4> QED BY <1>1, <4>1
    <3> QED BY <3>1, <3>2
  <2>8. CASE TearsDown(c)
    <3>1. CASE l = calls[c].mount
      <4>1. runtime'[l] = "gone"
            BY <2>b, <2>8, <3>1 DEF TearsDown, InStep, TypeOK
      <4> QED BY <1>1, <4>1
    <3>2. CASE l # calls[c].mount
      <4>1. runtime[l] \notin {"live", "dying"} /\ runtime'[l] = runtime[l]
            BY <2>b, <1>4, <2>8, <3>2 DEF TearsDown, RunsMounted, Running, InStep, TypeOK
      <4> QED BY <1>1, <4>1
    <3> QED BY <3>1, <3>2
  <2>9. CASE Releases(c)
    <3>1. runtime[l] \notin {"live", "dying"} /\ runtime'[l] = runtime[l]
          BY <2>b, <1>4, <2>9 DEF Releases, RunsMounted, Running, InStep, Leases
    <3> QED BY <1>1, <3>1
  <2>10. CASE \E k \in Leases : Wins(c, k)
        BY <1>4, <2>1, <2>10 DEF Wins, TypeOK
  <2> QED BY <2>2, <2>3, <2>5, <2>6, <2>7, <2>8, <2>9, <2>10 DEF CallSteps
<1> QED BY <1>2, <1>3, <1>4

\* So do lapses, evictions and crashes.
LEMMA WorldStep ==
  ASSUME BrainInv, TypeOK',
         (\E l \in Leases : Lapse(l)) \/ (\E s \in Supervisors : Evict(s) \/ Crash(s))
           \/ UNCHANGED vars
  PROVE  /\ \A c \in Ids : ~overlapped'[c[1]] => InStep(c)'
         /\ \A l \in Leases : ~overlapped'[host'[l]] => RunsMounted(l)'
<1> USE DEF BrainInv
<1> DEFINE CallsInStep == \A c \in Ids : ~overlapped'[c[1]] => InStep(c)'
           AllMounted == \A l \in Leases : ~overlapped'[host'[l]] => RunsMounted(l)'
<1>1. ASSUME UNCHANGED <<host, runtime, mounted, calls, overlapped>>,
             \A l \in Leases : \/ lease'[l] = lease[l]
                               \/ lease[l] \in {"active", "stranded"} /\ lease'[l] = "lapsed"
      PROVE  CallsInStep /\ AllMounted
  <2>1. ASSUME NEW c \in Ids, ~overlapped'[c[1]] PROVE InStep(c)'
    <3>1. InStep(c) /\ (calls[c].pc = "create" => calls[c].lease \in Leases)
          BY <1>1, <2>1 DEF Bookkeeping, CallKnows, Known, Idle
    <3> QED BY <1>1, <3>1 DEF InStep
  <2>2. ASSUME NEW l \in Leases, ~overlapped'[host'[l]] PROVE RunsMounted(l)'
    <3>1. RunsMounted(l)
          BY <1>1, <2>2
    <3>2. ShuttingDown(host[l])' = ShuttingDown(host[l])
          BY <1>1 DEF ShuttingDown
    <3> QED BY <1>1, <3>1, <3>2 DEF RunsMounted, Running
  <2> QED BY <2>1, <2>2
<1>2. ASSUME NEW l \in Leases, Lapse(l)
      PROVE  CallsInStep /\ AllMounted
      BY <1>1, <1>2 DEF Lapse, InForce, TypeOK
<1>3. ASSUME NEW s \in Supervisors, Evict(s)
      PROVE  CallsInStep /\ AllMounted
      BY <1>1, <1>3 DEF Evict, TypeOK
<1>4. ASSUME NEW s \in Supervisors, Crash(s)
      PROVE  CallsInStep /\ AllMounted
  <2>1. ASSUME NEW c \in Ids, ~overlapped'[c[1]] PROVE InStep(c)'
    <3>1. CallKnows(c) /\ c[1] \in Supervisors /\ (c[1] # s => InStep(c))
          BY <1>4, <2>1 DEF Ids, Bookkeeping, Crash, TypeOK
    <3>2. CASE c[1] = s
          BY <1>4, <3>2 DEF Crash, Ids, InStep, Idle
    <3>3. CASE c[1] # s
      <4>1. calls'[c] = calls[c] /\ mounted'[c[1]] = mounted[c[1]]
            BY <1>4, <3>1, <3>3 DEF Crash, Ids, TypeOK
      <4>2. ASSUME calls[c].pc = "create"
            PROVE  lease'[calls[c].lease] = lease[calls[c].lease]
            BY <1>4, <3>1, <3>3, <4>2 DEF Crash, CallKnows, Known, Idle
      <4>3. ASSUME calls[c].pc = "dispose"
            PROVE  runtime'[calls[c].mount] = runtime[calls[c].mount]
            BY <1>4, <3>1, <3>3, <4>3 DEF Crash, CallKnows, Known, Idle
      <4> QED BY <3>1, <3>3, <4>1, <4>2, <4>3 DEF InStep
    <3> QED BY <3>2, <3>3
  <2>2. ASSUME NEW l \in Leases, ~overlapped'[host'[l]] PROVE RunsMounted(l)'
    <3>1. host'[l] = host[l] /\ host[l] \in Supervisors /\ (host[l] # s => RunsMounted(l))
          BY <1>4, <2>2 DEF Crash, TypeOK
    <3>2. CASE host[l] = s
      <4>1. runtime'[l] \in {"none", "gone"}
            BY <1>4, <3>2 DEF Crash
      <4> QED BY <4>1 DEF RunsMounted, Running
    <3>3. CASE host[l] # s
      <4>1. /\ lease'[l] = lease[l] /\ runtime'[l] = runtime[l]
            /\ mounted'[host[l]] = mounted[host[l]]
            BY <1>4, <3>1, <3>3 DEF Crash, TypeOK
      <4>2. \A c \in Ids : c[1] = host[l] => calls'[c] = calls[c]
            BY <1>4, <3>3 DEF Crash, Ids
      <4>3. ShuttingDown(host[l])' = ShuttingDown(host[l])
            BY <3>1, <4>2 DEF ShuttingDown, Ids
      <4> QED BY <3>1, <3>3, <4>1, <4>2, <4>3 DEF RunsMounted, Running
    <3> QED BY <3>2, <3>3
  <2> QED BY <2>1, <2>2
<1>5. CASE UNCHANGED vars
      BY <1>1, <1>5 DEF vars
<1> QED BY <1>2, <1>3, <1>4, <1>5

\* The invariant of the runtimes is inductive.
LEMMA BrainStep ==
  ASSUME MaxLeases \in Nat, BrainInv, [Next]_vars
  PROVE  BrainInv'
<1>1. TypeOK' /\ Bookkeeping' /\ InOrder' /\ Singles'
      BY TypeStep, BookkeepingStep, InOrderStep, SinglesStep DEF BrainInv
<1>2. /\ \A c \in Ids : ~overlapped'[c[1]] => InStep(c)'
      /\ \A l \in Leases : ~overlapped'[host'[l]] => RunsMounted(l)'
  <2>1. TypeOK /\ Singles
        BY DEF BrainInv
  <2> QED BY <1>1, <2>1, InStepStep, RunsMountedStep, WorldStep, SoleSteps
<1> QED BY <1>1, <1>2 DEF BrainInv

\* It holds at the start.
LEMMA BrainInit ==
  ASSUME MaxLeases \in Nat, Supervisors # {}, Init
  PROVE  BrainInv
BY DEF Init, BrainInv, TypeOK, LeaseStates, RuntimeStates, WorkerStates, Bookkeeping, InOrder,
       ProcessKnows, CallKnows, InStep, RunsMounted, Running, Singles, Single, Ids, Idle

\* It tells what runs, and under which lease.
LEMMA BrainSafe ==
  ASSUME BrainInv
  PROVE  TornDownBeforeGone /\ TwoBrainsForCause
<1>1. TornDownBeforeGone
      BY DEF BrainInv, RunsMounted, TornDownBeforeGone
<1> SUFFICES ASSUME NEW k \in Leases, NEW l \in Leases, k < l, Running(k), Running(l),
                    ~overlapped[host[k]]
             PROVE  \/ lease[k] = "lapsed"
                    \/ lease[k] = "released" /\ ShuttingDown(host[k])
    BY <1>1 DEF TwoBrainsForCause
<1>2. /\ \/ lease[k] \in {"active", "lapsed"}
         \/ lease[k] = "released" /\ ShuttingDown(host[k])
      /\ lease[l] # "unused"
      BY DEF BrainInv, RunsMounted, Bookkeeping, Running
<1>3. k \notin InForce
      BY <1>2 DEF BrainInv, InOrder
<1> QED BY <1>2, <1>3 DEF InForce

\* Whatever the other processes do, one whose calls have not overlapped keeps
\* what runs, or is being torn down, in its registry.
THEOREM TornDownCorrect ==
  ASSUME MaxLeases \in Nat, Supervisors # {}
  PROVE  Spec => []TornDownBeforeGone
BY BrainInit, BrainStep, BrainSafe, PTL DEF Spec

\* Of two processes that run the agent, the one with the older lease has let it
\* lapse, or is in the shutdown that gave it back, unless its calls have overlapped.
THEOREM TwoBrainsCorrect ==
  ASSUME MaxLeases \in Nat, Supervisors # {}
  PROVE  Spec => []TwoBrainsForCause
BY BrainInit, BrainStep, BrainSafe, PTL DEF Spec

-----------------------------------------------------------------------------
(* The database file *)

\* A call that awaits its mutator has the write lock and a baseline that is
\* still the committed state, and no other call does.
LockHeld ==
  /\ \A t \in Txns : pc[t] = "mutating" => writer = ProcessOf[t] /\ before[t] = rows
  /\ \A t, u \in Txns : pc[t] = "mutating" /\ pc[u] = "mutating" => t = u

StoreInv == F!TypeOK /\ LockHeld /\ F!NoTransactionLeftOpen

-----------------------------------------------------------------------------

\* A step of one call or a crash keeps the variables well formed: what Begin,
\* applyDiff and the error paths of transact write.
LEMMA StoreTypeStep == F!TypeOK /\ [F!Next]_(F!vars) => F!TypeOK'
<1> SUFFICES ASSUME F!TypeOK, [F!Next]_(F!vars) PROVE F!TypeOK'
  OBVIOUS
<1> USE ProcessesAssumption DEF F!TypeOK, F!Table, F!Steps, F!Causes
<1>1. ASSUME NEW t \in Txns, F!Begin(t) PROVE F!TypeOK'
  BY <1>1 DEF F!Begin
<1>2. ASSUME NEW t \in Txns, F!BeginNested(t) \/ F!BeginBusy(t) PROVE F!TypeOK'
  BY <1>2 DEF F!BeginNested, F!BeginBusy, F!Reject
<1>3. ASSUME NEW t \in Txns, F!Commit(t) PROVE F!TypeOK'
  <2>1. F!After(t) \in F!Table
    BY DEF F!After
  <2>2. rows' \in F!Table
    BY <1>3, <2>1 DEF F!Commit, F!ApplyDiff
  <2>3. QED
    BY <1>3, <2>2 DEF F!Commit, F!Reject
<1>4. ASSUME NEW t \in Txns, F!Rollback(t) PROVE F!TypeOK'
  BY <1>4 DEF F!Rollback, F!Reject
<1>5. ASSUME NEW dead \in Processes, F!Crash(dead) PROVE F!TypeOK'
  BY <1>5 DEF F!Crash
<1>6. CASE UNCHANGED F!vars
  BY <1>6 DEF F!vars
<1>7. QED
  BY <1>1, <1>2, <1>3, <1>4, <1>5, <1>6 DEF F!Next

\* The lock passes from call to call and is let go on every path: BEGIN takes
\* it only when it is free, and COMMIT, ROLLBACK and death give it back.
LEMMA LockStep == StoreInv /\ [F!Next]_(F!vars) => (LockHeld /\ F!NoTransactionLeftOpen)'
<1> SUFFICES ASSUME StoreInv, [F!Next]_(F!vars) PROVE (LockHeld /\ F!NoTransactionLeftOpen)'
  OBVIOUS
<1> USE ProcessesAssumption DEF StoreInv, F!TypeOK, LockHeld, F!NoTransactionLeftOpen
<1>1. ASSUME NEW t \in Txns, F!Begin(t) PROVE (LockHeld /\ F!NoTransactionLeftOpen)'
  <2>1. \A u \in Txns : pc[u] # "mutating"
    BY <1>1 DEF F!Begin
  <2>2. \A u \in Txns : pc'[u] = "mutating" => u = t
    BY <1>1, <2>1 DEF F!Begin
  <2>3. QED
    BY <1>1, <2>2 DEF F!Begin
<1>2. ASSUME NEW t \in Txns, F!BeginNested(t) \/ F!BeginBusy(t)
      PROVE (LockHeld /\ F!NoTransactionLeftOpen)'
  <2>1. \A u \in Txns : pc'[u] = "mutating" <=> pc[u] = "mutating"
    BY <1>2 DEF F!BeginNested, F!BeginBusy, F!Reject
  <2>2. QED
    BY <1>2, <2>1 DEF F!BeginNested, F!BeginBusy, F!Reject
<1>3. ASSUME NEW t \in Txns, F!Commit(t) \/ F!Rollback(t)
      PROVE (LockHeld /\ F!NoTransactionLeftOpen)'
  <2>1. \A u \in Txns : pc[u] = "mutating" => u = t
    BY <1>3 DEF F!Commit, F!Rollback
  <2>2. writer = ProcessOf[t]
    BY <1>3 DEF F!Commit, F!Rollback
  <2>3. writer' = NoProcess /\ \A u \in Txns : pc'[u] # "mutating"
    BY <1>3, <2>1, <2>2 DEF F!Commit, F!Rollback, F!Reject
  <2>4. QED
    BY <2>3
<1>4. ASSUME NEW dead \in Processes, F!Crash(dead) PROVE (LockHeld /\ F!NoTransactionLeftOpen)'
  <2>1. \A u \in Txns : pc'[u] = "mutating" <=> pc[u] = "mutating" /\ ProcessOf[u] # dead
    BY <1>4 DEF F!Crash
  <2>2. rows' = rows /\ before' = before
    BY <1>4 DEF F!Crash
  <2>3. LockHeld'
    BY <1>4, <2>1, <2>2 DEF F!Crash
  <2>4. F!NoTransactionLeftOpen'
    BY <1>4, <2>1 DEF F!Crash
  <2>5. QED
    BY <2>3, <2>4
<1>5. CASE UNCHANGED F!vars
  BY <1>5 DEF F!vars
<1>6. QED
  BY <1>1, <1>2, <1>3, <1>4, <1>5 DEF F!Next

\* A behaviour of the processes is one of the store, and its invariant holds.
LEMMA StoreHolds == ProcessesSpec => []StoreInv /\ [][F!Next]_(F!vars) /\ F!Init
<1>1. F!Init => StoreInv
  BY ProcessesAssumption DEF F!Init, StoreInv, F!TypeOK, F!Table, F!Steps, F!Causes, LockHeld,
     F!NoTransactionLeftOpen
<1>2. StoreInv /\ [F!Next]_(F!vars) => StoreInv'
  BY StoreTypeStep, LockStep DEF StoreInv
<1>3. ProcessesInit => F!Init
  BY DEF ProcessesInit
<1>4. [ProcessesNext]_processesVars => [F!Next]_(F!vars)
  BY DEF ProcessesNext, processesVars, storeVars, F!vars
<1>5. QED
  BY <1>1, <1>2, <1>3, <1>4, PTL DEF ProcessesSpec

-----------------------------------------------------------------------------

\* The tables and the state of every call of transact stay well formed.
THEOREM StoreTyped == ProcessesSpec => []F!TypeOK
<1>1. StoreInv => F!TypeOK
  BY DEF StoreInv
<1>2. QED
  BY <1>1, StoreHolds, PTL

\* transact never leaves the connection inside a transaction.
THEOREM LockAlwaysReturned == ProcessesSpec => []F!NoTransactionLeftOpen
<1>1. StoreInv => F!NoTransactionLeftOpen
  BY DEF StoreInv
<1>2. QED
  BY <1>1, StoreHolds, PTL

-----------------------------------------------------------------------------
(* Refinement *)

\* A call that commits lands on the current rows: applyDiff writes its change
\* of the baseline, which under the lock is a change of what is committed.
LEMMA CommitLands ==
  ASSUME StoreInv, NEW t \in Txns, F!Commit(t)
  PROVE  F!Atomic!Land(t)
<1> USE ProcessesAssumption DEF StoreInv, F!TypeOK, LockHeld
<1>1. writer = ProcessOf[t] /\ before[t] = rows
  BY DEF F!Commit
<1>2. rows' = F!Atomic!Landing(t, rows)
  <2>1. F!ApplyDiff(t) = [r \in Rows |-> F!After(t)[r]]
    BY <1>1 DEF F!ApplyDiff, F!After, F!Table
  <2>2. QED
    BY <1>1, <2>1 DEF F!Commit, F!After, F!Atomic!Landing
<1>3. pc' = [pc EXCEPT ![t] = "landed"] /\ pc[t] = "mutating"
  BY <1>1 DEF F!Commit
<1>4. F!Outcome[t] = "open"
  BY <1>3 DEF F!Outcome
<1>5. F!Outcome' = [F!Outcome EXCEPT ![t] = "landed"]
  BY <1>3 DEF F!Outcome
<1>6. QED
  BY <1>2, <1>4, <1>5 DEF F!Atomic!Land

\* A call that is refused, rolled back or lost with its process is rejected
\* and has changed nothing.
LEMMA RejectLands ==
  ASSUME StoreInv, NEW lost \in SUBSET Txns,
         \A t \in lost : pc[t] \in {"called", "mutating"},
         rows' = rows,
         pc' = [t \in Txns |-> IF t \in lost THEN "rejected" ELSE pc[t]]
  PROVE  F!Atomic!Reject(lost)
<1>1. \A t \in lost : F!Outcome[t] = "open"
  BY DEF F!Outcome
<1>2. F!Outcome' = [t \in Txns |-> IF t \in lost THEN "rejected" ELSE F!Outcome[t]]
  BY DEF F!Outcome
<1>3. QED
  BY <1>1, <1>2 DEF F!Atomic!Reject

\* Every step of transact is a step of the atomic store or none at all.
LEMMA StepRefines == StoreInv /\ [F!Next]_(F!vars) => [F!Atomic!Next]_<<rows, F!Outcome>>
<1> SUFFICES ASSUME StoreInv, [F!Next]_(F!vars)
             PROVE  F!Atomic!Next \/ UNCHANGED <<rows, F!Outcome>>
  OBVIOUS
<1>1. ASSUME NEW t \in Txns, F!Begin(t) PROVE UNCHANGED <<rows, F!Outcome>>
  BY <1>1 DEF F!Begin, F!Outcome, StoreInv, F!TypeOK
<1>2. ASSUME NEW t \in Txns, F!BeginNested(t) \/ F!BeginBusy(t) \/ F!Rollback(t)
      PROVE  F!Atomic!Next
  <2>1. pc[t] \in {"called", "mutating"} /\ rows' = rows
    BY <1>2 DEF F!BeginNested, F!BeginBusy, F!Rollback
  <2>2. pc' = [u \in Txns |-> IF u \in {t} THEN "rejected" ELSE pc[u]]
    BY <1>2 DEF F!BeginNested, F!BeginBusy, F!Rollback, F!Reject, StoreInv, F!TypeOK
  <2>3. F!Atomic!Reject({t})
    BY <2>1, <2>2, RejectLands
  <2>4. QED
    BY <2>3 DEF F!Atomic!Next
<1>3. ASSUME NEW t \in Txns, F!Commit(t) PROVE F!Atomic!Next
  BY <1>3, CommitLands DEF F!Atomic!Next
<1>4. ASSUME NEW dead \in Processes, F!Crash(dead) PROVE F!Atomic!Next
  <2> DEFINE lost == {t \in Txns : ProcessOf[t] = dead /\ pc[t] = "mutating"}
  <2>1. rows' = rows /\ pc' = [t \in Txns |-> IF t \in lost THEN "rejected" ELSE pc[t]]
    BY <1>4 DEF F!Crash
  <2>2. F!Atomic!Reject(lost)
    BY <2>1, RejectLands
  <2>3. QED
    BY <2>2 DEF F!Atomic!Next
<1>5. CASE UNCHANGED F!vars
  BY <1>5 DEF F!vars, F!Outcome
<1>6. QED
  BY <1>1, <1>2, <1>3, <1>4, <1>5 DEF F!Next

\* The SQLite store implements the transactional store the orchestrator is
\* written against, whatever the processes do and wherever they crash.
THEOREM Refinement == ProcessesSpec => ImplementsAtomicStore
<1>1. F!Init => F!Atomic!Init
  BY DEF F!Init, F!Atomic!Init, F!Outcome
<1>2. StoreInv /\ [F!Next]_(F!vars) => [F!Atomic!Next]_<<rows, F!Outcome>>
  BY StepRefines
<1>3. QED
  BY <1>1, <1>2, StoreHolds, PTL DEF ImplementsAtomicStore, F!ImplementsAtomicStore, F!Atomic!Spec

=============================================================================
