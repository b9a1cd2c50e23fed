--------------------------- MODULE Orchestration ---------------------------
(***************************************************************************)
(* RuntimeOrchestrator (packages/runtime/src/orchestration.ts): the        *)
(* durable tables of leases, wakes and workers that every process of a     *)
(* deployment shares.                                                      *)
(*                                                                         *)
(* Each public method runs inside store.transact, so it is one atomic      *)
(* step here; module SqliteStore looks below that assumption.  Every       *)
(* method first reaps the leases whose deadline has passed, and persists   *)
(* that even when it then returns null, so reaping is a part of each       *)
(* action.  A method that throws rolls its transaction back: it is a       *)
(* stuttering step and has no action.                                      *)
(*                                                                         *)
(* Rows are kept in total functions from a pool of identifiers; an         *)
(* identifier idFactory has not drawn yet has state "unused", a worker     *)
(* that never registered has state "absent".                               *)
(***************************************************************************)
EXTENDS Integers, FiniteSets

CONSTANTS
  Agents,      \* agent ids, the keys of a lease
  Holders,     \* holder ids, whoever a lease is granted to
  Workers,     \* worker ids
  NoWorker,    \* workerId left undefined in acquireLease
  LeaseIds,    \* pool idFactory('lease') draws from
  WakeIds,     \* pool idFactory('wake') draws from
  Ttls,        \* lease and heartbeat lifetimes callers ask for
  Capacities,  \* capacities workers register with
  DueTimes,    \* absolute times wakes are scheduled for
  Limits,      \* batch sizes of claimDueWakes
  StaleAges,   \* values of staleClaimedMs
  NoRequeue,   \* staleClaimedMs left undefined
  Lookaheads,  \* how far past the clock callers of listPendingWakes look
  MaxTime      \* bound: the clock stops here

ASSUME OrchestrationAssumption ==
  /\ NoWorker \notin Workers
  /\ NoRequeue \notin Nat
  /\ Ttls \subseteq Nat \ {0}
  /\ Capacities \subseteq Nat
  /\ DueTimes \subseteq Nat
  /\ Limits \subseteq Nat \ {0}
  /\ StaleAges \subseteq Nat \ {0}
  /\ Lookaheads \subseteq Nat
  /\ MaxTime \in Nat
  /\ IsFiniteSet(LeaseIds)

VARIABLES
  now,      \* Date.now(), shared by every process
  leases,   \* snapshot.leases
  wakes,    \* snapshot.wakes
  workers   \* snapshot.workers

vars == <<now, leases, wakes, workers>>

-----------------------------------------------------------------------------

LeaseStates == {"active", "released", "expired"}
WakeStates == {"unused", "pending", "claimed", "completed", "failed", "cancelled"}
WorkerStates == {"absent", "active", "draining", "evicted", "withdrawn"}

\* endedAt is releasedAt or expiredAt, whichever the row has.
Lease == [state : LeaseStates, agent : Agents, holder : Holders,
          worker : Workers \cup {NoWorker},
          acquiredAt : Nat, expiresAt : Nat, endedAt : Nat]

Wake == [state : WakeStates, createdAt : Nat, dueAt : Nat, claimedAt : Nat,
         claimAttempts : Nat]

Worker == [state : WorkerStates, capacity : Nat, heartbeatExpiresAt : Nat]

NoLease == [state |-> "unused"]

NoWake == [state |-> "unused", createdAt |-> 0, dueAt |-> 0, claimedAt |-> 0,
           claimAttempts |-> 0]

NeverRegistered == [state |-> "absent", capacity |-> 0, heartbeatExpiresAt |-> 0]

-----------------------------------------------------------------------------
(* Lease helpers *)

Active(l) == leases[l].state = "active"

\* Fault: a lease is taken to be live at its deadline still.
Live_AtDeadline(l) == Active(l) /\ leases[l].expiresAt >= now

\* isActiveLease: what the code calls active, which a row past its deadline
\* is not even before somebody reaps it.
Live(l) == Active(l) /\ leases[l].expiresAt > now

\* The lease table with the leases in `ended` closed at time t.
Expired(ended, t) ==
  [l \in LeaseIds |->
     IF l \in ended
     THEN [leases[l] EXCEPT !.state = "expired", !.endedAt = t]
     ELSE leases[l]]

Overdue(t) == {l \in LeaseIds : Active(l) /\ leases[l].expiresAt <= t}

\* reapExpiredLeases(snapshot, t)
Reaped(t) == Expired(Overdue(t), t)

\* Fault: a worker that leaves takes the leases of every worker along.
ReapedAndReleased_OfAll(gone) ==
  Expired(Overdue(now) \cup {l \in LeaseIds : Active(l) /\ leases[l].worker # NoWorker},
          now)

\* Reaping, then releaseLeasesForWorker for the workers that leave in one
\* call: both close the active leases they find with the same time.
ReapedAndReleased(gone) ==
  Expired(Overdue(now) \cup
          {l \in LeaseIds : Active(l) /\ leases[l].worker \in gone}, now)

LiveOf(w) == {l \in LeaseIds : Live(l) /\ leases[l].worker = w}

\* Fault: room for one lease too many.
Accepts_OneTooMany(w) ==
  w # NoWorker => /\ workers[w].state = "active"
                  /\ Cardinality(LiveOf(w)) <= workers[w].capacity

\* acquireLease's two worker checks: it accepts leases and has room.
Accepts(w) ==
  w # NoWorker => /\ workers[w].state = "active"
                  /\ Cardinality(LiveOf(w)) < workers[w].capacity

-----------------------------------------------------------------------------
(* Lease operations *)

\* acquireLease when another lease of the agent is live: acquired is false.
\* getActiveLease, listLeases, listWorkers, workerCapacityReport: reads that
\* persist the reaping.
Observe ==
  /\ leases' = Reaped(now)
  /\ UNCHANGED <<now, wakes, workers>>

\* Fault: a holder may acquire again what it holds, as a second lease.
AcquireLease_Reentrant(a, h, w, ttl) ==
  /\ \A l \in LeaseIds : Live(l) => leases[l].agent # a \/ leases[l].holder = h
  /\ Accepts(w)
  /\ \E l \in LeaseIds :
       /\ leases[l].state = "unused"
       /\ leases' = [Reaped(now) EXCEPT ![l] =
            [state |-> "active", agent |-> a, holder |-> h, worker |-> w,
             acquiredAt |-> now, expiresAt |-> now + ttl, endedAt |-> 0]]
  /\ UNCHANGED <<now, wakes, workers>>

AcquireLease(a, h, w, ttl) ==
  /\ \A l \in LeaseIds : Live(l) => leases[l].agent # a
  /\ Accepts(w)
  /\ \E l \in LeaseIds :
       /\ leases[l].state = "unused"
       /\ leases' = [Reaped(now) EXCEPT ![l] =
            [state |-> "active", agent |-> a, holder |-> h, worker |-> w,
             acquiredAt |-> now, expiresAt |-> now + ttl, endedAt |-> 0]]
  /\ UNCHANGED <<now, wakes, workers>>

\* The lease table once the leases in `kept` have a new deadline.
Extended(kept, ttl) ==
  [l \in LeaseIds |-> IF l \in kept
                      THEN [leases[l] EXCEPT !.expiresAt = now + ttl]
                      ELSE Reaped(now)[l]]

RenewLease(l, ttl) ==
  /\ leases' = Extended({k \in {l} : Live(k)}, ttl)
  /\ UNCHANGED <<now, wakes, workers>>

RenewAgentLease(a, h, ttl) ==
  /\ leases' = Extended({l \in LeaseIds : /\ Live(l)
                                          /\ leases[l].agent = a
                                          /\ leases[l].holder = h}, ttl)
  /\ UNCHANGED <<now, wakes, workers>>

ReleaseLease(l) ==
  /\ leases' = [Reaped(now) EXCEPT ![l] =
                  IF @.state = "active"
                  THEN [@ EXCEPT !.state = "released", !.endedAt = now]
                  ELSE @]
  /\ UNCHANGED <<now, wakes, workers>>

-----------------------------------------------------------------------------
(* Wake operations *)

\* A change to one wake, in a transaction that reaps like every other.
SetWake(w, wake) ==
  /\ wakes' = [wakes EXCEPT ![w] = wake]
  /\ leases' = Reaped(now)
  /\ UNCHANGED <<now, workers>>

ScheduleWake(w, due) ==
  /\ wakes[w].state = "unused"
  /\ SetWake(w, [NoWake EXCEPT !.state = "pending", !.createdAt = now,
                               !.dueAt = due])

\* Fault: cancels a wake in whatever state it is.
CancelWake_AnyState(w) ==
  /\ wakes[w].state # "unused"
  /\ SetWake(w, [wakes[w] EXCEPT !.state = "cancelled"])

\* cancelWake, completeWake, failWake; on a wake in any other state they
\* return null, which is Observe.
CancelWake(w) ==
  /\ wakes[w].state = "pending"
  /\ SetWake(w, [wakes[w] EXCEPT !.state = "cancelled"])

CompleteWake(w) ==
  /\ wakes[w].state = "claimed"
  /\ SetWake(w, [wakes[w] EXCEPT !.state = "completed"])

FailWake(w) ==
  /\ wakes[w].state = "claimed"
  /\ SetWake(w, [wakes[w] EXCEPT !.state = "failed"])

\* Fault: the age of a claim is counted from when the wake was due.
Stale_SinceDue(stale) ==
  {w \in WakeIds : /\ stale # NoRequeue
                   /\ wakes[w].state = "claimed"
                   /\ wakes[w].dueAt + stale <= now}

\* requeueStaleClaimedWakes: the claims whose claimant is presumed dead.
Stale(stale) ==
  {w \in WakeIds : /\ stale # NoRequeue
                   /\ wakes[w].state = "claimed"
                   /\ wakes[w].claimedAt + stale <= now}

\* What a claim may take: pending wakes that are due, the requeued included.
Due(stale) ==
  {w \in Stale(stale) \cup {v \in WakeIds : wakes[v].state = "pending"} :
     wakes[w].dueAt <= now}

\* The sort of claimDueWakes: by dueAt, then by createdAt.
Before(v, w) ==
  \/ wakes[v].dueAt < wakes[w].dueAt
  \/ /\ wakes[v].dueAt = wakes[w].dueAt
     /\ wakes[v].createdAt < wakes[w].createdAt

\* A batch is the first `limit` due wakes; a tie may fall either way.
IsBatch(batch, due, limit) ==
  /\ IF Cardinality(due) <= limit THEN batch = due
     ELSE batch \subseteq due /\ Cardinality(batch) = limit
  /\ \A v \in due \ batch, w \in batch : ~Before(v, w)

ClaimDueWakes(limit, stale) ==
  \E batch \in SUBSET Due(stale) :
    /\ IsBatch(batch, Due(stale), limit)
    /\ wakes' = [w \in WakeIds |->
         CASE w \in batch ->
                [wakes[w] EXCEPT !.state = "claimed", !.claimedAt = now,
                                 !.claimAttempts = @ + 1]
           [] w \in Stale(stale) \ batch -> [wakes[w] EXCEPT !.state = "pending"]
           [] OTHER -> wakes[w]]
    /\ leases' = Reaped(now)
    /\ UNCHANGED <<now, workers>>

\* listPendingWakes(t) reaps with the time its caller passes.
ListPendingWakes(ahead) ==
  /\ leases' = Reaped(now + ahead)
  /\ UNCHANGED <<now, wakes, workers>>

-----------------------------------------------------------------------------
(* Worker operations *)

SetWorker(w, worker) ==
  /\ workers' = [workers EXCEPT ![w] = worker]
  /\ leases' = Reaped(now)
  /\ UNCHANGED <<now, wakes>>

\* Upsert: whatever state the worker was in, it is active again.
RegisterWorker(w, capacity, ttl) ==
  SetWorker(w, [state |-> "active", capacity |-> capacity,
                heartbeatExpiresAt |-> now + ttl])

Present(w) == workers[w].state \in {"active", "draining"}

\* A heartbeat after the deadline is accepted as long as nobody evicted.
HeartbeatWorker(w, ttl) ==
  /\ Present(w)
  /\ SetWorker(w, [workers[w] EXCEPT !.heartbeatExpiresAt = now + ttl])

DrainWorker(w) ==
  /\ workers[w].state = "active"
  /\ SetWorker(w, [workers[w] EXCEPT !.state = "draining"])

WithdrawWorker(w) ==
  /\ Present(w)
  /\ workers' = [workers EXCEPT ![w].state = "withdrawn"]
  /\ leases' = ReapedAndReleased({w})
  /\ UNCHANGED <<now, wakes>>

EvictStaleWorkers ==
  LET gone == {w \in Workers : Present(w) /\ workers[w].heartbeatExpiresAt <= now}
  IN  /\ gone # {}
      /\ workers' = [w \in Workers |-> IF w \in gone
                                       THEN [workers[w] EXCEPT !.state = "evicted"]
                                       ELSE workers[w]]
      /\ leases' = ReapedAndReleased(gone)
      /\ UNCHANGED <<now, wakes>>

-----------------------------------------------------------------------------

Tick ==
  /\ now < MaxTime
  /\ now' = now + 1
  /\ UNCHANGED <<leases, wakes, workers>>

Init ==
  /\ now = 0
  /\ leases = [l \in LeaseIds |-> NoLease]
  /\ wakes = [w \in WakeIds |-> NoWake]
  /\ workers = [w \in Workers |-> NeverRegistered]

LeaseNext ==
  \/ Observe
  \/ \E a \in Agents, h \in Holders, w \in Workers \cup {NoWorker}, ttl \in Ttls :
       AcquireLease(a, h, w, ttl)
  \/ \E l \in LeaseIds, ttl \in Ttls : RenewLease(l, ttl)
  \/ \E a \in Agents, h \in Holders, ttl \in Ttls : RenewAgentLease(a, h, ttl)
  \/ \E l \in LeaseIds : ReleaseLease(l)

WakeNext ==
  \/ \E w \in WakeIds, due \in DueTimes : ScheduleWake(w, due)
  \/ \E w \in WakeIds : CancelWake(w)
  \/ \E w \in WakeIds : CompleteWake(w)
  \/ \E w \in WakeIds : FailWake(w)
  \/ \E limit \in Limits, stale \in StaleAges \cup {NoRequeue} :
       ClaimDueWakes(limit, stale)
  \/ \E ahead \in Lookaheads : ListPendingWakes(ahead)

WorkerNext ==
  \/ \E w \in Workers, c \in Capacities, ttl \in Ttls : RegisterWorker(w, c, ttl)
  \/ \E w \in Workers, ttl \in Ttls : HeartbeatWorker(w, ttl)
  \/ \E w \in Workers : DrainWorker(w)
  \/ \E w \in Workers : WithdrawWorker(w)
  \/ EvictStaleWorkers

Next == Tick \/ LeaseNext \/ WakeNext \/ WorkerNext

Spec == Init /\ [][Next]_vars

-----------------------------------------------------------------------------
(* Properties *)

\* The tables hold well-formed rows, whatever sequence of calls produced them.
TypeOK ==
  /\ now \in Nat
  /\ leases \in [LeaseIds -> Lease \cup {NoLease}]
  /\ wakes \in [WakeIds -> Wake]
  /\ workers \in [Workers -> Worker]

\* No two rows of the lease table are active for the same agent, not even
\* while one of them is past its deadline and waits to be reaped.
OneActiveLeasePerAgent ==
  \A k, l \in LeaseIds :
    Active(k) /\ Active(l) /\ leases[k].agent = leases[l].agent => k = l

\* Until when a lease bound its agent: its deadline while it is active, the
\* time it was released, expired or revoked afterwards.
EndOf(l) == IF Active(l) THEN leases[l].expiresAt ELSE leases[l].endedAt

\* The terms of an agent's leases do not overlap in time: of any two, one was
\* over when the other was acquired.  This is about the whole history of the
\* table, renewals, evictions and late reaping included.
DisjointTerms ==
  \A k, l \in LeaseIds :
    /\ k # l
    /\ leases[k].state # "unused" /\ leases[l].state # "unused"
    /\ leases[k].agent = leases[l].agent
    => \/ EndOf(k) <= leases[l].acquiredAt
       \/ EndOf(l) <= leases[k].acquiredAt

\* An evicted or withdrawn worker holds no active lease, and neither does one
\* that never registered: acquireLease, eviction and re-registration agree.
DepartedHoldNothing ==
  \A l \in LeaseIds :
    Active(l) /\ leases[l].worker # NoWorker => Present(leases[l].worker)

\* A lease that has lapsed, been released or been revoked is never live again:
\* renewal keeps a live lease alive and does not resurrect a dead one.
LapsedStaysLapsed ==
  [][\A l \in LeaseIds :
       leases[l].state # "unused" /\ ~Live(l) => ~Live(l)']_vars

\* A lease stops being active only because its holder released it, its
\* deadline passed, or the worker it is bound to left.
LeaseEndsForCause ==
  [][\A l \in LeaseIds :
       Active(l) /\ ~Active(l)' =>
         \/ leases'[l].state = "released"
         \/ leases[l].expiresAt <= now
         \/ /\ leases[l].worker # NoWorker
            /\ workers'[leases[l].worker].state \in {"evicted", "withdrawn"}]_vars

\* A worker gains a lease only while it accepts leases and has room for it;
\* lowering its capacity, draining it or re-registering it never adds one.
CapacityRespected ==
  [][\A w \in Workers :
       ~(LiveOf(w)' \subseteq LiveOf(w)) =>
         /\ workers[w].state = "active"
         /\ Cardinality(LiveOf(w)') <= workers[w].capacity]_vars

\* A wake that was completed, failed or cancelled is never delivered again.
SettledWakesAreFinal ==
  [][\A w \in WakeIds :
       wakes[w].state \in {"completed", "failed", "cancelled"} =>
         wakes'[w] = wakes[w]]_vars

\* A wake is claimed a second time only once its earlier claim is at least the
\* shortest staleClaimedMs old: no two claimants own it at the same time.
ClaimsAreSpaced ==
  [][\A w \in WakeIds :
       wakes[w].claimAttempts > 0
         /\ wakes'[w].claimAttempts > wakes[w].claimAttempts =>
           \E stale \in StaleAges : wakes[w].claimedAt + stale <= now]_vars

-----------------------------------------------------------------------------
(* The abstract service this table implements *)

\* A row as its holder sees it: what it was granted and until when.
GrantOf(l) == [agent |-> leases[l].agent, holder |-> leases[l].holder,
               worker |-> leases[l].worker, until |-> leases[l].expiresAt]

GrantsInForce == {GrantOf(l) : l \in {k \in LeaseIds : Live(k)}}

Service == INSTANCE LeaseService WITH held <- GrantsInForce

\* The table behaves like the abstract service: rows waiting to be reaped,
\* repeated reaping and ended rows are invisible, and every call moves the
\* grants in force as one grant, renewal, release or revocation would.
ImplementsLeaseService == Service!Spec

=============================================================================
