------------------------ MODULE Orchestration_proofs ------------------------
(***************************************************************************)
(* Theorems about Orchestration, for every value of its constants.         *)
(*                                                                         *)
(* The argument for all of the lease properties goes through one lemma     *)
(* about the shape of a step (LeaseSteps): a call either leaves each row   *)
(* alone, ends it, or moves the deadline of a live one; or it is an        *)
(* AcquireLease, which adds one row for an agent without a live lease and  *)
(* otherwise only reaps.  WakeSteps is its counterpart for the wakes.  The *)
(* last section maps every step to the abstract lease service.             *)
(***************************************************************************)
EXTENDS Orchestration, TLAPS, FiniteSetTheorems

-----------------------------------------------------------------------------
(* Typing *)

\* Closing active leases keeps the table well-formed.
LEMMA ExpiredType ==
  ASSUME TypeOK, NEW ended \in SUBSET {l \in LeaseIds : Active(l)}, NEW t \in Nat
  PROVE  Expired(ended, t) \in [LeaseIds -> Lease \cup {NoLease}]
<1>1. SUFFICES ASSUME NEW l \in LeaseIds
               PROVE  Expired(ended, t)[l] \in Lease \cup {NoLease}
      BY DEF Expired
<1>2. CASE l \in ended
  <2>1. leases[l] \in Lease
        BY <1>2 DEF TypeOK, Active, NoLease
  <2>2. [leases[l] EXCEPT !.state = "expired", !.endedAt = t] \in Lease
        BY <2>1 DEF Lease, LeaseStates
  <2> QED BY <1>2, <2>2 DEF Expired
<1>3. CASE l \notin ended
      BY <1>3 DEF Expired, TypeOK
<1> QED BY <1>2, <1>3

\* In particular a reaped table is well-formed.
LEMMA ReapedType ==
  ASSUME TypeOK, NEW t \in Nat
  PROVE  Reaped(t) \in [LeaseIds -> Lease \cup {NoLease}]
BY ExpiredType DEF Reaped, Overdue

\* A lease row whose deadline moves is still a lease row.
LEMMA ExtendedType ==
  ASSUME TypeOK, NEW kept \in SUBSET {l \in LeaseIds : Active(l)}, NEW ttl \in Ttls
  PROVE  Extended(kept, ttl) \in [LeaseIds -> Lease \cup {NoLease}]
<1>0. now \in Nat /\ now + ttl \in Nat
      BY OrchestrationAssumption DEF TypeOK
<1>1. SUFFICES ASSUME NEW l \in LeaseIds
               PROVE  Extended(kept, ttl)[l] \in Lease \cup {NoLease}
      BY DEF Extended
<1>2. CASE l \in kept
  <2>1. leases[l] \in Lease
        BY <1>2 DEF TypeOK, Active, NoLease
  <2>2. [leases[l] EXCEPT !.expiresAt = now + ttl] \in Lease
        BY <2>1, <1>0 DEF Lease
  <2> QED BY <1>2, <2>2 DEF Extended
<1>3. CASE l \notin kept
      BY <1>3, <1>0, ReapedType DEF Extended
<1> QED BY <1>2, <1>3

\* The tables stay well-formed over every call.
LEMMA TypeStep == TypeOK /\ [Next]_vars => TypeOK'
<1> SUFFICES ASSUME TypeOK, [Next]_vars
             PROVE  TypeOK'
    OBVIOUS
<1> USE OrchestrationAssumption
<1>0. now \in Nat /\ Reaped(now) \in [LeaseIds -> Lease \cup {NoLease}]
      BY ReapedType DEF TypeOK
<1>1. CASE UNCHANGED vars
      BY <1>1 DEF TypeOK, vars
<1>2. CASE Tick
      BY <1>2 DEF TypeOK, Tick
<1>3. CASE LeaseNext
  <2>1. CASE Observe
        BY <2>1, <1>0 DEF TypeOK, Observe
  <2>2. ASSUME NEW a \in Agents, NEW h \in Holders, NEW w \in Workers \cup {NoWorker},
               NEW ttl \in Ttls, AcquireLease(a, h, w, ttl)
        PROVE  TypeOK'
    <3>1. [state |-> "active", agent |-> a, holder |-> h, worker |-> w,
           acquiredAt |-> now, expiresAt |-> now + ttl, endedAt |-> 0] \in Lease
          BY <1>0 DEF Lease, LeaseStates
    <3> QED BY <2>2, <3>1, <1>0 DEF TypeOK, AcquireLease
  <2>3. ASSUME NEW l \in LeaseIds, NEW ttl \in Ttls, RenewLease(l, ttl)
        PROVE  TypeOK'
    <3>1. Extended({k \in {l} : Live(k)}, ttl) \in [LeaseIds -> Lease \cup {NoLease}]
          BY ExtendedType DEF Live
    <3> QED BY <2>3, <3>1 DEF TypeOK, RenewLease
  <2>4. ASSUME NEW a \in Agents, NEW h \in Holders, NEW ttl \in Ttls,
               RenewAgentLease(a, h, ttl)
        PROVE  TypeOK'
    <3> DEFINE kept == {l \in LeaseIds : /\ Live(l)
                                         /\ leases[l].agent = a
                                         /\ leases[l].holder = h}
    <3>1. kept \in SUBSET {l \in LeaseIds : Active(l)}
          BY DEF Live
    <3>2. Extended(kept, ttl) \in [LeaseIds -> Lease \cup {NoLease}]
          BY <3>1, ExtendedType
    <3> QED BY <2>4, <3>2 DEF TypeOK, RenewAgentLease
  <2>5. ASSUME NEW l \in LeaseIds, ReleaseLease(l)
        PROVE  TypeOK'
    <3>1. ASSUME NEW row \in Lease \cup {NoLease}, row.state = "active"
          PROVE  [row EXCEPT !.state = "released", !.endedAt = now] \in Lease
      <4>1. row \in Lease
            BY <3>1 DEF NoLease
      <4> QED BY <4>1, <1>0 DEF Lease, LeaseStates
    <3>2. Reaped(now)[l] \in Lease \cup {NoLease}
          BY <1>0
    <3>3. leases' \in [LeaseIds -> Lease \cup {NoLease}]
          BY <2>5, <3>1, <3>2, <1>0 DEF ReleaseLease
    <3> QED BY <2>5, <3>3 DEF TypeOK, ReleaseLease
  <2> QED BY <1>3, <2>1, <2>2, <2>3, <2>4, <2>5 DEF LeaseNext
<1>4. CASE WakeNext
  <2>1. ASSUME NEW w \in WakeIds, NEW wake \in Wake, SetWake(w, wake)
        PROVE  TypeOK'
        BY <2>1, <1>0 DEF TypeOK, SetWake
  <2>2. ASSUME NEW w \in WakeIds, NEW due \in DueTimes, ScheduleWake(w, due)
        PROVE  TypeOK'
    <3>1. [NoWake EXCEPT !.state = "pending", !.createdAt = now, !.dueAt = due] \in Wake
          BY <1>0 DEF NoWake, Wake, WakeStates
    <3> QED BY <2>1, <2>2, <3>1 DEF ScheduleWake
  <2>3. ASSUME NEW w \in WakeIds, NEW s \in WakeStates
        PROVE  [wakes[w] EXCEPT !.state = s] \in Wake
        BY DEF TypeOK, Wake
  <2>4. ASSUME NEW w \in WakeIds, CancelWake(w) \/ CompleteWake(w) \/ FailWake(w)
        PROVE  TypeOK'
        BY <2>1, <2>3, <2>4 DEF CancelWake, CompleteWake, FailWake, WakeStates
  <2>5. ASSUME NEW limit \in Limits, NEW stale \in StaleAges \cup {NoRequeue},
               ClaimDueWakes(limit, stale)
        PROVE  TypeOK'
    <3>1. ASSUME NEW wake \in Wake
          PROVE  [wake EXCEPT !.state = "claimed", !.claimedAt = now,
                              !.claimAttempts = @ + 1] \in Wake
      <4>1. wake.claimAttempts + 1 \in Nat
            BY <3>1 DEF Wake
      <4> QED BY <1>0, <3>1, <4>1 DEF Wake, WakeStates
    <3>2. wakes' \in [WakeIds -> Wake]
      <4>1. \A w \in WakeIds : wakes[w] \in Wake
            BY DEF TypeOK
      <4>2. \A w \in WakeIds : [wakes[w] EXCEPT !.state = "pending"] \in Wake
            BY <2>3 DEF WakeStates
      <4>3. \A w \in WakeIds :
              [wakes[w] EXCEPT !.state = "claimed", !.claimedAt = now,
                               !.claimAttempts = @ + 1] \in Wake
            BY <3>1, <4>1
      <4>4. PICK batch \in SUBSET Due(stale) :
              wakes' = [w \in WakeIds |->
                CASE w \in batch ->
                       [wakes[w] EXCEPT !.state = "claimed", !.claimedAt = now,
                                        !.claimAttempts = @ + 1]
                  [] w \in Stale(stale) \ batch -> [wakes[w] EXCEPT !.state = "pending"]
                  [] OTHER -> wakes[w]]
            BY <2>5 DEF ClaimDueWakes
      <4>5. ASSUME NEW w \in WakeIds
            PROVE  wakes'[w] \in Wake
        <5>1. CASE w \in batch
              BY <4>3, <4>4, <5>1
        <5>2. CASE w \in Stale(stale) \ batch
              BY <4>2, <4>4, <5>2
        <5>3. CASE w \notin batch /\ w \notin Stale(stale)
              BY <4>1, <4>4, <5>3
        <5> QED BY <5>1, <5>2, <5>3
      <4> QED BY <4>4, <4>5
    <3> QED BY <2>5, <3>2, <1>0 DEF TypeOK, ClaimDueWakes
  <2>6. ASSUME NEW ahead \in Lookaheads, ListPendingWakes(ahead)
        PROVE  TypeOK'
    <3>1. Reaped(now + ahead) \in [LeaseIds -> Lease \cup {NoLease}]
          BY <1>0, ReapedType
    <3> QED BY <2>6, <3>1 DEF TypeOK, ListPendingWakes
  <2> QED BY <1>4, <2>2, <2>4, <2>5, <2>6 DEF WakeNext
<1>5. CASE WorkerNext
  <2>1. ASSUME NEW w \in Workers, NEW worker \in Worker, SetWorker(w, worker)
        PROVE  TypeOK'
        BY <2>1, <1>0 DEF TypeOK, SetWorker
  <2>2. ASSUME NEW w \in Workers, NEW c \in Capacities, NEW ttl \in Ttls,
               RegisterWorker(w, c, ttl)
        PROVE  TypeOK'
    <3>1. [state |-> "active", capacity |-> c, heartbeatExpiresAt |-> now + ttl] \in Worker
          BY <1>0 DEF Worker, WorkerStates
    <3> QED BY <2>1, <2>2, <3>1 DEF RegisterWorker
  <2>3. ASSUME NEW w \in Workers, NEW ttl \in Ttls, HeartbeatWorker(w, ttl)
        PROVE  TypeOK'
    <3>1. [workers[w] EXCEPT !.heartbeatExpiresAt = now + ttl] \in Worker
          BY <1>0 DEF TypeOK, Worker
    <3> QED BY <2>1, <2>3, <3>1 DEF HeartbeatWorker
  <2>4. ASSUME NEW w \in Workers, DrainWorker(w)
        PROVE  TypeOK'
    <3>1. [workers[w] EXCEPT !.state = "draining"] \in Worker
          BY DEF TypeOK, Worker, WorkerStates
    <3> QED BY <2>1, <2>4, <3>1 DEF DrainWorker
  <2>5. ASSUME NEW gone \in SUBSET Workers
        PROVE  ReapedAndReleased(gone) \in [LeaseIds -> Lease \cup {NoLease}]
        BY <1>0, ExpiredType DEF ReapedAndReleased, Overdue
  <2>6. ASSUME NEW w \in Workers, WithdrawWorker(w)
        PROVE  TypeOK'
    <3>1. [workers[w] EXCEPT !.state = "withdrawn"] \in Worker
          BY DEF TypeOK, Worker, WorkerStates
    <3> QED BY <2>5, <2>6, <3>1 DEF WithdrawWorker, TypeOK
  <2>7. CASE EvictStaleWorkers
    <3>1. \A w \in Workers : [workers[w] EXCEPT !.state = "evicted"] \in Worker
          BY DEF TypeOK, Worker, WorkerStates
    <3>2. workers' \in [Workers -> Worker]
          BY <2>7, <3>1 DEF EvictStaleWorkers, TypeOK
    <3> QED BY <2>5, <2>7, <3>2 DEF EvictStaleWorkers, TypeOK
  <2> QED BY <1>5, <2>2, <2>3, <2>4, <2>6, <2>7 DEF WorkerNext
<1> QED BY <1>1, <1>2, <1>3, <1>4, <1>5 DEF Next

\* Every reachable state of the store holds well-formed rows.
THEOREM TypeCorrect == Spec => []TypeOK
<1>1. Init => TypeOK
      BY DEF Init, TypeOK, NoWake, Wake, WakeStates, NeverRegistered, Worker, WorkerStates
<1> QED BY <1>1, TypeStep, PTL DEF Spec

-----------------------------------------------------------------------------
(* The shape of a step *)

Kept(l) == leases'[l] = leases[l]

Prolonged(l) ==
  /\ Live(l)
  /\ \E ttl \in Ttls : leases'[l] = [leases[l] EXCEPT !.expiresAt = now + ttl]

\* The row ends at time t, for one of the three causes there are.
Ends(l, t) ==
  /\ Active(l)
  /\ \E s \in {"released", "expired"} :
       leases'[l] = [leases[l] EXCEPT !.state = s, !.endedAt = t]
  /\ \/ leases'[l].state = "released"
     \/ leases[l].expiresAt <= t
     \/ /\ leases[l].worker # NoWorker
        /\ workers'[leases[l].worker].state \in {"evicted", "withdrawn"}

RowStep(l) ==
  Kept(l) \/ Prolonged(l) \/ \E d \in Lookaheads \cup {0} : Ends(l, now + d)

\* A transaction that only reaps ends the overdue rows and keeps the others.
LEMMA ReapSteps ==
  ASSUME TypeOK, NEW d \in Lookaheads \cup {0}, NEW l \in LeaseIds,
         leases'[l] = Reaped(now + d)[l]
  PROVE  RowStep(l)
<1>1. CASE l \in Overdue(now + d)
  <2>1. Active(l) /\ leases[l].expiresAt <= now + d
        BY <1>1 DEF Overdue
  <2>2. leases'[l] = [leases[l] EXCEPT !.state = "expired", !.endedAt = now + d]
        BY <1>1 DEF Reaped, Expired
  <2> QED BY <2>1, <2>2 DEF RowStep, Ends
<1>2. CASE l \notin Overdue(now + d)
      BY <1>2 DEF Reaped, Expired, RowStep, Kept
<1> QED BY <1>1, <1>2

\* The same for the time of the call itself, which every call reaps with.
LEMMA ReapedNowSteps ==
  ASSUME TypeOK, NEW l \in LeaseIds, leases'[l] = Reaped(now)[l]
  PROVE  RowStep(l)
<1>1. now + 0 = now
      BY DEF TypeOK
<1> QED BY <1>1, ReapSteps

\* A renewal moves deadlines of live rows, reaps, and keeps the other rows.
LEMMA ExtendedSteps ==
  ASSUME TypeOK, NEW kept \in SUBSET {l \in LeaseIds : Live(l)}, NEW ttl \in Ttls,
         leases' = Extended(kept, ttl), NEW l \in LeaseIds
  PROVE  RowStep(l)
<1>1. CASE l \in kept
      BY <1>1 DEF Extended, RowStep, Prolonged
<1>2. CASE l \notin kept
      BY <1>2, ReapedNowSteps DEF Extended
<1> QED BY <1>1, <1>2

\* releaseLease closes the one row, reaps, and keeps the other rows.
LEMMA ReleaseSteps ==
  ASSUME TypeOK, NEW l \in LeaseIds, ReleaseLease(l), NEW k \in LeaseIds
  PROVE  RowStep(k)
<1>0. now + 0 = now
      BY DEF TypeOK
<1>1. CASE k = l /\ Reaped(now)[l].state = "active"
  <2>1. Reaped(now)[l] = leases[l] /\ Active(l)
        BY <1>1 DEF Reaped, Expired, Overdue, Active
  <2>2. leases'[l] = [leases[l] EXCEPT !.state = "released", !.endedAt = now]
        BY <1>1, <2>1 DEF ReleaseLease, Reaped, Expired
  <2>3. leases'[l].state = "released"
        BY <2>1, <2>2 DEF TypeOK, Active, Lease, NoLease
  <2> QED BY <1>0, <1>1, <2>1, <2>2, <2>3 DEF RowStep, Ends
<1>2. CASE ~(k = l /\ Reaped(now)[l].state = "active")
  <2>1. leases'[k] = Reaped(now)[k]
        BY <1>2 DEF ReleaseLease, Reaped, Expired
  <2> QED BY <2>1, ReapedNowSteps
<1> QED BY <1>1, <1>2

\* Withdrawing or evicting workers closes their rows along with the overdue.
LEMMA RevokeSteps ==
  ASSUME TypeOK, NEW gone \in SUBSET Workers, leases' = ReapedAndReleased(gone),
         \A w \in gone : workers'[w].state \in {"evicted", "withdrawn"}, NEW l \in LeaseIds
  PROVE  RowStep(l)
<1>0. now + 0 = now
      BY DEF TypeOK
<1> DEFINE ended == Overdue(now) \cup {k \in LeaseIds : Active(k) /\ leases[k].worker \in gone}
<1>1. CASE l \in ended
  <2>1. Active(l) /\ (leases[l].expiresAt <= now \/ leases[l].worker \in gone)
        BY <1>1 DEF Overdue
  <2>2. leases'[l] = [leases[l] EXCEPT !.state = "expired", !.endedAt = now]
        BY <1>1 DEF ReapedAndReleased, Expired
  <2>3. leases[l].worker \in gone =>
          /\ leases[l].worker # NoWorker
          /\ workers'[leases[l].worker].state \in {"evicted", "withdrawn"}
        BY OrchestrationAssumption
  <2>4. Ends(l, now)
        BY <2>1, <2>2, <2>3 DEF Ends
  <2> QED BY <2>4, <1>0 DEF RowStep
<1>2. CASE l \notin ended
      BY <1>2 DEF ReapedAndReleased, Expired, RowStep, Kept
<1> QED BY <1>1, <1>2

\* What acquireLease does to the table: one new row, the others only reaped.
Acquires(l, a) ==
  /\ leases[l].state = "unused"
  /\ \A k \in LeaseIds : Live(k) => leases[k].agent # a
  /\ leases'[l] \in Lease
  /\ leases'[l].state = "active"
  /\ leases'[l].agent = a
  /\ leases'[l].acquiredAt = now
  /\ leases'[l].worker # NoWorker =>
       /\ workers[leases'[l].worker].state = "active"
       /\ Cardinality(LiveOf(leases'[l].worker)) < workers[leases'[l].worker].capacity
  /\ \A k \in LeaseIds \ {l} : leases'[k] = Reaped(now)[k]
  /\ UNCHANGED <<now, wakes, workers>>

\* acquireLease turns one unused row into a grant and reaps the others.
LEMMA AcquireSteps ==
  ASSUME TypeOK, NEW a \in Agents, NEW h \in Holders, NEW w \in Workers \cup {NoWorker},
         NEW ttl \in Ttls, AcquireLease(a, h, w, ttl)
  PROVE  \E l \in LeaseIds : Acquires(l, a)
<1> DEFINE row == [state |-> "active", agent |-> a, holder |-> h, worker |-> w,
                   acquiredAt |-> now, expiresAt |-> now + ttl, endedAt |-> 0]
<1>1. PICK l \in LeaseIds : /\ leases[l].state = "unused"
                            /\ leases' = [Reaped(now) EXCEPT ![l] = row]
      BY DEF AcquireLease
<1>2. row \in Lease
      BY OrchestrationAssumption DEF TypeOK, Lease, LeaseStates
<1>3. leases'[l] = row /\ \A k \in LeaseIds \ {l} : leases'[k] = Reaped(now)[k]
      BY <1>1 DEF Reaped, Expired
<1>4. /\ row.state = "active"
      /\ row.agent = a
      /\ row.acquiredAt = now
      /\ row.worker = w
      OBVIOUS
<1>5. w # NoWorker => /\ workers[w].state = "active"
                      /\ Cardinality(LiveOf(w)) < workers[w].capacity
      BY DEF AcquireLease, Accepts
<1> HIDE DEF row
<1> QED BY <1>1, <1>2, <1>3, <1>4, <1>5 DEF AcquireLease, Acquires

\* Every step changes every row in one of the ways above, or grants a lease.
LEMMA LeaseSteps ==
  ASSUME TypeOK, [Next]_vars
  PROVE  \/ now' >= now /\ \A l \in LeaseIds : RowStep(l)
         \/ \E l \in LeaseIds, a \in Agents : Acquires(l, a)
<1>0. now \in Nat
      BY DEF TypeOK
<1>1. ASSUME leases' = leases, now' = now \/ now' = now + 1
      PROVE  now' >= now /\ \A l \in LeaseIds : RowStep(l)
      BY <1>0, <1>1 DEF RowStep, Kept
<1>2. ASSUME leases' = Reaped(now), now' = now
      PROVE  now' >= now /\ \A l \in LeaseIds : RowStep(l)
      BY <1>0, <1>2, ReapedNowSteps
<1>3. CASE UNCHANGED vars
      BY <1>1, <1>3 DEF vars
<1>4. CASE Tick
      BY <1>1, <1>4 DEF Tick
<1>5. CASE LeaseNext
  <2>1. CASE Observe
        BY <1>2, <2>1 DEF Observe
  <2>2. CASE \E a \in Agents, h \in Holders, w \in Workers \cup {NoWorker}, ttl \in Ttls :
               AcquireLease(a, h, w, ttl)
        BY <2>2, AcquireSteps
  <2>3. ASSUME NEW l \in LeaseIds, NEW ttl \in Ttls, RenewLease(l, ttl)
        PROVE  now' >= now /\ \A k \in LeaseIds : RowStep(k)
    <3>1. {k \in {l} : Live(k)} \in SUBSET {k \in LeaseIds : Live(k)}
          OBVIOUS
    <3> QED BY <1>0, <2>3, <3>1, ExtendedSteps DEF RenewLease
  <2>4. ASSUME NEW a \in Agents, NEW h \in Holders, NEW ttl \in Ttls,
               RenewAgentLease(a, h, ttl)
        PROVE  now' >= now /\ \A k \in LeaseIds : RowStep(k)
    <3>1. {l \in LeaseIds : Live(l) /\ leases[l].agent = a /\ leases[l].holder = h}
            \in SUBSET {k \in LeaseIds : Live(k)}
          OBVIOUS
    <3> QED BY <1>0, <2>4, <3>1, ExtendedSteps DEF RenewAgentLease
  <2>5. ASSUME NEW l \in LeaseIds, ReleaseLease(l)
        PROVE  now' >= now /\ \A k \in LeaseIds : RowStep(k)
    <3>1. \A k \in LeaseIds : RowStep(k)
          BY <2>5, ReleaseSteps
    <3>2. now' = now
          BY <2>5 DEF ReleaseLease
    <3> QED BY <1>0, <3>1, <3>2
  <2> QED BY <1>5, <2>1, <2>2, <2>3, <2>4, <2>5 DEF LeaseNext
<1>6. CASE WakeNext
  <2>1. ASSUME NEW ahead \in Lookaheads, ListPendingWakes(ahead)
        PROVE  now' >= now /\ \A k \in LeaseIds : RowStep(k)
    <3>1. /\ now' = now
          /\ \A k \in LeaseIds : leases'[k] = Reaped(now + ahead)[k]
          BY <2>1 DEF ListPendingWakes
    <3> QED BY <1>0, <3>1, ReapSteps
  <2>2. CASE ~\E ahead \in Lookaheads : ListPendingWakes(ahead)
    <3>1. leases' = Reaped(now) /\ now' = now
          BY <1>6, <2>2 DEF WakeNext, ScheduleWake, CancelWake, CompleteWake, FailWake,
                            SetWake, ClaimDueWakes
    <3> QED BY <1>2, <3>1
  <2> QED BY <2>1, <2>2
<1>7. CASE WorkerNext
  <2>1. ASSUME NEW w \in Workers, WithdrawWorker(w)
        PROVE  now' >= now /\ \A k \in LeaseIds : RowStep(k)
    <3>1. workers'[w].state \in {"evicted", "withdrawn"}
          BY <2>1 DEF WithdrawWorker, TypeOK, Worker
    <3> QED BY <1>0, <2>1, <3>1, RevokeSteps DEF WithdrawWorker
  <2>2. ASSUME EvictStaleWorkers
        PROVE  now' >= now /\ \A k \in LeaseIds : RowStep(k)
    <3> DEFINE gone == {w \in Workers : Present(w) /\ workers[w].heartbeatExpiresAt <= now}
    <3>1. \A w \in gone : workers'[w].state \in {"evicted", "withdrawn"}
          BY <2>2 DEF EvictStaleWorkers, TypeOK, Worker
    <3>2. leases' = ReapedAndReleased(gone) /\ now' = now
          BY <2>2 DEF EvictStaleWorkers
    <3> QED BY <1>0, <3>1, <3>2, RevokeSteps
  <2>3. CASE ~EvictStaleWorkers /\ ~\E w \in Workers : WithdrawWorker(w)
    <3>1. leases' = Reaped(now) /\ now' = now
          BY <1>7, <2>3 DEF WorkerNext, RegisterWorker, HeartbeatWorker, DrainWorker, SetWorker
    <3> QED BY <1>2, <3>1
  <2> QED BY <2>1, <2>2, <2>3
<1> QED BY <1>3, <1>4, <1>5, <1>6, <1>7 DEF Next

Used(l) == leases[l].state # "unused"

\* What a step that grants nothing leaves of a row.
LEMMA RowFacts ==
  ASSUME TypeOK, NEW l \in LeaseIds, RowStep(l)
  PROVE  /\ Used(l)' <=> Used(l)
         /\ Used(l) => /\ leases'[l].agent = leases[l].agent
                       /\ leases'[l].worker = leases[l].worker
                       /\ leases'[l].acquiredAt = leases[l].acquiredAt
         /\ Active(l)' => Active(l)
         /\ ~Active(l) => leases'[l] = leases[l]
<1>1. CASE Kept(l)
      BY <1>1 DEF Kept, Used, Active
<1>2. CASE Active(l)
  <2>1. leases[l] \in Lease
        BY <1>2 DEF TypeOK, Active, NoLease
  <2>2. CASE Prolonged(l)
        BY <1>2, <2>1, <2>2 DEF Prolonged, Used, Active, Lease, LeaseStates
  <2>3. ASSUME NEW d \in Lookaheads \cup {0}, Ends(l, now + d)
        PROVE  /\ Used(l)' /\ Used(l)
               /\ leases'[l].agent = leases[l].agent
               /\ leases'[l].worker = leases[l].worker
               /\ leases'[l].acquiredAt = leases[l].acquiredAt
               /\ ~Active(l)'
    <3>1. PICK s \in {"released", "expired"} :
            leases'[l] = [leases[l] EXCEPT !.state = s, !.endedAt = now + d]
          BY <2>3 DEF Ends
    <3> QED BY <1>2, <2>1, <3>1 DEF Used, Active, Lease, LeaseStates
  <2> QED BY <1>1, <1>2, <2>2, <2>3 DEF RowStep
<1> QED BY <1>1, <1>2 DEF RowStep, Prolonged, Ends, Live

\* The rows acquireLease does not add: those of the agent are over, the rest
\* take a step like any other.
LEMMA AcquireFacts ==
  ASSUME TypeOK, NEW l \in LeaseIds, NEW a \in Agents, Acquires(l, a),
         NEW k \in LeaseIds, k # l
  PROVE  /\ RowStep(k)
         /\ Used(k) /\ leases[k].agent = a => ~Active(k)'
<1>1. leases'[k] = Reaped(now)[k]
      BY DEF Acquires
<1>2. RowStep(k)
      BY <1>1, ReapedNowSteps
<1>3. ASSUME Active(k), leases[k].agent = a
      PROVE  ~Active(k)'
  <2>1. ~Live(k)
        BY <1>3 DEF Acquires
  <2>2. k \in Overdue(now)
        BY <1>3, <2>1 DEF Live, Overdue, TypeOK, Active, Lease, NoLease
  <2>3. leases'[k] = [leases[k] EXCEPT !.state = "expired", !.endedAt = now]
        BY <1>1, <2>2 DEF Reaped, Expired
  <2>4. leases[k] \in Lease
        BY <1>3 DEF TypeOK, Active, NoLease
  <2> QED BY <2>3, <2>4 DEF Active, Lease
<1> QED BY <1>2, <1>3, RowFacts

\* No agent ever has two active rows.
LEMMA OneActiveStep ==
  TypeOK /\ OneActiveLeasePerAgent /\ [Next]_vars => OneActiveLeasePerAgent'
<1> SUFFICES ASSUME TypeOK, OneActiveLeasePerAgent, [Next]_vars
             PROVE  OneActiveLeasePerAgent'
    OBVIOUS
<1>1. CASE \A l \in LeaseIds : RowStep(l)
  <2>1. \A l \in LeaseIds : Active(l)' => Active(l) /\ leases'[l].agent = leases[l].agent
        BY <1>1, RowFacts DEF Active, Used
  <2> QED BY <2>1 DEF OneActiveLeasePerAgent
<1>2. ASSUME NEW n \in LeaseIds, NEW a \in Agents, Acquires(n, a)
      PROVE  OneActiveLeasePerAgent'
  <2>1. \A k \in LeaseIds \ {n} :
          Active(k)' => /\ Active(k)
                        /\ leases'[k].agent = leases[k].agent
                        /\ leases[k].agent # a
        BY <1>2, AcquireFacts, RowFacts DEF Active, Used
  <2>2. leases'[n].agent = a
        BY <1>2 DEF Acquires
  <2> QED BY <2>1, <2>2 DEF OneActiveLeasePerAgent
<1> QED BY <1>1, <1>2, LeaseSteps

\* At any time an agent has at most one active lease, whatever processes call
\* the orchestrator in whatever order.
THEOREM LeaseExclusion == Spec => []OneActiveLeasePerAgent
<1>1. Init => OneActiveLeasePerAgent
      BY DEF Init, OneActiveLeasePerAgent, Active, NoLease
<1> QED BY <1>1, TypeCorrect, OneActiveStep, PTL DEF Spec

-----------------------------------------------------------------------------
(* Leases and workers *)

\* A worker that leaves takes its active leases with it in the same step.
LEMMA WorkerSteps ==
  ASSUME TypeOK, [Next]_vars, NEW w \in Workers, Present(w), ~Present(w)',
         NEW l \in LeaseIds, Active(l), leases[l].worker = w
  PROVE  ~Active(l)'
<1>1. ASSUME NEW gone \in SUBSET Workers, leases' = ReapedAndReleased(gone), w \in gone
      PROVE  ~Active(l)'
  <2>1. leases'[l] = [leases[l] EXCEPT !.state = "expired", !.endedAt = now]
        BY <1>1 DEF ReapedAndReleased, Expired
  <2>2. leases[l] \in Lease
        BY DEF TypeOK, Active, NoLease
  <2> QED BY <2>1, <2>2 DEF Active, Lease
<1>2. \/ WithdrawWorker(w)
      \/ EvictStaleWorkers /\ workers[w].heartbeatExpiresAt <= now
  <2>1. workers'[w] # workers[w]
        BY DEF Present
  <2>2. WorkerNext
        BY <2>1 DEF Next, vars, Tick, LeaseNext, Observe, AcquireLease, RenewLease,
             RenewAgentLease, ReleaseLease, WakeNext, ScheduleWake, CancelWake,
             CompleteWake, FailWake, SetWake, ClaimDueWakes, ListPendingWakes
  <2>3. ASSUME NEW v \in Workers, NEW worker \in Worker, SetWorker(v, worker),
               worker.state \in {"active", "draining"}
        PROVE  FALSE
        BY <2>3 DEF SetWorker, Present, TypeOK
  <2>4. ASSUME NEW v \in Workers, NEW c \in Capacities, NEW ttl \in Ttls,
               RegisterWorker(v, c, ttl)
        PROVE  FALSE
    <3>1. [state |-> "active", capacity |-> c, heartbeatExpiresAt |-> now + ttl] \in Worker
          BY OrchestrationAssumption DEF TypeOK, Worker, WorkerStates
    <3> QED BY <2>3, <2>4, <3>1 DEF RegisterWorker
  <2>5. ASSUME NEW v \in Workers, NEW ttl \in Ttls, HeartbeatWorker(v, ttl)
        PROVE  FALSE
    <3>1. /\ [workers[v] EXCEPT !.heartbeatExpiresAt = now + ttl] \in Worker
          /\ [workers[v] EXCEPT !.heartbeatExpiresAt = now + ttl].state = workers[v].state
          BY OrchestrationAssumption DEF TypeOK, Worker
    <3> QED BY <2>3, <2>5, <3>1 DEF HeartbeatWorker, Present
  <2>6. ASSUME NEW v \in Workers, DrainWorker(v)
        PROVE  FALSE
    <3>1. /\ [workers[v] EXCEPT !.state = "draining"] \in Worker
          /\ [workers[v] EXCEPT !.state = "draining"].state = "draining"
          BY DEF TypeOK, Worker, WorkerStates
    <3> QED BY <2>3, <2>6, <3>1 DEF DrainWorker
  <2>7. ASSUME NEW v \in Workers, WithdrawWorker(v)
        PROVE  v = w
        BY <2>1, <2>7 DEF WithdrawWorker, TypeOK
  <2>8. EvictStaleWorkers => workers[w].heartbeatExpiresAt <= now
        BY <2>1 DEF EvictStaleWorkers, TypeOK
  <2> QED BY <2>2, <2>4, <2>5, <2>6, <2>7, <2>8 DEF WorkerNext
<1>3. CASE WithdrawWorker(w)
      BY <1>1, <1>3 DEF WithdrawWorker
<1>4. CASE EvictStaleWorkers /\ workers[w].heartbeatExpiresAt <= now
  <2>1. PICK gone \in SUBSET Workers :
               /\ gone = {v \in Workers : Present(v) /\ workers[v].heartbeatExpiresAt <= now}
               /\ leases' = ReapedAndReleased(gone)
        BY <1>4 DEF EvictStaleWorkers
  <2> QED BY <1>1, <1>4, <2>1
<1> QED BY <1>2, <1>3, <1>4

\* No step leaves an active lease with a worker that is gone.
LEMMA DepartedStep ==
  TypeOK /\ DepartedHoldNothing /\ [Next]_vars => DepartedHoldNothing'
<1> SUFFICES ASSUME TypeOK, DepartedHoldNothing, [Next]_vars,
                    NEW l \in LeaseIds, Active(l)', leases'[l].worker # NoWorker
             PROVE  workers'[leases'[l].worker].state \in {"active", "draining"}
    BY DEF DepartedHoldNothing, Present
<1>1. ASSUME RowStep(l)
      PROVE  workers'[leases'[l].worker].state \in {"active", "draining"}
  <2>1. Active(l) /\ leases'[l].worker = leases[l].worker
        BY <1>1, RowFacts DEF Active, Used
  <2>2. leases[l].worker \in Workers
        BY <2>1 DEF TypeOK, Active, Lease, NoLease
  <2>3. Present(leases[l].worker)
        BY <2>1 DEF DepartedHoldNothing
  <2> DEFINE w == leases[l].worker
  <2>4. ASSUME NEW v \in Workers, v = w, workers'[v].state \notin {"active", "draining"}
        PROVE  FALSE
        BY <2>1, <2>3, <2>4, WorkerSteps DEF Present
  <2> QED BY <2>1, <2>2, <2>4
<1>2. ASSUME NEW n \in LeaseIds, NEW a \in Agents, Acquires(n, a)
      PROVE  workers'[leases'[l].worker].state \in {"active", "draining"}
  <2>1. CASE l = n
        BY <1>2, <2>1 DEF Acquires
  <2>2. CASE l # n
        BY <1>1, <1>2, <2>2, AcquireFacts
  <2> QED BY <2>1, <2>2
<1> QED BY <1>1, <1>2, LeaseSteps

\* No active lease is bound to a worker that was evicted, withdrawn or never
\* registered.
THEOREM DepartedCorrect == Spec => []DepartedHoldNothing
<1>1. Init => DepartedHoldNothing
      BY DEF Init, DepartedHoldNothing, Active, NoLease
<1> QED BY <1>1, TypeCorrect, DepartedStep, PTL DEF Spec

-----------------------------------------------------------------------------
(* Leases and time *)

\* A row that is used and not live does not become live.
LEMMA LapsedStep ==
  ASSUME TypeOK, [Next]_vars, NEW l \in LeaseIds, Used(l), ~Live(l)
  PROVE  ~Live(l)'
<1>1. ASSUME RowStep(l), now' \in Nat, now' >= now
      PROVE  ~Live(l)'
  <2>1. CASE Kept(l)
        BY <1>1, <2>1 DEF Kept, Live, Active, TypeOK, Lease, NoLease
  <2>2. CASE \E d \in Lookaheads \cup {0} : Ends(l, now + d)
    <3>1. PICK d \in Lookaheads \cup {0}, s \in {"released", "expired"} :
            leases'[l] = [leases[l] EXCEPT !.state = s, !.endedAt = now + d]
          BY <2>2 DEF Ends
    <3>2. leases[l] \in Lease
          BY <2>2 DEF Ends, TypeOK, Active, NoLease
    <3> QED BY <3>1, <3>2 DEF Live, Active, Lease
  <2> QED BY <1>1, <2>1, <2>2 DEF RowStep, Prolonged
<1>2. ASSUME NEW n \in LeaseIds, NEW a \in Agents, Acquires(n, a)
      PROVE  ~Live(l)'
  <2>1. l # n /\ now' = now
        BY <1>2 DEF Acquires, Used
  <2> QED BY <1>1, <1>2, <2>1, AcquireFacts DEF TypeOK
<1>3. now' \in Nat
      BY TypeStep DEF TypeOK
<1> QED BY <1>1, <1>2, <1>3, LeaseSteps

\* A lapsed, released or revoked lease is never live again.
THEOREM NoResurrection == Spec => LapsedStaysLapsed
<1>1. TypeOK /\ [Next]_vars =>
        [\A l \in LeaseIds : leases[l].state # "unused" /\ ~Live(l) => ~Live(l)']_vars
      BY LapsedStep DEF Used
<1> QED BY <1>1, TypeCorrect, PTL DEF Spec, LapsedStaysLapsed

\* As long as every caller reaps with the time it is, leases end only for
\* cause: released, past their deadline, or with the worker that serves them.
THEOREM EndsForCause ==
  ASSUME Lookaheads \subseteq {0}
  PROVE  Spec => LeaseEndsForCause
<1>1. ASSUME TypeOK, [Next]_vars, NEW l \in LeaseIds, Active(l), ~Active(l)'
      PROVE  \/ leases'[l].state = "released"
             \/ leases[l].expiresAt <= now
             \/ /\ leases[l].worker # NoWorker
                /\ workers'[leases[l].worker].state \in {"evicted", "withdrawn"}
  <2>1. RowStep(l)
    <3>1. ASSUME NEW n \in LeaseIds, NEW a \in Agents, Acquires(n, a)
          PROVE  RowStep(l)
      <4>1. l # n
            BY <1>1, <3>1 DEF Acquires, Active
      <4> QED BY <3>1, <4>1, AcquireFacts, <1>1
    <3> QED BY <1>1, <3>1, LeaseSteps
  <2>2. leases[l] \in Lease
        BY <1>1 DEF TypeOK, Active, NoLease
  <2>3. ~Kept(l) /\ ~Prolonged(l)
        BY <1>1, <2>2 DEF Kept, Prolonged, Active, Lease
  <2>4. Ends(l, now)
    <3>1. now + 0 = now /\ \A d \in Lookaheads \cup {0} : d = 0
          BY <1>1 DEF TypeOK
    <3> QED BY <2>1, <2>3, <3>1 DEF RowStep
  <2> QED BY <2>4 DEF Ends
<1>2. TypeOK /\ [Next]_vars =>
        [\A l \in LeaseIds :
           Active(l) /\ ~Active(l)' =>
             \/ leases'[l].state = "released"
             \/ leases[l].expiresAt <= now
             \/ /\ leases[l].worker # NoWorker
                /\ workers'[leases[l].worker].state \in {"evicted", "withdrawn"}]_vars
      BY <1>1
<1> QED BY <1>2, TypeCorrect, PTL DEF Spec, LeaseEndsForCause

\* What makes disjoint terms inductive: whatever ended did so in the past, and
\* all the earlier leases of an agent were over when its active one began.
TermsInOrder ==
  /\ \A l \in LeaseIds : Used(l) =>
       /\ leases[l].acquiredAt <= now
       /\ Active(l) \/ leases[l].endedAt <= now
  /\ \A k, l \in LeaseIds :
       /\ k # l /\ Used(k) /\ Active(l)
       /\ leases[k].agent = leases[l].agent
       => leases[k].endedAt <= leases[l].acquiredAt

TermsInv == TypeOK /\ OneActiveLeasePerAgent /\ TermsInOrder /\ DisjointTerms

\* Terms that do not overlap still do not after any step.
LEMMA TermsStep ==
  ASSUME Lookaheads \subseteq {0}, TermsInv, [Next]_vars
  PROVE  TermsInOrder' /\ DisjointTerms'
<1> USE DEF TermsInv
<1>0. TypeOK' /\ OneActiveLeasePerAgent'
      BY TypeStep, OneActiveStep
<1>1. now \in Nat /\ now' \in Nat
      BY <1>0 DEF TypeOK
<1>2. ASSUME NEW l \in LeaseIds, RowStep(l), Used(l)
      PROVE  /\ leases'[l].acquiredAt = leases[l].acquiredAt
             /\ leases'[l].agent = leases[l].agent
             /\ Active(l)' \/ leases'[l].endedAt = leases[l].endedAt
                           \/ (Active(l) /\ leases'[l].endedAt = now)
             /\ Active(l)' => Active(l)
             /\ ~Active(l) => leases'[l] = leases[l]
  <2>1. leases[l] \in Lease
        BY <1>2 DEF TypeOK, Used, NoLease
  <2>2. \A d \in Lookaheads \cup {0} : now + d = now
        BY <1>1
  <2>3. ASSUME Ends(l, now)
        PROVE  Active(l) /\ leases'[l].endedAt = now
        BY <2>1, <2>3 DEF Ends, Lease
  <2>4. Kept(l) \/ Prolonged(l) => leases'[l].endedAt = leases[l].endedAt
        BY <2>1 DEF Kept, Prolonged, Lease
  <2>5. (\E d \in Lookaheads \cup {0} : Ends(l, now + d)) => Ends(l, now)
        BY <2>2
  <2>6. leases'[l].endedAt = leases[l].endedAt \/ (Active(l) /\ leases'[l].endedAt = now)
        BY <1>2, <2>3, <2>4, <2>5 DEF RowStep
  <2>7. /\ leases'[l].acquiredAt = leases[l].acquiredAt
        /\ leases'[l].agent = leases[l].agent
        /\ Active(l)' => Active(l)
        /\ ~Active(l) => leases'[l] = leases[l]
        BY <1>2, RowFacts
  <2> QED BY <2>6, <2>7
<1>3. \A l \in LeaseIds : Used(l) =>
        /\ leases[l].acquiredAt \in Nat
        /\ leases[l].endedAt \in Nat
        /\ leases[l].expiresAt \in Nat
      BY DEF TypeOK, Used, Lease, NoLease
\* Two rows that both take an ordinary step stay in order.
<1>4. ASSUME NEW k \in LeaseIds, NEW l \in LeaseIds, k # l, now' >= now,
             RowStep(k), RowStep(l), Used(k)', Used(l)',
             leases'[k].agent = leases'[l].agent
      PROVE  /\ Active(l)' => leases'[k].endedAt <= leases'[l].acquiredAt
             /\ \/ EndOf(k)' <= leases'[l].acquiredAt
                \/ EndOf(l)' <= leases'[k].acquiredAt
  <2>1. /\ Used(k) /\ Used(l)
        /\ leases[k].agent = leases[l].agent
        BY <1>2, <1>4, RowFacts
  <2>2. ~(Active(k) /\ Active(l))
        BY <1>4, <2>1 DEF OneActiveLeasePerAgent
  <2>3. CASE Active(l)
    <3>1. leases'[k] = leases[k] /\ ~Active(k)'
          BY <1>2, <1>4, <2>1, <2>2, <2>3
    <3>2. leases[k].endedAt <= leases[l].acquiredAt
          BY <1>4, <2>1, <2>3 DEF TermsInOrder
    <3> QED BY <1>2, <1>4, <2>1, <3>1, <3>2 DEF EndOf
  <2>4. CASE Active(k)
    <3>1. leases'[l] = leases[l] /\ ~Active(l)'
          BY <1>2, <1>4, <2>1, <2>2, <2>4
    <3>2. leases[l].endedAt <= leases[k].acquiredAt
          BY <1>4, <2>1, <2>4 DEF TermsInOrder
    <3> QED BY <1>2, <1>4, <2>1, <3>1, <3>2 DEF EndOf
  <2>5. CASE ~Active(k) /\ ~Active(l)
    <3>1. leases'[k] = leases[k] /\ leases'[l] = leases[l] /\ ~Active(k)' /\ ~Active(l)'
          BY <1>2, <1>4, <2>1, <2>5
    <3>2. \/ leases[k].endedAt <= leases[l].acquiredAt
          \/ leases[l].endedAt <= leases[k].acquiredAt
          BY <1>4, <2>1, <2>5 DEF DisjointTerms, EndOf, Used
    <3> QED BY <3>1, <3>2 DEF EndOf
  <2> QED BY <2>3, <2>4, <2>5
<1>5. ASSUME NEW l \in LeaseIds, now' >= now, RowStep(l), Used(l)'
      PROVE  /\ leases'[l].acquiredAt <= now'
             /\ Active(l)' \/ leases'[l].endedAt <= now'
  <2>1. Used(l)
        BY <1>5, RowFacts
  <2>2. leases[l].acquiredAt <= now /\ (Active(l) \/ leases[l].endedAt <= now)
        BY <2>1 DEF TermsInOrder
  <2>3. leases[l].acquiredAt <= now' /\ now <= now'
        BY <1>1, <1>3, <1>5, <2>1, <2>2
  <2>4. CASE Active(l)'
        BY <1>2, <1>5, <2>1, <2>3, <2>4
  <2>5. CASE ~Active(l)' /\ Active(l)
    <3>1. Ends(l, now)
      <4>1. leases[l] \in Lease /\ \A d \in Lookaheads \cup {0} : now + d = now
            BY <1>1, <2>5 DEF TypeOK, Active, NoLease
      <4>2. ~Kept(l) /\ ~Prolonged(l)
            BY <2>5, <4>1 DEF Kept, Prolonged, Active, Lease
      <4> QED BY <1>5, <4>1, <4>2 DEF RowStep
    <3>2. leases'[l].endedAt = now
          BY <2>5, <3>1 DEF Ends, TypeOK, Active, Lease, NoLease
    <3> QED BY <1>2, <1>5, <2>1, <2>3, <3>2
  <2>6. CASE ~Active(l)
    <3>1. leases'[l] = leases[l]
          BY <1>2, <1>5, <2>1, <2>6
    <3>2. leases[l].endedAt <= now'
          BY <1>1, <1>3, <1>5, <2>1, <2>2, <2>6
    <3> QED BY <2>3, <3>1, <3>2
  <2> QED BY <2>4, <2>5, <2>6
<1>6. CASE now' >= now /\ \A l \in LeaseIds : RowStep(l)
  <2>1. \A l \in LeaseIds : Active(l)' => Used(l)'
        BY DEF Used, Active
  <2>2. TermsInOrder'
        BY <1>4, <1>5, <1>6, <2>1 DEF TermsInOrder
  <2>3. DisjointTerms'
        BY <1>4, <1>6 DEF DisjointTerms, Used
  <2> QED BY <2>2, <2>3
<1>7. ASSUME NEW n \in LeaseIds, NEW a \in Agents, Acquires(n, a)
      PROVE  TermsInOrder' /\ DisjointTerms'
  <2>1. now' = now /\ leases'[n].acquiredAt = now /\ Active(n)' /\ leases'[n].agent = a
        BY <1>7 DEF Acquires, Active
  <2>2. now' >= now
        BY <1>1, <2>1
  <2>3. \A k \in LeaseIds \ {n} : RowStep(k)
        BY <1>7, AcquireFacts
  \* Every earlier lease of the agent is over by now.
  <2>4. ASSUME NEW k \in LeaseIds, k # n, Used(k)', leases'[k].agent = a
        PROVE  ~Active(k)' /\ leases'[k].endedAt <= now
        BY <1>0, <2>1, <2>2, <2>3, <2>4, <1>5 DEF OneActiveLeasePerAgent
  <2>5. TermsInOrder'
    <3>1. ASSUME NEW l \in LeaseIds, Used(l)'
          PROVE  leases'[l].acquiredAt <= now' /\ (Active(l)' \/ leases'[l].endedAt <= now')
          BY <1>1, <1>5, <2>1, <2>2, <2>3, <3>1
    <3>2. ASSUME NEW k \in LeaseIds, NEW l \in LeaseIds, k # l, Used(k)', Active(l)',
                 leases'[k].agent = leases'[l].agent
          PROVE  leases'[k].endedAt <= leases'[l].acquiredAt
      <4>1. CASE l = n
            BY <2>1, <2>4, <3>2, <4>1
      <4>2. CASE l # n
        <5>1. k # n
              BY <2>1, <2>4, <3>2, <4>2 DEF Used, Active
        <5>2. Used(l)'
              BY <3>2 DEF Used, Active
        <5> QED BY <1>4, <2>2, <2>3, <3>2, <4>2, <5>1, <5>2
      <4> QED BY <4>1, <4>2
    <3> QED BY <3>1, <3>2 DEF TermsInOrder
  <2>6. DisjointTerms'
    <3> SUFFICES ASSUME NEW k \in LeaseIds, NEW l \in LeaseIds, k # l, Used(k)', Used(l)',
                        leases'[k].agent = leases'[l].agent
                 PROVE  \/ EndOf(k)' <= leases'[l].acquiredAt
                        \/ EndOf(l)' <= leases'[k].acquiredAt
        BY DEF DisjointTerms, Used
    <3>1. CASE l = n
          BY <2>1, <2>4, <3>1 DEF EndOf
    <3>2. CASE k = n
          BY <2>1, <2>4, <3>2 DEF EndOf
    <3>3. CASE k # n /\ l # n
          BY <1>4, <2>2, <2>3, <3>3
    <3> QED BY <3>1, <3>2, <3>3
  <2> QED BY <2>5, <2>6
<1> QED BY <1>6, <1>7, LeaseSteps

\* As long as every caller reaps with the time it is, the terms of an agent's
\* leases never overlap, over the whole history of the table.
THEOREM TermsCorrect ==
  ASSUME Lookaheads \subseteq {0}
  PROVE  Spec => []DisjointTerms
<1>1. Init => TermsInv
      BY DEF Init, TermsInv, TermsInOrder, DisjointTerms, Used, Active, NoLease,
         OneActiveLeasePerAgent, TypeOK, NoWake, Wake, WakeStates, NeverRegistered,
         Worker, WorkerStates
<1>2. TermsInv /\ [Next]_vars => TermsInv'
      BY TypeStep, OneActiveStep, TermsStep DEF TermsInv
<1>3. TermsInv => DisjointTerms
      BY DEF TermsInv
<1> QED BY <1>1, <1>2, <1>3, PTL DEF Spec

-----------------------------------------------------------------------------
(* Leases and capacity *)

\* Only acquireLease makes a lease live that was not.
LEMMA LiveSteps ==
  ASSUME TypeOK, NEW l \in LeaseIds, RowStep(l), now' \in Nat, now' >= now, Live(l)'
  PROVE  /\ Live(l)
         /\ leases'[l].agent = leases[l].agent
         /\ leases'[l].worker = leases[l].worker
<1>1. Active(l) /\ Used(l)
      BY RowFacts DEF Live, Active, Used
<1>2. leases[l] \in Lease
      BY <1>1 DEF TypeOK, Active, NoLease
<1>3. CASE Kept(l)
      BY <1>1, <1>2, <1>3 DEF Kept, Live, TypeOK, Lease
<1>4. CASE Prolonged(l)
      BY <1>4 DEF Prolonged
<1>5. CASE \E d \in Lookaheads \cup {0} : Ends(l, now + d)
  <2>1. ~Active(l)'
        BY <1>2, <1>5 DEF Ends, Active, Lease
  <2> QED BY <2>1 DEF Live
<1>6. Live(l)
      BY <1>3, <1>4, <1>5 DEF RowStep
<1> QED BY <1>1, <1>6, RowFacts

\* The leases a worker has are never more than they are rows of the table.
LEMMA LiveOfFinite ==
  ASSUME NEW w
  PROVE  IsFiniteSet(LiveOf(w)) /\ Cardinality(LiveOf(w)) \in Nat
<1>1. LiveOf(w) \subseteq LeaseIds
      BY DEF LiveOf
<1> QED BY <1>1, OrchestrationAssumption, FS_Subset, FS_CardinalityType

\* A worker gains a lease only while it accepts leases and has room for it.
THEOREM CapacityCorrect == Spec => CapacityRespected
<1>1. ASSUME TypeOK, [Next]_vars, NEW w \in Workers, ~(LiveOf(w)' \subseteq LiveOf(w))
      PROVE  /\ workers[w].state = "active"
             /\ Cardinality(LiveOf(w)') <= workers[w].capacity
  <2>1. now \in Nat /\ now' \in Nat /\ w # NoWorker
        BY <1>1, TypeStep, OrchestrationAssumption DEF TypeOK
  <2>2. CASE now' >= now /\ \A l \in LeaseIds : RowStep(l)
    <3>1. \A l \in LeaseIds : Live(l)' => Live(l) /\ leases'[l].worker = leases[l].worker
          BY <1>1, <2>1, <2>2, LiveSteps
    <3> QED BY <1>1, <3>1 DEF LiveOf
  <2>3. ASSUME NEW n \in LeaseIds, NEW a \in Agents, Acquires(n, a)
        PROVE  /\ workers[w].state = "active"
               /\ Cardinality(LiveOf(w)') <= workers[w].capacity
    <3>1. now' >= now /\ \A l \in LeaseIds \ {n} : RowStep(l)
          BY <1>1, <2>1, <2>3, AcquireFacts DEF Acquires
    <3>2. \A l \in LeaseIds \ {n} : Live(l)' => Live(l) /\ leases'[l].worker = leases[l].worker
          BY <1>1, <2>1, <3>1, LiveSteps
    <3>3. LiveOf(w)' \subseteq LiveOf(w) \cup {n}
          BY <3>2 DEF LiveOf
    <3>4. leases'[n].worker = w
          BY <1>1, <3>3 DEF LiveOf
    <3>5. /\ workers[w].state = "active"
          /\ Cardinality(LiveOf(w)) < workers[w].capacity
          BY <2>1, <2>3, <3>4 DEF Acquires
    <3>6. n \notin LiveOf(w)
          BY <2>3 DEF Acquires, LiveOf, Live, Active
    <3>7. /\ IsFiniteSet(LiveOf(w) \cup {n})
          /\ Cardinality(LiveOf(w) \cup {n}) = Cardinality(LiveOf(w)) + 1
          BY <3>6, LiveOfFinite, FS_AddElement
    <3>8. /\ Cardinality(LiveOf(w)') \in Nat
          /\ Cardinality(LiveOf(w)') <= Cardinality(LiveOf(w) \cup {n})
          BY <3>3, <3>7, FS_Subset, FS_CardinalityType
    <3>9. workers[w].capacity \in Nat /\ Cardinality(LiveOf(w)) \in Nat
          BY <1>1, LiveOfFinite DEF TypeOK, Worker
    <3> HIDE DEF LiveOf
    <3> QED BY <3>5, <3>7, <3>8, <3>9
  <2> QED BY <1>1, <2>2, <2>3, LeaseSteps
<1>2. TypeOK /\ [Next]_vars =>
        [\A w \in Workers :
           ~(LiveOf(w)' \subseteq LiveOf(w)) =>
             /\ workers[w].state = "active"
             /\ Cardinality(LiveOf(w)') <= workers[w].capacity]_vars
      BY <1>1
<1> QED BY <1>2, TypeCorrect, PTL DEF Spec, CapacityRespected

-----------------------------------------------------------------------------
(* Wakes *)

\* Somebody may presume the claimant of the wake dead.
ClaimIsStale(w) == \E stale \in StaleAges : wakes[w].claimedAt + stale <= now

Settles(w) ==
  /\ wakes[w].state \in {"pending", "claimed"}
  /\ wakes'[w].state \in {"cancelled", "completed", "failed"}
  /\ wakes'[w].claimAttempts = wakes[w].claimAttempts

Requeues(w) ==
  /\ wakes[w].state = "claimed" /\ ClaimIsStale(w)
  /\ wakes'[w] = [wakes[w] EXCEPT !.state = "pending"]

Claims(w) ==
  /\ wakes[w].state = "pending" \/ (wakes[w].state = "claimed" /\ ClaimIsStale(w))
  /\ wakes'[w] = [wakes[w] EXCEPT !.state = "claimed", !.claimedAt = now,
                                  !.claimAttempts = @ + 1]

WakeStep(w) ==
  \/ wakes'[w] = wakes[w]
  \/ wakes[w].state = "unused" /\ wakes'[w].claimAttempts = 0
  \/ Settles(w) \/ Requeues(w) \/ Claims(w)

\* claimDueWakes claims or requeues the wakes it looks at, and no others.
LEMMA ClaimSteps ==
  ASSUME TypeOK, NEW limit \in Limits, NEW stale \in StaleAges \cup {NoRequeue},
         ClaimDueWakes(limit, stale), NEW w \in WakeIds
  PROVE  WakeStep(w)
<1>1. PICK batch \in SUBSET Due(stale) :
        wakes' = [v \in WakeIds |->
          CASE v \in batch ->
                 [wakes[v] EXCEPT !.state = "claimed", !.claimedAt = now,
                                  !.claimAttempts = @ + 1]
            [] v \in Stale(stale) \ batch -> [wakes[v] EXCEPT !.state = "pending"]
            [] OTHER -> wakes[v]]
      BY DEF ClaimDueWakes
<1>2. w \in Stale(stale) => wakes[w].state = "claimed" /\ ClaimIsStale(w)
      BY DEF Stale, ClaimIsStale
<1>3. CASE w \in batch
  <2>1. wakes[w].state = "pending" \/ w \in Stale(stale)
        BY <1>3 DEF Due
  <2> QED BY <1>1, <1>2, <1>3, <2>1 DEF WakeStep, Claims
<1>4. CASE w \in Stale(stale) \ batch
      BY <1>1, <1>2, <1>4 DEF WakeStep, Requeues
<1>5. CASE w \notin batch /\ w \notin Stale(stale)
      BY <1>1, <1>5 DEF WakeStep
<1> QED BY <1>3, <1>4, <1>5

\* Every step leaves a wake alone, schedules, settles, requeues or claims it.
LEMMA WakeSteps ==
  ASSUME TypeOK, [Next]_vars, NEW w \in WakeIds
  PROVE  WakeStep(w)
<1>1. CASE UNCHANGED wakes
      BY <1>1 DEF WakeStep
<1>2. ASSUME NEW v \in WakeIds, NEW due \in DueTimes, ScheduleWake(v, due)
      PROVE  WakeStep(w)
  <2>1. [NoWake EXCEPT !.state = "pending", !.createdAt = now, !.dueAt = due].claimAttempts = 0
        BY DEF NoWake
  <2> QED BY <1>2, <2>1 DEF ScheduleWake, SetWake, WakeStep, TypeOK
<1>3. ASSUME NEW v \in WakeIds, CancelWake(v) \/ CompleteWake(v) \/ FailWake(v)
      PROVE  WakeStep(w)
  <2>1. wakes[w] \in Wake
        BY DEF TypeOK
  <2>2. PICK s \in {"cancelled", "completed", "failed"} :
          /\ wakes' = [wakes EXCEPT ![v] = [wakes[v] EXCEPT !.state = s]]
          /\ wakes[v].state \in {"pending", "claimed"}
        BY <1>3 DEF CancelWake, CompleteWake, FailWake, SetWake
  <2>3. CASE v = w
    <3>1. wakes'[w] = [wakes[w] EXCEPT !.state = s]
          BY <2>2, <2>3 DEF TypeOK
    <3> QED BY <2>1, <2>2, <2>3, <3>1 DEF WakeStep, Settles, Wake
  <2>4. CASE v # w
        BY <2>2, <2>4 DEF WakeStep
  <2> QED BY <2>3, <2>4
<1>4. WakeNext => WakeStep(w)
      BY <1>1, <1>2, <1>3, ClaimSteps DEF WakeNext, ListPendingWakes
<1>5. ~WakeNext => UNCHANGED wakes
      BY DEF Next, vars, Tick, LeaseNext, Observe, AcquireLease, RenewLease,
         RenewAgentLease, ReleaseLease, WorkerNext, RegisterWorker, HeartbeatWorker,
         DrainWorker, SetWorker, WithdrawWorker, EvictStaleWorkers
<1> QED BY <1>1, <1>4, <1>5

\* A wake that was completed, failed or cancelled is never touched again.
THEOREM SettledIsFinal == Spec => SettledWakesAreFinal
<1>1. TypeOK /\ [Next]_vars =>
        [\A w \in WakeIds :
           wakes[w].state \in {"completed", "failed", "cancelled"} =>
             wakes'[w] = wakes[w]]_vars
      BY WakeSteps DEF WakeStep, Settles, Requeues, Claims
<1> QED BY <1>1, TypeCorrect, PTL DEF Spec, SettledWakesAreFinal

\* What makes the spacing of claims inductive: a wake is back among the pending
\* after a claim only if that claim went stale.
RequeuedAreStale ==
  \A w \in WakeIds :
    wakes[w].state = "pending" /\ wakes[w].claimAttempts > 0 => ClaimIsStale(w)

\* No step puts a wake back whose claim is not stale.
LEMMA RequeuedStep ==
  ASSUME TypeOK, RequeuedAreStale, [Next]_vars
  PROVE  RequeuedAreStale'
<1> SUFFICES ASSUME NEW w \in WakeIds,
                    wakes'[w].state = "pending", wakes'[w].claimAttempts > 0
             PROVE  ClaimIsStale(w)'
    BY DEF RequeuedAreStale
<1>1. now \in Nat /\ now' \in Nat /\ now' >= now
  <2>1. TypeOK'
        BY TypeStep
  <2> QED BY <2>1, LeaseSteps DEF TypeOK, Acquires
<1>2. wakes[w] \in Wake
      BY DEF TypeOK
<1>3. ASSUME wakes'[w].claimedAt = wakes[w].claimedAt, ClaimIsStale(w)
      PROVE  ClaimIsStale(w)'
  <2>1. PICK stale \in StaleAges : wakes[w].claimedAt + stale <= now
        BY <1>3 DEF ClaimIsStale
  <2>2. stale \in Nat /\ wakes[w].claimedAt \in Nat
        BY <1>2, OrchestrationAssumption DEF Wake
  <2>3. wakes'[w].claimedAt + stale <= now'
        BY <1>1, <1>3, <2>1, <2>2
  <2> QED BY <2>3 DEF ClaimIsStale
<1>4. CASE wakes'[w] = wakes[w]
      BY <1>3, <1>4 DEF RequeuedAreStale
<1>5. CASE Requeues(w)
  <2>1. wakes'[w].claimedAt = wakes[w].claimedAt
        BY <1>2, <1>5 DEF Requeues, Wake
  <2> QED BY <1>3, <1>5, <2>1 DEF Requeues
<1>6. ~Claims(w)
      BY <1>2 DEF Claims, Wake
<1> QED BY <1>4, <1>5, <1>6, WakeSteps DEF WakeStep, Settles

\* No wake is claimed again before its earlier claim is as old as the youngest
\* claim a caller presumes dead.
THEOREM SpacedClaims == Spec => ClaimsAreSpaced
<1>1. Init => RequeuedAreStale
      BY DEF Init, RequeuedAreStale, NoWake
<1>2. Spec => [](TypeOK /\ RequeuedAreStale)
      BY <1>1, TypeCorrect, RequeuedStep, PTL DEF Spec
<1>3. ASSUME TypeOK, RequeuedAreStale, [Next]_vars, NEW w \in WakeIds,
             wakes[w].claimAttempts > 0, wakes'[w].claimAttempts > wakes[w].claimAttempts
      PROVE  ClaimIsStale(w)
  <2>1. wakes[w] \in Wake
        BY <1>3 DEF TypeOK
  <2>2. Requeues(w) => wakes'[w].claimAttempts = wakes[w].claimAttempts
        BY <2>1 DEF Requeues, Wake
  <2>3. WakeStep(w)
        BY <1>3, WakeSteps
  <2>4. wakes[w].claimAttempts \in Nat
        BY <2>1 DEF Wake
  <2>5. Claims(w)
        BY <1>3, <2>2, <2>3, <2>4 DEF WakeStep, Settles
  <2> QED BY <1>3, <2>5 DEF Claims, RequeuedAreStale
<1>4. TypeOK /\ RequeuedAreStale /\ [Next]_vars =>
        [\A w \in WakeIds :
           wakes[w].claimAttempts > 0
             /\ wakes'[w].claimAttempts > wakes[w].claimAttempts =>
               \E stale \in StaleAges : wakes[w].claimedAt + stale <= now]_vars
      BY <1>3 DEF ClaimIsStale
<1> QED BY <1>2, <1>4, PTL DEF Spec, ClaimsAreSpaced

-----------------------------------------------------------------------------
(* The abstract service *)

\* A grant in force is the grant of a live row.
LEMMA GrantsAre ==
  ASSUME NEW g
  PROVE  g \in GrantsInForce <=> \E l \in LeaseIds : Live(l) /\ g = GrantOf(l)
BY DEF GrantsInForce

\* The grants in force are what they were if the live rows are.
LEMMA SameGrants ==
  ASSUME \A l \in LeaseIds : Live(l)' <=> Live(l),
         \A l \in LeaseIds : Live(l) => leases'[l] = leases[l]
  PROVE  GrantsInForce' = GrantsInForce
BY DEF GrantsInForce, GrantOf

\* Reaping touches no live row and makes none live.
LEMMA ReapingIsInvisible ==
  ASSUME TypeOK, now' = now, NEW l \in LeaseIds, leases'[l] = Reaped(now)[l]
  PROVE  /\ Live(l)' <=> Live(l)
         /\ Live(l) => leases'[l] = leases[l]
<1>1. ASSUME Active(l)
      PROVE  leases[l] \in Lease /\ leases[l].expiresAt \in Nat /\ now \in Nat
      BY <1>1 DEF TypeOK, Active, Lease, NoLease
<1>2. CASE l \in Overdue(now)
  <2>1. Active(l) /\ ~Live(l)
        BY <1>1, <1>2 DEF Overdue, Live
  <2>2. leases'[l] = [leases[l] EXCEPT !.state = "expired", !.endedAt = now]
        BY <1>2 DEF Reaped, Expired
  <2>3. ~Active(l)'
        BY <1>1, <2>1, <2>2 DEF Active, Lease
  <2> QED BY <2>1, <2>3 DEF Live
<1>3. CASE l \notin Overdue(now)
      BY <1>3 DEF Reaped, Expired, Live, Active
<1> QED BY <1>2, <1>3

\* The row of a live lease, as the abstract service sees it.
LEMMA LiveRow ==
  ASSUME TypeOK, NEW l \in LeaseIds, Live(l)
  PROVE  /\ leases[l] \in Lease
         /\ GrantOf(l).agent = leases[l].agent
         /\ GrantOf(l).worker = leases[l].worker
         /\ GrantOf(l).until = leases[l].expiresAt
         /\ GrantOf(l) \in GrantsInForce
BY GrantsAre DEF TypeOK, Live, Active, NoLease, GrantOf

\* Two live rows with one grant are one row.
LEMMA GrantsAreDistinct ==
  ASSUME TypeOK, OneActiveLeasePerAgent, NEW k \in LeaseIds, NEW l \in LeaseIds,
         Live(k), Live(l), GrantOf(k) = GrantOf(l)
  PROVE  k = l
BY LiveRow DEF OneActiveLeasePerAgent, Live

\* Observe and every call that reaps and otherwise leaves the leases alone.
LEMMA ReapRefines ==
  ASSUME TypeOK, now' = now, leases' = Reaped(now)
  PROVE  UNCHANGED <<now, GrantsInForce>>
BY ReapingIsInvisible, SameGrants

\* The clock ticks: the grants whose deadline comes are in force no more.
LEMMA TickRefines == TypeOK /\ Tick => Service!Tick
<1> SUFFICES ASSUME TypeOK, Tick PROVE Service!Tick
    OBVIOUS
<1>1. now \in Nat /\ now' = now + 1 /\ leases' = leases
      BY DEF Tick, TypeOK
<1>2. \A l \in LeaseIds : GrantOf(l)' = GrantOf(l)
      BY <1>1 DEF GrantOf
<1>3. \A l \in LeaseIds : Live(l)' <=> Live(l) /\ GrantOf(l).until > now + 1
  <2>1. ASSUME NEW l \in LeaseIds, Active(l)
        PROVE  leases[l].expiresAt \in Nat
        BY <2>1 DEF TypeOK, Active, Lease, NoLease
  <2>2. \A l \in LeaseIds : GrantOf(l).until = leases[l].expiresAt
        BY DEF GrantOf
  <2>3. \A l \in LeaseIds : Live(l)' <=> Active(l) /\ leases[l].expiresAt > now + 1
        BY <1>1 DEF Live, Active
  <2> QED BY <1>1, <2>1, <2>2, <2>3 DEF Live
<1>4. GrantsInForce' = {g \in GrantsInForce : g.until > now + 1}
  <2>1. \A g : g \in GrantsInForce' <=> \E l \in LeaseIds : Live(l)' /\ g = GrantOf(l)'
        BY DEF GrantsInForce
  <2> QED BY <1>2, <1>3, <2>1, GrantsAre
<1> QED BY <1>1, <1>4 DEF Service!Tick

\* acquireLease adds one grant, for an agent that has none.
LEMMA AcquireRefines ==
  ASSUME TypeOK, NEW a \in Agents, NEW h \in Holders, NEW w \in Workers \cup {NoWorker},
         NEW ttl \in Ttls, AcquireLease(a, h, w, ttl)
  PROVE  Service!Grant(a, h, w, ttl)
<1> DEFINE row == [state |-> "active", agent |-> a, holder |-> h, worker |-> w,
                   acquiredAt |-> now, expiresAt |-> now + ttl, endedAt |-> 0]
           grant == [agent |-> a, holder |-> h, worker |-> w, until |-> now + ttl]
<1>1. PICK n \in LeaseIds : /\ leases[n].state = "unused"
                            /\ leases' = [Reaped(now) EXCEPT ![n] = row]
      BY DEF AcquireLease
<1>2. now' = now /\ now \in Nat /\ now + ttl > now
      BY OrchestrationAssumption DEF AcquireLease, TypeOK
<1>3. leases'[n] = row /\ \A k \in LeaseIds \ {n} : leases'[k] = Reaped(now)[k]
      BY <1>1 DEF Reaped, Expired
<1>4. Live(n)' /\ GrantOf(n)' = grant
  <2>1. row.state = "active" /\ row.expiresAt = now + ttl
        OBVIOUS
  <2>2. row.agent = a /\ row.holder = h /\ row.worker = w
        OBVIOUS
  <2> HIDE DEF row
  <2> QED BY <1>2, <1>3, <2>1, <2>2 DEF Live, Active, GrantOf
<1> HIDE DEF row
<1>5. ~Live(n)
      BY <1>1 DEF Live, Active
<1>6. \A k \in LeaseIds \ {n} : /\ Live(k)' <=> Live(k)
                                /\ Live(k) => GrantOf(k)' = GrantOf(k)
      BY <1>2, <1>3, ReapingIsInvisible DEF GrantOf
<1>7. GrantsInForce' = GrantsInForce \cup {grant}
  <2>1. \A g : g \in GrantsInForce' <=> \E l \in LeaseIds : Live(l)' /\ g = GrantOf(l)'
        BY DEF GrantsInForce
  <2> QED BY <1>4, <1>5, <1>6, <2>1, GrantsAre
<1>8. \A g \in GrantsInForce : g.agent # a
      BY GrantsAre, LiveRow DEF AcquireLease
<1> QED BY <1>2, <1>7, <1>8 DEF Service!Grant

\* One row's deadline moves and the others are reaped: one renewal, or nothing
\* at all when the row is not live.
LEMMA ExtendRefines ==
  ASSUME TypeOK, OneActiveLeasePerAgent, NEW ttl \in Ttls, now' = now,
         NEW kept \in SUBSET {l \in LeaseIds : Live(l)},
         \A k, l \in kept : k = l,
         leases' = Extended(kept, ttl)
  PROVE  \/ \E g \in GrantsInForce : Service!Renew(g, ttl)
         \/ UNCHANGED <<now, GrantsInForce>>
<1>1. CASE kept = {}
  <2>1. \A l \in LeaseIds : leases'[l] = Reaped(now)[l]
        BY <1>1 DEF Extended
  <2> QED BY <2>1, ReapingIsInvisible, SameGrants
<1>2. CASE kept # {}
  <2>1. PICK n \in kept : TRUE
        BY <1>2
  <2>2. kept = {n} /\ n \in LeaseIds /\ Live(n)
        BY <2>1
  <2> DEFINE grant == [GrantOf(n) EXCEPT !.until = now + ttl]
  <2>3. now \in Nat /\ now + ttl > now
        BY OrchestrationAssumption DEF TypeOK
  <2>4. leases'[n] = [leases[n] EXCEPT !.expiresAt = now + ttl]
        BY <2>2 DEF Extended
  <2>5. Live(n)' /\ GrantOf(n)' = grant
    <3>1. leases[n] \in Lease /\ leases[n].state = "active"
          BY <2>2, LiveRow DEF Live, Active
    <3> QED BY <2>3, <2>4, <3>1 DEF Live, Active, GrantOf, Lease
  <2>6. \A k \in LeaseIds \ {n} : /\ Live(k)' <=> Live(k)
                                  /\ Live(k) => GrantOf(k)' = GrantOf(k)
    <3>1. \A k \in LeaseIds \ {n} : leases'[k] = Reaped(now)[k]
          BY <2>2 DEF Extended
    <3> QED BY <3>1, ReapingIsInvisible DEF GrantOf
  <2>7. \A k \in LeaseIds \ {n} : Live(k) => GrantOf(k) # GrantOf(n)
        BY <2>2, GrantsAreDistinct
  <2>8. GrantsInForce' = (GrantsInForce \ {GrantOf(n)}) \cup {grant}
    <3>1. \A g : g \in GrantsInForce' <=> \E l \in LeaseIds : Live(l)' /\ g = GrantOf(l)'
          BY DEF GrantsInForce
    <3> HIDE DEF grant
    <3> QED BY <2>2, <2>5, <2>6, <2>7, <3>1, GrantsAre
  <2>9. Service!Renew(GrantOf(n), ttl)
        BY <2>8 DEF Service!Renew
  <2> QED BY <2>2, <2>9, LiveRow
<1> QED BY <1>1, <1>2

\* releaseLease: one release, or nothing at all when the row is not live.
LEMMA ReleaseRefines ==
  ASSUME TypeOK, OneActiveLeasePerAgent, NEW n \in LeaseIds, ReleaseLease(n)
  PROVE  \/ \E g \in GrantsInForce : Service!Release(g)
         \/ UNCHANGED <<now, GrantsInForce>>
<1>1. /\ now' = now
      /\ \A k \in LeaseIds \ {n} : leases'[k] = Reaped(now)[k]
      BY DEF ReleaseLease, Reaped, Expired
<1>2. \A k \in LeaseIds \ {n} : /\ Live(k)' <=> Live(k)
                                /\ Live(k) => leases'[k] = leases[k]
      BY <1>1, ReapingIsInvisible
<1>3. ~Live(n)'
  <2>1. CASE Reaped(now)[n].state = "active"
    <3>1. Reaped(now)[n] = leases[n] /\ leases[n] \in Lease
          BY <2>1 DEF Reaped, Expired, Overdue, Active, TypeOK, Lease, NoLease
    <3>2. leases'[n] = [leases[n] EXCEPT !.state = "released", !.endedAt = now]
          BY <2>1, <3>1 DEF ReleaseLease, Reaped, Expired
    <3> QED BY <3>1, <3>2 DEF Live, Active, Lease
  <2>2. CASE Reaped(now)[n].state # "active"
        BY <2>2 DEF ReleaseLease, Reaped, Expired, Live, Active
  <2> QED BY <2>1, <2>2
<1>4. CASE ~Live(n)
      BY <1>1, <1>2, <1>3, <1>4, SameGrants
<1>5. CASE Live(n)
  <2>1. \A k \in LeaseIds \ {n} : Live(k) => GrantOf(k) # GrantOf(n)
        BY <1>5, GrantsAreDistinct
  <2>2. GrantsInForce' = GrantsInForce \ {GrantOf(n)}
    <3>1. \A g : g \in GrantsInForce' <=> \E l \in LeaseIds : Live(l)' /\ g = GrantOf(l)'
          BY DEF GrantsInForce
    <3>2. \A k \in LeaseIds \ {n} : Live(k) => GrantOf(k)' = GrantOf(k)
          BY <1>2 DEF GrantOf
    <3> QED BY <1>2, <1>3, <2>1, <3>1, <3>2, GrantsAre
  <2>3. Service!Release(GrantOf(n))
        BY <1>1, <2>2 DEF Service!Release
  <2> QED BY <1>5, <2>3, LiveRow
<1> QED BY <1>4, <1>5

\* Withdrawal and eviction revoke the grants of the workers that leave.
LEMMA RevokeRefines ==
  ASSUME TypeOK, NEW gone \in SUBSET Workers, now' = now,
         leases' = ReapedAndReleased(gone)
  PROVE  Service!Revoke(gone)
<1> DEFINE closed == {l \in LeaseIds : Active(l) /\ leases[l].worker \in gone}
<1>1. ASSUME NEW l \in LeaseIds, l \in closed
      PROVE  ~Live(l)'
  <2>1. leases[l] \in Lease
        BY <1>1 DEF TypeOK, Active, NoLease
  <2>2. leases'[l] = [leases[l] EXCEPT !.state = "expired", !.endedAt = now]
        BY <1>1 DEF ReapedAndReleased, Expired
  <2> QED BY <2>1, <2>2 DEF Live, Active, Lease
<1>2. ASSUME NEW l \in LeaseIds, l \notin closed
      PROVE  /\ Live(l)' <=> Live(l)
             /\ Live(l) => leases'[l] = leases[l]
  <2>1. leases'[l] = Reaped(now)[l]
        BY <1>2 DEF ReapedAndReleased, Reaped, Expired
  <2> QED BY <2>1, ReapingIsInvisible
<1>3. \A l \in LeaseIds : Live(l) => (l \in closed <=> GrantOf(l).worker \in gone)
      BY LiveRow DEF Live
<1> HIDE DEF closed
<1>4. \A l \in LeaseIds : Live(l)' <=> Live(l) /\ GrantOf(l).worker \notin gone
      BY <1>1, <1>2, <1>3
<1>5. \A l \in LeaseIds : Live(l)' => GrantOf(l)' = GrantOf(l)
      BY <1>1, <1>2 DEF GrantOf
<1>6. GrantsInForce' = {g \in GrantsInForce : g.worker \notin gone}
  <2>1. \A g : g \in GrantsInForce' <=> \E l \in LeaseIds : Live(l)' /\ g = GrantOf(l)'
        BY DEF GrantsInForce
  <2> QED BY <1>4, <1>5, <2>1, GrantsAre
<1> QED BY <1>6 DEF Service!Revoke

\* Every step of the table is one step of the service, or none.
LEMMA ServiceStep ==
  ASSUME Lookaheads \subseteq {0}, TypeOK, OneActiveLeasePerAgent, [Next]_vars
  PROVE  [Service!Next]_<<now, GrantsInForce>>
<1>0. now \in Nat
      BY DEF TypeOK
<1>1. CASE UNCHANGED vars
  <2>1. now' = now /\ leases' = leases
        BY <1>1 DEF vars
  <2>2. \A l \in LeaseIds : Live(l)' <=> Live(l)
        BY <2>1 DEF Live, Active
  <2> QED BY <2>1, <2>2, SameGrants
<1>2. CASE Tick
      BY <1>2, TickRefines DEF Service!Next
<1>3. ASSUME leases' = Reaped(now), now' = now
      PROVE  UNCHANGED <<now, GrantsInForce>>
      BY <1>3, ReapRefines
<1>4. CASE LeaseNext
  <2>1. CASE Observe
        BY <1>3, <2>1 DEF Observe
  <2>2. ASSUME NEW a \in Agents, NEW h \in Holders, NEW w \in Workers \cup {NoWorker},
               NEW ttl \in Ttls, AcquireLease(a, h, w, ttl)
        PROVE  Service!Next
        BY <2>2, AcquireRefines DEF Service!Next
  <2>3. ASSUME NEW l \in LeaseIds, NEW ttl \in Ttls, RenewLease(l, ttl)
        PROVE  [Service!Next]_<<now, GrantsInForce>>
    <3>1. {k \in {l} : Live(k)} \in SUBSET {k \in LeaseIds : Live(k)}
          OBVIOUS
    <3> QED BY <2>3, <3>1, ExtendRefines DEF RenewLease, Service!Next
  <2>4. ASSUME NEW a \in Agents, NEW h \in Holders, NEW ttl \in Ttls,
               RenewAgentLease(a, h, ttl)
        PROVE  [Service!Next]_<<now, GrantsInForce>>
    <3> DEFINE kept == {l \in LeaseIds : /\ Live(l)
                                         /\ leases[l].agent = a
                                         /\ leases[l].holder = h}
    <3>1. kept \in SUBSET {k \in LeaseIds : Live(k)}
          OBVIOUS
    <3>2. \A k, l \in kept : k = l
          BY DEF OneActiveLeasePerAgent, Live
    <3>3. leases' = Extended(kept, ttl) /\ now' = now
          BY <2>4 DEF RenewAgentLease
    <3> HIDE DEF kept
    <3> QED BY <3>1, <3>2, <3>3, ExtendRefines DEF Service!Next
  <2>5. ASSUME NEW l \in LeaseIds, ReleaseLease(l)
        PROVE  [Service!Next]_<<now, GrantsInForce>>
        BY <2>5, ReleaseRefines DEF Service!Next
  <2> QED BY <1>4, <2>1, <2>2, <2>3, <2>4, <2>5 DEF LeaseNext
<1>5. CASE WakeNext
  <2>1. ASSUME NEW ahead \in Lookaheads, ListPendingWakes(ahead)
        PROVE  leases' = Reaped(now) /\ now' = now
        BY <1>0, <2>1 DEF ListPendingWakes
  <2>2. leases' = Reaped(now) /\ now' = now
        BY <1>5, <2>1 DEF WakeNext, ScheduleWake, CancelWake, CompleteWake, FailWake,
                          SetWake, ClaimDueWakes
  <2> QED BY <1>3, <2>2
<1>6. CASE WorkerNext
  <2>1. ASSUME NEW gone \in SUBSET Workers, now' = now, leases' = ReapedAndReleased(gone)
        PROVE  Service!Next
        BY <2>1, RevokeRefines DEF Service!Next
  <2>2. ASSUME NEW w \in Workers, WithdrawWorker(w)
        PROVE  Service!Next
        BY <2>1, <2>2 DEF WithdrawWorker
  <2>3. EvictStaleWorkers => Service!Next
        BY <2>1 DEF EvictStaleWorkers
  <2>4. CASE ~EvictStaleWorkers /\ ~\E w \in Workers : WithdrawWorker(w)
    <3>1. leases' = Reaped(now) /\ now' = now
          BY <1>6, <2>4 DEF WorkerNext, RegisterWorker, HeartbeatWorker, DrainWorker, SetWorker
    <3> QED BY <1>3, <3>1
  <2> QED BY <2>2, <2>3, <2>4
<1> QED BY <1>1, <1>2, <1>4, <1>5, <1>6 DEF Next

\* As long as every caller reaps with the time it is, the table implements the
\* abstract lease service.
THEOREM ServiceRefinement ==
  ASSUME Lookaheads \subseteq {0}
  PROVE  Spec => ImplementsLeaseService
<1>1. Init => Service!Init
      BY DEF Init, Service!Init, GrantsInForce, Live, Active, NoLease
<1>2. TypeOK /\ OneActiveLeasePerAgent /\ [Next]_vars =>
        [Service!Next]_<<now, GrantsInForce>>
      BY ServiceStep
<1> QED BY <1>1, <1>2, TypeCorrect, LeaseExclusion, PTL
        DEF Spec, ImplementsLeaseService, Service!Spec

=============================================================================
