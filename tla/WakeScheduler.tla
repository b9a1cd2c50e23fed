--------------------------- MODULE WakeScheduler ---------------------------
(***************************************************************************)
(* ManagedRuntimeWakeScheduler (packages/runtime/src/scheduler.ts) as      *)
(* a8s-server runs it: several processes share the wake table, each tick   *)
(* claims a batch and handles it one wake at a time, and a process may     *)
(* crash between any two awaits.                                           *)
(*                                                                         *)
(* The table operations are those of module Orchestration.  Time is        *)
(* reduced to the two facts they ask about: whether a wake is due, and     *)
(* whether a claim is older than staleClaimedMs.                           *)
(***************************************************************************)
EXTENDS Integers, FiniteSets

CONSTANTS
  Schedulers,  \* processes with a wake scheduler on the shared store
  Wakes,       \* pool of wake ids
  NoWake,      \* no wake at hand
  Limit,       \* claimLimit of each scheduler
  MaxClaims,   \* bound: how often one wake can be claimed
  MaxFaults    \* bound: crashes, failed transactions and overslow handlers

VARIABLES
  requeues,    \* whether staleClaimedMs is set (a8s-server leaves it unset)
  state,       \* wake.state
  due,         \* wakes with dueAt <= now
  stale,       \* claimed wakes with claimedAt + staleClaimedMs <= now
  claims,      \* wake.claimAttempts
  deliveries,  \* how often onWake reached the agent's worker
  pc,          \* where each scheduler's tick stands
  batch,       \* the claimed wakes its tick has not handled yet
  current,     \* the wake its handleWake is about
  faults       \* faults so far

table == <<state, due, stale, claims>>
vars == <<requeues, state, due, stale, claims, deliveries, pc, batch, current, faults>>

WakeStates == {"unused", "pending", "claimed", "completed", "failed", "cancelled"}
Settled == {"completed", "failed", "cancelled"}
Steps == {"down", "idle", "next", "deliver", "complete", "fail"}

Init ==
  /\ requeues \in BOOLEAN
  /\ state = [w \in Wakes |-> "unused"]
  /\ due = {}
  /\ stale = {}
  /\ claims = [w \in Wakes |-> 0]
  /\ deliveries = [w \in Wakes |-> 0]
  /\ pc = [p \in Schedulers |-> "idle"]
  /\ batch = [p \in Schedulers |-> {}]
  /\ current = [p \in Schedulers |-> NoWake]
  /\ faults = 0

-----------------------------------------------------------------------------
(* The callers of the table, and time *)

ScheduleWake(w) ==
  /\ state[w] = "unused"
  /\ state' = [state EXCEPT ![w] = "pending"]
  /\ UNCHANGED <<requeues, due, stale, claims, deliveries, pc, batch, current, faults>>

\* Fault: a claimed wake can be cancelled.
CancelWake_Claimed(w) ==
  /\ state[w] \in {"pending", "claimed"}
  /\ state' = [state EXCEPT ![w] = "cancelled"]
  /\ UNCHANGED <<requeues, due, stale, claims, deliveries, pc, batch, current, faults>>

CancelWake(w) ==
  /\ state[w] = "pending"
  /\ state' = [state EXCEPT ![w] = "cancelled"]
  /\ UNCHANGED <<requeues, due, stale, claims, deliveries, pc, batch, current, faults>>

BecomeDue(w) ==
  /\ w \notin due
  /\ due' = due \cup {w}
  /\ UNCHANGED <<requeues, state, stale, claims, deliveries, pc, batch, current, faults>>

\* The scheduler that holds w, if any still does.
Holding(w) == {p \in Schedulers : w \in batch[p]}

\* A claim outlives staleClaimedMs.  When a scheduler is still at work on it
\* this is a fault of its own: the handler is slower than staleClaimedMs.
GrowStale(w) ==
  /\ state[w] = "claimed" /\ w \notin stale
  /\ \/ Holding(w) = {} /\ faults' = faults
     \/ Holding(w) # {} /\ faults < MaxFaults /\ faults' = faults + 1
  /\ stale' = stale \cup {w}
  /\ UNCHANGED <<requeues, state, due, claims, deliveries, pc, batch, current>>

-----------------------------------------------------------------------------
(* One scheduler *)

\* claimDueWakes: stale claims go back to pending first, when so configured,
\* then up to Limit[p] due wakes are claimed.  An empty batch ends the tick.
Tick(p) ==
  LET requeued == IF requeues THEN {w \in stale : state[w] = "claimed"} ELSE {}
      ready == {w \in due : state[w] = "pending" \/ w \in requeued}
  IN  \E b \in SUBSET ready :
        /\ pc[p] = "idle"
        /\ b # {} \/ requeued # {}
        /\ Cardinality(b) = IF Cardinality(ready) < Limit[p] THEN Cardinality(ready)
                            ELSE Limit[p]
        /\ \A w \in b : claims[w] < MaxClaims
        /\ state' = [w \in Wakes |-> IF w \in b THEN "claimed"
                                     ELSE IF w \in requeued THEN "pending"
                                     ELSE state[w]]
        /\ claims' = [w \in Wakes |-> IF w \in b THEN claims[w] + 1 ELSE claims[w]]
        /\ stale' = stale \ (b \cup requeued)
        /\ batch' = [batch EXCEPT ![p] = b]
        /\ pc' = [pc EXCEPT ![p] = IF b = {} THEN "idle" ELSE "next"]
        /\ UNCHANGED <<requeues, due, deliveries, current, faults>>

\* The for loop takes the next wake of the batch, or the tick ends.
TakeNext(p) ==
  /\ pc[p] = "next"
  /\ \/ \E w \in batch[p] :
          /\ current' = [current EXCEPT ![p] = w]
          /\ pc' = [pc EXCEPT ![p] = "deliver"]
     \/ /\ batch[p] = {}
        /\ current' = [current EXCEPT ![p] = NoWake]
        /\ pc' = [pc EXCEPT ![p] = "idle"]
  /\ UNCHANGED <<requeues, table, deliveries, batch, faults>>

\* onWake (deliverWake): the prompt reaches the worker, or not; the call
\* resolves, or throws: no location, no token, an HTTP error, a lost answer.
Deliver(p) ==
  /\ pc[p] = "deliver"
  /\ \E reached, resolved \in BOOLEAN :
       /\ resolved => reached
       /\ deliveries' = IF reached
                        THEN [deliveries EXCEPT ![current[p]] = @ + 1]
                        ELSE deliveries
       /\ pc' = [pc EXCEPT ![p] = IF resolved THEN "complete" ELSE "fail"]
  /\ UNCHANGED <<requeues, table, batch, current, faults>>

\* Fault: a settled wake still looks like a claim that grows old.
Settle_KeepsClaim(p, how) ==
  LET w == current[p]
  IN  /\ state' = [state EXCEPT ![w] = IF @ = "claimed" THEN how ELSE @]
      /\ batch' = [batch EXCEPT ![p] = @ \ {w}]
      /\ pc' = [pc EXCEPT ![p] = "next"]
      /\ UNCHANGED <<requeues, due, stale, claims, deliveries, current, faults>>

\* completeWake and failWake act only on a wake that is claimed, by whomever.
Settle(p, how) ==
  LET w == current[p]
  IN  /\ state' = [state EXCEPT ![w] = IF @ = "claimed" THEN how ELSE @]
      /\ stale' = stale \ {w}
      /\ batch' = [batch EXCEPT ![p] = @ \ {w}]
      /\ pc' = [pc EXCEPT ![p] = "next"]
      /\ UNCHANGED <<requeues, due, claims, deliveries, current, faults>>

Complete(p) == pc[p] = "complete" /\ Settle(p, "completed")

Fail(p) == pc[p] = "fail" /\ Settle(p, "failed")

\* Fault: a failed completion is retried from the delivery on.
CompleteThrows_DeliversAgain(p) ==
  /\ pc[p] = "complete"
  /\ faults < MaxFaults
  /\ faults' = faults + 1
  /\ pc' = [pc EXCEPT ![p] = "deliver"]
  /\ UNCHANGED <<requeues, table, deliveries, batch, current>>

\* The completeWake transaction throws, and the catch block fails a wake that
\* was delivered.
CompleteThrows(p) ==
  /\ pc[p] = "complete"
  /\ faults < MaxFaults
  /\ faults' = faults + 1
  /\ pc' = [pc EXCEPT ![p] = "fail"]
  /\ UNCHANGED <<requeues, table, deliveries, batch, current>>

\* Fault: no finally block, and the scheduler believes its tick still runs.
FailThrows_StillTicking(p) ==
  /\ pc[p] = "fail"
  /\ faults < MaxFaults
  /\ faults' = faults + 1
  /\ pc' = [pc EXCEPT ![p] = "ticking"]
  /\ batch' = [batch EXCEPT ![p] = {}]
  /\ current' = [current EXCEPT ![p] = NoWake]
  /\ UNCHANGED <<requeues, table, deliveries>>

\* failWake throws out of handleWake: the finally block ends the tick and the
\* rest of the batch stays claimed with nobody at work on it.
FailThrows(p) ==
  /\ pc[p] = "fail"
  /\ faults < MaxFaults
  /\ faults' = faults + 1
  /\ pc' = [pc EXCEPT ![p] = "idle"]
  /\ batch' = [batch EXCEPT ![p] = {}]
  /\ current' = [current EXCEPT ![p] = NoWake]
  /\ UNCHANGED <<requeues, table, deliveries>>

\* The process dies and comes back with an empty scheduler.
Crash(p) ==
  /\ pc[p] # "down"
  /\ faults < MaxFaults
  /\ faults' = faults + 1
  /\ pc' = [pc EXCEPT ![p] = "down"]
  /\ batch' = [batch EXCEPT ![p] = {}]
  /\ current' = [current EXCEPT ![p] = NoWake]
  /\ UNCHANGED <<requeues, table, deliveries>>

Restart(p) ==
  /\ pc[p] = "down"
  /\ pc' = [pc EXCEPT ![p] = "idle"]
  /\ UNCHANGED <<requeues, table, deliveries, batch, current, faults>>

-----------------------------------------------------------------------------

Work(p) == Tick(p) \/ TakeNext(p) \/ Deliver(p) \/ Complete(p) \/ Fail(p) \/ Restart(p)

Next ==
  \/ \E w \in Wakes : ScheduleWake(w) \/ CancelWake(w) \/ BecomeDue(w) \/ GrowStale(w)
  \/ \E p \in Schedulers : Work(p) \/ CompleteThrows(p) \/ FailThrows(p) \/ Crash(p)

\* setInterval keeps ticking and awaited calls return; time passes.  Nothing
\* is assumed about new wakes, cancellations or faults.
Fairness ==
  /\ \A p \in Schedulers : WF_vars(Work(p))
  /\ \A w \in Wakes : WF_vars(BecomeDue(w)) /\ WF_vars(GrowStale(w) /\ Holding(w) = {})

Spec == Init /\ [][Next]_vars /\ Fairness

-----------------------------------------------------------------------------
(* Properties *)

\* The variables hold what the code can put there.
TypeOK ==
  /\ requeues \in BOOLEAN
  /\ state \in [Wakes -> WakeStates]
  /\ due \subseteq Wakes
  /\ stale \subseteq {w \in Wakes : state[w] = "claimed"}
  /\ claims \in [Wakes -> 0 .. MaxClaims]
  /\ deliveries \in [Wakes -> Nat]
  /\ pc \in [Schedulers -> Steps]
  /\ batch \in [Schedulers -> SUBSET Wakes]
  /\ current \in [Schedulers -> Wakes \cup {NoWake}]
  /\ \A p \in Schedulers :
       pc[p] \in {"deliver", "complete", "fail"} => current[p] \in batch[p]
  /\ faults \in 0 .. MaxFaults

\* A claim buys at most one delivery, through crashes, throwing transactions
\* and several schedulers; so without staleClaimedMs a wake reaches its agent
\* at most once.
OneDeliveryPerClaim ==
  \A w \in Wakes :
    /\ deliveries[w] <= claims[w]
    /\ ~requeues => claims[w] <= 1

\* A wake is marked completed only after it reached its agent, even when the
\* claim that is completed is no longer the claim that was delivered.
CompletedWasDelivered ==
  \A w \in Wakes : state[w] = "completed" => deliveries[w] > 0

\* Without staleClaimedMs nothing is delivered that was cancelled, settled or
\* taken back in the meantime: a claim is the right to deliver.
DeliveredWhileClaimed ==
  [][\A w \in Wakes :
       ~requeues /\ deliveries'[w] > deliveries[w] => state[w] = "claimed"]_vars

\* With staleClaimedMs every wake is settled in the end, as long as faults end
\* before the claim budget of the wake does.
EveryWakeSettles ==
  <>[](\A w \in Wakes : requeues /\ state[w] # "unused" => state[w] \in Settled)

=============================================================================
