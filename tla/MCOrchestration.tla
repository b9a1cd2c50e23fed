-------------------------- MODULE MCOrchestration --------------------------
(***************************************************************************)
(* Small instances of Orchestration for TLC.                               *)
(*                                                                         *)
(* Leases and wakes are rows of one snapshot, but an operation on wakes    *)
(* only reaps leases, as listing them does.  ApartSpec is of behaviours    *)
(* with rows of one kind, so that states add up instead of being           *)
(* multiplied.                                                             *)
(***************************************************************************)
EXTENDS Orchestration, TLC

CONSTANT LeaseTime  \* bound: the clock stops here where there are no wakes

NoLeases ==
  /\ leases = [l \in LeaseIds |-> NoLease]
  /\ workers = [w \in Workers |-> NeverRegistered]

NoWakes == wakes = [k \in WakeIds |-> NoWake]

ApartNext ==
  \/ /\ NoWakes
     /\ \/ Tick \/ LeaseNext \/ WorkerNext
        \/ \E ahead \in Lookaheads : ListPendingWakes(ahead)
     /\ now' <= LeaseTime
  \/ NoLeases /\ (Tick \/ WakeNext)

ApartSpec == Init /\ [][ApartNext]_vars

Symmetry ==
  Permutations(Agents) \cup Permutations(Holders) \cup Permutations(Workers)
    \cup Permutations(LeaseIds) \cup Permutations(WakeIds)

=============================================================================
