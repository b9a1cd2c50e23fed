---------------------------- MODULE AtomicStore ----------------------------
(***************************************************************************)
(* What RuntimeOrchestrationStore.transact promises                        *)
(* (packages/runtime/src/orchestration-store.ts:51-62): a transaction sees *)
(* the current state and lands as a whole before another one starts, or it *)
(* is rejected and nothing of it lands.                                    *)
(*                                                                         *)
(* A transaction t increments each row of Touches[t], so that the rows     *)
(* tell how many transactions landed on them and a lost one would show.    *)
(***************************************************************************)
EXTENDS Integers

CONSTANTS Rows, Txns, Touches

VARIABLES
  rows,    \* the durable rows
  outcome  \* what became of each transaction

Landing(t, from) == [r \in Rows |-> IF r \in Touches[t] THEN from[r] + 1 ELSE from[r]]

Init ==
  /\ rows = [r \in Rows |-> 0]
  /\ outcome = [t \in Txns |-> "open"]

Land(t) ==
  /\ outcome[t] = "open"
  /\ outcome' = [outcome EXCEPT ![t] = "landed"]
  /\ rows' = Landing(t, rows)

\* Several may be rejected at once: the transactions of a process that dies.
Reject(failed) ==
  /\ \A t \in failed : outcome[t] = "open"
  /\ outcome' = [t \in Txns |-> IF t \in failed THEN "rejected" ELSE outcome[t]]
  /\ rows' = rows

Next ==
  \/ \E t \in Txns : Land(t)
  \/ \E failed \in SUBSET Txns : Reject(failed)

Spec == Init /\ [][Next]_<<rows, outcome>>

=============================================================================
