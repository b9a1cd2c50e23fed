---------------------------- MODULE SqliteStore ----------------------------
(***************************************************************************)
(* SqliteRuntimeOrchestrationStore.transact                                *)
(* (packages/runtime-sqlite/src/store.ts:443-465): the processes of one    *)
(* machine share a database file, each over one connection.  A mutator is  *)
(* asynchronous, so a transaction stays open across an await, and other    *)
(* calls of the same process run meanwhile on the same connection.         *)
(*                                                                         *)
(* SQLite is modelled by what the code uses of it: BEGIN IMMEDIATE takes   *)
(* the only write lock, blocks while another connection has it (up to      *)
(* busy_timeout) and throws inside a transaction of its own connection;    *)
(* COMMIT and ROLLBACK throw outside one; a statement outside a            *)
(* transaction commits by itself; a dead process loses its transaction.    *)
(***************************************************************************)
EXTENDS Integers

CONSTANTS
  Processes,  \* processes with the database open
  NoProcess,  \* nobody
  Rows,       \* rows of the three tables
  Txns,       \* calls of transact
  ProcessOf,  \* the process that makes each call
  Touches     \* the rows its mutator changes

VARIABLES
  rows,    \* what is committed
  writer,  \* the connection inside BEGIN IMMEDIATE ... COMMIT
  pc,      \* where each call of transact stands
  before,  \* its baseline, the rows readSnapshot saw
  cause    \* why it was rejected

vars == <<rows, writer, pc, before, cause>>

Steps == {"called", "mutating", "landed", "rejected"}
Causes == {"none", "nested", "busy", "mutator", "crash", "commit"}

Table == [Rows -> Nat]

\* The mutator's change on a clone of the baseline.
After(t) ==
  [r \in Rows |-> IF r \in Touches[t] THEN before[t][r] + 1 ELSE before[t][r]]

\* applyDiff: one statement for each row that differs from the baseline.
ApplyDiff(t) ==
  [r \in Rows |-> IF After(t)[r] # before[t][r] THEN After(t)[r] ELSE rows[r]]

Init ==
  /\ rows = [r \in Rows |-> 0]
  /\ writer = NoProcess
  /\ pc = [t \in Txns |-> "called"]
  /\ before = [t \in Txns |-> [r \in Rows |-> 0]]
  /\ cause = [t \in Txns |-> "none"]

-----------------------------------------------------------------------------

Reject(t, why) ==
  /\ pc' = [pc EXCEPT ![t] = "rejected"]
  /\ cause' = [cause EXCEPT ![t] = why]

\* BEGIN IMMEDIATE, readSnapshot, and the mutator up to its first await.
Begin(t) ==
  /\ pc[t] = "called"
  /\ writer = NoProcess
  /\ writer' = ProcessOf[t]
  /\ before' = [before EXCEPT ![t] = rows]
  /\ pc' = [pc EXCEPT ![t] = "mutating"]
  /\ UNCHANGED <<rows, cause>>

\* Fault: BEGIN inside the try block, whose ROLLBACK ends the transaction of
\* the other call.
BeginNested_RollsBack(t) ==
  /\ pc[t] = "called"
  /\ writer = ProcessOf[t]
  /\ writer' = NoProcess
  /\ Reject(t, "nested")
  /\ UNCHANGED <<rows, before>>

\* The connection is inside a transaction already, left open by a call that
\* awaits its mutator.  The throw happens before the try block.
BeginNested(t) ==
  /\ pc[t] = "called"
  /\ writer = ProcessOf[t]
  /\ Reject(t, "nested")
  /\ UNCHANGED <<rows, writer, before>>

\* Another process keeps the lock for longer than busy_timeout.
BeginBusy(t) ==
  /\ pc[t] = "called"
  /\ writer \notin {NoProcess, ProcessOf[t]}
  /\ Reject(t, "busy")
  /\ UNCHANGED <<rows, writer, before>>

\* The mutator resolves: applyDiff and COMMIT run without an await.  Outside
\* a transaction the statements would stand and COMMIT would throw.
Commit(t) ==
  /\ pc[t] = "mutating"
  /\ rows' = ApplyDiff(t)
  /\ IF writer = ProcessOf[t]
     THEN /\ writer' = NoProcess
          /\ pc' = [pc EXCEPT ![t] = "landed"]
          /\ cause' = cause
     ELSE Reject(t, "commit") /\ writer' = writer
  /\ UNCHANGED before

\* The mutator throws, or a statement or COMMIT does: the catch block's
\* ROLLBACK ends whatever transaction the connection is in.
Rollback(t) ==
  /\ pc[t] = "mutating"
  /\ writer' = IF writer = ProcessOf[t] THEN NoProcess ELSE writer
  /\ Reject(t, "mutator")
  /\ UNCHANGED <<rows, before>>

\* The process dies, between two statements as well as between two awaits.
Crash(p) ==
  LET lost == {t \in Txns : ProcessOf[t] = p /\ pc[t] = "mutating"}
  IN  /\ writer' = IF writer = p THEN NoProcess ELSE writer
      /\ pc' = [t \in Txns |-> IF t \in lost THEN "rejected" ELSE pc[t]]
      /\ cause' = [t \in Txns |-> IF t \in lost THEN "crash" ELSE cause[t]]
      /\ UNCHANGED <<rows, before>>

Next ==
  \/ \E t \in Txns :
       Begin(t) \/ BeginNested(t) \/ BeginBusy(t) \/ Commit(t) \/ Rollback(t)
  \/ \E p \in Processes : Crash(p)

Spec == Init /\ [][Next]_vars

-----------------------------------------------------------------------------
(* Properties *)

\* The variables hold what the code can put there.
TypeOK ==
  /\ rows \in Table
  /\ writer \in Processes \cup {NoProcess}
  /\ pc \in [Txns -> Steps]
  /\ before \in [Txns -> Table]
  /\ cause \in [Txns -> Causes]

\* The write lock is held exactly while one call awaits its mutator: no path
\* through an error or a crash leaves a transaction open, which would block
\* every process and fail every later call of this one.
NoTransactionLeftOpen ==
  writer # NoProcess =>
    \E t \in Txns : ProcessOf[t] = writer /\ pc[t] = "mutating"

\* What each call amounts to for its caller.
Outcome ==
  [t \in Txns |-> IF pc[t] \in {"landed", "rejected"} THEN pc[t] ELSE "open"]

Atomic == INSTANCE AtomicStore WITH outcome <- Outcome

\* transact keeps the promise of RuntimeOrchestrationStore: a call lands as a
\* whole on the latest state, or it is rejected and leaves no trace.
ImplementsAtomicStore == Atomic!Spec

=============================================================================
