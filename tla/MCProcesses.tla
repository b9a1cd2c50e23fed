---------------------------- MODULE MCProcesses -----------------------------
(***************************************************************************)
(* Small instances for TLC of what processes share: the leases under which *)
(* hosts mount an agent (Supervisor), and a database file (SqliteStore).   *)
(*                                                                         *)
(* `chosen` says which of the two a behaviour is of; the other one stays   *)
(* as it is, so that their states add up instead of being multiplied.  The *)
(* supervisors are looked at twice: hosts that await each call, and one    *)
(* host whose calls overlap.                                               *)
(***************************************************************************)
EXTENDS Supervisor, TLC

CONSTANTS
  MaxOverlapping,  \* bound: leases of the host whose calls overlap
  OneHost, OneSlot, p, q, t1, t2, u1, u2, leaseRow, wakeRow,
  Processes, NoProcess, Rows, Txns, ProcessOf, Touches

\* Two calls of each process; every two of the calls share a row.
TwoCallsEach == t1 :> p @@ t2 :> p @@ u1 :> q @@ u2 :> q

SharedRows ==
  t1 :> {leaseRow} @@ t2 :> {leaseRow, wakeRow} @@ u1 :> {leaseRow, wakeRow} @@ u2 :> {wakeRow}

ASSUME ProcessesAssumption ==
  /\ MaxLeases \in Nat \ {0} /\ MaxOverlapping \in Nat
  /\ OneHost \in Supervisors /\ OneSlot \in Slots
  /\ NoProcess \notin Processes
  /\ ProcessOf \in [Txns -> Processes]
  /\ Touches \in [Txns -> SUBSET Rows]

VARIABLES chosen, rows, writer, pc, before, cause

F == INSTANCE SqliteStore

storeVars == <<rows, writer, pc, before, cause>>
processesVars == <<chosen, vars, storeVars>>

\* The calls that a behaviour is of.
Made ==
  CASE chosen = "awaited"     -> Supervisors \X {OneSlot}
    [] chosen = "overlapping" -> {OneHost} \X Slots
    [] chosen = "store"       -> {}

ProcessesInit ==
  /\ chosen \in {"store", "awaited", "overlapping"}
  /\ Init /\ F!Init

ProcessesNext ==
  /\ UNCHANGED chosen
  /\ \/ chosen = "store" /\ F!Next /\ UNCHANGED vars
     \/ /\ chosen # "store"
        /\ (\E c \in Made : Moves(c)) \/ Happens
        /\ chosen = "overlapping" => \A l \in Leases : l > MaxOverlapping => lease'[l] = "unused"
        /\ UNCHANGED storeVars

\* The fairness of the supervisors: of the calls in flight of a process one goes
\* on, and its renewal timer fires.
SupervisorFairness ==
  \A s \in Supervisors :
    /\ WF_vars(\E c \in Made : c[1] = s /\ Step(c))
    /\ WF_vars(\E c \in Made : c[1] = s /\ BeginRenew(c))

ProcessesSpec == ProcessesInit /\ [][ProcessesNext]_processesVars /\ SupervisorFairness

-----------------------------------------------------------------------------
(* The property of the store; those of the supervisors are checked by name *)
(* of their own module.                                                    *)

\* transact lands as a whole on the latest state, or leaves no trace.
ImplementsAtomicStore == F!ImplementsAtomicStore

=============================================================================
