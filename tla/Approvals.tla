----------------------------- MODULE Approvals ------------------------------
(***************************************************************************)
(* The tool guard of safety mode `auto` (packages/safe/src): a classifier  *)
(* with backpressure (classifier/transcript-classifier.ts), a human behind *)
(* it (guards/ask-list.ts, managed-guard.ts), and the broker that holds    *)
(* the questions (approval-broker.ts).                                     *)
(*                                                                         *)
(* The calls of one session; the guards of one response run side by side.  *)
(* What the classifier reads and says is left out, and so are the two      *)
(* pattern guards in front of it, which keep no state.                     *)
(***************************************************************************)
EXTENDS Integers, FiniteSets

CONSTANTS
  Calls,
  Listed,          \* calls of a tool in hitlTools
  Parallel,        \* bound: guards that run at once
  Bridge,          \* whether the host installed one
  GuardTimeout,    \* whether the guard waits for a limited time
  BrokerTimeout,   \* whether the broker keeps a question for a limited time
  MaxConsecutive,  \* maxConsecutiveDenials
  MaxTotal         \* maxTotalDenials

VARIABLES
  call,         \* where the guard of each call is
  consecutive,  \* consecutiveDenials
  total,        \* totalDenials
  pending       \* questions the broker holds

vars == <<call, consecutive, total, pending>>

Init ==
  /\ call = [c \in Calls |-> "new"]
  /\ consecutive = 0
  /\ total = 0
  /\ pending = {}

InFlight == {c \in Calls : call[c] \in {"classify", "asked"}}

Decide(c, decision) == call' = [call EXCEPT ![c] = decision]

-----------------------------------------------------------------------------

\* askList, the fallback of the classifier: a tool that is not listed goes
\* through, and without a bridge nothing listed does.
AskHuman(c) ==
  IF c \notin Listed THEN Decide(c, "allow") /\ UNCHANGED pending
  ELSE IF ~Bridge THEN Decide(c, "deny") /\ UNCHANGED pending
  ELSE Decide(c, "asked") /\ pending' = pending \cup {c}

\* Fault: the limits are one too high.
Escalates_OneMore == consecutive > MaxConsecutive \/ total > MaxTotal

Escalates == consecutive >= MaxConsecutive \/ total >= MaxTotal

\* The guard looks at the counters, before it awaits the classifier.
Guard(c) ==
  /\ call[c] = "new"
  /\ Cardinality(InFlight) < Parallel
  /\ IF Escalates THEN AskHuman(c) ELSE Decide(c, "classify") /\ UNCHANGED pending
  /\ UNCHANGED <<consecutive, total>>

\* The classifier answers, in one stage or two.
Classified(c) ==
  /\ call[c] = "classify"
  /\ \/ /\ Decide(c, "deny")
        /\ consecutive' = consecutive + 1
        /\ total' = total + 1
     \/ /\ Decide(c, "allow")
        /\ consecutive' = 0
        /\ UNCHANGED total
  /\ UNCHANGED pending

\* The provider throws.
Unavailable(c) ==
  /\ call[c] = "classify"
  /\ AskHuman(c)
  /\ UNCHANGED <<consecutive, total>>

\* answer(): the first one counts, and a guard that has given up ignores it.
Answered(c, decision) ==
  /\ c \in pending
  /\ pending' = pending \ {c}
  /\ call' = [call EXCEPT ![c] = IF @ = "asked" THEN decision ELSE @]
  /\ UNCHANGED <<consecutive, total>>

Answer(c) == \E decision \in {"allow", "deny"} : Answered(c, decision)

QuestionExpires(c) == BrokerTimeout /\ Answered(c, "deny")

\* withTimeout; the question stays with the broker.
GuardExpires(c) ==
  /\ GuardTimeout
  /\ call[c] = "asked"
  /\ Decide(c, "deny")
  /\ UNCHANGED <<consecutive, total, pending>>

\* clear() denies whatever is pending.
Clear ==
  /\ pending # {}
  /\ pending' = {}
  /\ call' = [c \in Calls |-> IF c \in pending /\ call[c] = "asked" THEN "deny" ELSE call[c]]
  /\ UNCHANGED <<consecutive, total>>

Next ==
  \/ \E c \in Calls :
       \/ Guard(c) \/ Classified(c) \/ Unavailable(c)
       \/ Answer(c) \/ QuestionExpires(c) \/ GuardExpires(c)
  \/ Clear

Spec == Init /\ [][Next]_vars

-----------------------------------------------------------------------------
(* Properties *)

\* The variables hold what the code can put there.
TypeOK ==
  /\ call \in [Calls -> {"new", "classify", "asked", "allow", "deny"}]
  /\ consecutive \in Nat
  /\ total \in Nat
  /\ pending \subseteq Calls

\* The counters are read before the classifier is awaited and written after:
\* guards that run side by side can exceed the limits, but each of the others
\* by one at most.
DenialsBounded ==
  /\ consecutive < MaxConsecutive + Parallel
  /\ total < MaxTotal + Parallel
  /\ consecutive <= total

=============================================================================
