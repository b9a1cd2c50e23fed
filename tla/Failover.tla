------------------------------ MODULE Failover ------------------------------
(***************************************************************************)
(* Provider fail-over of an agent: callProvider with its retries           *)
(* (packages/core/src/agent-helpers/provider-call.ts), the controller that *)
(* swaps providers, and the resolver that walks the providers of a model   *)
(* binding (packages/models/src/resolver.ts).                              *)
(*                                                                         *)
(* Providers are numbered in the order of the binding.  An error is what   *)
(* the code asks of it: whether the resolver rotates on it (isTransient),  *)
(* whether a stream may be retried after it (isRetryableError, nothing     *)
(* seen yet), and whether the caller aborted.                              *)
(***************************************************************************)
EXTENDS Naturals

CONSTANTS
  NumProviders,
  MaxRetries,   \* MAX_RETRIES
  Turns         \* turns of one agent that may be under way at once

VARIABLES
  pointer,    \* resolver: providers passed so far
  exhausted,  \* resolver
  current,    \* controller: the provider in use
  turn,       \* where each turn is
  blamed,     \* providers that failed with an error to rotate on, since the reset
  disturbed   \* turns overlapped, or the resolver was replaced under a call

vars == <<pointer, exhausted, current, turn, blamed, disturbed>>

Providers == 1 .. NumProviders

\* second: the one repetition of a call without streaming.
Turn == [pc : {"idle", "ready", "stream", "backoff", "chat", "second"},
         attempt : 0 .. MaxRetries + 1, provider : Providers]

Idle == [pc |-> "idle", attempt |-> 0, provider |-> 1]

Init ==
  /\ pointer = 0
  /\ exhausted = FALSE
  /\ current = 1
  /\ turn = [t \in Turns |-> Idle]
  /\ blamed = {}
  /\ disturbed = FALSE

Alone(t) == \A u \in Turns \ {t} : turn[u].pc = "idle"

-----------------------------------------------------------------------------

\* Fault: a resolver that gave up has given up for good.
BeginTurn_StaysExhausted(t) ==
  /\ turn[t].pc = "idle"
  /\ pointer' = 0
  /\ blamed' = {}
  /\ disturbed' = ~Alone(t)
  /\ turn' = [turn EXCEPT ![t].pc = "ready"]
  /\ UNCHANGED <<exhausted, current>>

\* runAgentTurn: resetForSession.
BeginTurn(t) ==
  /\ turn[t].pc = "idle"
  /\ pointer' = 0
  /\ exhausted' = FALSE
  /\ blamed' = {}
  /\ disturbed' = ~Alone(t)
  /\ turn' = [turn EXCEPT ![t].pc = "ready"]
  /\ UNCHANGED current

EndTurn(t) ==
  /\ turn[t].pc = "ready"
  /\ turn' = [turn EXCEPT ![t] = Idle]
  /\ UNCHANGED <<pointer, exhausted, current, blamed, disturbed>>

\* callProvider asks the resolver first, which throws when it has given up.
Call(t) ==
  /\ turn[t].pc = "ready"
  /\ \/ /\ exhausted
        /\ turn' = [turn EXCEPT ![t] = Idle]
        /\ UNCHANGED current
     \/ /\ ~exhausted
        /\ current' = pointer + 1
        /\ \E pc \in {"stream", "chat"} :
             turn' = [turn EXCEPT ![t] = [pc |-> pc, attempt |-> 1, provider |-> pointer + 1]]
  /\ UNCHANGED <<pointer, exhausted, blamed, disturbed>>

Answer(t) ==
  /\ turn[t].pc \in {"stream", "chat", "second"}
  /\ turn' = [turn EXCEPT ![t] = [Idle EXCEPT !.pc = "ready"]]
  /\ UNCHANGED <<pointer, exhausted, current, blamed, disturbed>>

\* reportError of the resolver: one provider alone is never given up.
Rotated(rotates) ==
  IF rotates /\ NumProviders > 1
  THEN /\ pointer' = IF pointer < NumProviders THEN pointer + 1 ELSE pointer
       /\ exhausted' = (pointer + 1 >= NumProviders)
  ELSE UNCHANGED <<pointer, exhausted>>

\* reportError, and refreshIfNeeded where it does not throw.
Report(t, rotates) ==
  /\ Rotated(rotates)
  /\ blamed' = IF rotates THEN blamed \cup {turn[t].provider} ELSE blamed
  /\ current' = IF exhausted' THEN current ELSE pointer' + 1

\* A stream fails.  It is tried again after a fail-over, or when nothing of it
\* was seen yet, unless the refresh throws because all providers are exhausted.
StreamFails(t, rotates, retryable) ==
  /\ turn[t].pc = "stream"
  /\ Report(t, rotates)
  /\ turn' = [turn EXCEPT ![t] =
                IF /\ retryable \/ (rotates /\ NumProviders > 1)
                   /\ ~exhausted'
                   /\ turn[t].attempt <= MaxRetries
                THEN [turn[t] EXCEPT !.pc = "backoff", !.attempt = turn[t].attempt + 1]
                ELSE Idle]
  /\ UNCHANGED disturbed

\* The backoff is over: the next attempt takes the provider in use by then.
Retry(t) ==
  /\ turn[t].pc = "backoff"
  /\ turn' = [turn EXCEPT ![t].pc = "stream", ![t].provider = current]
  /\ UNCHANGED <<pointer, exhausted, current, blamed, disturbed>>

\* A call without streaming fails, and is repeated once after a fail-over.
ChatFails(t, rotates) ==
  /\ turn[t].pc = "chat"
  /\ IF rotates /\ NumProviders > 1 /\ pointer + 1 < NumProviders
     THEN /\ Report(t, rotates)
          /\ turn' = [turn EXCEPT ![t].pc = "second", ![t].provider = current']
     ELSE /\ Rotated(rotates)
          /\ blamed' = IF rotates THEN blamed \cup {turn[t].provider} ELSE blamed
          /\ turn' = [turn EXCEPT ![t] = Idle]
          /\ UNCHANGED current
  /\ UNCHANGED disturbed

\* The repetition fails, or the caller aborts: nothing is reported.
GiveUp(t) ==
  /\ turn[t].pc \in {"stream", "backoff", "chat", "second"}
  /\ turn' = [turn EXCEPT ![t] = Idle]
  /\ UNCHANGED <<pointer, exhausted, current, blamed, disturbed>>

\* Too long a prompt rotates nothing; the query loop compacts and calls again.
PromptTooLong(t) ==
  /\ turn[t].pc \in {"stream", "chat", "second"}
  /\ turn' = [turn EXCEPT ![t] = [Idle EXCEPT !.pc = "ready"]]
  /\ UNCHANGED <<pointer, exhausted, current, blamed, disturbed>>

\* switchModel: a new resolver, also under a call of the old one.
SwitchModel ==
  /\ pointer' = 0
  /\ exhausted' = FALSE
  /\ current' = 1
  /\ blamed' = {}
  /\ disturbed' = (disturbed \/ \E t \in Turns : turn[t].pc # "idle")
  /\ UNCHANGED turn

Next ==
  \/ \E t \in Turns :
       \/ BeginTurn(t) \/ EndTurn(t) \/ Call(t) \/ Answer(t) \/ Retry(t)
       \/ GiveUp(t) \/ PromptTooLong(t)
       \/ \E rotates \in BOOLEAN :
            \/ ChatFails(t, rotates)
            \/ \E retryable \in BOOLEAN : StreamFails(t, rotates, retryable)
  \/ SwitchModel

Spec == Init /\ [][Next]_vars

-----------------------------------------------------------------------------
(* Properties *)

\* The variables hold what the code can put there.
TypeOK ==
  /\ pointer \in 0 .. NumProviders
  /\ exhausted \in BOOLEAN
  /\ current \in Providers
  /\ turn \in [Turns -> Turn]
  /\ blamed \subseteq Providers
  /\ disturbed \in BOOLEAN

\* resolver.ts:169: the resolver gives up only when every provider of the
\* binding has failed since the turn began, and never with a single provider;
\* until then the provider in use is one that has not failed.  Turns that
\* overlap are excepted: an error of a provider that was left already makes
\* the resolver leave the next one, too.
GivesUpAfterAll ==
  ~disturbed =>
    /\ exhausted => NumProviders > 1 /\ blamed = Providers
    /\ \A t \in Turns : turn[t].pc \in {"stream", "backoff", "chat"} /\ NumProviders > 1 =>
         exhausted \/ current \notin blamed

=============================================================================
