---------------------------- MODULE Host_proofs -----------------------------
(***************************************************************************)
(* Theorems about the components a host runs beside each other, for every  *)
(* number of guards, providers, turns, servers, calls, containers, saves,  *)
(* hands and tools.                                                        *)
(*                                                                         *)
(* A step of the host is a step of one component and leaves the others as  *)
(* they are, so each theorem rests on an inductive invariant of its own    *)
(* component alone: HandInv, FailInv, GuardInv, TurnInv, ServerInv,        *)
(* CapInv, and those of SessionFiles_proofs, Teams_proofs and              *)
(* EventStream_proofs.                                                     *)
(***************************************************************************)
EXTENDS MCHost, SessionFiles_proofs, FiniteSetTheorems, SequenceTheorems, WellFoundedInduction, TLAPS

-----------------------------------------------------------------------------
(* One component of a host takes steps; the others stay as they are.        *)

\* A step of the host is a step or a stutter of each of its components.
LEMMA HostStep ==
  ASSUME [HostNext]_hostVars
  PROVE  /\ [Next]_vars
         /\ [A!Next]_(A!vars)
         /\ [F!Next]_(F!vars)
         /\ [O!Next]_(O!vars)
         /\ [S!Next]_(S!vars)
         /\ [H!Next]_(H!vars)
         /\ [C!Next]_(C!vars)
<1>1. ASSUME HostNext
      PROVE  /\ chosen # "files" => UNCHANGED vars
             /\ chosen # "approvals" => UNCHANGED approvalVars
             /\ chosen # "failover" => UNCHANGED failoverVars
             /\ chosen # "observer" => UNCHANGED observerVars
             /\ chosen # "servers" => UNCHANGED serverVars
             /\ chosen # "hands" => UNCHANGED handVars
             /\ chosen # "capabilities" => UNCHANGED capabilityVars
      BY <1>1 DEF HostNext, Stays, Components
<1>2. ASSUME HostNext
      PROVE  /\ chosen = "files" => Next
             /\ chosen = "approvals" => A!Next
             /\ chosen = "failover" => F!Next
             /\ chosen = "observer" => O!Next
             /\ chosen = "servers" => S!Next
             /\ chosen = "hands" => H!Next
             /\ chosen = "capabilities" => C!Next
      BY <1>2 DEF HostNext
<1>3. CASE HostNext
      BY <1>1, <1>2, <1>3 DEF approvalVars, failoverVars, observerVars, serverVars, handVars,
         capabilityVars,
         A!vars, F!vars, O!vars, O!agent, O!collector, S!vars, H!vars, C!vars
<1>4. CASE UNCHANGED hostVars
      BY <1>4 DEF hostVars, approvalVars, failoverVars, observerVars, serverVars, handVars,
         capabilityVars,
         A!vars, F!vars, O!vars, O!agent, O!collector, S!vars, H!vars, C!vars
<1> QED BY <1>3, <1>4

-----------------------------------------------------------------------------
(* An agent's container and its background processes.                       *)

\* The environment knows its container: the one that runs, and otherwise the
\* one that starts; one call stops what is being stopped, and what it failed to
\* stop runs and is not known.
HandInv ==
  /\ H!TypeOK
  /\ H!NothingForgotten
  /\ containerId # 0 => containers[containerId] = "running"
  /\ starting # 0 => containers[starting] = "starting"
  /\ \A i \in H!Containers : containers[i] = "starting" => starting = i
  /\ containerId = 0 \/ starting = 0
  /\ \A c \in Callers :
       commands[c].pc = "stop" => containers[commands[c].container] = "stopping"
  /\ \A c, d \in Callers :
       commands[c].pc = "stop" /\ commands[d].pc = "stop" /\ commands[c].container = commands[d].container
         => c = d
  /\ \A i \in H!Containers : disposals[i] = "failed" => containers[i] = "running"
  /\ \A i \in H!Containers : containers[i] = "none" => disposals[i] = "none"
  /\ containerId # 0 => disposals[containerId] # "failed"
  /\ \A p \in sessions : processes[p] # H!None

LEMMA HandInit ==
  ASSUME H!Init
  PROVE  HandInv
BY DEF H!Init, HandInv, H!TypeOK, H!NothingForgotten, H!Containers, H!Container, H!Processes,
       H!Idle, H!None, H!Call, H!Alive

LEMMA HandStep ==
  ASSUME HandInv, [H!Next]_(H!vars)
  PROVE  HandInv'
<1> USE DEF HandInv, H!TypeOK, H!NothingForgotten, H!Container, H!Idle, H!None, H!Call,
           H!Alive
<1>1. ASSUME NEW c \in Callers, H!Exec(c)
      PROVE  HandInv'
  <2>1. CASE containers' = containers /\ starting' = starting
    <3>1. PICK pc \in {"start", "exec"}, i \in H!Containers :
            commands' = [commands EXCEPT ![c] = [pc |-> pc, container |-> i]]
          BY <1>1, <2>1 DEF H!Exec, H!StartsNew, H!Goto
    <3> QED BY <1>1, <2>1, <3>1 DEF H!Exec
  <2>2. CASE containerId = 0 /\ starting = 0 /\ H!StartsNew(c)
    <3>1. PICK i \in H!Containers :
            /\ containers[i] = "none"
            /\ containers' = [containers EXCEPT ![i] = "starting"]
            /\ starting' = i
            /\ commands' = [commands EXCEPT ![c] = [pc |-> "start", container |-> i]]
          BY <2>2, Zenon DEF H!StartsNew, H!Goto
    <3>2. H!Alive = {}
          BY <2>2 DEF H!Containers
    <3>3. H!Alive' = {i}
          BY <1>1, <3>1, <3>2, <2>2 DEF H!Exec
    <3> QED BY <1>1, <2>2, <3>1, <3>2, <3>3 DEF H!Exec
  <2> QED BY <1>1, <2>1, <2>2 DEF H!Exec
<1>2. ASSUME NEW c \in Callers, H!Executed(c)
      PROVE  HandInv'
      BY <1>2 DEF H!Executed
<1>3. ASSUME NEW c \in Callers, H!Dispose(c)
      PROVE  HandInv'
      BY <1>3 DEF H!Dispose, H!Goto
<1>4. ASSUME NEW c \in Callers, H!Stopped(c) \/ H!StopFails(c)
      PROVE  HandInv'
      BY <1>4 DEF H!Stopped, H!StopFails
<1>5. ASSUME NEW i \in H!Containers, H!Started(i)
      PROVE  HandInv'
      BY <1>5 DEF H!Started
<1>6. CASE H!Spawn
      BY <1>6 DEF H!Spawn
<1>7. ASSUME NEW p \in H!Processes, H!Exited(p) \/ H!Kill(p)
      PROVE  HandInv'
      BY <1>7 DEF H!Exited, H!Kill
<1>8. CASE H!DisposeTools
      BY <1>8 DEF H!DisposeTools
<1>9. CASE UNCHANGED H!vars
      BY <1>9 DEF H!vars
<1>10. CASE H!DisposeMisses
      BY <1>10 DEF H!DisposeMisses
<1> QED BY <1>1, <1>2, <1>3, <1>4, <1>5, <1>6, <1>7, <1>8, <1>9, <1>10 DEF H!Next

\* However starts, stops that may fail and commands interleave, a container that
\* runs is the one the environment knows, or one whose removal has failed; a
\* disposal has ended what it found unless it came during the start; and a process
\* that runs is in its session list.
THEOREM NothingIsForgotten == HostSpec => []NothingForgotten
<1>1. HostInit => HandInv
      BY HandInit DEF HostInit
<1>2. HandInv /\ [HostNext]_hostVars => HandInv'
      BY HandStep, HostStep
<1>3. HandInv => NothingForgotten
      BY DEF HandInv, NothingForgotten
<1> QED BY <1>1, <1>2, <1>3, PTL DEF HostSpec

-----------------------------------------------------------------------------
(* Provider fail-over.                                                      *)

\* The resolver has passed as many providers as it points at.
Walked ==
  /\ exhausted => blamed = F!Providers
  /\ NumProviders > 1 /\ ~exhausted => blamed = 1 .. pointer

\* A turn that is in a call is alone, and with the provider in use.
CallsInUse ==
  /\ \A t, u \in Turns : agentTurn[t].pc # "idle" /\ agentTurn[u].pc # "idle" => t = u
  /\ NumProviders > 1 /\ ~exhausted =>
       \A t \in Turns :
         /\ agentTurn[t].pc \in {"stream", "backoff", "chat"} => current = pointer + 1
         /\ agentTurn[t].pc \in {"stream", "chat"} => agentTurn[t].provider = pointer + 1

\* It points behind the last provider when it has given up.
Pointing ==
  IF exhausted THEN NumProviders > 1 /\ pointer = NumProviders ELSE pointer < NumProviders

FailInv ==
  /\ F!TypeOK
  /\ Pointing
  /\ ~disturbed => Walked /\ CallsInUse

LEMMA FailInit ==
  ASSUME F!Init
  PROVE  FailInv
<1>1. F!TypeOK
  <2>1. exhausted \in BOOLEAN /\ disturbed \in BOOLEAN
        BY Zenon DEF F!Init
  <2>2. /\ pointer \in 0 .. NumProviders /\ current \in F!Providers
        /\ blamed \subseteq F!Providers
        BY HostAssumption DEF F!Init, F!Providers
  <2>3. F!Idle \in F!Turn
        BY HostAssumption DEF F!Turn, F!Idle, F!Providers
  <2>4. agentTurn \in [Turns -> F!Turn]
        BY <2>3 DEF F!Init
  <2> QED BY <2>1, <2>2, <2>4 DEF F!TypeOK
<1>2. Walked
      BY HostAssumption DEF F!Init, Walked
<1>3. CallsInUse
      BY HostAssumption DEF F!Init, CallsInUse, F!Idle
<1>4. Pointing
      BY HostAssumption DEF F!Init, Pointing
<1> QED BY <1>1, <1>2, <1>3, <1>4 DEF FailInv

\* What an error does to the resolver.
LEMMA Rotation ==
  ASSUME F!TypeOK, Pointing, NEW rotates \in BOOLEAN, F!Rotated(rotates)
  PROVE  /\ pointer' \in 0 .. NumProviders /\ exhausted' \in BOOLEAN /\ Pointing'
         /\ exhausted => exhausted'
         /\ ~exhausted /\ rotates /\ NumProviders > 1 => pointer' = pointer + 1
         /\ ~rotates \/ NumProviders = 1 => pointer' = pointer /\ (exhausted' <=> exhausted)
<1>1. pointer \in 0 .. NumProviders /\ NumProviders \in Nat \ {0}
      BY HostAssumption DEF F!TypeOK
<1>2. CASE rotates /\ NumProviders > 1
  <2>1. exhausted' = (pointer + 1 >= NumProviders)
        BY <1>2 DEF F!Rotated
  <2>2. exhausted' \in BOOLEAN
        BY <2>1
  <2>3. exhausted' <=> pointer + 1 >= NumProviders
        BY <2>1, Zenon
  <2>4. pointer' = IF pointer < NumProviders THEN pointer + 1 ELSE pointer
        BY <1>2 DEF F!Rotated
  <2>5. CASE exhausted'
        BY <1>1, <1>2, <2>2, <2>3, <2>4, <2>5 DEF Pointing
  <2>6. CASE ~exhausted'
        BY <1>1, <1>2, <2>2, <2>3, <2>4, <2>6 DEF Pointing
  <2> QED BY <2>5, <2>6
<1>3. CASE ~(rotates /\ NumProviders > 1)
  <2>1. pointer' = pointer /\ exhausted' \in BOOLEAN /\ (exhausted' <=> exhausted)
        BY <1>3 DEF F!Rotated, F!TypeOK
  <2> QED BY <1>1, <1>3, <2>1 DEF Pointing
<1> QED BY <1>2, <1>3

\* A reset of the resolver: no turn is in a call, or the reset is noted.
LEMMA Reset ==
  ASSUME FailInv, pointer' = 0, exhausted' = FALSE, blamed' = {},
         current' \in F!Providers, disturbed' \in BOOLEAN, agentTurn' \in [Turns -> F!Turn],
         ~disturbed' =>
           /\ \A t, u \in Turns : agentTurn'[t].pc # "idle" /\ agentTurn'[u].pc # "idle" => t = u
           /\ \A t \in Turns : agentTurn'[t].pc \in {"idle", "ready"}
  PROVE  FailInv'
<1>1. Pointing' /\ Walked' /\ ~exhausted'
      BY HostAssumption DEF Pointing, Walked
<1>2. ~disturbed' => CallsInUse'
      BY <1>1 DEF CallsInUse
<1>3. F!TypeOK'
  <2>1. exhausted' \in BOOLEAN
        BY Zenon
  <2>2. pointer' \in 0 .. NumProviders
        BY HostAssumption
  <2> QED BY <2>1, <2>2 DEF F!TypeOK
<1> QED BY <1>1, <1>2, <1>3 DEF FailInv

\* A step of one turn that reports nothing.
LEMMA Quiet ==
  ASSUME FailInv, UNCHANGED <<pointer, exhausted, blamed, disturbed>>,
         NEW t \in Turns, NEW u \in F!Turn,
         agentTurn[t].pc # "idle",
         agentTurn' = [agentTurn EXCEPT ![t] = u],
         current' \in F!Providers,
         \/ u.pc \in {"idle", "ready"} /\ current' = current
         \/ u.pc \in {"stream", "chat"} /\ u.provider = current' /\ ~exhausted /\ current' = pointer + 1
         \/ u.pc = "stream" /\ u.provider = current /\ current' = current /\ agentTurn[t].pc = "backoff"
  PROVE  FailInv'
<1>1. F!TypeOK' /\ Pointing'
      BY DEF FailInv, F!TypeOK, Pointing
<1>2. ASSUME ~disturbed PROVE Walked' /\ CallsInUse'
  <2>1. Walked'
        BY <1>2 DEF FailInv, Walked
  <2>2. \A v \in Turns : agentTurn'[v] = IF v = t THEN u ELSE agentTurn[v]
        BY DEF FailInv, F!TypeOK
  <2>3. \A v \in Turns : v # t => agentTurn[v].pc = "idle"
        BY <1>2 DEF FailInv, CallsInUse
  <2>4. (exhausted' <=> exhausted) /\ pointer' = pointer
        OBVIOUS
  <2>5. NumProviders > 1 /\ ~exhausted /\ agentTurn[t].pc = "backoff" => current = pointer + 1
        BY <1>2 DEF FailInv, CallsInUse
  <2> QED BY <2>1, <2>2, <2>3, <2>4, <2>5 DEF CallsInUse
<1> QED BY <1>1, <1>2 DEF FailInv

\* A step of one turn that reports an error.
LEMMA Reported ==
  ASSUME FailInv, disturbed' = disturbed,
         NEW t \in Turns, NEW u \in F!Turn, NEW rotates \in BOOLEAN,
         F!Rotated(rotates),
         blamed' = IF rotates THEN blamed \cup {agentTurn[t].provider} ELSE blamed,
         agentTurn[t].pc \in {"stream", "chat"},
         agentTurn' = [agentTurn EXCEPT ![t] = u],
         current' \in F!Providers,
         \/ u.pc = "idle"
         \/ u.pc \in {"backoff", "second"} /\ ~exhausted' /\ current' = pointer' + 1
  PROVE  FailInv'
<1> USE DEF FailInv
<1>1. /\ pointer' \in 0 .. NumProviders /\ exhausted' \in BOOLEAN /\ Pointing'
      /\ exhausted => exhausted'
      /\ ~exhausted /\ rotates /\ NumProviders > 1 => pointer' = pointer + 1
      /\ ~rotates \/ NumProviders = 1 => pointer' = pointer /\ (exhausted' <=> exhausted)
      BY Rotation
<1>2. F!TypeOK'
  <2>1. agentTurn[t].provider \in F!Providers
        BY DEF F!TypeOK, F!Turn
  <2>2. blamed' \subseteq F!Providers /\ disturbed' \in BOOLEAN
        BY <2>1 DEF F!TypeOK
  <2> QED BY <1>1, <2>2 DEF F!TypeOK
<1>3. ASSUME ~disturbed PROVE Walked' /\ CallsInUse'
  <2>1. \A v \in Turns : agentTurn'[v] = IF v = t THEN u ELSE agentTurn[v]
        BY DEF F!TypeOK
  <2>2. \A v \in Turns : v # t => agentTurn[v].pc = "idle"
        BY <1>3 DEF CallsInUse
  <2>3. CallsInUse'
        BY <2>1, <2>2 DEF CallsInUse
  <2>4. pointer \in 0 .. NumProviders /\ NumProviders \in Nat \ {0} /\ blamed \subseteq F!Providers
        BY HostAssumption DEF F!TypeOK
  <2>5. agentTurn[t].provider \in F!Providers
        BY DEF F!TypeOK, F!Turn
  <2>6. CASE exhausted
    <3>1. exhausted' /\ blamed = F!Providers
          BY <1>1, <1>3, <2>6 DEF Walked
    <3> QED BY <2>3, <2>5, <3>1 DEF Walked
  <2>7. CASE ~exhausted /\ NumProviders > 1
    <3>1. blamed = 1 .. pointer /\ agentTurn[t].provider = pointer + 1
          BY <1>3, <2>7 DEF Walked, CallsInUse
    <3>2. CASE rotates
      <4>1. pointer' = pointer + 1 /\ blamed' = 1 .. pointer + 1
            BY <1>1, <2>4, <2>7, <3>1, <3>2
      <4>2. exhausted' => pointer' = NumProviders
            BY <1>1 DEF Pointing
      <4> QED BY <2>3, <4>1, <4>2, Zenon DEF Walked, F!Providers
    <3>3. CASE ~rotates
          BY <1>1, <2>3, <2>7, <3>1, <3>3 DEF Walked
    <3> QED BY <3>2, <3>3
  <2>8. CASE NumProviders = 1 /\ ~exhausted
        BY <1>1, <2>3, <2>8 DEF Walked
  <2> QED BY <2>4, <2>6, <2>7, <2>8
<1> QED BY <1>1, <1>2, <1>3

\* The provider behind those that were passed.
LEMMA NextProvider ==
  ASSUME NEW p \in 0 .. NumProviders, p < NumProviders
  PROVE  p + 1 \in F!Providers
BY HostAssumption DEF F!Providers

LEMMA FailStep ==
  ASSUME FailInv, [F!Next]_(F!vars)
  PROVE  FailInv'
<1>1. /\ agentTurn \in [Turns -> F!Turn] /\ current \in F!Providers
      /\ NumProviders \in Nat \ {0} /\ MaxRetries \in Nat /\ F!Idle \in F!Turn
      /\ pointer \in 0 .. NumProviders /\ disturbed \in BOOLEAN
      BY HostAssumption DEF FailInv, F!TypeOK, F!Turn, F!Idle, F!Providers
<1>2. ASSUME NEW t \in Turns, F!BeginTurn(t)
      PROVE  FailInv'
  <2>1. /\ pointer' = 0 /\ exhausted' = FALSE /\ blamed' = {} /\ current' = current
        /\ disturbed' = ~F!Alone(t)
        BY <1>2 DEF F!BeginTurn
  <2>2. disturbed' \in BOOLEAN /\ (disturbed' <=> ~F!Alone(t))
        BY <2>1, Zenon
  <2>3. agentTurn' \in [Turns -> F!Turn]
        BY <1>1, <1>2 DEF F!BeginTurn, F!Turn
  <2>4. \A v \in Turns : agentTurn'[v].pc = IF v = t THEN "ready" ELSE agentTurn[v].pc
        BY <1>1, <1>2 DEF F!BeginTurn, F!Turn
  <2> QED BY <1>1, <2>1, <2>2, <2>3, <2>4, Reset, Zenon DEF F!Alone
<1>3. CASE F!SwitchModel
  <2>1. /\ pointer' = 0 /\ exhausted' = FALSE /\ blamed' = {} /\ current' \in F!Providers
        /\ agentTurn' = agentTurn
        BY <1>1, <1>3 DEF F!SwitchModel, F!Providers
  <2>2. disturbed' = (disturbed \/ \E t \in Turns : agentTurn[t].pc # "idle")
        BY <1>3 DEF F!SwitchModel
  <2>3. disturbed' \in BOOLEAN /\ (~disturbed' => \A t \in Turns : agentTurn[t].pc = "idle")
        BY <2>2, Zenon
  <2> QED BY <1>1, <2>1, <2>3, Reset, Zenon
<1>4. ASSUME NEW t \in Turns, F!EndTurn(t) \/ F!GiveUp(t)
      PROVE  FailInv'
      BY <1>1, <1>4, Quiet DEF F!EndTurn, F!GiveUp, F!Idle
<1>5. ASSUME NEW t \in Turns, F!Answer(t) \/ F!PromptTooLong(t)
      PROVE  FailInv'
  <2>1. [F!Idle EXCEPT !.pc = "ready"] \in F!Turn /\ [F!Idle EXCEPT !.pc = "ready"].pc = "ready"
        BY <1>1 DEF F!Idle, F!Turn
  <2> QED BY <1>1, <1>5, <2>1, Quiet, Zenon DEF F!Answer, F!PromptTooLong
<1>6. ASSUME NEW t \in Turns, F!Call(t)
      PROVE  FailInv'
  <2>1. CASE exhausted
        BY <1>1, <1>6, <2>1, Quiet DEF F!Call, F!Idle
  <2>2. CASE ~exhausted
    <3>1. pointer + 1 \in F!Providers
          BY <1>1, <2>2 DEF FailInv, Pointing, F!Providers
    <3>2. PICK pc \in {"stream", "chat"} :
            agentTurn' = [agentTurn EXCEPT ![t] = [pc |-> pc, attempt |-> 1, provider |-> pointer + 1]]
          BY <1>6, <2>2 DEF F!Call
    <3>3. [pc |-> pc, attempt |-> 1, provider |-> pointer + 1] \in F!Turn
          BY <1>1, <3>1 DEF F!Turn
    <3> QED BY <1>6, <2>2, <3>1, <3>2, <3>3, Quiet, Zenon DEF F!Call
  <2> QED BY <2>1, <2>2
<1>7. ASSUME NEW t \in Turns, F!Retry(t)
      PROVE  FailInv'
  <2> DEFINE u == [agentTurn[t] EXCEPT !.pc = "stream", !.provider = current]
  <2>1. u \in F!Turn /\ u.pc = "stream" /\ u.provider = current
        BY <1>1, Zenon DEF F!Turn
  <2>2. agentTurn' = [agentTurn EXCEPT ![t] = u]
        BY <1>1, <1>7, Zenon DEF F!Retry, F!Turn
  <2> QED BY <1>1, <1>7, <2>1, <2>2, Quiet, Zenon DEF F!Retry
<1>8. ASSUME NEW t \in Turns, NEW rotates \in BOOLEAN, F!ChatFails(t, rotates)
      PROVE  FailInv'
  <2>1. CASE rotates /\ NumProviders > 1 /\ pointer + 1 < NumProviders
    <3> DEFINE u == [agentTurn[t] EXCEPT !.pc = "second", !.provider = current']
    <3>1. /\ F!Rotated(rotates) /\ F!Report(t, rotates)
          /\ agentTurn' = [agentTurn EXCEPT ![t].pc = "second", ![t].provider = current']
          /\ disturbed' = disturbed /\ agentTurn[t].pc = "chat"
          BY <1>8, <2>1, Zenon DEF F!ChatFails, F!Report
    <3>2. exhausted' = (pointer + 1 >= NumProviders) /\ pointer' = pointer + 1
          BY <1>1, <2>1, <3>1 DEF F!Rotated
    <3>3. exhausted' <=> pointer + 1 >= NumProviders
          BY <3>2, Zenon
    <3>4. ~exhausted'
          BY <1>1, <2>1, <3>3
    <3>5. current' = pointer' + 1
          BY <3>1, <3>4 DEF F!Report
    <3>6. current' \in F!Providers
          BY <1>1, <2>1, <3>2, <3>5 DEF F!Providers
    <3>7. u \in F!Turn /\ u.pc = "second" /\ agentTurn' = [agentTurn EXCEPT ![t] = u]
          BY <1>1, <3>1, <3>6, Zenon DEF F!Turn
    <3> QED BY <3>1, <3>4, <3>5, <3>6, <3>7, Reported, Zenon DEF F!Report
  <2>2. CASE ~(rotates /\ NumProviders > 1 /\ pointer + 1 < NumProviders)
    <3>1. /\ F!Rotated(rotates) /\ disturbed' = disturbed /\ current' = current
          /\ blamed' = IF rotates THEN blamed \cup {agentTurn[t].provider} ELSE blamed
          /\ agentTurn[t].pc = "chat" /\ agentTurn' = [agentTurn EXCEPT ![t] = F!Idle]
          BY <1>8, <2>2 DEF F!ChatFails
    <3>2. F!Idle.pc = "idle"
          BY DEF F!Idle
    <3> QED BY <1>1, <3>1, <3>2, Reported, Zenon
  <2> QED BY <2>1, <2>2
<1>9. ASSUME NEW t \in Turns, NEW rotates \in BOOLEAN, NEW retryable \in BOOLEAN,
             F!StreamFails(t, rotates, retryable)
      PROVE  FailInv'
  <2> DEFINE next == [agentTurn[t] EXCEPT !.pc = "backoff", !.attempt = agentTurn[t].attempt + 1]
  <2>1. /\ F!Rotated(rotates) /\ F!Report(t, rotates) /\ agentTurn[t].pc = "stream"
        /\ disturbed' = disturbed
        BY <1>9 DEF F!StreamFails, F!Report
  <2> DEFINE retries == /\ retryable \/ (rotates /\ NumProviders > 1)
                        /\ ~exhausted'
                        /\ agentTurn[t].attempt <= MaxRetries
  <2>2. agentTurn' = [agentTurn EXCEPT ![t] = IF retries THEN next ELSE F!Idle]
        BY <1>9 DEF F!StreamFails
  <2>3. pointer' \in 0 .. NumProviders /\ Pointing'
        BY <2>1, Rotation DEF FailInv
  <2>4. current' = IF exhausted' THEN current ELSE pointer' + 1
        BY <2>1 DEF F!Report
  <2>5. current' \in F!Providers
    <3>1. CASE exhausted'
          BY <1>1, <2>4, <3>1
    <3>2. CASE ~exhausted'
      <4>1. pointer' < NumProviders
            BY <2>3, <3>2 DEF Pointing
      <4>2. current' = pointer' + 1
            BY <2>4, <3>2
      <4> QED BY <2>3, <4>1, <4>2, NextProvider
    <3> QED BY <3>1, <3>2
  <2>6. CASE retries
    <3>1. agentTurn[t].attempt + 1 \in 0 .. MaxRetries + 1
          BY <1>1, <2>6 DEF F!Turn
    <3>2. next \in F!Turn /\ next.pc = "backoff"
          BY <1>1, <3>1, Zenon DEF F!Turn
    <3>3. agentTurn' = [agentTurn EXCEPT ![t] = next]
          BY <2>2, <2>6, Zenon
    <3>4. ~exhausted' /\ current' = pointer' + 1
          BY <2>4, <2>6
    <3> HIDE DEF next
    <3> QED BY <2>1, <2>5, <3>2, <3>3, <3>4, Reported, Zenon DEF F!Report
  <2>7. CASE ~retries
    <3>1. agentTurn' = [agentTurn EXCEPT ![t] = F!Idle] /\ F!Idle.pc = "idle"
          BY <2>2, <2>7, Zenon DEF F!Idle
    <3> QED BY <1>1, <2>1, <2>5, <3>1, Reported, Zenon DEF F!Report
  <2> QED BY <2>6, <2>7
<1>10. CASE UNCHANGED F!vars
  <2>1. UNCHANGED <<pointer, exhausted, current, agentTurn, blamed, disturbed>>
        BY <1>10 DEF F!vars
  <2> QED BY <2>1 DEF FailInv, F!TypeOK, Pointing, Walked, CallsInUse
<1> QED BY <1>2, <1>3, <1>4, <1>5, <1>6, <1>7, <1>8, <1>9, <1>10 DEF F!Next

\* The resolver gives up only when every provider has failed: while no turns
\* overlap, those that failed are the ones it has passed.
THEOREM GivesUpCorrect == HostSpec => []GivesUpAfterAll
<1>1. HostInit => FailInv
      BY FailInit DEF HostInit
<1>2. FailInv /\ [HostNext]_hostVars => FailInv'
      BY FailStep, HostStep
<1>3. FailInv => GivesUpAfterAll
  <2> SUFFICES ASSUME FailInv, ~disturbed
               PROVE  F!GivesUpAfterAll
      BY DEF GivesUpAfterAll, F!GivesUpAfterAll
  <2>1. exhausted => NumProviders > 1 /\ blamed = F!Providers
        BY DEF FailInv, Pointing, Walked
  <2>2. ASSUME NEW t \in Turns, agentTurn[t].pc \in {"stream", "backoff", "chat"},
               NumProviders > 1, ~exhausted
        PROVE  current \notin blamed
    <3>1. pointer \in Nat /\ current = pointer + 1 /\ blamed = 1 .. pointer
          BY <2>2, HostAssumption DEF FailInv, F!TypeOK, Walked, CallsInUse
    <3> QED BY <3>1
  <2> QED BY <2>1, <2>2 DEF F!GivesUpAfterAll
<1> QED BY <1>1, <1>2, <1>3, PTL DEF HostSpec
-----------------------------------------------------------------------------
(* Approvals.                                                               *)

\* Guards that looked at the counters and await the classifier.
Classifying == {c \in Guarded : call[c] = "classify"}

\* Each of them can add one denial to the counters it found below the limits,
\* and no more than Parallel guards are under way.
GuardInv ==
  /\ A!TypeOK
  /\ IsFiniteSet(A!InFlight)
  /\ consecutive + Cardinality(Classifying) < MaxConsecutive + Parallel
  /\ total + Cardinality(Classifying) < MaxTotal + Parallel
  /\ consecutive <= total

LEMMA GuardInit ==
  ASSUME A!Init
  PROVE  GuardInv
<1>1. A!TypeOK /\ consecutive = 0 /\ total = 0
      BY DEF A!Init, A!TypeOK
<1>2. A!InFlight = {} /\ Classifying = {}
      BY DEF A!Init, A!InFlight, Classifying
<1>3. Cardinality(Classifying) = 0 /\ IsFiniteSet(A!InFlight)
      BY <1>2, FS_EmptySet
<1> QED BY <1>1, <1>3, HostAssumption DEF GuardInv

\* The guards under way, and those that await the classifier, are finitely many.
LEMMA Counted ==
  ASSUME GuardInv
  PROVE  /\ consecutive \in Nat /\ total \in Nat
         /\ MaxConsecutive \in Nat /\ MaxTotal \in Nat /\ Parallel \in Nat
         /\ IsFiniteSet(Classifying)
         /\ Cardinality(Classifying) \in Nat /\ Cardinality(A!InFlight) \in Nat
         /\ Cardinality(Classifying) <= Cardinality(A!InFlight)
<1>1. Classifying \in SUBSET A!InFlight
      BY DEF Classifying, A!InFlight
<1> QED BY <1>1, HostAssumption, FS_Subset, FS_CardinalityType, Zenon DEF GuardInv, A!TypeOK

\* A step in which no guard goes to the classifier, and only one that comes
\* back from it counts a denial.
LEMMA GuardReturns ==
  ASSUME GuardInv, A!TypeOK', A!InFlight' \subseteq A!InFlight,
         \/ Classifying' \subseteq Classifying /\ UNCHANGED <<consecutive, total>>
         \/ \E c \in Classifying :
              /\ Classifying' = Classifying \ {c}
              /\ \/ consecutive' = consecutive + 1 /\ total' = total + 1
                 \/ consecutive' = 0 /\ total' = total
  PROVE  GuardInv'
<1>1. IsFiniteSet(A!InFlight')
      BY FS_Subset DEF GuardInv
<1>2. CASE Classifying' \subseteq Classifying /\ UNCHANGED <<consecutive, total>>
  <2>1. Cardinality(Classifying') \in Nat /\ Cardinality(Classifying') <= Cardinality(Classifying)
        BY <1>2, Counted, FS_Subset, FS_CardinalityType
  <2> QED BY <1>1, <1>2, <2>1, Counted DEF GuardInv
<1>3. ASSUME NEW c \in Classifying, Classifying' = Classifying \ {c},
             \/ consecutive' = consecutive + 1 /\ total' = total + 1
             \/ consecutive' = 0 /\ total' = total
      PROVE  GuardInv'
  <2>1. Cardinality(Classifying') = Cardinality(Classifying) - 1
        BY <1>3, Counted, FS_RemoveElement
  <2> QED BY <1>1, <1>3, <2>1, Counted DEF GuardInv
<1> QED BY <1>2, <1>3

\* The cardinality of the instance is that of the theorems on finite sets.
LEMMA SameCount ==
  ASSUME NEW Cs
  PROVE  A!Cardinality(Cs) = Cardinality(Cs)
BY DEF A!Cardinality, Cardinality

LEMMA GuardType ==
  ASSUME A!TypeOK, [A!Next]_(A!vars)
  PROVE  A!TypeOK'
BY DEF A!TypeOK, A!Next, A!vars, A!Guard, A!Classified, A!Unavailable, A!Answer, A!Answered,
       A!QuestionExpires, A!GuardExpires, A!Clear, A!AskHuman, A!Decide

\* The fallback decides, or asks.
LEMMA Fallback ==
  ASSUME NEW c \in Guarded, A!AskHuman(c)
  PROVE  \E d \in {"allow", "deny", "asked"} : call' = [call EXCEPT ![c] = d]
<1>1. CASE c \notin Listed
      BY <1>1 DEF A!AskHuman, A!Decide
<1>2. CASE c \in Listed /\ ~Bridge
      BY <1>2 DEF A!AskHuman, A!Decide
<1>3. CASE c \in Listed /\ Bridge
      BY <1>3 DEF A!AskHuman, A!Decide
<1> QED BY <1>1, <1>2, <1>3

LEMMA GuardStep ==
  ASSUME GuardInv, [A!Next]_(A!vars)
  PROVE  GuardInv'
<1>1. A!TypeOK' /\ call \in [Guarded -> {"new", "classify", "asked", "allow", "deny"}]
      BY GuardType DEF GuardInv, A!TypeOK
<1>2. ASSUME NEW c \in Guarded, A!Guard(c)
      PROVE  GuardInv'
  <2>1. call[c] = "new" /\ Cardinality(A!InFlight) < Parallel /\ UNCHANGED <<consecutive, total>>
        BY <1>2, SameCount DEF A!Guard
  <2>2. CASE A!Escalates
    <3>1. PICK d \in {"allow", "deny", "asked"} : call' = [call EXCEPT ![c] = d]
          BY <1>2, <2>2, Fallback DEF A!Guard
    <3>2. Classifying' = Classifying
          BY <1>1, <2>1, <3>1 DEF Classifying
    <3>3. A!InFlight' \subseteq A!InFlight \cup {c}
          BY <1>1, <2>1, <3>1 DEF A!InFlight
    <3>4. IsFiniteSet(A!InFlight \cup {c})
          BY FS_AddElement DEF GuardInv
    <3>5. IsFiniteSet(A!InFlight')
          BY <3>3, <3>4, FS_Subset
    <3> QED BY <1>1, <2>1, <3>2, <3>5 DEF GuardInv
  <2>3. CASE ~A!Escalates
    <3>1. call' = [call EXCEPT ![c] = "classify"]
          BY <1>2, <2>3 DEF A!Guard, A!Decide
    <3>2. /\ Classifying' = Classifying \cup {c} /\ c \notin Classifying
          /\ A!InFlight' = A!InFlight \cup {c} /\ c \notin A!InFlight
          BY <1>1, <2>1, <3>1 DEF Classifying, A!InFlight
    <3>3. /\ IsFiniteSet(A!InFlight')
          /\ Cardinality(Classifying') = Cardinality(Classifying) + 1
          BY <3>2, Counted, FS_AddElement, Zenon DEF GuardInv
    <3>4. consecutive < MaxConsecutive /\ total < MaxTotal
          BY <2>3, Counted DEF A!Escalates
    <3> QED BY <1>1, <2>1, <3>3, <3>4, Counted DEF GuardInv
  <2> QED BY <2>2, <2>3
<1>3. ASSUME NEW c \in Guarded, A!Classified(c)
      PROVE  GuardInv'
  <2>1. PICK d \in {"allow", "deny"} : call[c] = "classify" /\ call' = [call EXCEPT ![c] = d]
        BY <1>3 DEF A!Classified, A!Decide
  <2>2. c \in Classifying /\ Classifying' = Classifying \ {c} /\ A!InFlight' \subseteq A!InFlight
        BY <1>1, <2>1 DEF Classifying, A!InFlight
  <2> QED BY <1>1, <1>3, <2>2, GuardReturns DEF A!Classified
<1>4. ASSUME NEW c \in Guarded, A!Unavailable(c)
      PROVE  GuardInv'
  <2>1. PICK d \in {"allow", "deny", "asked"} :
          call[c] = "classify" /\ call' = [call EXCEPT ![c] = d]
        BY <1>4, Fallback DEF A!Unavailable
  <2>2. Classifying' \subseteq Classifying /\ A!InFlight' \subseteq A!InFlight
        BY <1>1, <2>1 DEF Classifying, A!InFlight
  <2> QED BY <1>1, <1>4, <2>2, GuardReturns DEF A!Unavailable
<1>5. ASSUME UNCHANGED <<consecutive, total>>,
             \A c \in Guarded : call'[c] = call[c] \/ call'[c] \in {"allow", "deny"}
      PROVE  GuardInv'
  <2>1. Classifying' \subseteq Classifying /\ A!InFlight' \subseteq A!InFlight
        BY <1>5 DEF Classifying, A!InFlight
  <2> QED BY <1>1, <1>5, <2>1, GuardReturns
<1>6. ASSUME NEW c \in Guarded, A!Answer(c) \/ A!QuestionExpires(c) \/ A!GuardExpires(c)
      PROVE  GuardInv'
      BY <1>1, <1>5, <1>6 DEF A!Answer, A!QuestionExpires, A!Answered, A!GuardExpires, A!Decide
<1>7. CASE A!Clear \/ UNCHANGED A!vars
      BY <1>1, <1>5, <1>7 DEF A!Clear, A!vars
<1> QED BY <1>2, <1>3, <1>4, <1>6, <1>7 DEF A!Next

\* However the guards of a response interleave, each of those that run side by
\* side exceeds a limit by one denial at most.
THEOREM DenialsCorrect == HostSpec => []DenialsBounded
<1>1. HostInit => GuardInv
      BY GuardInit DEF HostInit
<1>2. GuardInv /\ [HostNext]_hostVars => GuardInv'
      BY GuardStep, HostStep
<1>3. GuardInv => DenialsBounded
      BY Counted DEF GuardInv, DenialsBounded, A!DenialsBounded
<1> QED BY <1>1, <1>2, <1>3, PTL DEF HostSpec
-----------------------------------------------------------------------------
(* MCP servers.                                                             *)

Busy(r) == managerCalls[r] # S!Idle

\* The servers whose entries a release drops at its end.
Group(r) == IF managerCalls[r].op = "dispose" THEN Shared ELSE Servers \ Shared

\* Calls about the same server are noted.
Apart ==
  \A q, r \in ManagerCalls : \A s \in Servers :
    q # r /\ Busy(q) /\ Busy(r) /\ s \in managerCalls[q].servers /\ s \in managerCalls[r].servers
      => s \in overlapped

\* What the manager lists was made.
Made == \A s \in Servers : S!ClientOf(s) # 0 => clients[S!ClientOf(s)] # S!None

\* A call that connects: nobody else knows its client yet.
Connects(r) ==
  managerCalls[r].pc \in {"open", "list"} =>
    LET c == managerCalls[r].client
    IN  /\ managerCalls[r].op \in {"start", "restart"}
        /\ c # 0
        /\ clients[c].server \in managerCalls[r].servers
        /\ clients[c].state = IF managerCalls[r].pc = "open" THEN "opening" ELSE "open"
        /\ \A s \in Servers : S!ClientOf(s) # c
        /\ \A q \in ManagerCalls : q # r /\ Busy(q) => managerCalls[q].client # c
        /\ S!ClientOf(clients[c].server) = 0 \/ clients[c].server \in overlapped

\* A call that closes what it found.
Closes(r) ==
  managerCalls[r].pc = "disconnect" /\ managerCalls[r].op \in {"restart", "disable"} =>
    \A s \in managerCalls[r].servers :
      S!ClientOf(s) = managerCalls[r].client \/ s \in overlapped

\* A release: the servers it has visited list no open client but the one it closes.
Releases(r) ==
  managerCalls[r].pc \in {"next", "disconnect"} /\ managerCalls[r].op \in {"release", "dispose"} =>
    /\ managerCalls[r].todo \subseteq Group(r) /\ Group(r) \subseteq managerCalls[r].servers
    /\ managerCalls[r].op = "dispose" => managerCalls[r].servers = Servers
    /\ \A s \in Group(r) \ managerCalls[r].todo :
         \/ managerCalls[r].pc = "disconnect" /\ S!ClientOf(s) = managerCalls[r].client
         \/ S!ClientOf(s) = 0
         \/ clients[S!ClientOf(s)].state # "open"
         \/ s \in overlapped

InOrder(r) ==
  Busy(r) =>
    /\ managerCalls[r].client # 0 => clients[managerCalls[r].client] # S!None
    /\ managerCalls[r].pc = "next" =>
         managerCalls[r].op \in {"release", "dispose"} /\ managerCalls[r].client = 0
    /\ managerCalls[r].pc = "disconnect" => managerCalls[r].op # "start"
    /\ Connects(r) /\ Closes(r) /\ Releases(r)

ServerInv ==
  /\ S!TypeOK
  /\ Apart /\ Made
  /\ \A r \in ManagerCalls : InOrder(r)
  /\ S!ServersAreTracked

\* The client that connectOne makes is one that nobody knows yet.
First == CHOOSE d \in S!Unused : \A u \in S!Unused : d <= u

LEMMA FirstIsUnused ==
  ASSUME S!Unused # {}
  PROVE  First \in S!Clients /\ clients[First] = S!None
<1>1. S!Unused \subseteq Nat
      BY DEF S!Unused, S!Clients
<1>2. \E d \in S!Unused : \A u \in S!Unused : d <= u
      BY <1>1, LeastOf, Zenon
<1>3. First \in S!Unused
      BY <1>2 DEF First
<1> QED BY <1>3 DEF S!Unused

\* The values that stand for nothing are none of the others.
LEMMA Nothing ==
  /\ S!None \notin S!Client /\ S!None \notin S!Entry
  /\ S!Idle \notin S!Call
<1>1. S!None.status = "none" /\ S!Idle.pc = "idle"
      BY DEF S!None, S!Idle
<1>2. \A e \in S!Entry : e.status # "none"
      BY DEF S!Entry
<1>3. \A c \in S!Call : c.pc # "idle"
      BY DEF S!Call
<1>4. S!None \notin S!Client
      BY DEF S!None, S!Client
<1> QED BY <1>1, <1>2, <1>3, <1>4

\* The entry of a server, and what it lists.
LEMMA Listing ==
  ASSUME S!TypeOK
  PROVE  /\ \A s \in Servers : S!ClientOf(s) = 0 \/ S!ClientOf(s) \in S!Clients
         /\ \A r \in ManagerCalls : Busy(r) =>
              /\ managerCalls[r] \in S!Call
              /\ managerCalls[r].client = 0 \/ managerCalls[r].client \in S!Clients
         /\ \A c \in S!Clients : clients[c] # S!None => clients[c] \in S!Client
<1>1. \A n \in 0 .. MaxClients : n = 0 \/ n \in S!Clients
      BY HostAssumption DEF S!Clients
<1>2. \A s \in Servers : managed[s] = S!None \/ managed[s].client \in 0 .. MaxClients
      BY DEF S!TypeOK, S!Entry
<1>3. \A r \in ManagerCalls : Busy(r) =>
        managerCalls[r] \in S!Call /\ managerCalls[r].client \in 0 .. MaxClients
      BY DEF S!TypeOK, S!Call, Busy
<1> QED BY <1>1, <1>2, <1>3 DEF S!TypeOK, S!ClientOf

\* An entry that is put lists what it was given.
LEMMA Putting ==
  ASSUME S!TypeOK, NEW s \in Servers, NEW c \in {0} \cup S!Clients,
         NEW status \in {"connecting", "connected", "failed", "disabled"},
         managed' = [managed EXCEPT ![s] = [status |-> status, client |-> c]]
  PROVE  /\ managed' \in [Servers -> S!Entry \cup {S!None}]
         /\ S!ClientOf(s)' = c
         /\ \A t \in Servers : t # s => managed'[t] = managed[t] /\ S!ClientOf(t)' = S!ClientOf(t)
<1>1. c \in 0 .. MaxClients
      BY HostAssumption DEF S!Clients
<1>2. [status |-> status, client |-> c] \in S!Entry
      BY <1>1 DEF S!Entry
<1>3. managed'[s] = [status |-> status, client |-> c] /\ managed'[s] # S!None
      BY <1>2, Nothing DEF S!TypeOK
<1> QED BY <1>2, <1>3 DEF S!TypeOK, S!ClientOf

\* What a step of one call does that the others can see.
Acts(r) ==
  /\ \A q \in ManagerCalls \ {r} : managerCalls'[q] = managerCalls[q]
  /\ overlapped \subseteq overlapped' /\ stranded \subseteq stranded'
  /\ \A s \in Servers :
       \/ managed'[s] = managed[s]
       \/ \A q \in ManagerCalls \ {r} :
            Busy(q) /\ s \in managerCalls[q].servers => s \in overlapped'
  /\ \A d \in S!Clients :
       \/ clients'[d] = clients[d]
       \/ clients[d] = S!None
       \/ /\ Busy(r) /\ managerCalls[r].client = d
          /\ clients'[d] # S!None /\ clients'[d].server = clients[d].server
          /\ clients'[d].state # "open" \/ managerCalls[r].pc = "open"
  /\ Busy(r)' =>
       \/ managerCalls'[r].client = 0
       \/ Busy(r) /\ managerCalls'[r].client = managerCalls[r].client
       \/ \E s \in Servers : managerCalls'[r].client = S!ClientOf(s)
       \/ managerCalls'[r].client \in S!Clients /\ clients[managerCalls'[r].client] = S!None
  /\ \A s \in Servers :
       \/ S!ClientOf(s)' = S!ClientOf(s)
       \/ S!ClientOf(s)' = 0
       \/ Busy(r) /\ managerCalls[r].client # 0 /\ S!ClientOf(s)' = managerCalls[r].client

\* It leaves the other calls in order.
LEMMA OthersInOrder ==
  ASSUME ServerInv, NEW r \in ManagerCalls, NEW q \in ManagerCalls, q # r, Acts(r)
  PROVE  InOrder(q)'
<1> USE DEF ServerInv
<1>1. SUFFICES ASSUME Busy(q)
               PROVE  InOrder(q)'
      BY DEF Acts, InOrder, Busy
<1> DEFINE c == managerCalls[q].client
<1>2. managerCalls'[q] = managerCalls[q] /\ InOrder(q) /\ managerCalls[q] \in S!Call
      BY <1>1, Listing DEF Acts
<1>3. c # 0 => c \in S!Clients /\ clients[c] # S!None /\ clients'[c] # S!None
      BY <1>1, <1>2, Listing DEF Acts, InOrder
<1>4. Connects(q)'
  <2> SUFFICES ASSUME managerCalls[q].pc \in {"open", "list"}
               PROVE  Connects(q)'
      BY <1>2 DEF Connects
  <2>1. /\ managerCalls[q].op \in {"start", "restart"}
        /\ c # 0
        /\ clients[c].server \in managerCalls[q].servers
        /\ clients[c].state = IF managerCalls[q].pc = "open" THEN "opening" ELSE "open"
        /\ \A s \in Servers : S!ClientOf(s) # c
        /\ \A p \in ManagerCalls : p # q /\ Busy(p) => managerCalls[p].client # c
        /\ S!ClientOf(clients[c].server) = 0 \/ clients[c].server \in overlapped
        BY <1>1, <1>2 DEF InOrder, Connects
  <2>2. clients'[c] = clients[c] /\ clients[c].server \in Servers
        BY <1>3, <2>1, Listing DEF Acts, S!Client
  <2>3. \A s \in Servers : S!ClientOf(s)' # c
        BY <2>1 DEF Acts
  <2>4. \A p \in ManagerCalls : p # q /\ Busy(p)' => managerCalls'[p].client # c
        BY <1>3, <2>1 DEF Acts, Busy
  <2>5. S!ClientOf(clients[c].server)' = 0 \/ clients[c].server \in overlapped'
        BY <1>1, <2>1, <2>2 DEF Acts, S!ClientOf
  <2> QED BY <1>2, <2>1, <2>2, <2>3, <2>4, <2>5 DEF Connects
<1>5. Closes(q)'
      BY <1>1, <1>2 DEF InOrder, Closes, Acts, S!ClientOf, S!Call
<1>6. Releases(q)'
  <2> SUFFICES ASSUME managerCalls[q].pc \in {"next", "disconnect"},
                      managerCalls[q].op \in {"release", "dispose"}
               PROVE  Releases(q)'
      BY <1>2 DEF Releases
  <2>1. Group(q)' = Group(q) /\ Group(q) \subseteq Servers
        BY <1>2, HostAssumption DEF Group
  <2>2. Releases(q)
        BY <1>1, <1>2 DEF InOrder
  <2>3. ASSUME NEW s \in Group(q) \ managerCalls[q].todo, s \notin overlapped'
        PROVE  \/ managerCalls[q].pc = "disconnect" /\ S!ClientOf(s)' = c
               \/ S!ClientOf(s)' = 0
               \/ clients'[S!ClientOf(s)'].state # "open"
    <3>1. managed'[s] = managed[s] /\ s \notin overlapped /\ s \in Servers
          BY <1>1, <2>1, <2>2, <2>3 DEF Acts, Releases
    <3>2. S!ClientOf(s)' = S!ClientOf(s)
          BY <3>1 DEF S!ClientOf
    <3>3. \/ managerCalls[q].pc = "disconnect" /\ S!ClientOf(s) = c
          \/ S!ClientOf(s) = 0
          \/ clients[S!ClientOf(s)].state # "open"
          BY <2>2, <2>3, <3>1 DEF Releases
    <3>4. ASSUME S!ClientOf(s) # 0, clients[S!ClientOf(s)].state # "open"
          PROVE  clients'[S!ClientOf(s)].state # "open"
      <4>1. S!ClientOf(s) \in S!Clients /\ clients[S!ClientOf(s)] # S!None
            BY <3>1, <3>4, Listing DEF Made
      <4>2. Busy(r) /\ managerCalls[r].pc = "open" => managerCalls[r].client # S!ClientOf(s)
            BY <3>1 DEF InOrder, Connects
      <4> QED BY <3>4, <4>1, <4>2 DEF Acts
    <3> QED BY <3>2, <3>3, <3>4
  <2> QED BY <1>2, <2>1, <2>2, <2>3 DEF Releases
<1> QED BY <1>1, <1>2, <1>3, <1>4, <1>5, <1>6 DEF InOrder

\* Calls that a step makes meet are noted.
Notes(r) ==
  Busy(r)' =>
    \/ Busy(r) /\ managerCalls'[r].servers \subseteq managerCalls[r].servers
    \/ \A q \in ManagerCalls \ {r} : \A s \in managerCalls'[r].servers :
         Busy(q) /\ s \in managerCalls[q].servers => s \in overlapped'

\* An open client that the entry of a server or the call drops is known otherwise.
Keeps(r) ==
  /\ \A s \in Servers :
       \/ managed'[s] = managed[s] \/ s \in overlapped'
       \/ S!ClientOf(s) = 0 \/ clients'[S!ClientOf(s)].state # "open"
  /\ \A d \in S!Clients :
       Busy(r) /\ managerCalls[r].client = d =>
         \/ clients'[d].state # "open"
         \/ Busy(r)' /\ managerCalls'[r].client = d
         \/ S!ClientOf(clients[d].server)' = d
         \/ d \in stranded'
  /\ \A d \in S!Clients :
       clients[d] = S!None => clients'[d] = S!None \/ clients'[d].state # "open"

\* Such a step keeps the invariant.
LEMMA OneCallActs ==
  ASSUME ServerInv, S!TypeOK', NEW r \in ManagerCalls,
         Acts(r), InOrder(r)', Notes(r), Keeps(r)
  PROVE  ServerInv'
<1> USE DEF ServerInv
<1>1. \A q \in ManagerCalls : InOrder(q)'
      BY OthersInOrder
<1>2. Apart'
  <2> SUFFICES ASSUME NEW q \in ManagerCalls, NEW p \in ManagerCalls, NEW s \in Servers,
                      q # p, Busy(q)', Busy(p)',
                      s \in managerCalls'[q].servers, s \in managerCalls'[p].servers
               PROVE  s \in overlapped'
      BY DEF Apart, Busy
  <2>1. ASSUME NEW k \in ManagerCalls \ {r}, Busy(k)', Busy(r)',
               s \in managerCalls'[k].servers, s \in managerCalls'[r].servers
        PROVE  s \in overlapped'
    <3>1. Busy(k) /\ s \in managerCalls[k].servers /\ overlapped \subseteq overlapped'
          BY <2>1 DEF Acts, Busy
    <3> QED BY <2>1, <3>1 DEF Notes, Apart
  <2>2. CASE q # r /\ p # r
        BY <2>2 DEF Acts, Apart, Busy
  <2> QED BY <2>1, <2>2
<1>3. Made'
  <2> SUFFICES ASSUME NEW s \in Servers, S!ClientOf(s)' # 0
               PROVE  clients'[S!ClientOf(s)'] # S!None
      BY DEF Made
  <2>1. PICK d \in S!Clients : d = S!ClientOf(s)' /\ clients[d] # S!None
    <3>1. CASE S!ClientOf(s)' = S!ClientOf(s)
          BY <3>1, Listing DEF Made
    <3>2. CASE Busy(r) /\ managerCalls[r].client # 0 /\ S!ClientOf(s)' = managerCalls[r].client
          BY <3>2, Listing DEF InOrder
    <3> QED BY <3>1, <3>2 DEF Acts
  <2> QED BY <2>1 DEF Acts
<1>4. S!ServersAreTracked'
  <2> SUFFICES ASSUME NEW d \in S!Clients, clients'[d] # S!None, clients'[d].state = "open"
               PROVE  \/ S!ClientOf(clients[d].server)' = d
                      \/ \E q \in ManagerCalls : Busy(q)' /\ managerCalls'[q].client = d
                      \/ d \in stranded'
                      \/ clients'[d].server \in overlapped'
      BY DEF S!ServersAreTracked, Busy
  <2>1. clients[d] # S!None /\ clients'[d].server = clients[d].server
        BY DEF Acts, Keeps
  <2>2. clients[d].server \in Servers /\ d # 0
        BY <2>1, Listing DEF S!Client, S!Clients
  <2>3. CASE Busy(r) /\ managerCalls[r].client = d
        BY <2>1, <2>2, <2>3 DEF Keeps
  <2>4. CASE ~(Busy(r) /\ managerCalls[r].client = d)
    <3>1. clients'[d] = clients[d]
          BY <2>1, <2>4 DEF Acts
    <3>2. \/ S!ClientOf(clients[d].server) = d
          \/ \E q \in ManagerCalls : Busy(q) /\ managerCalls[q].client = d
          \/ d \in stranded
          \/ clients[d].server \in overlapped
          BY <2>1, <3>1 DEF S!ServersAreTracked, Busy
    <3>3. CASE S!ClientOf(clients[d].server) = d
      <4>1. managed'[clients[d].server] = managed[clients[d].server]
              \/ clients[d].server \in overlapped'
            BY <2>2, <3>1, <3>3 DEF Keeps
      <4>2. clients[d].server \notin overlapped' => S!ClientOf(clients[d].server)' = d
            BY <2>1, <3>3, <4>1 DEF S!ClientOf
      <4> QED BY <2>1, <4>2
    <3>4. ASSUME NEW q \in ManagerCalls, Busy(q), managerCalls[q].client = d
          PROVE  Busy(q)' /\ managerCalls'[q].client = d
          BY <2>4, <3>4 DEF Acts, Busy
    <3> QED BY <2>1, <3>2, <3>3, <3>4 DEF Acts
  <2> QED BY <2>3, <2>4
<1> QED BY <1>1, <1>2, <1>3, <1>4

\* What OneCallActs asks of the other calls when a step begins a call.
LEMMA Begun ==
  ASSUME NEW r \in ManagerCalls, NEW ss \in SUBSET Servers, S!Begins(r, ss)
  PROVE  /\ ~Busy(r) /\ overlapped \subseteq overlapped' /\ overlapped' \subseteq overlapped \cup ss
         /\ \A s \in ss, q \in ManagerCalls :
              Busy(q) /\ s \in managerCalls[q].servers => s \in overlapped'
BY DEF S!Begins, Busy

LEMMA StartStep ==
  ASSUME ServerInv, NEW r \in ManagerCalls, NEW s \in Servers, S!Start(r, s)
  PROVE  ServerInv'
<1> USE DEF ServerInv
<1>1. PICK c \in S!Clients :
        /\ clients[c] = S!None
        /\ managed' = [managed EXCEPT ![s] = [status |-> "connecting", client |-> 0]]
        /\ clients' = [clients EXCEPT ![c] = [server |-> s, state |-> "opening"]]
        /\ managerCalls' = [managerCalls EXCEPT ![r] = S!About("start", "open", s, c)]
  <2>1. /\ S!Unused # {}
        /\ managed' = [managed EXCEPT ![s] = [status |-> "connecting", client |-> 0]]
        /\ clients' = [clients EXCEPT ![First] = [server |-> s, state |-> "opening"]]
        /\ managerCalls' = [managerCalls EXCEPT ![r] = S!About("start", "open", s, First)]
        BY DEF S!Start, S!Connecting, S!Put, First
  <2> QED BY <2>1, FirstIsUnused, Zenon
<1>2. /\ ~Busy(r) /\ overlapped \subseteq overlapped' /\ overlapped' \subseteq overlapped \cup {s}
      /\ \A q \in ManagerCalls : Busy(q) /\ s \in managerCalls[q].servers => s \in overlapped'
      BY Begun DEF S!Start
<1>3. S!ClientOf(s) = 0 /\ stranded' = stranded
      BY DEF S!Start, S!ClientOf
<1>4. /\ managed' \in [Servers -> S!Entry \cup {S!None}]
      /\ S!ClientOf(s)' = 0
      /\ \A t \in Servers : t # s => managed'[t] = managed[t] /\ S!ClientOf(t)' = S!ClientOf(t)
      BY <1>1, Putting, Zenon
<1>5. /\ clients'[c] = [server |-> s, state |-> "opening"] /\ clients'[c] \in S!Client
      /\ \A d \in S!Clients : d # c => clients'[d] = clients[d]
      BY <1>1 DEF S!TypeOK, S!Client
<1>6. /\ managerCalls'[r] = S!About("start", "open", s, c) /\ managerCalls'[r] \in S!Call
      /\ \A q \in ManagerCalls : q # r => managerCalls'[q] = managerCalls[q]
  <2>1. c \in 0 .. MaxClients /\ c # 0
        BY HostAssumption DEF S!Clients
  <2>2. S!About("start", "open", s, c) \in S!Call
        BY <2>1 DEF S!About, S!Call
  <2> QED BY <1>1, <2>2 DEF S!TypeOK
<1>7. S!TypeOK'
      BY <1>1, <1>2, <1>3, <1>4, <1>5, <1>6 DEF S!TypeOK
<1>8. Acts(r)
      BY <1>1, <1>2, <1>3, <1>4, <1>5, <1>6 DEF Acts, S!About
<1>9. Notes(r)
      BY <1>2, <1>6 DEF Notes, S!About
<1>10. Keeps(r)
      BY <1>2, <1>3, <1>4, <1>5 DEF Keeps
<1>11. InOrder(r)'
  <2>1. c # 0
        BY DEF S!Clients
  <2>2. \A t \in Servers : S!ClientOf(t)' # c
        BY <1>1, <1>4, <2>1 DEF Made
  <2>3. \A q \in ManagerCalls : q # r /\ Busy(q)' => managerCalls'[q].client # c
        BY <1>1, <1>6, <2>1 DEF InOrder, Busy
  <2> QED BY <1>4, <1>5, <1>6, <2>1, <2>2, <2>3, Nothing
          DEF InOrder, Connects, Closes, Releases, S!About, Busy
<1> QED BY <1>7, <1>8, <1>9, <1>10, <1>11, OneCallActs

LEMMA RestartStep ==
  ASSUME ServerInv, NEW r \in ManagerCalls, NEW op \in {"restart", "disable"}, NEW s \in Servers,
         S!Restart(r, op, s)
  PROVE  ServerInv'
<1> USE DEF ServerInv
<1> DEFINE c == S!ClientOf(s)
<1>1. /\ managerCalls' = [managerCalls EXCEPT ![r] = S!About(op, "disconnect", s, c)]
      /\ managed' = managed /\ clients' = clients /\ stranded' = stranded
      BY DEF S!Restart
<1>2. /\ ~Busy(r) /\ overlapped \subseteq overlapped' /\ overlapped' \subseteq overlapped \cup {s}
      /\ \A q \in ManagerCalls : Busy(q) /\ s \in managerCalls[q].servers => s \in overlapped'
      BY Begun DEF S!Restart
<1>3. /\ managerCalls'[r] = S!About(op, "disconnect", s, c) /\ managerCalls'[r] \in S!Call
      /\ \A q \in ManagerCalls : q # r => managerCalls'[q] = managerCalls[q]
  <2>1. c \in 0 .. MaxClients
        BY Listing, HostAssumption DEF S!Clients
  <2>2. S!About(op, "disconnect", s, c) \in S!Call
        BY <2>1 DEF S!About, S!Call
  <2> QED BY <1>1, <2>2 DEF S!TypeOK
<1>4. S!TypeOK'
      BY <1>1, <1>2, <1>3 DEF S!TypeOK
<1>5. \A t \in Servers : S!ClientOf(t)' = S!ClientOf(t)
      BY <1>1 DEF S!ClientOf
<1>6. Acts(r)
      BY <1>1, <1>2, <1>3, <1>5 DEF Acts, S!About
<1>7. Notes(r)
      BY <1>2, <1>3 DEF Notes, S!About
<1>8. Keeps(r)
      BY <1>1, <1>2 DEF Keeps
<1>9. InOrder(r)'
      BY <1>1, <1>3, <1>5, Listing DEF InOrder, Connects, Closes, Releases, S!About, Made
<1> QED BY <1>4, <1>6, <1>7, <1>8, <1>9, OneCallActs

LEMMA ReleaseStep ==
  ASSUME ServerInv, NEW r \in ManagerCalls, NEW op \in {"release", "dispose"},
         NEW ss \in SUBSET Servers, ss = IF op = "dispose" THEN Servers ELSE Servers \ Shared,
         S!Release(r, op, ss)
  PROVE  ServerInv'
<1> USE DEF ServerInv
<1> DEFINE todo == IF op = "dispose" THEN Shared ELSE Servers \ Shared
           e == [op |-> op, pc |-> "next", servers |-> ss, client |-> 0, todo |-> todo]
<1>1. /\ managerCalls' = [managerCalls EXCEPT ![r] = e]
      /\ managed' = managed /\ clients' = clients /\ stranded' = stranded
      BY DEF S!Release
<1>2. /\ ~Busy(r) /\ overlapped \subseteq overlapped' /\ overlapped' \subseteq overlapped \cup ss
      /\ \A s \in ss, q \in ManagerCalls :
           Busy(q) /\ s \in managerCalls[q].servers => s \in overlapped'
      BY Begun DEF S!Release
<1>3. e \in S!Call
  <2>1. todo \subseteq Servers /\ 0 \in 0 .. MaxClients
        BY HostAssumption
  <2> HIDE DEF todo
  <2> QED BY <2>1 DEF S!Call
<1>4. /\ managerCalls'[r] = e
      /\ \A q \in ManagerCalls : q # r => managerCalls'[q] = managerCalls[q]
      BY <1>1 DEF S!TypeOK
<1>5. S!TypeOK'
      BY <1>1, <1>2, <1>3 DEF S!TypeOK
<1>6. \A t \in Servers : S!ClientOf(t)' = S!ClientOf(t)
      BY <1>1 DEF S!ClientOf
<1>7. Acts(r)
      BY <1>1, <1>2, <1>4, <1>6 DEF Acts
<1>8. Notes(r)
      BY <1>2, <1>4 DEF Notes
<1>9. Keeps(r)
      BY <1>1, <1>2 DEF Keeps
<1>10. Group(r)' = todo /\ todo \subseteq ss
      BY <1>4, HostAssumption DEF Group
<1>11. InOrder(r)'
      BY <1>4, <1>10 DEF InOrder, Connects, Closes, Releases
<1> QED BY <1>5, <1>7, <1>8, <1>9, <1>11, OneCallActs

LEMMA OpenedStep ==
  ASSUME ServerInv, NEW r \in ManagerCalls, S!Opened(r)
  PROVE  ServerInv'
<1> USE DEF ServerInv
<1>0. PICK c, s : c = managerCalls[r].client /\ s = clients[c].server
      OBVIOUS
<1>1. managerCalls[r].pc = "open" /\ Busy(r) /\ managerCalls[r] \in S!Call
      BY Listing DEF S!Opened, S!Idle, Busy
<1>2. /\ c \in S!Clients /\ clients[c] # S!None /\ clients[c] \in S!Client /\ s \in Servers
      /\ s \in managerCalls[r].servers /\ managerCalls[r].op \in {"start", "restart"}
      /\ \A t \in Servers : S!ClientOf(t) # c
      /\ \A q \in ManagerCalls : q # r /\ Busy(q) => managerCalls[q].client # c
      /\ S!ClientOf(s) = 0 \/ s \in overlapped
      BY <1>0, <1>1, Listing DEF InOrder, Connects, S!Client
<1>3. /\ overlapped' = overlapped /\ stranded' = stranded
      /\ \A q \in ManagerCalls : q # r => managerCalls'[q] = managerCalls[q]
      BY DEF S!Opened, S!Return, S!TypeOK
<1>4. \A q \in ManagerCalls : q # r /\ Busy(q) /\ s \in managerCalls[q].servers => s \in overlapped
      BY <1>1, <1>2 DEF Apart
<1>5. CASE /\ clients' = [clients EXCEPT ![c].state = "open"]
           /\ managerCalls' = [managerCalls EXCEPT ![r].pc = "list"]
           /\ managed' = managed
  <2>1. /\ clients'[c] = [clients[c] EXCEPT !.state = "open"]
        /\ \A d \in S!Clients : d # c => clients'[d] = clients[d]
        BY <1>2, <1>5 DEF S!TypeOK
  <2>2. clients'[c] \in S!Client /\ clients'[c].state = "open" /\ clients'[c].server = s
        BY <1>0, <1>2, <2>1 DEF S!Client
  <2>3. managerCalls'[r] = [managerCalls[r] EXCEPT !.pc = "list"]
        BY <1>5 DEF S!TypeOK
  <2>4. /\ managerCalls'[r] \in S!Call /\ managerCalls'[r].pc = "list" /\ managerCalls'[r].client = c
        /\ managerCalls'[r].servers = managerCalls[r].servers
        /\ managerCalls'[r].op = managerCalls[r].op
        BY <1>0, <1>1, <2>3 DEF S!Call
  <2>5. S!TypeOK'
        BY <1>3, <1>5, <2>2, <2>4, Zenon DEF S!TypeOK
  <2>6. \A t \in Servers : S!ClientOf(t)' = S!ClientOf(t)
        BY <1>5 DEF S!ClientOf
  <2>7. clients'[c] # S!None /\ Busy(r)'
        BY <2>2, <2>4, Nothing DEF Busy, S!Idle
  <2>8. Acts(r)
        BY <1>0, <1>1, <1>2, <1>3, <1>5, <2>1, <2>2, <2>4, <2>6, <2>7 DEF Acts
  <2>9. Notes(r)
        BY <1>1, <2>4 DEF Notes
  <2>10. Keeps(r)
        BY <1>0, <1>2, <1>5, <2>1, <2>4, <2>7 DEF Keeps
  <2>11. \A q \in ManagerCalls : q # r /\ Busy(q)' => managerCalls'[q].client # c
        BY <1>2, <1>3 DEF Busy
  <2>12. InOrder(r)'
    <3>1. Connects(r)'
          BY <1>0, <1>2, <1>3, <1>5, <2>2, <2>4, <2>6, <2>11 DEF Connects, S!Clients, S!ClientOf
    <3> QED BY <2>4, <2>7, <3>1 DEF InOrder, Closes, Releases
  <2> QED BY <2>5, <2>8, <2>9, <2>10, <2>12, OneCallActs
<1>6. CASE /\ clients' = [clients EXCEPT ![c].state = "closed"]
           /\ S!Put(s, "failed", 0)
           /\ S!Return(r)
  <2>1. /\ clients'[c] = [clients[c] EXCEPT !.state = "closed"]
        /\ \A d \in S!Clients : d # c => clients'[d] = clients[d]
        BY <1>2, <1>6 DEF S!TypeOK
  <2>2. clients'[c] \in S!Client /\ clients'[c].state = "closed" /\ clients'[c].server = s
        BY <1>0, <1>2, <2>1 DEF S!Client
  <2>3. managerCalls'[r] = S!Idle /\ ~Busy(r)'
        BY <1>6 DEF S!TypeOK, S!Return, Busy
  <2>4. /\ managed' \in [Servers -> S!Entry \cup {S!None}]
        /\ S!ClientOf(s)' = 0
        /\ \A t \in Servers : t # s => managed'[t] = managed[t] /\ S!ClientOf(t)' = S!ClientOf(t)
        BY <1>2, <1>6, Putting, Zenon DEF S!Put
  <2>5. S!TypeOK'
        BY <1>3, <1>6, <2>2, <2>4, Zenon DEF S!TypeOK, S!Return
  <2>6. clients'[c] # S!None
        BY <2>2, Nothing
  <2>7. Acts(r)
        BY <1>0, <1>1, <1>2, <1>3, <1>4, <2>1, <2>2, <2>3, <2>4, <2>6, Zenon DEF Acts
  <2>8. Notes(r)
        BY <2>3 DEF Notes
  <2>9. Keeps(r)
        BY <1>0, <1>2, <1>3, <2>1, <2>2, <2>4, Zenon DEF Keeps
  <2>10. InOrder(r)'
        BY <2>3 DEF InOrder
  <2> QED BY <2>5, <2>7, <2>8, <2>9, <2>10, OneCallActs
<1> QED BY <1>0, <1>5, <1>6 DEF S!Opened

LEMMA ToolsListedStep ==
  ASSUME ServerInv, NEW r \in ManagerCalls, S!ToolsListed(r)
  PROVE  ServerInv'
<1> USE DEF ServerInv
<1>0. PICK c, s : c = managerCalls[r].client /\ s = clients[c].server
      OBVIOUS
<1>1. managerCalls[r].pc = "list" /\ Busy(r) /\ managerCalls[r] \in S!Call
      BY Listing DEF S!ToolsListed, S!Idle, Busy
<1>2. /\ c \in S!Clients /\ clients[c] # S!None /\ clients[c] \in S!Client /\ s \in Servers
      /\ s \in managerCalls[r].servers
      /\ \A t \in Servers : S!ClientOf(t) # c
      /\ S!ClientOf(s) = 0 \/ s \in overlapped
      BY <1>0, <1>1, Listing DEF InOrder, Connects, S!Client
<1>3. /\ overlapped' = overlapped /\ clients' = clients
      /\ managerCalls' = [managerCalls EXCEPT ![r] = S!Idle]
      /\ \A q \in ManagerCalls : q # r => managerCalls'[q] = managerCalls[q]
      /\ managerCalls'[r] = S!Idle /\ ~Busy(r)'
      BY DEF S!ToolsListed, S!Return, S!TypeOK, Busy
<1>4. \A q \in ManagerCalls : q # r /\ Busy(q) /\ s \in managerCalls[q].servers => s \in overlapped
      BY <1>1, <1>2 DEF Apart
<1>5. Notes(r) /\ InOrder(r)'
      BY <1>3 DEF Notes, InOrder
<1>6. CASE S!Put(s, "connected", c) /\ stranded' = stranded
  <2>1. /\ managed' \in [Servers -> S!Entry \cup {S!None}]
        /\ S!ClientOf(s)' = c
        /\ \A t \in Servers : t # s => managed'[t] = managed[t] /\ S!ClientOf(t)' = S!ClientOf(t)
        BY <1>2, <1>6, Putting, Zenon DEF S!Put
  <2>2. S!TypeOK'
        BY <1>3, <1>6, <2>1 DEF S!TypeOK
  <2>3. Acts(r)
        BY <1>0, <1>1, <1>2, <1>3, <1>4, <1>6, <2>1 DEF Acts, S!Clients
  <2>4. \A d \in S!Clients : c = d => S!ClientOf(clients[d].server)' = d
        BY <1>0, <1>3, <2>1 DEF S!ClientOf
  <2>5. Keeps(r)
        BY <1>0, <1>2, <1>3, <1>6, <2>1, <2>4 DEF Keeps
  <2> QED BY <1>5, <2>2, <2>3, <2>5, OneCallActs
<1>7. CASE S!Put(s, "failed", 0) /\ stranded' = stranded \cup {c}
  <2>1. /\ managed' \in [Servers -> S!Entry \cup {S!None}]
        /\ S!ClientOf(s)' = 0
        /\ \A t \in Servers : t # s => managed'[t] = managed[t] /\ S!ClientOf(t)' = S!ClientOf(t)
        BY <1>2, <1>7, Putting, Zenon DEF S!Put
  <2>2. S!TypeOK'
        BY <1>2, <1>3, <1>7, <2>1, Zenon DEF S!TypeOK
  <2>3. Acts(r)
        BY <1>0, <1>1, <1>2, <1>3, <1>4, <1>7, <2>1, Zenon DEF Acts
  <2>4. Keeps(r)
        BY <1>0, <1>2, <1>3, <1>7, <2>1, Zenon DEF Keeps
  <2> QED BY <1>5, <2>2, <2>3, <2>4, OneCallActs
<1> QED BY <1>0, <1>6, <1>7 DEF S!ToolsListed

\* The clients once c is closed.
Closed(c) ==
  [d \in S!Clients |-> IF d = c THEN [clients[d] EXCEPT !.state = "closed"] ELSE clients[d]]

\* What a call has found is a client, and is closed by then.
LEMMA FoundIsClosed ==
  ASSUME ServerInv, NEW r \in ManagerCalls, Busy(r), NEW c, c = managerCalls[r].client
  PROVE  /\ Closed(c) \in [S!Clients -> S!Client \cup {S!None}]
         /\ \A d \in S!Clients : d # c => Closed(c)[d] = clients[d]
         /\ c # 0 => /\ c \in S!Clients /\ clients[c] # S!None
                     /\ Closed(c)[c] # S!None /\ Closed(c)[c].state = "closed"
                     /\ Closed(c)[c].server = clients[c].server
<1>1. /\ clients \in [S!Clients -> S!Client \cup {S!None}]
      /\ c = 0 \/ c \in S!Clients
      /\ c # 0 => clients[c] # S!None /\ clients[c] \in S!Client
      BY Listing DEF ServerInv, InOrder, S!TypeOK
<1>2. ASSUME c # 0
      PROVE  /\ c \in S!Clients /\ Closed(c)[c] \in S!Client
             /\ Closed(c)[c].state = "closed" /\ Closed(c)[c].server = clients[c].server
  <2>1. Closed(c)[c] = [clients[c] EXCEPT !.state = "closed"]
        BY <1>1, <1>2 DEF Closed
  <2> QED BY <1>1, <1>2, <2>1 DEF S!Client
<1>3. \A d \in S!Clients : d # c => Closed(c)[d] = clients[d]
      BY DEF Closed
<1>4. \A d \in S!Clients : Closed(c)[d] \in S!Client \cup {S!None}
  <2> TAKE d \in S!Clients
  <2>1. CASE d = c
        BY <1>2, <2>1 DEF S!Clients
  <2>2. CASE d # c
        BY <1>1, <1>3, <2>2
  <2> QED BY <2>1, <2>2
<1>5. Closed(c) \in [S!Clients -> S!Client \cup {S!None}]
      BY <1>4 DEF Closed
<1> QED BY <1>1, <1>2, <1>3, <1>5, Nothing

LEMMA VisitStep ==
  ASSUME ServerInv, NEW r \in ManagerCalls, S!Visit(r)
  PROVE  ServerInv'
<1> USE DEF ServerInv
<1>1. managerCalls[r].pc = "next" /\ Busy(r) /\ managerCalls[r] \in S!Call
  <2>1. managerCalls[r].pc = "next"
        BY Zenon DEF S!Visit
  <2>2. Busy(r)
        BY <2>1 DEF Busy, S!Idle
  <2> QED BY <2>1, <2>2, Listing
<1>2. /\ managerCalls[r].op \in {"release", "dispose"} /\ managerCalls[r].client = 0
      /\ Releases(r)
      BY <1>1 DEF InOrder
<1>3. /\ managerCalls[r].todo \subseteq Group(r) /\ Group(r) \subseteq managerCalls[r].servers
      /\ managerCalls[r].servers \subseteq Servers
      /\ managerCalls[r].op = "dispose" => managerCalls[r].servers = Servers
      /\ \A s \in Group(r) \ managerCalls[r].todo :
           \/ S!ClientOf(s) = 0
           \/ clients[S!ClientOf(s)].state # "open"
           \/ s \in overlapped
      BY <1>1, <1>2 DEF Releases, S!Call
<1>4. clients' = clients /\ overlapped' = overlapped /\ stranded' = stranded
      BY Zenon DEF S!Visit
<1>5. ASSUME NEW s \in managerCalls[r].todo, managed' = managed,
             managerCalls' = [managerCalls EXCEPT ![r].todo = @ \ {s}, ![r].client = S!ClientOf(s),
                                                  ![r].pc = "disconnect"]
      PROVE  ServerInv'
  <2>1. managerCalls'[r] = [managerCalls[r] EXCEPT !.todo = @ \ {s}, !.client = S!ClientOf(s),
                                                   !.pc = "disconnect"]
        BY <1>5 DEF S!TypeOK
  <2>2. S!ClientOf(s) \in 0 .. MaxClients /\ s \in Servers
        BY <1>3, Listing, HostAssumption DEF S!Clients
  <2>3. /\ managerCalls'[r] \in S!Call /\ managerCalls'[r].pc = "disconnect"
        /\ managerCalls'[r].op = managerCalls[r].op
        /\ managerCalls'[r].servers = managerCalls[r].servers
        /\ managerCalls'[r].todo = managerCalls[r].todo \ {s}
        /\ managerCalls'[r].client = S!ClientOf(s)
        BY <1>1, <2>1, <2>2, Zenon DEF S!Call
  <2>4. \A q \in ManagerCalls : q # r => managerCalls'[q] = managerCalls[q]
        BY <1>5 DEF S!TypeOK
  <2>5. S!TypeOK'
        BY <1>4, <1>5, <2>3 DEF S!TypeOK
  <2>6. \A t \in Servers : S!ClientOf(t)' = S!ClientOf(t)
        BY <1>5 DEF S!ClientOf
  <2>7. Acts(r)
        BY <1>4, <1>5, <2>2, <2>3, <2>4, <2>6, Zenon DEF Acts
  <2>8. Notes(r)
        BY <1>1, <2>3 DEF Notes
  <2>9. Keeps(r)
        BY <1>2, <1>4, <1>5 DEF Keeps, S!Clients
  <2>10. Group(r)' = Group(r)
        BY <2>3 DEF Group
  <2>11. InOrder(r)'
    <3>1. Releases(r)'
      <4>1. managerCalls'[r].todo \subseteq Group(r)
            BY <1>3, <2>3
      <4>2. ASSUME NEW t \in Group(r) \ managerCalls'[r].todo
            PROVE  \/ S!ClientOf(t)' = managerCalls'[r].client
                   \/ S!ClientOf(t)' = 0
                   \/ clients'[S!ClientOf(t)'].state # "open"
                   \/ t \in overlapped'
        <5>1. t = s \/ t \in Group(r) \ managerCalls[r].todo
              BY <2>3, <4>2
        <5>2. t \in Servers
              BY <1>3
        <5> QED BY <1>3, <1>4, <2>3, <2>6, <5>1, <5>2
      <4> QED BY <1>2, <1>3, <2>3, <2>10, <4>1, <4>2 DEF Releases
    <3>2. Made
          OBVIOUS
    <3> QED BY <1>2, <1>4, <2>2, <2>3, <3>1, <3>2 DEF InOrder, Connects, Closes, Made
  <2> QED BY <2>5, <2>7, <2>8, <2>9, <2>11, OneCallActs
<1>6. ASSUME managerCalls[r].todo = {},
             managed' = [s \in Servers |-> IF s \in Group(r) THEN S!None ELSE managed[s]],
             \A q \in ManagerCalls : q # r => managerCalls'[q] = managerCalls[q],
             managerCalls' \in [ManagerCalls -> S!Call \cup {S!Idle}],
             InOrder(r)',
             \/ managerCalls'[r] = S!Idle
             \/ managerCalls'[r].client = 0 /\ managerCalls'[r].servers = managerCalls[r].servers
      PROVE  ServerInv'
  <2>1. S!TypeOK'
        BY <1>4, <1>6 DEF S!TypeOK
  <2>2. \A s \in Servers : \/ s \in Group(r) /\ S!ClientOf(s)' = 0
                           \/ managed'[s] = managed[s] /\ S!ClientOf(s)' = S!ClientOf(s)
        BY <1>6 DEF S!ClientOf
  <2>3. ASSUME NEW s \in Servers, s \in Group(r), NEW q \in ManagerCalls \ {r}, Busy(q),
               s \in managerCalls[q].servers
        PROVE  s \in overlapped'
        BY <1>1, <1>3, <1>4, <2>3 DEF Apart
  <2>4. Acts(r)
        BY <1>4, <1>6, <2>2, <2>3 DEF Acts, Busy
  <2>5. Notes(r)
        BY <1>1, <1>6 DEF Notes, Busy
  <2>6. Keeps(r)
        BY <1>2, <1>3, <1>4, <1>6, <2>2 DEF Keeps, S!Clients
  <2> QED BY <1>6, <2>1, <2>4, <2>5, <2>6, OneCallActs
<1>7. ASSUME managerCalls[r].todo = {}, managerCalls[r].op # "dispose",
             managed' = [s \in Servers |-> IF s \in Group(r) THEN S!None ELSE managed[s]],
             S!Return(r)
      PROVE  ServerInv'
  <2>1. managerCalls'[r] = S!Idle /\ InOrder(r)'
        BY <1>7 DEF S!Return, S!TypeOK, InOrder, Busy
  <2>2. \A q \in ManagerCalls : q # r => managerCalls'[q] = managerCalls[q]
        BY <1>7 DEF S!Return, S!TypeOK
  <2>3. managerCalls' \in [ManagerCalls -> S!Call \cup {S!Idle}]
        BY <1>7 DEF S!Return, S!TypeOK
  <2> QED BY <1>6, <1>7, <2>1, <2>2, <2>3
<1>8. ASSUME managerCalls[r].todo = {}, managerCalls[r].op = "dispose",
             managed' = [s \in Servers |-> IF s \in Group(r) THEN S!None ELSE managed[s]],
             managerCalls' = [managerCalls EXCEPT ![r].op = "release",
                                                  ![r].todo = Servers \ Shared]
      PROVE  ServerInv'
  <2>1. managerCalls'[r] = [managerCalls[r] EXCEPT !.op = "release", !.todo = Servers \ Shared]
        BY <1>8 DEF S!TypeOK
  <2>2. /\ managerCalls'[r] \in S!Call /\ managerCalls'[r].pc = "next"
        /\ managerCalls'[r].op = "release" /\ managerCalls'[r].todo = Servers \ Shared
        /\ managerCalls'[r].servers = managerCalls[r].servers /\ managerCalls'[r].client = 0
        BY <1>1, <1>2, <2>1, Zenon DEF S!Call
  <2>3. \A q \in ManagerCalls : q # r => managerCalls'[q] = managerCalls[q]
        BY <1>8 DEF S!TypeOK
  <2>4. managerCalls' \in [ManagerCalls -> S!Call \cup {S!Idle}]
        BY <1>8, <2>2 DEF S!TypeOK
  <2>5. Group(r)' = Servers \ Shared
        BY <2>2 DEF Group
  <2>6. InOrder(r)'
        BY <1>3, <1>8, <2>2, <2>5, Zenon DEF InOrder, Connects, Closes, Releases
  <2> QED BY <1>6, <1>8, <2>2, <2>3, <2>4, <2>6
<1>9. \/ /\ managed' = managed
         /\ \E s \in managerCalls[r].todo :
              managerCalls' = [managerCalls EXCEPT ![r].todo = @ \ {s}, ![r].client = S!ClientOf(s),
                                                   ![r].pc = "disconnect"]
      \/ /\ managerCalls[r].todo = {}
         /\ managed' = [s \in Servers |-> IF s \in Group(r) THEN S!None ELSE managed[s]]
         /\ IF managerCalls[r].op = "dispose"
            THEN managerCalls' = [managerCalls EXCEPT ![r].op = "release", ![r].todo = Servers \ Shared]
            ELSE S!Return(r)
      BY Zenon DEF S!Visit, Group
<1> QED BY <1>5, <1>7, <1>8, <1>9, Zenon

LEMMA DisconnectedStep ==
  ASSUME ServerInv, NEW r \in ManagerCalls, S!Disconnected(r)
  PROVE  ServerInv'
<1> USE DEF ServerInv
<1>0. PICK c : c = managerCalls[r].client
      OBVIOUS
<1>1. managerCalls[r].pc = "disconnect" /\ Busy(r) /\ managerCalls[r] \in S!Call
      BY Listing DEF S!Disconnected, S!Idle, Busy
<1>2. /\ Closed(c) \in [S!Clients -> S!Client \cup {S!None}]
      /\ \A d \in S!Clients : d # c => Closed(c)[d] = clients[d]
      /\ c # 0 => /\ c \in S!Clients /\ clients[c] # S!None
                  /\ Closed(c)[c] # S!None /\ Closed(c)[c].state = "closed"
                  /\ Closed(c)[c].server = clients[c].server
      BY <1>0, <1>1, FoundIsClosed
<1>3. overlapped' = overlapped /\ stranded' = stranded
      BY DEF S!Disconnected
<1>4. managerCalls[r].servers \subseteq Servers
      BY <1>1 DEF S!Call
<1>5. ASSUME NEW s \in managerCalls[r].servers, NEW q \in ManagerCalls \ {r}, Busy(q),
             s \in managerCalls[q].servers
      PROVE  s \in overlapped'
      BY <1>1, <1>3, <1>4, <1>5 DEF Apart
<1>6. ASSUME NEW s \in managerCalls[r].servers, managerCalls[r].op \in {"restart", "disable"}
      PROVE  S!ClientOf(s) = c \/ s \in overlapped
      BY <1>0, <1>1, <1>6 DEF InOrder, Closes
<1>10. \A d \in S!Clients :
         \/ d # c /\ Closed(c)[d] = clients[d]
         \/ /\ d = c /\ clients[d] # S!None /\ Closed(c)[d] # S!None
            /\ Closed(c)[d].server = clients[d].server /\ Closed(c)[d].state = "closed"
      BY <1>2 DEF S!Clients
<1>7. CASE /\ managerCalls[r].op = "restart"
           /\ \E s \in managerCalls[r].servers : S!Connecting(r, "restart", s, Closed(c))
  <2>1. PICK s \in managerCalls[r].servers : S!Connecting(r, "restart", s, Closed(c))
        BY <1>7
  <2>2. PICK n \in S!Clients :
          /\ clients[n] = S!None
          /\ managed' = [managed EXCEPT ![s] = [status |-> "connecting", client |-> 0]]
          /\ clients' = [Closed(c) EXCEPT ![n] = [server |-> s, state |-> "opening"]]
          /\ managerCalls' = [managerCalls EXCEPT ![r] = S!About("restart", "open", s, n)]
    <3>1. /\ S!Unused # {}
          /\ managed' = [managed EXCEPT ![s] = [status |-> "connecting", client |-> 0]]
          /\ clients' = [Closed(c) EXCEPT ![First] = [server |-> s, state |-> "opening"]]
          /\ managerCalls' = [managerCalls EXCEPT ![r] = S!About("restart", "open", s, First)]
          BY <2>1 DEF S!Connecting, S!Put, First
    <3> QED BY <3>1, FirstIsUnused, Zenon
  <2>3. s \in Servers /\ n # c /\ n # 0
        BY <1>2, <1>4, <2>2 DEF S!Clients
  <2>4. /\ managed' \in [Servers -> S!Entry \cup {S!None}]
        /\ S!ClientOf(s)' = 0
        /\ \A t \in Servers : t # s => managed'[t] = managed[t] /\ S!ClientOf(t)' = S!ClientOf(t)
        BY <2>2, <2>3, Putting, Zenon
  <2>5. /\ clients'[n] = [server |-> s, state |-> "opening"] /\ clients'[n] \in S!Client
        /\ \A d \in S!Clients : d # n => clients'[d] = Closed(c)[d]
        BY <1>2, <2>2, <2>3 DEF S!Client
  <2>6. /\ managerCalls'[r] = S!About("restart", "open", s, n) /\ managerCalls'[r] \in S!Call
        /\ \A q \in ManagerCalls : q # r => managerCalls'[q] = managerCalls[q]
    <3>1. n \in 0 .. MaxClients
          BY HostAssumption DEF S!Clients
    <3>2. S!About("restart", "open", s, n) \in S!Call
          BY <2>3, <3>1 DEF S!About, S!Call
    <3> QED BY <2>2, <3>2 DEF S!TypeOK
  <2>7. S!TypeOK'
        BY <1>2, <1>3, <2>2, <2>4, <2>5, <2>6 DEF S!TypeOK
  <2>12. \A d \in S!Clients :
           \/ d # c /\ clients'[d] = clients[d]
           \/ d # c /\ clients[d] = S!None /\ clients'[d].state = "opening"
           \/ /\ d = c /\ clients[d] # S!None /\ clients'[d] # S!None
              /\ clients'[d].server = clients[d].server /\ clients'[d].state = "closed"
        BY <1>10, <2>2, <2>3, <2>5
  <2>8. Acts(r)
        BY <1>0, <1>1, <1>3, <1>5, <2>2, <2>3, <2>4, <2>6, <2>12 DEF Acts, S!About
  <2>9. Notes(r)
        BY <1>1, <2>6 DEF Notes, S!About
  <2>10. Keeps(r)
    <3>1. S!ClientOf(s) = c \/ s \in overlapped'
          BY <1>3, <1>6, <1>7
    <3>2. S!ClientOf(s) = 0 \/ S!ClientOf(s) \in S!Clients
          BY <2>3, Listing
    <3>3. ASSUME S!ClientOf(s) = c, c # 0
          PROVE  clients'[S!ClientOf(s)].state # "open"
          BY <2>12, <3>2, <3>3
    <3>4. \A t \in Servers :
            \/ managed'[t] = managed[t] \/ t \in overlapped'
            \/ S!ClientOf(t) = 0 \/ clients'[S!ClientOf(t)].state # "open"
          BY <2>4, <3>1, <3>3
    <3> QED BY <1>0, <2>12, <3>4 DEF Keeps
  <2>11. InOrder(r)'
    <3>1. \A t \in Servers : S!ClientOf(t)' # n
          BY <2>2, <2>3, <2>4 DEF Made
    <3>2. \A q \in ManagerCalls : q # r /\ Busy(q)' => managerCalls'[q].client # n
          BY <2>2, <2>3, <2>6 DEF InOrder, Busy
    <3> QED BY <2>3, <2>4, <2>5, <2>6, <3>1, <3>2, Nothing
            DEF InOrder, Connects, Closes, Releases, S!About, Busy
  <2> QED BY <2>7, <2>8, <2>9, <2>10, <2>11, OneCallActs
<1>8. ASSUME managerCalls[r].op \in {"restart", "disable"}, clients' = Closed(c), S!Return(r),
             \/ managed' = managed
             \/ \E s \in managerCalls[r].servers : S!Put(s, "disabled", 0)
      PROVE  ServerInv'
  <2>1. /\ managerCalls'[r] = S!Idle /\ ~Busy(r)'
        /\ \A q \in ManagerCalls : q # r => managerCalls'[q] = managerCalls[q]
        /\ managerCalls' \in [ManagerCalls -> S!Call \cup {S!Idle}]
        BY <1>8 DEF S!Return, S!TypeOK, Busy
  <2>2. /\ managed' \in [Servers -> S!Entry \cup {S!None}]
        /\ \A t \in Servers :
             \/ managed'[t] = managed[t] /\ S!ClientOf(t)' = S!ClientOf(t)
             \/ t \in managerCalls[r].servers /\ S!ClientOf(t)' = 0
    <3>1. CASE managed' = managed
          BY <3>1 DEF S!TypeOK, S!ClientOf
    <3>2. ASSUME NEW s \in managerCalls[r].servers, S!Put(s, "disabled", 0)
          PROVE  <2>2!1 /\ <2>2!2
          BY <1>4, <3>2, Putting, Zenon DEF S!Put
    <3> QED BY <1>8, <3>1, <3>2
  <2>3. S!TypeOK'
        BY <1>2, <1>3, <1>8, <2>1, <2>2 DEF S!TypeOK
  <2>4. Acts(r)
        BY <1>0, <1>1, <1>3, <1>5, <1>8, <1>10, <2>1, <2>2 DEF Acts
  <2>5. Notes(r) /\ InOrder(r)'
        BY <2>1 DEF Notes, InOrder
  <2>6. Keeps(r)
    <3>1. ASSUME NEW t \in Servers, t \in managerCalls[r].servers, t \notin overlapped',
                 S!ClientOf(t) # 0
          PROVE  clients'[S!ClientOf(t)].state # "open"
          BY <1>2, <1>3, <1>6, <1>8, <3>1
    <3> QED BY <1>0, <1>2, <1>8, <2>2, <3>1 DEF Keeps, S!Clients
  <2> QED BY <2>3, <2>4, <2>5, <2>6, OneCallActs
<1>9. CASE /\ managerCalls[r].op \in {"release", "dispose"}
           /\ clients' = Closed(c) /\ managed' = managed
           /\ managerCalls' = [managerCalls EXCEPT ![r].pc = "next", ![r].client = 0]
  <2>1. managerCalls'[r] = [managerCalls[r] EXCEPT !.pc = "next", !.client = 0]
        BY <1>9 DEF S!TypeOK
  <2>2. /\ managerCalls'[r] \in S!Call /\ managerCalls'[r].pc = "next" /\ managerCalls'[r].client = 0
        /\ managerCalls'[r].op = managerCalls[r].op /\ managerCalls'[r].todo = managerCalls[r].todo
        /\ managerCalls'[r].servers = managerCalls[r].servers
    <3>1. 0 \in 0 .. MaxClients
          BY HostAssumption
    <3> QED BY <1>1, <2>1, <3>1, Zenon DEF S!Call
  <2>3. \A q \in ManagerCalls : q # r => managerCalls'[q] = managerCalls[q]
        BY <1>9 DEF S!TypeOK
  <2>4. S!TypeOK'
        BY <1>2, <1>3, <1>9, <2>2 DEF S!TypeOK
  <2>5. \A t \in Servers : S!ClientOf(t)' = S!ClientOf(t)
        BY <1>9 DEF S!ClientOf
  <2>6. Acts(r)
        BY <1>0, <1>1, <1>3, <1>9, <1>10, <2>2, <2>3, <2>5, Zenon DEF Acts
  <2>7. Notes(r)
        BY <1>1, <2>2 DEF Notes
  <2>8. Keeps(r)
        BY <1>0, <1>2, <1>9 DEF Keeps, S!Clients
  <2>9. InOrder(r)'
    <3>1. Releases(r)
          BY <1>1 DEF InOrder
    <3>2. Group(r)' = Group(r) /\ Group(r) \subseteq Servers
          BY <2>2, HostAssumption DEF Group
    <3>3. ASSUME NEW t \in Group(r) \ managerCalls[r].todo, t \notin overlapped, S!ClientOf(t) # 0
          PROVE  clients'[S!ClientOf(t)].state # "open"
      <4>1. S!ClientOf(t) = c \/ clients[S!ClientOf(t)].state # "open"
            BY <1>0, <1>1, <1>9, <3>1, <3>3 DEF Releases
      <4>2. S!ClientOf(t) \in S!Clients
            BY <3>2, <3>3, Listing
      <4> QED BY <1>9, <1>10, <3>3, <4>1, <4>2
    <3>4. Releases(r)'
      <4>1. /\ managerCalls[r].todo \subseteq Group(r) /\ Group(r) \subseteq managerCalls[r].servers
            /\ managerCalls[r].op = "dispose" => managerCalls[r].servers = Servers
            BY <1>1, <1>9, <3>1 DEF Releases
      <4> QED BY <1>3, <2>2, <2>5, <3>2, <3>3, <4>1 DEF Releases
    <3> QED BY <1>9, <2>2, <3>4 DEF InOrder, Connects, Closes
  <2> QED BY <2>4, <2>6, <2>7, <2>8, <2>9, OneCallActs
<1> QED BY <1>0, <1>7, <1>8, <1>9 DEF S!Disconnected, Closed

\* The invariant of the MCP servers is inductive.
LEMMA ServerStep ==
  ASSUME ServerInv, [S!Next]_(S!vars)
  PROVE  ServerInv'
<1>1. CASE UNCHANGED S!vars
      BY <1>1 DEF S!vars, ServerInv, S!TypeOK, Apart, Made, InOrder, Connects, Closes, Releases,
         Group, Busy, S!ClientOf, S!ServersAreTracked
<1> QED BY <1>1, StartStep, RestartStep, ReleaseStep, OpenedStep, ToolsListedStep, VisitStep,
        DisconnectedStep DEF S!Next

LEMMA ServerInit ==
  ASSUME S!Init
  PROVE  ServerInv
BY HostAssumption DEF S!Init, ServerInv, S!TypeOK, Apart, Made, InOrder, Busy, S!ClientOf,
   S!ServersAreTracked

\* Whatever connects, fails, restarts or is released meanwhile, an open client
\* can still be closed, unless its tools could not be listed after it had connected,
\* or two calls were about its server at a time.
THEOREM ServersTracked == HostSpec => []ServersAreTracked
<1>1. HostInit => ServerInv
      BY ServerInit DEF HostInit
<1>2. ServerInv /\ [HostNext]_hostVars => ServerInv'
      BY ServerStep, HostStep
<1>3. ServerInv => ServersAreTracked
      BY DEF ServerInv, ServersAreTracked
<1> QED BY <1>1, <1>2, <1>3, PTL DEF HostSpec

-----------------------------------------------------------------------------
(* The files of a session.                                                  *)

\* Wherever a save is interrupted, by a crash or a deletion, what was answered
\* before loads.
THEOREM SavedIsKept == HostSpec => []SavedSurvives
<1>1. HostInit => SaveInv
      BY SaveInit DEF HostInit
<1>2. SaveInv /\ [HostNext]_hostVars => SaveInv'
      BY SaveStep, HostStep
<1> QED BY <1>1, <1>2, PTL DEF HostSpec, SaveInv

\* Property LogIsReadable: however appends, deletions and crashes in the middle of a
\* write follow each other, a crash costs the readers one event that listeners have
\* seen at most, and a tail read, wherever it stops, is an end of what a full read
\* returns, as long as TailAgrees says.  That a crash costs none, as types.ts:349
\* promises, is not so: see HeardIsReadable.
THEOREM LogReadable == HostSpec => []LogIsReadable
<1>1. HostInit => LogInv
      BY LogInit DEF HostInit
<1>2. LogInv /\ [HostNext]_hostVars => LogInv'
      BY LogStep, HostStep
<1>3. LogInv => LogIsReadable
      BY LogSafe DEF LogIsReadable
<1> QED BY <1>1, <1>2, <1>3, PTL DEF HostSpec

\* Property RebuiltIsPaired: whatever the log has lost, every tool call of the
\* conversation that is rebuilt from it has its result in the next message.
THEOREM RebuiltCorrect == HostSpec => []RebuiltIsPaired
<1>1. HostInit => LogInv
      BY LogInit DEF HostInit
<1>2. LogInv /\ [HostNext]_hostVars => LogInv'
      BY LogStep, HostStep
<1>3. LogInv => RebuiltIsPaired
      BY RebuiltPaired DEF LogInv, LogTypes
<1> QED BY <1>1, <1>2, <1>3, PTL DEF HostSpec

-----------------------------------------------------------------------------
(* The hands of an agent and its tools.                                     *)

\* A hand that is registered if it is wanted.
Joined(had, h, wanted) == IF h \in wanted THEN C!Registered(had, h) ELSE had

\* The registry after each number of hands.
Registers(g, caps, hs, wanted) ==
  /\ g[0] = caps /\ C!RegisteredAll(caps, hs, wanted) = g[Len(hs)]
  /\ \A n \in 1 .. Len(hs) : g[n] = Joined(g[n - 1], hs[n], wanted)

\* Registering hands one after the other is one step for each of them.
LEMMA Registering ==
  ASSUME NEW caps, NEW wanted, NEW Elems, NEW hs \in Seq(Elems), NEW V, caps \in V,
         \A had \in V, n \in 1 .. Len(hs) : Joined(had, hs[n], wanted) \in V
  PROVE  \E g : Registers(g, caps, hs, wanted)
<1>0. \A had \in V, n \in 1 .. Len(hs) :
        (IF hs[n] \in wanted THEN C!Registered(had, hs[n]) ELSE had) \in V
      BY Zenon DEF Joined
<1> DEFINE N == Len(hs)
           step == [p \in (1 .. N) \X V |->
                     IF hs[p[1]] \in wanted THEN C!Registered(p[2], hs[p[1]]) ELSE p[2]]
           Unfolds(it) ==
             it = [s \in SUBSET DOMAIN hs |->
                     IF s = {} THEN caps
                     ELSE IF hs[Max(s)] \in wanted THEN C!Registered(it[s \ {Max(s)}], hs[Max(s)])
                     ELSE it[s \ {Max(s)}]]
<1>1. C!RegisteredAll(caps, hs, wanted) = (CHOOSE it : Unfolds(it))[DOMAIN hs]
      BY Zenon DEF C!RegisteredAll, C!Max, Max, C!FoldLeft, C!MapThenFoldSet
<1>2. N \in Nat /\ DOMAIN hs = 1 .. N
      OBVIOUS
<1>3. \E it : Unfolds(it)
  <2>1. step \in [(1 .. N) \X V -> V]
        BY <1>0
  <2> HIDE DEF step
  <2>2. PICK it \in [SUBSET (1 .. N) -> V] : Folds(it, N, caps, step)
        BY <1>2, <2>1, FoldExists, Zenon
  <2>3. ASSUME NEW s \in SUBSET (1 .. N), s # {}
        PROVE  step[<<Max(s), it[s \ {Max(s)}]>>] =
                 IF hs[Max(s)] \in wanted THEN C!Registered(it[s \ {Max(s)}], hs[Max(s)])
                 ELSE it[s \ {Max(s)}]
    <3>1. Max(s) \in 1 .. N
          BY <1>2, <2>3, MaxIsIn, Zenon
    <3>2. it[s \ {Max(s)}] \in V
          BY <2>2, Zenon
    <3> QED BY <3>1, <3>2 DEF step
  <2>4. Unfolds(it)
        BY <1>2, <2>2, <2>3, Zenon DEF Folds
  <2> QED BY <2>4, Zenon
<1>4. PICK it : Unfolds(it) /\ C!RegisteredAll(caps, hs, wanted) = it[DOMAIN hs]
  <2> HIDE DEF Unfolds
  <2> QED BY <1>1, <1>3, Zenon
<1> DEFINE g == [n \in 0 .. N |-> it[1 .. n]]
<1>5. g[0] = caps
  <2>1. 1 .. 0 = {} /\ {} \in SUBSET DOMAIN hs
        OBVIOUS
  <2>2. it[{}] = caps
        BY <1>4, <2>1
  <2> QED BY <1>2, <2>1, <2>2
<1>6. ASSUME NEW n \in 1 .. N
      PROVE  g[n] = IF hs[n] \in wanted THEN C!Registered(g[n - 1], hs[n]) ELSE g[n - 1]
  <2>1. 1 .. n # {} /\ Max(1 .. n) = n /\ (1 .. n) \ {n} = 1 .. n - 1 /\ 1 .. n \in SUBSET DOMAIN hs
        BY <1>2, LastOfFirst
  <2>2. it[1 .. n] =
          IF hs[n] \in wanted THEN C!Registered(it[1 .. n - 1], hs[n]) ELSE it[1 .. n - 1]
        BY <1>4, <2>1, Zenon
  <2>3. n \in 0 .. N /\ n - 1 \in 0 .. N
        BY <1>2
  <2> QED BY <2>2, <2>3
<1>7. C!RegisteredAll(caps, hs, wanted) = g[N]
  <2>1. it[DOMAIN hs] = g[N]
        BY <1>2
  <2> HIDE DEF g, N, Unfolds
  <2> QED BY <1>4, <2>1, Zenon
<1> HIDE DEF g
<1>8. Registers(g, caps, hs, wanted)
  <2>1. \A n \in 1 .. Len(hs) : g[n] = Joined(g[n - 1], hs[n], wanted)
        BY <1>6, Zenon DEF Joined
  <2> QED BY <1>5, <1>7, <2>1, Zenon DEF Registers
<1> QED BY <1>8

\* The names that tools can have, and the registries of finitely many of them.
Labels == [name : Capability, env : {""} \cup Range(Env), number : Nat]

\* What a registry can list: tools by their names, and the names of each hand.
ToolMaps == UNION {[d -> [hand : C!Hands, capability : Capability]] : d \in SUBSET Labels}

\* The names that the hands of a registry have.
NameMaps == UNION {[d -> SUBSET Labels] : d \in SUBSET C!Hands}

\* A registry lists finitely many tools.
Registries == {r \in [tools : ToolMaps, names : NameMaps] : IsFiniteSet(DOMAIN r.tools)}

\* A name that is taken with every number up to k needs as many names that are in use.
LEMMA SuffixIsFree ==
  ASSUME NEW b \in Capability, NEW e, NEW used, IsFiniteSet(used)
  PROVE  \E k \in Nat \ {0} :
           /\ C!Disambiguated(b, e, used) = C!Suffixed(b, e, k)
           /\ C!Suffixed(b, e, k) \notin used
           /\ \A i \in 1 .. k - 1 : C!Suffixed(b, e, i) \in used
<1> DEFINE n == Cardinality(used) + 1
           Free(m) == /\ m \notin used
                      /\ \A i \in 1 .. m.number - 1 : C!Suffixed(b, e, i) \in used
           Frees == {i \in 1 .. n : C!Suffixed(b, e, i) \notin used}
<1>1. n \in Nat \ {0} /\ Cardinality(used) < n
      BY FS_CardinalityType
<1>2. \A i, j : C!Suffixed(b, e, i) = C!Suffixed(b, e, j) => i = j
      BY DEF C!Suffixed
<1>3. \A i : C!Suffixed(b, e, i).number = i
      BY DEF C!Suffixed
<1>4. Frees # {}
  <2>1. SUFFICES ASSUME Frees = {} PROVE FALSE
        OBVIOUS
  <2> DEFINE f == [i \in 1 .. n |-> C!Suffixed(b, e, i)]
  <2>2. f \in [1 .. n -> used]
        BY <2>1
  <2>3. IsFiniteSet(1 .. n) /\ Cardinality(1 .. n) = n
        BY <1>1, FS_Interval
  <2>4. \A i, j \in 1 .. n : f[i] = f[j] => i = j
        BY <1>2, Zenon
  <2> HIDE DEF n, f
  <2> QED BY <1>1, <2>2, <2>3, <2>4, FS_PigeonHole
<1>5. PICK k \in Frees : \A u \in Frees : k <= u
  <2>1. Frees \subseteq Nat
        BY <1>1
  <2> HIDE DEF Frees
  <2> QED BY <1>4, <2>1, LeastOf, Zenon
<1>6. k \in 1 .. n /\ C!Suffixed(b, e, k) \notin used
      BY <1>5
<1>7. ASSUME NEW i \in 1 .. k - 1 PROVE C!Suffixed(b, e, i) \in used
      BY <1>1, <1>5, <1>6
<1>8. C!Suffixed(b, e, k) \in {C!Suffixed(b, e, i) : i \in 1 .. n} /\ Free(C!Suffixed(b, e, k))
  <2>1. C!Suffixed(b, e, k).number = k
        BY <1>3, Zenon
  <2> QED BY <1>6, <1>7, <2>1
<1>9. C!Disambiguated(b, e, used) = CHOOSE m \in {C!Suffixed(b, e, i) : i \in 1 .. n} : Free(m)
  <2>1. C!Cardinality(used) = Cardinality(used)
        BY Zenon DEF C!Cardinality, Cardinality
  <2> QED BY <2>1, Zenon DEF C!Disambiguated
<1> DEFINE found == C!Disambiguated(b, e, used)
<1>10. found \in {C!Suffixed(b, e, i) : i \in 1 .. n} /\ Free(found)
  <2> HIDE DEF Free, n
  <2> QED BY <1>8, <1>9, Zenon
<1>11. PICK j \in 1 .. n : found = C!Suffixed(b, e, j)
  <2> HIDE DEF n, found, Free
  <2> QED BY <1>10
<1>12. found.number = j
      BY <1>3, <1>11, Zenon
<1>13. \A i \in 1 .. j - 1 : C!Suffixed(b, e, i) \in used
  <2> HIDE DEF found, n
  <2> QED BY <1>10, <1>12, Zenon
<1>14. C!Suffixed(b, e, j) \notin used /\ j \in Nat \ {0}
      BY <1>1, <1>10, <1>11
<1> HIDE DEF found
<1>15. /\ found = C!Suffixed(b, e, j)
       /\ C!Suffixed(b, e, j) \notin used
       /\ \A i \in 1 .. j - 1 : C!Suffixed(b, e, i) \in used
      BY <1>11, <1>13, <1>14
<1> QED BY <1>14, <1>15 DEF found

\* The names that the capabilities of a hand are given.
Fresh(h, used) == {C!NameOf(h, b, used) : b \in C!Admitted(h)}

\* What is registered of a hand is some of what it offers.
LEMMA AdmittedAreOffered ==
  ASSUME NEW h \in C!Hands
  PROVE  C!Admitted(h) \subseteq Capability /\ IsFiniteSet(C!Admitted(h)) /\ Env[h] \in Range(Env)
<1>1. C!Hands = Range(Order) \cup Added
      BY DEF C!Hands, C!Builtin, C!Range, Range
<1>2. C!Admitted(h) \subseteq Capability
      BY <1>1, HostAssumption DEF C!Admitted
<1>3. Env[h] \in Range(Env)
      BY <1>1, HostAssumption, Zenon DEF Range
<1> QED BY <1>2, <1>3, HostAssumption, FS_Subset

\* The name that a capability gets is one that no tool has.
LEMMA NameIsFree ==
  ASSUME NEW h \in C!Hands, NEW b \in C!Admitted(h), NEW used, IsFiniteSet(used)
  PROVE  LET n == C!NameOf(h, b, used)
         IN  /\ n \in Labels /\ n \notin used /\ n.name = b
             /\ \/ n = C!Bare(b)
                \/ \E k \in Nat \ {0} : /\ n = C!Suffixed(b, Env[h], k)
                                        /\ C!Bare(b) \in used
                                        /\ \A i \in 1 .. k - 1 : C!Suffixed(b, Env[h], i) \in used
<1> DEFINE n == C!NameOf(h, b, used)
<1>1. b \in Capability /\ Env[h] \in Range(Env)
      BY AdmittedAreOffered
<1>2. CASE C!Bare(b) \in used
  <2>1. n = C!Disambiguated(b, Env[h], used)
        BY <1>2, Zenon DEF C!NameOf
  <2>2. PICK k \in Nat \ {0} :
          /\ C!Disambiguated(b, Env[h], used) = C!Suffixed(b, Env[h], k)
          /\ C!Suffixed(b, Env[h], k) \notin used
          /\ \A i \in 1 .. k - 1 : C!Suffixed(b, Env[h], i) \in used
        BY <1>1, SuffixIsFree
  <2>3. n = C!Suffixed(b, Env[h], k)
        BY <2>1, <2>2, Zenon
  <2>4. C!Suffixed(b, Env[h], k) \in Labels /\ C!Suffixed(b, Env[h], k).name = b
        BY <1>1, <2>2, Zenon DEF C!Suffixed, Labels
  <2> HIDE DEF n
  <2>5. n \in Labels /\ n \notin used /\ n.name = b
        BY <2>2, <2>3, <2>4
  <2>6. \E i \in Nat \ {0} : /\ n = C!Suffixed(b, Env[h], i)
                             /\ C!Bare(b) \in used
                             /\ \A j \in 1 .. i - 1 : C!Suffixed(b, Env[h], j) \in used
        BY <1>2, <2>2, <2>3, Zenon
  <2> QED BY <2>5, <2>6 DEF n
<1>3. CASE C!Bare(b) \notin used
  <2>1. n = C!Bare(b)
        BY <1>3, Zenon DEF C!NameOf
  <2>2. C!Bare(b) \in Labels /\ C!Bare(b).name = b
        BY <1>1 DEF C!Bare, Labels
  <2> HIDE DEF n
  <2>3. n \in Labels /\ n \notin used /\ n.name = b /\ n = C!Bare(b)
        BY <1>3, <2>1, <2>2
  <2> QED BY <2>3 DEF n
<1> QED BY <1>2, <1>3

\* A hand gets one name for each capability, and none that a tool has.
LEMMA FreshNames ==
  ASSUME NEW h \in C!Hands, NEW used, IsFiniteSet(used)
  PROVE  /\ Fresh(h, used) \subseteq Labels /\ IsFiniteSet(Fresh(h, used))
         /\ Fresh(h, used) \cap used = {}
         /\ \A n \in Fresh(h, used) : n.name \in C!Admitted(h) /\ n = C!NameOf(h, n.name, used)
         /\ \A b \in C!Admitted(h) : \E n \in Fresh(h, used) : n.name = b
<1>1. ASSUME NEW n \in Fresh(h, used)
      PROVE  n \in Labels /\ n \notin used /\ n.name \in C!Admitted(h) /\
               n = C!NameOf(h, n.name, used)
  <2>1. PICK b \in C!Admitted(h) : n = C!NameOf(h, b, used)
        BY DEF Fresh
  <2>2. n \in Labels /\ n \notin used /\ n.name = b
        BY <2>1, NameIsFree, Zenon
  <2> QED BY <2>1, <2>2, Zenon
<1>2. ASSUME NEW b \in C!Admitted(h)
      PROVE  \E n \in Fresh(h, used) : n.name = b
  <2>1. C!NameOf(h, b, used) \in Fresh(h, used)
        BY DEF Fresh
  <2>2. C!NameOf(h, b, used).name = b
        BY NameIsFree, Zenon
  <2> QED BY <2>1, <2>2, Zenon
<1>3. IsFiniteSet(Fresh(h, used))
  <2> DEFINE f == [b \in C!Admitted(h) |-> C!NameOf(h, b, used)]
  <2>1. f \in Surjection(C!Admitted(h), Fresh(h, used))
        BY DEF Surjection, Fresh
  <2> HIDE DEF f
  <2> QED BY <2>1, AdmittedAreOffered, FS_Surjection
<1> QED BY <1>1, <1>2, <1>3

\* A hand and its tools are added; those that are there stay.
LEMMA ToolMap ==
  ASSUME NEW f
  PROVE  f \in ToolMaps <=> /\ f \in [DOMAIN f -> [hand : C!Hands, capability : Capability]]
                            /\ DOMAIN f \subseteq Labels
BY DEF ToolMaps

\* The same for the names of each hand.
LEMMA NameMap ==
  ASSUME NEW f
  PROVE  f \in NameMaps <=> f \in [DOMAIN f -> SUBSET Labels] /\ DOMAIN f \subseteq C!Hands
BY DEF NameMaps

\* What registering a hand adds to a registry.
LEMMA RegisteredIs ==
  ASSUME NEW r \in Registries, NEW h \in C!Hands
  PROVE  LET fresh == Fresh(h, DOMAIN r.tools)
             then  == C!Registered(r, h)
         IN  /\ then \in Registries
             /\ DOMAIN then.tools = DOMAIN r.tools \cup fresh
             /\ \A n \in fresh : then.tools[n] = [hand |-> h, capability |-> n.name]
             /\ \A n \in DOMAIN r.tools : then.tools[n] = r.tools[n]
             /\ DOMAIN then.names = DOMAIN r.names \cup {h} /\ then.names[h] = fresh
             /\ \A x \in DOMAIN r.names \ {h} : then.names[x] = r.names[x]
<1> DEFINE used == DOMAIN r.tools
           fresh == Fresh(h, used)
           ts == [n \in fresh |-> [hand |-> h, capability |-> n.name]]
           ns == [x \in {h} |-> fresh]
           then == C!Registered(r, h)
<1>1. /\ IsFiniteSet(used) /\ r.tools \in [used -> [hand : C!Hands, capability : Capability]]
      /\ used \subseteq Labels /\ r.names \in [DOMAIN r.names -> SUBSET Labels]
      /\ DOMAIN r.names \subseteq C!Hands
  <2>1. r.tools \in ToolMaps /\ r.names \in NameMaps /\ IsFiniteSet(used)
        BY DEF Registries
  <2> QED BY <2>1, ToolMap, NameMap
<1>2. /\ fresh \subseteq Labels /\ IsFiniteSet(fresh) /\ fresh \cap used = {}
      /\ \A n \in fresh : n.name \in Capability
      BY <1>1, FreshNames, AdmittedAreOffered
<1>3. then = [tools |-> C!Overridden(r.tools, ts), names |-> C!Overridden(r.names, ns)]
      BY Zenon DEF C!Registered, Fresh
<1> HIDE DEF fresh, used, then
<1>4. /\ C!Overridden(r.tools, ts) =
           [x \in used \cup fresh |-> IF x \in fresh THEN ts[x] ELSE r.tools[x]]
      /\ C!Overridden(r.names, ns) =
           [x \in DOMAIN r.names \cup {h} |-> IF x \in {h} THEN ns[x] ELSE r.names[x]]
      BY DEF C!Overridden, used
<1>5. /\ then.tools = [x \in used \cup fresh |-> IF x \in fresh THEN ts[x] ELSE r.tools[x]]
      /\ then.names = [x \in DOMAIN r.names \cup {h} |-> IF x \in {h} THEN ns[x] ELSE r.names[x]]
      /\ then = [tools |-> then.tools, names |-> then.names]
      BY <1>3, <1>4
<1>6. /\ DOMAIN then.tools = used \cup fresh
      /\ \A n \in fresh : then.tools[n] = [hand |-> h, capability |-> n.name]
      /\ \A n \in used : then.tools[n] = r.tools[n]
      BY <1>2, <1>5
<1>7. /\ DOMAIN then.names = DOMAIN r.names \cup {h} /\ then.names[h] = fresh
      /\ \A x \in DOMAIN r.names \ {h} : then.names[x] = r.names[x]
      BY <1>5
<1>8. then.tools \in ToolMaps
  <2>1. ASSUME NEW n \in used \cup fresh
        PROVE  then.tools[n] \in [hand : C!Hands, capability : Capability]
    <3>1. CASE n \in used
          BY <1>1, <1>6, <3>1
    <3>2. CASE n \in fresh
      <4>1. then.tools[n] = [hand |-> h, capability |-> n.name] /\ n.name \in Capability
            BY <1>2, <1>6, <3>2, Zenon
      <4> QED BY <4>1
    <3> QED BY <3>1, <3>2
  <2>2. then.tools \in [used \cup fresh -> [hand : C!Hands, capability : Capability]]
        BY <1>5, <2>1, Zenon
  <2> QED BY <1>1, <1>2, <1>6, <2>2, ToolMap
<1>9. then.names \in NameMaps
  <2>1. \A x \in DOMAIN r.names \cup {h} : then.names[x] \in SUBSET Labels
        BY <1>1, <1>2, <1>7
  <2>2. then.names \in [DOMAIN r.names \cup {h} -> SUBSET Labels]
        BY <1>5, <2>1
  <2> QED BY <1>1, <1>7, <2>2, NameMap
<1>10. then \in Registries
  <2>1. IsFiniteSet(used \cup fresh)
        BY <1>1, <1>2, FS_Union, Zenon
  <2>2. then \in [tools : ToolMaps, names : NameMaps]
        BY <1>5, <1>8, <1>9, Zenon
  <2>3. IsFiniteSet(DOMAIN then.tools)
        BY <1>6, <2>1
  <2> QED BY <2>2, <2>3 DEF Registries
<1> QED BY <1>6, <1>7, <1>10 DEF used, fresh, then

\* Every tool is of a hand that is registered, which has one tool for each of its
\* capabilities that were not taken from it.
HandsOK(r, gone) ==
  /\ \A h \in DOMAIN r.names : \A n \in r.names[h] : n \in DOMAIN r.tools /\ r.tools[n].hand = h
  /\ \A n \in DOMAIN r.tools :
       /\ r.tools[n].hand \in DOMAIN r.names /\ n \in r.names[r.tools[n].hand]
       /\ r.tools[n].capability = n.name
  /\ \A h \in DOMAIN r.names : \A m, n \in r.names[h] : m.name = n.name => m = n
  /\ \A h \in DOMAIN r.names : \A n \in r.names[h] :
       n.name \in C!Admitted(h) /\ <<h, n.name>> \notin gone
  /\ \A h \in DOMAIN r.names : \A b \in C!Admitted(h) :
       <<h, b>> \notin gone => \E n \in r.names[h] : n.name = b
  /\ \A t \in gone : \E h \in DOMAIN r.names : \E b \in C!Admitted(h) : t = <<h, b>>

\* The names stay within the numbers that the hands can use up.
NamesOK(r) ==
  /\ DOMAIN r.tools \subseteq C!Names
  /\ \A h \in DOMAIN r.names : r.names[h] \subseteq C!Names

\* There are finitely many hands.
LEMMA HandsAreFinite == IsFiniteSet(C!Hands)
<1>1. Order \in Surjection(1 .. Len(Order), Range(Order))
  <2>1. DOMAIN Order = 1 .. Len(Order) /\ Order \in [1 .. Len(Order) -> Range(Order)]
        BY HostAssumption
  <2>2. \A x \in Range(Order) : \E i \in 1 .. Len(Order) : Order[i] = x
        BY <2>1 DEF Range
  <2> QED BY <2>1, <2>2 DEF Surjection
<1>2. Len(Order) \in Nat
      BY HostAssumption
<1>3. IsFiniteSet(Range(Order))
      BY <1>1, <1>2, FS_Interval, FS_Surjection
<1>4. IsFiniteSet(Range(Order) \cup Added)
      BY <1>3, HostAssumption, FS_Union, Zenon
<1> QED BY <1>4 DEF C!Hands, C!Builtin, C!Range, Range

\* The tools of the other hands leave a number free for each capability.
LEMMA FewSuffixes ==
  ASSUME NEW r \in Registries, NEW gone, HandsOK(r, gone),
         NEW h \in C!Hands, h \notin DOMAIN r.names
  PROVE  Fresh(h, DOMAIN r.tools) \subseteq C!Names
<1> DEFINE used == DOMAIN r.tools
<1>1. SUFFICES ASSUME NEW n \in Fresh(h, used) PROVE n \in C!Names
      OBVIOUS
<1>2. IsFiniteSet(used) /\ DOMAIN r.names \subseteq C!Hands
      BY NameMap DEF Registries
<1> DEFINE b == n.name
<1>3. b \in C!Admitted(h) /\ n = C!NameOf(h, b, used)
      BY <1>1, <1>2, FreshNames
<1>4. b \in Capability /\ Env[h] \in C!Range(Env)
      BY <1>3, AdmittedAreOffered DEF C!Range, Range
<1> HIDE DEF b
<1>5. \/ n = C!Bare(b)
      \/ \E k \in Nat \ {0} : /\ n = C!Suffixed(b, Env[h], k)
                              /\ \A i \in 1 .. k - 1 : C!Suffixed(b, Env[h], i) \in used
      BY <1>2, <1>3, NameIsFree, Zenon
<1>6. CASE n = C!Bare(b)
      BY <1>4, <1>6 DEF C!Names
<1>7. ASSUME NEW k \in Nat \ {0}, n = C!Suffixed(b, Env[h], k),
             \A i \in 1 .. k - 1 : C!Suffixed(b, Env[h], i) \in used
      PROVE  n \in C!Names
  <2> DEFINE sfx(i) == C!Suffixed(b, Env[h], i)
             others == C!Hands \ {h}
             f == [i \in 1 .. k - 1 |-> r.tools[sfx(i)].hand]
  <2>1. ASSUME NEW i \in 1 .. k - 1
        PROVE  f[i] \in DOMAIN r.names /\ sfx(i) \in r.names[f[i]]
    <3>1. sfx(i) \in DOMAIN r.tools
          BY <1>7
    <3> HIDE DEF sfx
    <3> QED BY <3>1 DEF HandsOK
  <2>2. ASSUME NEW i \in 1 .. k - 1, NEW j \in 1 .. k - 1, f[i] = f[j]
        PROVE  i = j
    <3>1. sfx(i).name = sfx(j).name
          BY DEF C!Suffixed
    <3>2. f[i] \in DOMAIN r.names /\ sfx(i) \in r.names[f[i]] /\ sfx(j) \in r.names[f[i]]
          BY <2>1, <2>2
    <3>3. sfx(i) = sfx(j)
      <4> HIDE DEF sfx, f
      <4> QED BY <3>1, <3>2 DEF HandsOK
    <3>4. sfx(i).number = i /\ sfx(j).number = j
          BY DEF C!Suffixed
    <3> QED BY <3>3, <3>4, Zenon
  <2>3. f \in [1 .. k - 1 -> others]
    <3>1. \A i \in 1 .. k - 1 : f[i] \in others
      <4> HIDE DEF f
      <4> QED BY <1>2, <2>1
    <3> QED BY <3>1
  <2>4. f \in Injection(1 .. k - 1, others)
    <3>1. \A i, j \in 1 .. k - 1 : f[i] = f[j] => i = j
      <4> HIDE DEF f
      <4> QED BY <2>2
    <3> HIDE DEF f, others
    <3> QED BY <2>3, <3>1 DEF Injection, IsInjective
  <2>5. IsFiniteSet(C!Hands) /\ IsFiniteSet(others) /\
          Cardinality(others) = Cardinality(C!Hands) - 1
        BY HandsAreFinite, FS_RemoveElement, Zenon
  <2>6. Cardinality(1 .. k - 1) = k - 1
        BY FS_Interval
  <2>7. Cardinality(1 .. k - 1) <= Cardinality(others)
    <3> HIDE DEF f, others
    <3> QED BY <2>4, <2>5, FS_Injection
  <2>8. Cardinality(C!Hands) \in Nat
        BY <2>5, FS_CardinalityType
  <2>9. k \in 1 .. Cardinality(C!Hands)
    <3> HIDE DEF others
    <3> QED BY <2>5, <2>6, <2>7, <2>8
  <2>10. k \in 1 .. C!Cardinality(C!Hands)
    <3>1. C!Cardinality(C!Hands) = Cardinality(C!Hands)
          BY Zenon DEF C!Cardinality, Cardinality
    <3> QED BY <2>9, <3>1
  <2> QED BY <1>4, <1>7, <2>10 DEF C!Names
<1> QED BY <1>5, <1>6, <1>7

\* Registering a hand keeps the tools in order.
LEMMA RegisteredOK ==
  ASSUME NEW r \in Registries, NEW gone, HandsOK(r, gone), NamesOK(r),
         NEW h \in C!Hands, h \notin DOMAIN r.names
  PROVE  /\ C!Registered(r, h) \in Registries
         /\ HandsOK(C!Registered(r, h), gone) /\ NamesOK(C!Registered(r, h))
         /\ DOMAIN C!Registered(r, h).names = DOMAIN r.names \cup {h}
<1> DEFINE fresh == Fresh(h, DOMAIN r.tools)
           then == C!Registered(r, h)
<1>1. /\ then \in Registries
      /\ DOMAIN then.tools = DOMAIN r.tools \cup fresh
      /\ \A n \in fresh : then.tools[n] = [hand |-> h, capability |-> n.name]
      /\ \A n \in DOMAIN r.tools : then.tools[n] = r.tools[n]
      /\ DOMAIN then.names = DOMAIN r.names \cup {h} /\ then.names[h] = fresh
      /\ \A x \in DOMAIN r.names \ {h} : then.names[x] = r.names[x]
      BY RegisteredIs, Zenon
<1>2. IsFiniteSet(DOMAIN r.tools)
      BY DEF Registries
<1>3. /\ \A n \in fresh : n.name \in C!Admitted(h) /\ n = C!NameOf(h, n.name, DOMAIN r.tools)
      /\ \A b \in C!Admitted(h) : \E n \in fresh : n.name = b
      /\ fresh \cap DOMAIN r.tools = {}
      BY <1>2, FreshNames, Zenon
<1>4. fresh \subseteq C!Names
      BY FewSuffixes
<1> HIDE DEF fresh, then
<1>5. ASSUME NEW n \in fresh
      PROVE  then.tools[n].hand = h /\ then.tools[n].capability = n.name
  <2>1. then.tools[n] = [hand |-> h, capability |-> n.name]
        BY <1>1, Zenon
  <2> QED BY <2>1
<1>6. \A x \in DOMAIN r.names : x # h /\ then.names[x] = r.names[x]
      BY <1>1
<1>7. \A b : <<h, b>> \notin gone
      BY DEF HandsOK
<1>8. \A x \in DOMAIN then.names : \A n \in then.names[x] :
        n \in DOMAIN then.tools /\ then.tools[n].hand = x
  <2>1. ASSUME NEW x \in DOMAIN r.names, NEW n \in r.names[x]
        PROVE  n \in DOMAIN r.tools /\ then.tools[n].hand = x
        BY <1>1 DEF HandsOK
  <2> QED BY <1>1, <1>5, <1>6, <2>1
<1>9. \A n \in DOMAIN then.tools :
        /\ then.tools[n].hand \in DOMAIN then.names /\ n \in then.names[then.tools[n].hand]
        /\ then.tools[n].capability = n.name
  <2>1. ASSUME NEW n \in DOMAIN r.tools
        PROVE  /\ then.tools[n].hand \in DOMAIN then.names /\ n \in then.names[then.tools[n].hand]
               /\ then.tools[n].capability = n.name
    <3>1. /\ r.tools[n].hand \in DOMAIN r.names /\ n \in r.names[r.tools[n].hand]
          /\ r.tools[n].capability = n.name
          BY DEF HandsOK
    <3>2. then.tools[n] = r.tools[n]
          BY <1>1
    <3> QED BY <1>1, <1>6, <3>1, <3>2
  <2>2. ASSUME NEW n \in fresh
        PROVE  /\ then.tools[n].hand \in DOMAIN then.names /\ n \in then.names[then.tools[n].hand]
               /\ then.tools[n].capability = n.name
        BY <1>1, <1>5
  <2> QED BY <1>1, <2>1, <2>2
<1>10. \A x \in DOMAIN then.names : \A m, n \in then.names[x] : m.name = n.name => m = n
  <2>1. \A m, n \in fresh : m.name = n.name => m = n
        BY <1>3, Zenon
  <2>2. \A x \in DOMAIN r.names : \A m, n \in r.names[x] : m.name = n.name => m = n
        BY DEF HandsOK
  <2> QED BY <1>1, <1>6, <2>1, <2>2
<1>11. \A x \in DOMAIN then.names : \A n \in then.names[x] :
         n.name \in C!Admitted(x) /\ <<x, n.name>> \notin gone
  <2>1. \A x \in DOMAIN r.names : \A n \in r.names[x] :
          n.name \in C!Admitted(x) /\ <<x, n.name>> \notin gone
        BY Zenon DEF HandsOK
  <2> QED BY <1>1, <1>3, <1>6, <1>7, <2>1, Zenon
<1>12. \A x \in DOMAIN then.names : \A b \in C!Admitted(x) :
         <<x, b>> \notin gone => \E n \in then.names[x] : n.name = b
  <2>1. \A x \in DOMAIN r.names : \A b \in C!Admitted(x) :
          <<x, b>> \notin gone => \E n \in r.names[x] : n.name = b
        BY DEF HandsOK
  <2> QED BY <1>1, <1>3, <1>6, <2>1
<1>13. \A t \in gone : \E x \in DOMAIN then.names : \E b \in C!Admitted(x) : t = <<x, b>>
       BY <1>1 DEF HandsOK
<1>14. HandsOK(then, gone)
       BY <1>8, <1>9, <1>10, <1>11, <1>12, <1>13 DEF HandsOK
<1>15. NamesOK(then)
       BY <1>1, <1>4, <1>6 DEF NamesOK
<1> QED BY <1>1, <1>14, <1>15 DEF then

\* All the hands of a sequence that are wanted and not there are registered,
LEMMA AllRegisteredOK ==
  ASSUME NEW r \in Registries, NEW gone, HandsOK(r, gone), NamesOK(r),
         NEW hs \in Seq(C!Hands), IsInjective(hs), NEW wanted,
         \A i \in 1 .. Len(hs) : hs[i] \in wanted => hs[i] \notin DOMAIN r.names
  PROVE  LET all == C!RegisteredAll(r, hs, wanted)
         IN  /\ all \in Registries /\ HandsOK(all, gone) /\ NamesOK(all)
             /\ \A x : x \in DOMAIN all.names <=>
                         \/ x \in DOMAIN r.names
                         \/ \E i \in 1 .. Len(hs) : x = hs[i] /\ hs[i] \in wanted
<1>1. Len(hs) \in Nat /\ DOMAIN hs = 1 .. Len(hs) /\ \A i \in 1 .. Len(hs) : hs[i] \in C!Hands
      OBVIOUS
<1>2. ASSUME NEW had \in Registries, NEW n \in 1 .. Len(hs)
      PROVE  Joined(had, hs[n], wanted) \in Registries
  <2>1. C!Registered(had, hs[n]) \in Registries
        BY <1>1, RegisteredIs
  <2> QED BY <2>1 DEF Joined
<1>3a. PICK g : Registers(g, r, hs, wanted)
      BY <1>2, Registering, Zenon
<1>3. /\ g[0] = r /\ C!RegisteredAll(r, hs, wanted) = g[Len(hs)]
      /\ \A n \in 1 .. Len(hs) :
           g[n] = IF hs[n] \in wanted THEN C!Registered(g[n - 1], hs[n]) ELSE g[n - 1]
      BY <1>3a, Zenon DEF Registers, Joined
<1> DEFINE Among(x, n) == \E i \in 1 .. n : x = hs[i] /\ hs[i] \in wanted
           Good(n) == /\ g[n] \in Registries /\ HandsOK(g[n], gone) /\ NamesOK(g[n])
                      /\ \A x : x \in DOMAIN g[n].names <=> x \in DOMAIN r.names \/ Among(x, n)
           Holds == {n \in 0 .. Len(hs) : Good(n)}
<1>4. 0 \in Holds
      BY <1>1, <1>3
<1>5. ASSUME NEW n \in 1 .. Len(hs), n - 1 \in Holds
      PROVE  n \in Holds
  <2>1. /\ g[n - 1] \in Registries /\ HandsOK(g[n - 1], gone) /\ NamesOK(g[n - 1])
        /\ \A x : x \in DOMAIN g[n - 1].names <=> x \in DOMAIN r.names \/ Among(x, n - 1)
        BY <1>5
  <2>2. \A x : Among(x, n) <=> Among(x, n - 1) \/ (x = hs[n] /\ hs[n] \in wanted)
    <3>1. \A i : i \in 1 .. n <=> i \in 1 .. n - 1 \/ i = n
          BY <1>1
    <3> QED BY <3>1
  <2>3. n \in 0 .. Len(hs)
        BY <1>1
  <2>4. CASE hs[n] \in wanted
    <3>1. g[n] = C!Registered(g[n - 1], hs[n])
          BY <1>3, <2>4
    <3>2. ~Among(hs[n], n - 1)
      <4>1. ASSUME NEW i \in 1 .. n - 1 PROVE hs[n] # hs[i]
        <5>1. i \in 1 .. Len(hs) /\ i # n
              BY <1>1
        <5> QED BY <1>1, <5>1 DEF IsInjective
      <4> QED BY <4>1
    <3>3. hs[n] \in C!Hands /\ hs[n] \notin DOMAIN g[n - 1].names
          BY <1>1, <2>1, <2>4, <3>2
    <3>4. /\ C!Registered(g[n - 1], hs[n]) \in Registries
          /\ HandsOK(C!Registered(g[n - 1], hs[n]), gone) /\ NamesOK(C!Registered(g[n - 1], hs[n]))
          /\ DOMAIN C!Registered(g[n - 1], hs[n]).names = DOMAIN g[n - 1].names \cup {hs[n]}
          BY <2>1, <3>3, RegisteredOK
    <3>5. /\ g[n] \in Registries /\ HandsOK(g[n], gone) /\ NamesOK(g[n])
          /\ DOMAIN g[n].names = DOMAIN g[n - 1].names \cup {hs[n]}
          BY <3>1, <3>4, Zenon
    <3> HIDE DEF Among
    <3>6. \A x : x \in DOMAIN g[n].names <=> x \in DOMAIN r.names \/ Among(x, n)
          BY <2>1, <2>2, <2>4, <3>5
    <3> QED BY <2>3, <3>5, <3>6
  <2>5. CASE hs[n] \notin wanted
    <3>1. g[n] = g[n - 1]
          BY <1>3, <2>5
    <3> HIDE DEF Among
    <3>2. \A x : x \in DOMAIN g[n].names <=> x \in DOMAIN r.names \/ Among(x, n)
          BY <2>1, <2>2, <2>5, <3>1
    <3> QED BY <2>1, <2>3, <3>1, <3>2
  <2> QED BY <2>4, <2>5
<1>6. Len(hs) \in Holds
  <2> HIDE DEF Holds
  <2>1. \A n \in 0 .. Len(hs) : n \in Holds
        BY <1>1, <1>4, <1>5, Stepwise, Zenon
  <2> QED BY <1>1, <2>1
<1>7. Good(Len(hs))
      BY <1>6
<1> QED BY <1>3, <1>7, Zenon

\* and none if none is wanted.
LEMMA NoneRegistered ==
  ASSUME NEW r \in Registries, NEW hs \in Seq(C!Hands), NEW wanted,
         \A i \in 1 .. Len(hs) : hs[i] \notin wanted
  PROVE  C!RegisteredAll(r, hs, wanted) = r
<1>1. Len(hs) \in Nat
      OBVIOUS
<1>2. ASSUME NEW had \in Registries, NEW n \in 1 .. Len(hs)
      PROVE  Joined(had, hs[n], wanted) \in Registries
      BY DEF Joined
<1>3a. PICK g : Registers(g, r, hs, wanted)
      BY <1>2, Registering, Zenon
<1>3. /\ g[0] = r /\ C!RegisteredAll(r, hs, wanted) = g[Len(hs)]
      /\ \A n \in 1 .. Len(hs) :
           g[n] = IF hs[n] \in wanted THEN C!Registered(g[n - 1], hs[n]) ELSE g[n - 1]
      BY <1>3a, Zenon DEF Registers, Joined
<1> DEFINE Holds == {n \in 0 .. Len(hs) : g[n] = r}
<1>4. 0 \in Holds
      BY <1>1, <1>3
<1>5. ASSUME NEW n \in 1 .. Len(hs), n - 1 \in Holds PROVE n \in Holds
      BY <1>1, <1>3, <1>5
<1>6. Len(hs) \in Holds
  <2> HIDE DEF Holds
  <2>1. \A n \in 0 .. Len(hs) : n \in Holds
        BY <1>1, <1>4, <1>5, Stepwise, Zenon
  <2> QED BY <1>1, <2>1
<1> QED BY <1>3, <1>6

\* A hand goes with its tools and with what was taken from it.
LEMMA UnregisteredOK ==
  ASSUME NEW r \in Registries, NEW gone, HandsOK(r, gone), NamesOK(r), NEW h \in DOMAIN r.names
  PROVE  LET then == C!Unregistered(r, h)
         IN  /\ then \in Registries /\ HandsOK(then, {t \in gone : t[1] # h}) /\ NamesOK(then)
             /\ DOMAIN then.names = DOMAIN r.names \ {h}
<1> DEFINE then == C!Unregistered(r, h)
           kept == {t \in gone : t[1] # h}
<1>1. /\ r.tools \in [DOMAIN r.tools -> [hand : C!Hands, capability : Capability]]
      /\ DOMAIN r.tools \subseteq Labels /\ r.names \in [DOMAIN r.names -> SUBSET Labels]
      /\ DOMAIN r.names \subseteq C!Hands /\ IsFiniteSet(DOMAIN r.tools)
  <2>1. r.tools \in ToolMaps /\ r.names \in NameMaps /\ IsFiniteSet(DOMAIN r.tools)
        BY DEF Registries
  <2> QED BY <2>1, ToolMap, NameMap
<1>2. /\ then.tools = [n \in DOMAIN r.tools \ r.names[h] |-> r.tools[n]]
      /\ then.names = [x \in DOMAIN r.names \ {h} |-> r.names[x]]
      /\ then = [tools |-> then.tools, names |-> then.names]
      BY DEF C!Unregistered, C!Without
<1> HIDE DEF then
<1>3. then \in Registries
  <2>1. then.tools \in ToolMaps
    <3>1. then.tools \in [DOMAIN r.tools \ r.names[h] -> [hand : C!Hands, capability : Capability]]
          BY <1>1, <1>2
    <3> QED BY <1>1, <3>1, ToolMap
  <2>2. then.names \in NameMaps
    <3>1. then.names \in [DOMAIN r.names \ {h} -> SUBSET Labels]
          BY <1>1, <1>2
    <3> QED BY <1>1, <3>1, NameMap
  <2>3. IsFiniteSet(DOMAIN then.tools)
    <3>1. DOMAIN then.tools \in SUBSET DOMAIN r.tools
          BY <1>2
    <3> QED BY <1>1, <3>1, FS_Subset
  <2>4. then \in [tools : ToolMaps, names : NameMaps]
        BY <1>2, <2>1, <2>2, Zenon
  <2> QED BY <2>3, <2>4 DEF Registries
<1>4. /\ DOMAIN then.tools = DOMAIN r.tools \ r.names[h]
      /\ \A n \in DOMAIN then.tools : then.tools[n] = r.tools[n]
      /\ DOMAIN then.names = DOMAIN r.names \ {h}
      /\ \A x \in DOMAIN then.names : then.names[x] = r.names[x]
      BY <1>2
<1>5. \A x \in DOMAIN then.names : \A n \in then.names[x] :
        n \in DOMAIN then.tools /\ then.tools[n].hand = x
  <2>1. ASSUME NEW x \in DOMAIN r.names, x # h, NEW n \in r.names[x]
        PROVE  n \in DOMAIN r.tools \ r.names[h] /\ r.tools[n].hand = x
        BY <2>1 DEF HandsOK
  <2> QED BY <1>4, <2>1
<1>6. \A n \in DOMAIN then.tools :
        /\ then.tools[n].hand \in DOMAIN then.names /\ n \in then.names[then.tools[n].hand]
        /\ then.tools[n].capability = n.name
  <2>1. ASSUME NEW n \in DOMAIN r.tools \ r.names[h]
        PROVE  /\ r.tools[n].hand \in DOMAIN r.names \ {h} /\ n \in r.names[r.tools[n].hand]
               /\ r.tools[n].capability = n.name
        BY DEF HandsOK
  <2> QED BY <1>4, <2>1
<1>7. \A x \in DOMAIN then.names : \A m, n \in then.names[x] : m.name = n.name => m = n
      BY <1>4 DEF HandsOK
<1>8. \A x \in DOMAIN then.names : \A n \in then.names[x] :
        n.name \in C!Admitted(x) /\ <<x, n.name>> \notin kept
      BY <1>4, Zenon DEF HandsOK
<1>9. \A x \in DOMAIN then.names : \A b \in C!Admitted(x) :
        <<x, b>> \notin kept => \E n \in then.names[x] : n.name = b
  <2>1. \A x, b : x # h /\ <<x, b>> \in gone => <<x, b>> \in kept
        OBVIOUS
  <2> HIDE DEF kept
  <2> QED BY <1>4, <2>1 DEF HandsOK
<1>10. \A t \in kept : \E x \in DOMAIN then.names : \E b \in C!Admitted(x) : t = <<x, b>>
  <2>1. ASSUME NEW t \in kept
        PROVE  \E x \in DOMAIN then.names : \E b \in C!Admitted(x) : t = <<x, b>>
    <3>1. t \in gone /\ t[1] # h
          OBVIOUS
    <3>2. PICK x \in DOMAIN r.names : \E b \in C!Admitted(x) : t = <<x, b>>
          BY <3>1 DEF HandsOK
    <3>3. x # h
          BY <3>1, <3>2
    <3> QED BY <1>4, <3>2, <3>3
  <2> QED BY <2>1
<1>11. HandsOK(then, kept)
       BY <1>5, <1>6, <1>7, <1>8, <1>9, <1>10 DEF HandsOK
<1>12. NamesOK(then)
       BY <1>4 DEF NamesOK
<1> QED BY <1>3, <1>4, <1>11, <1>12 DEF then

\* What agent.json can hold, and a call of setBuiltinHands that awaits.
Homes == [exists : {TRUE}, denylist : SUBSET Capability, builtin : SUBSET C!Builtin]

\* The hands that a call of setBuiltinHands goes through, each one once.
Todos == {s \in Seq(C!Builtin) : IsInjective(s)}

\* A call that waits for a hand to be removed.
Loops == [pc : {"removing"}, old : BOOLEAN, desired : SUBSET C!Builtin, todo : Todos]

\* The types of the hands and tools of an agent.
CapTypes ==
  /\ agentJson \in Homes \cup {C!NoFile}
  /\ agentState \in {"down", "up", "disposed"}
  /\ C!Now \in Registries /\ NamesOK(C!Now)
  /\ denylist \subseteq Capability
  /\ selecting \in [Selections -> Loops \cup {C!Idle}]
  /\ mounts \in 0 .. MaxMounts /\ changes \in 0 .. MaxChanges
  /\ asked \subseteq Capability
  /\ taken \subseteq C!Hands \X Capability
  /\ agreed \in BOOLEAN
  /\ agentState = "down" => \A c \in Selections : selecting[c] = C!Idle
  /\ agentState # "down" => agentJson \in Homes

\* Places of todo that hold a hand to be removed.
Stop(todo, desired, u) == todo[u] \in DOMAIN names /\ todo[u] \notin desired

\* The loop throws or has nothing to do, stops at the first hand that it removes,
\* or ends.
Quits(c, desired) ==
  /\ tools' = tools /\ names' = names /\ taken' = taken
  /\ selecting' = [selecting EXCEPT ![c] = C!Idle]
  /\ agentJson' = agentJson \/ agentJson' = [agentJson EXCEPT !.builtin = desired]

\* The loop has come to the u-th hand, which it removes, and waits.
StopsAt(c, desired, todo, u) ==
  LET all == C!RegisteredAll(C!Now, SubSeq(todo, 1, u - 1), desired \ DOMAIN names)
      left == C!Unregistered(all, todo[u])
  IN  /\ Stop(todo, desired, u) /\ \A j \in 1 .. u - 1 : ~Stop(todo, desired, j)
      /\ tools' = left.tools /\ names' = left.names
      /\ taken' = {t \in taken : t[1] # todo[u]}
      /\ selecting' = [selecting EXCEPT ![c] =
           [pc |-> "removing", old |-> FALSE, desired |-> desired,
            todo |-> SubSeq(todo, u + 1, Len(todo))]]
      /\ agentJson' = agentJson

\* The loop has gone through its hands, and the call writes agent.json.
Ends(c, desired, todo) ==
  LET all == C!RegisteredAll(C!Now, todo, desired \ DOMAIN names)
  IN  /\ \A j \in 1 .. Len(todo) : ~Stop(todo, desired, j)
      /\ tools' = all.tools /\ names' = all.names /\ taken' = taken
      /\ selecting' = [selecting EXCEPT ![c] = C!Idle]
      /\ agentJson' = [agentJson EXCEPT !.builtin = desired]

\* A loop that goes on waits at some hand or ends.
LEMMA LoopGoesOn ==
  ASSUME CapTypes, NEW c \in Selections, NEW old \in BOOLEAN, NEW desired \in SUBSET C!Builtin,
         NEW todo \in Todos, C!Continue(c, old, desired, todo)
  PROVE  IF old \/ agentState # "up" THEN Quits(c, desired)
         ELSE Ends(c, desired, todo) \/ \E u \in 1 .. Len(todo) : StopsAt(c, desired, todo, u)
<1> DEFINE had == IF old THEN {} ELSE DOMAIN names
           wanted == desired \ had
           stops == {i \in DOMAIN todo : todo[i] \in had \ desired}
           until == IF stops = {} THEN Len(todo) + 1
                    ELSE CHOOSE i \in stops : \A j \in stops : i <= j
           adds == {i \in 1 .. until - 1 : todo[i] \in wanted}
           all == C!RegisteredAll(C!Now, SubSeq(todo, 1, until - 1), wanted)
           throws == (old \/ agentState # "up") /\ adds \cup stops # {}
           left == C!Unregistered(all, todo[until])
<1>1. /\ todo \in Seq(C!Builtin) /\ Len(todo) \in Nat /\ DOMAIN todo = 1 .. Len(todo)
      /\ \A i \in 1 .. Len(todo) : todo[i] \in C!Builtin
      BY DEF Todos
<1>2. \/ /\ throws
         /\ selecting' = [selecting EXCEPT ![c] = C!Idle]
         /\ UNCHANGED <<agentJson, tools, names, taken>>
      \/ /\ ~throws /\ stops # {}
         /\ tools' = left.tools /\ names' = left.names
         /\ taken' = {t \in taken : t[1] # todo[until]}
         /\ selecting' = [selecting EXCEPT ![c] =
              [pc |-> "removing", old |-> FALSE, desired |-> desired,
               todo |-> SubSeq(todo, until + 1, Len(todo))]]
         /\ UNCHANGED agentJson
      \/ /\ ~throws /\ stops = {}
         /\ tools' = all.tools /\ names' = all.names
         /\ agentJson' = [agentJson EXCEPT !.builtin = desired]
         /\ selecting' = [selecting EXCEPT ![c] = C!Idle]
         /\ UNCHANGED taken
      BY Zenon DEF C!Continue, C!Become
<1>3. CASE old \/ agentState # "up"
  <2>1. CASE throws
        BY <1>2, <1>3, <2>1 DEF Quits
  <2>2. CASE ~throws
    <3>1. stops = {} /\ adds = {}
          BY <1>3, <2>2
    <3>2. until = Len(todo) + 1 /\ until - 1 = Len(todo)
          BY <1>1, <3>1
    <3>3. SubSeq(todo, 1, until - 1) = todo
          BY <1>1, <3>2, SubSeqFull
    <3>4. \A i \in 1 .. Len(todo) : todo[i] \notin wanted
      <4> HIDE DEF wanted, until
      <4> QED BY <3>1, <3>2
    <3>5. C!RegisteredAll(C!Now, todo, wanted) = C!Now
      <4>1. C!Now \in Registries
            BY DEF CapTypes
      <4>2. todo \in Seq(C!Hands)
            BY <1>1 DEF C!Hands
      <4> HIDE DEF wanted
      <4> QED BY <3>4, <4>1, <4>2, NoneRegistered
    <3>6. all = C!Now
          BY <3>3, <3>5, Zenon
    <3>7. C!Now.tools = tools /\ C!Now.names = names
          BY DEF C!Now
    <3>8. /\ tools' = all.tools /\ names' = all.names
          /\ agentJson' = [agentJson EXCEPT !.builtin = desired]
          /\ selecting' = [selecting EXCEPT ![c] = C!Idle]
          /\ taken' = taken
      <4> HIDE DEF all, left, throws, stops, until
      <4> QED BY <1>2, <2>2, <3>1
    <3> HIDE DEF all
    <3> QED BY <1>3, <3>6, <3>7, <3>8 DEF Quits
  <2> QED BY <2>1, <2>2
<1>4. CASE ~old /\ agentState = "up"
  <2>1. had = DOMAIN names /\ ~throws
        BY <1>4
  <2>2. wanted = desired \ DOMAIN names /\
          \A i \in 1 .. Len(todo) : i \in stops <=> Stop(todo, desired, i)
        BY <1>1, <2>1 DEF Stop
  <2>3. CASE stops # {}
    <3>1. until \in stops /\ \A j \in stops : until <= j
      <4>1. stops \subseteq Nat
            BY <1>1
      <4>2. until = CHOOSE i \in stops : \A j \in stops : i <= j
            BY <2>3
      <4>3. \E i \in stops : \A j \in stops : i <= j
        <5> HIDE DEF stops
        <5> QED BY <2>3, <4>1, LeastOf, Zenon
      <4> HIDE DEF stops, until
      <4> QED BY <4>2, <4>3, Zenon
    <3>2. until \in 1 .. Len(todo)
      <4> HIDE DEF until
      <4> QED BY <1>1, <3>1
    <3>3. Stop(todo, desired, until) /\ \A j \in 1 .. until - 1 : ~Stop(todo, desired, j)
      <4>1. ASSUME NEW j \in 1 .. until - 1 PROVE j \in 1 .. Len(todo) /\ ~(until <= j)
        <5> HIDE DEF until
        <5> QED BY <1>1, <3>2
      <4> HIDE DEF until, stops
      <4> QED BY <2>2, <3>1, <3>2, <4>1
    <3>4. /\ tools' = left.tools /\ names' = left.names
          /\ taken' = {t \in taken : t[1] # todo[until]}
          /\ selecting' = [selecting EXCEPT ![c] =
               [pc |-> "removing", old |-> FALSE, desired |-> desired,
                todo |-> SubSeq(todo, until + 1, Len(todo))]]
          /\ agentJson' = agentJson
      <4> HIDE DEF all, left, throws, stops, until
      <4> QED BY <1>2, <2>1, <2>3
    <3>5. all = C!RegisteredAll(C!Now, SubSeq(todo, 1, until - 1), desired \ DOMAIN names)
      <4> HIDE DEF until
      <4> QED BY <2>2, Zenon
    <3> HIDE DEF until, all
    <3>6. StopsAt(c, desired, todo, until)
          BY <3>3, <3>4, <3>5, Zenon DEF StopsAt
    <3> QED BY <1>4, <3>2, <3>6
  <2>4. CASE stops = {}
    <3>1. SubSeq(todo, 1, until - 1) = todo
      <4>1. until - 1 = Len(todo)
            BY <1>1, <2>4
      <4> QED BY <1>1, <4>1, SubSeqFull
    <3>2. /\ tools' = all.tools /\ names' = all.names
          /\ agentJson' = [agentJson EXCEPT !.builtin = desired]
          /\ selecting' = [selecting EXCEPT ![c] = C!Idle]
          /\ taken' = taken
      <4> HIDE DEF all, left, throws, stops, until
      <4> QED BY <1>2, <2>1, <2>4
    <3>3. all = C!RegisteredAll(C!Now, todo, desired \ DOMAIN names)
      <4> HIDE DEF until
      <4> QED BY <2>2, <3>1, Zenon
    <3>4. \A j \in 1 .. Len(todo) : ~Stop(todo, desired, j)
      <4> HIDE DEF stops
      <4> QED BY <2>2, <2>4
    <3> HIDE DEF all
    <3>5. Ends(c, desired, todo)
          BY <3>2, <3>3, <3>4, Zenon DEF Ends
    <3> QED BY <1>4, <3>5
  <2> QED BY <2>3, <2>4
<1> QED BY <1>3, <1>4

\* The parts of the work of a loop.
LEMMA TodoParts ==
  ASSUME NEW todo \in Todos, NEW u \in 1 .. Len(todo)
  PROVE  LET before == SubSeq(todo, 1, u - 1)
             after == SubSeq(todo, u + 1, Len(todo))
         IN  /\ before \in Todos /\ Len(before) = u - 1
             /\ \A i \in 1 .. u - 1 : before[i] = todo[i]
             /\ after \in Todos /\ Len(after) = Len(todo) - u
             /\ \A i \in 1 .. Len(todo) - u : after[i] = todo[u + i]
<1> DEFINE before == SubSeq(todo, 1, u - 1)
           after == SubSeq(todo, u + 1, Len(todo))
           n == Len(todo)
<1>1. /\ n \in Nat /\ u \in Nat /\ 1 <= u /\ u <= n /\ DOMAIN todo = 1 .. n
      /\ \A i \in 1 .. n : todo[i] \in C!Builtin
      /\ \A i, j \in 1 .. n : todo[i] = todo[j] => i = j
      BY DEF Todos, IsInjective
<1> HIDE DEF n
<1>2. before \in Seq(C!Builtin) /\ Len(before) = u - 1 /\ \A i \in 1 .. u - 1 : before[i] = todo[i]
  <2>1. 1 \in Int /\ u - 1 \in Int /\ \A i \in 1 .. u - 1 : todo[i] \in C!Builtin
        BY <1>1
  <2>2. /\ before \in Seq(C!Builtin) /\ Len(before) = IF 1 <= u - 1 THEN u - 1 - 1 + 1 ELSE 0
        /\ \A i \in 1 .. u - 1 - 1 + 1 : before[i] = todo[1 + i - 1]
        BY <2>1, SubSeqProperties
  <2>3. (IF 1 <= u - 1 THEN u - 1 - 1 + 1 ELSE 0) = u - 1 /\ u - 1 - 1 + 1 = u - 1
        BY <1>1
  <2>4. \A i \in 1 .. u - 1 : 1 + i - 1 = i
        BY <1>1
  <2> HIDE DEF before
  <2> QED BY <2>2, <2>3, <2>4
<1>3. after \in Seq(C!Builtin) /\ Len(after) = n - u /\ \A i \in 1 .. n - u : after[i] = todo[u + i]
  <2>1. u + 1 \in Int /\ n \in Int /\ \A i \in u + 1 .. n : todo[i] \in C!Builtin
        BY <1>1
  <2>2. /\ after \in Seq(C!Builtin) /\ Len(after) = IF u + 1 <= n THEN n - (u + 1) + 1 ELSE 0
        /\ \A i \in 1 .. n - (u + 1) + 1 : after[i] = todo[u + 1 + i - 1]
        BY <2>1, SubSeqProperties DEF n
  <2>3. (IF u + 1 <= n THEN n - (u + 1) + 1 ELSE 0) = n - u /\ n - (u + 1) + 1 = n - u
        BY <1>1
  <2>4. \A i \in 1 .. n - u : u + 1 + i - 1 = u + i
        BY <1>1
  <2> HIDE DEF after
  <2> QED BY <2>2, <2>3, <2>4
<1> HIDE DEF before, after
<1>4. before \in Todos
  <2>1. \A i \in 1 .. u - 1 : i \in 1 .. n
        BY <1>1
  <2>2. DOMAIN before = 1 .. u - 1
        BY <1>1, <1>2
  <2> QED BY <1>1, <1>2, <2>1, <2>2 DEF Todos, IsInjective
<1>5. after \in Todos
  <2>1. \A i \in 1 .. n - u : u + i \in 1 .. n
        BY <1>1
  <2>2. DOMAIN after = 1 .. n - u
        BY <1>1, <1>3
  <2>3. ASSUME NEW i \in 1 .. n - u, NEW j \in 1 .. n - u, after[i] = after[j]
        PROVE  i = j
    <3>1. u + i = u + j
          BY <1>1, <1>3, <2>1, <2>3
    <3> QED BY <1>1, <3>1
  <2> QED BY <1>3, <2>2, <2>3 DEF Todos, IsInjective
<1> QED BY <1>2, <1>3, <1>4, <1>5 DEF before, after, n

\* The names after an end or a stop of the loop.
LEMMA LoopEnds ==
  ASSUME CapTypes, HandsOK(C!Now, taken), NEW c, NEW desired \in SUBSET C!Builtin,
         NEW todo \in Todos, Ends(c, desired, todo)
  PROVE  /\ C!Now' \in Registries /\ HandsOK(C!Now', taken') /\ NamesOK(C!Now')
         /\ \A x : x \in DOMAIN names' <=>
                     x \in DOMAIN names \/ \E i \in 1 .. Len(todo) : x = todo[i] /\ x \in desired
<1> DEFINE all == C!RegisteredAll(C!Now, todo, desired \ DOMAIN names)
<1>1. todo \in Seq(C!Hands) /\ IsInjective(todo) /\ C!Now \in Registries /\ NamesOK(C!Now)
      BY DEF Todos, CapTypes, C!Hands
<1>2. DOMAIN C!Now.names = DOMAIN names
      BY DEF C!Now
<1>3. /\ all \in Registries /\ HandsOK(all, taken) /\ NamesOK(all)
      /\ \A x : x \in DOMAIN all.names <=>
                  \/ x \in DOMAIN C!Now.names
                  \/ \E i \in 1 .. Len(todo) : x = todo[i] /\ todo[i] \in desired \ DOMAIN names
      BY <1>1, <1>2, AllRegisteredOK
<1>4. tools' = all.tools /\ names' = all.names /\ taken' = taken
      BY DEF Ends
<1> HIDE DEF all
<1>5. C!Now' = all
  <2>1. all = [tools |-> all.tools, names |-> all.names]
        BY <1>3 DEF Registries
  <2> QED BY <1>4, <2>1 DEF C!Now
<1>6. DOMAIN names' = DOMAIN all.names
      BY <1>4
<1>7. \A x : x \in DOMAIN names' <=>
               x \in DOMAIN names \/ \E i \in 1 .. Len(todo) : x = todo[i] /\ x \in desired
      BY <1>2, <1>3, <1>6
<1> QED BY <1>3, <1>4, <1>5, <1>7

\* Where the loop waits, it has registered the wanted hands before that one.
LEMMA LoopStops ==
  ASSUME CapTypes, HandsOK(C!Now, taken), NEW c, NEW desired \in SUBSET C!Builtin,
         NEW todo \in Todos, NEW u \in 1 .. Len(todo), StopsAt(c, desired, todo, u)
  PROVE  /\ C!Now' \in Registries /\ HandsOK(C!Now', taken') /\ NamesOK(C!Now')
         /\ \A x : x \in DOMAIN names' <=>
                     /\ x # todo[u]
                     /\ x \in DOMAIN names \/ \E i \in 1 .. u - 1 : x = todo[i] /\ x \in desired
<1> DEFINE before == SubSeq(todo, 1, u - 1)
           all == C!RegisteredAll(C!Now, before, desired \ DOMAIN names)
           left == C!Unregistered(all, todo[u])
<1>1. /\ before \in Todos /\ Len(before) = u - 1
      /\ \A i \in 1 .. u - 1 : before[i] = todo[i]
      BY TodoParts
<1>2. before \in Seq(C!Hands) /\ IsInjective(before) /\ C!Now \in Registries /\ NamesOK(C!Now)
      BY <1>1 DEF Todos, CapTypes, C!Hands
<1>3. DOMAIN C!Now.names = DOMAIN names
      BY DEF C!Now
<1> HIDE DEF before
<1>4. /\ all \in Registries /\ HandsOK(all, taken) /\ NamesOK(all)
      /\ \A x : x \in DOMAIN all.names <=>
                  \/ x \in DOMAIN C!Now.names
                  \/ \E i \in 1 .. Len(before) :
                       x = before[i] /\ before[i] \in desired \ DOMAIN names
      BY <1>2, <1>3, AllRegisteredOK
<1>5. /\ tools' = left.tools /\ names' = left.names /\ taken' = {t \in taken : t[1] # todo[u]}
      /\ todo[u] \in DOMAIN names
      BY Zenon DEF StopsAt, Stop, before
<1> HIDE DEF all
<1>6. \A x : x \in DOMAIN all.names <=>
               x \in DOMAIN names \/ \E i \in 1 .. u - 1 : x = todo[i] /\ x \in desired
      BY <1>1, <1>3, <1>4
<1>7. todo[u] \in DOMAIN all.names
      BY <1>5, <1>6
<1>8. /\ left \in Registries /\ HandsOK(left, {t \in taken : t[1] # todo[u]}) /\ NamesOK(left)
      /\ DOMAIN left.names = DOMAIN all.names \ {todo[u]}
      BY <1>4, <1>7, UnregisteredOK, Zenon
<1> HIDE DEF left
<1>9. C!Now' = left
  <2>1. left = [tools |-> left.tools, names |-> left.names]
        BY <1>8 DEF Registries
  <2> QED BY <1>5, <2>1 DEF C!Now
<1>10. HandsOK(C!Now', taken')
      BY <1>5, <1>8, <1>9
<1>11. \A x : x \in DOMAIN names' <=>
                 /\ x # todo[u]
                 /\ x \in DOMAIN names \/ \E i \in 1 .. u - 1 : x = todo[i] /\ x \in desired
  <2>1. DOMAIN names' = DOMAIN all.names \ {todo[u]}
        BY <1>5, <1>8
  <2> QED BY <1>6, <2>1
<1> QED BY <1>8, <1>9, <1>10, <1>11

\* Whatever a loop does, the tools stay in order.
LEMMA LoopKeepsTools ==
  ASSUME CapTypes, agentState = "up" => HandsOK(C!Now, taken), agentState # "down",
         NEW c \in Selections, NEW old \in BOOLEAN, NEW desired \in SUBSET C!Builtin,
         NEW todo \in Todos, C!Continue(c, old, desired, todo),
         UNCHANGED <<agentState, denylist, mounts, asked>>,
         changes' \in 0 .. MaxChanges, agreed' \in BOOLEAN
  PROVE  CapTypes' /\ (agentState' = "up" => HandsOK(C!Now', taken'))
<1>1. agentJson \in Homes
      BY DEF CapTypes
<1>2. [agentJson EXCEPT !.builtin = desired] \in Homes
      BY <1>1, Zenon DEF Homes
<1>3. CASE Quits(c, desired)
  <2>1. agentJson' \in Homes
        BY <1>1, <1>2, <1>3 DEF Quits
  <2>2. selecting' \in [Selections -> Loops \cup {C!Idle}]
        BY <1>3 DEF Quits, CapTypes
  <2>3. C!Now' = C!Now /\ taken' = taken
        BY <1>3 DEF Quits, C!Now
  <2>4. CapTypes'
        BY <2>1, <2>2, <2>3 DEF CapTypes
  <2> QED BY <2>3, <2>4
<1>4. CASE agentState = "up" /\ Ends(c, desired, todo)
  <2>1. C!Now' \in Registries /\ HandsOK(C!Now', taken') /\ NamesOK(C!Now')
        BY <1>4, LoopEnds, Zenon
  <2>2. agentJson' \in Homes /\ taken' = taken
        BY <1>2, <1>4 DEF Ends
  <2>3. selecting' \in [Selections -> Loops \cup {C!Idle}]
        BY <1>4 DEF Ends, CapTypes
  <2>4. CapTypes'
        BY <2>1, <2>2, <2>3 DEF CapTypes
  <2> QED BY <2>1, <2>4
<1>5. ASSUME agentState = "up", NEW u \in 1 .. Len(todo), StopsAt(c, desired, todo, u)
      PROVE  CapTypes' /\ (agentState' = "up" => HandsOK(C!Now', taken'))
  <2>1. C!Now' \in Registries /\ HandsOK(C!Now', taken') /\ NamesOK(C!Now')
        BY <1>5, LoopStops, Zenon
  <2>2. agentJson' \in Homes /\ taken' \subseteq taken
        BY <1>1, <1>5 DEF StopsAt
  <2>3. selecting' \in [Selections -> Loops \cup {C!Idle}]
    <3> DEFINE more == [pc |-> "removing", old |-> FALSE, desired |-> desired,
                        todo |-> SubSeq(todo, u + 1, Len(todo))]
    <3>1. more \in Loops
      <4>1. SubSeq(todo, u + 1, Len(todo)) \in Todos
            BY TodoParts, Zenon
      <4> QED BY <4>1 DEF Loops
    <3>2. selecting' = [selecting EXCEPT ![c] = more]
          BY <1>5, Zenon DEF StopsAt
    <3> HIDE DEF more
    <3> QED BY <3>1, <3>2 DEF CapTypes
  <2>4. CapTypes'
        BY <1>5, <2>1, <2>2, <2>3 DEF CapTypes
  <2> QED BY <2>1, <2>4
<1> QED BY <1>3, <1>4, <1>5, LoopGoesOn

-----------------------------------------------------------------------------
(* The selection of built-in hands.                                         *)

\* The hands that a loop is done with are as they were asked for.
Progress(todo, desired) ==
  \A h \in C!Builtin :
    (\A i \in 1 .. Len(todo) : todo[i] # h) => (h \in DOMAIN names <=> h \in desired)

\* The hands are those of agent.json, or one call is on its way from them to others.
Settled ==
  /\ \A c \in Selections : selecting[c] # C!Idle => selecting[c].old
  /\ DOMAIN names \cap C!Builtin = agentJson.builtin

\* No other call is under way.
Alone(c) == \A d \in Selections : d # c => selecting[d] = C!Idle

\* The call is the only one, and what it did and has to do gives what it was asked for.
Underway(c) ==
  /\ selecting[c] # C!Idle /\ ~selecting[c].old
  /\ Alone(c)
  /\ Progress(selecting[c].todo, selecting[c].desired)

\* While calls do not overlap, the hands are those agent.json selects, or will be.
SelectionInv ==
  agentState = "up" /\ agreed => Settled \/ \E c \in Selections : Underway(c)

\* A call that is alone ends with the hands that it was asked for.
LEMMA LoopSelects ==
  ASSUME CapTypes, agentState = "up", HandsOK(C!Now, taken),
         NEW c \in Selections, NEW desired \in SUBSET C!Builtin,
         NEW todo \in Todos, C!Continue(c, FALSE, desired, todo), Alone(c),
         Progress(todo, desired)
  PROVE  Settled' \/ Underway(c)'
<1>1. selecting \in [Selections -> Loops \cup {C!Idle}] /\ agentJson \in Homes
      BY DEF CapTypes
<1>2. Len(todo) \in Nat
      BY DEF Todos
<1>3. CASE Ends(c, desired, todo)
  <2>1. \A x : x \in DOMAIN names' <=>
                 x \in DOMAIN names \/ \E i \in 1 .. Len(todo) : x = todo[i] /\ x \in desired
        BY <1>3, LoopEnds, Zenon
  <2>2. \A i \in 1 .. Len(todo) : ~(todo[i] \in DOMAIN names /\ todo[i] \notin desired)
        BY <1>3 DEF Ends, Stop
  <2>3. ASSUME NEW h \in C!Builtin PROVE h \in DOMAIN names' <=> h \in desired
    <3>1. CASE \A i \in 1 .. Len(todo) : todo[i] # h
          BY <2>1, <3>1 DEF Progress
    <3>2. CASE \E i \in 1 .. Len(todo) : todo[i] = h
          BY <2>1, <2>2, <3>2
    <3> QED BY <3>1, <3>2
  <2>4. selecting' = [selecting EXCEPT ![c] = C!Idle] /\
          agentJson' = [agentJson EXCEPT !.builtin = desired]
        BY <1>3 DEF Ends
  <2>5. \A d \in Selections : selecting'[d] = C!Idle
        BY <1>1, <2>4 DEF Alone
  <2>6. agentJson'.builtin = desired
        BY <1>1, <2>4 DEF Homes
  <2> QED BY <2>3, <2>5, <2>6 DEF Settled
<1>4. ASSUME NEW u \in 1 .. Len(todo), StopsAt(c, desired, todo, u)
      PROVE  Underway(c)'
  <2> DEFINE after == SubSeq(todo, u + 1, Len(todo))
             more == [pc |-> "removing", old |-> FALSE, desired |-> desired, todo |-> after]
  <2>1. \A x : x \in DOMAIN names' <=>
                 /\ x # todo[u]
                 /\ x \in DOMAIN names \/ \E i \in 1 .. u - 1 : x = todo[i] /\ x \in desired
        BY <1>4, LoopStops, Zenon
  <2>2. /\ todo[u] \notin desired
        /\ \A i \in 1 .. u - 1 : ~(todo[i] \in DOMAIN names /\ todo[i] \notin desired)
        BY <1>4 DEF StopsAt, Stop
  <2>3. after \in Todos /\ Len(after) = Len(todo) - u /\
          \A i \in 1 .. Len(todo) - u : after[i] = todo[u + i]
        BY TodoParts, Zenon
  <2> HIDE DEF after
  <2>4. ASSUME NEW h \in C!Builtin, \A i \in 1 .. Len(after) : after[i] # h
        PROVE  h \in DOMAIN names' <=> h \in desired
    <3>1. \A i \in 1 .. Len(todo) : todo[i] = h => i \in 1 .. u
      <4>1. ASSUME NEW i \in 1 .. Len(todo), todo[i] = h, i > u PROVE FALSE
        <5>1. i - u \in 1 .. Len(after) /\ u + (i - u) = i
              BY <1>2, <2>3, <4>1
        <5> QED BY <2>3, <2>4, <4>1, <5>1, Zenon
      <4> QED BY <1>2, <4>1
    <3>2. CASE \A i \in 1 .. Len(todo) : todo[i] # h
      <4>1. h \in DOMAIN names <=> h \in desired
            BY <3>2 DEF Progress
      <4>2. h # todo[u]
            BY <3>2
      <4>3. \A i \in 1 .. u - 1 : h # todo[i]
            BY <1>2, <3>2
      <4> QED BY <2>1, <4>1, <4>2, <4>3
    <3>3. CASE h = todo[u]
          BY <2>1, <2>2, <3>3
    <3>4. ASSUME NEW i \in 1 .. Len(todo), todo[i] = h, h # todo[u]
          PROVE  h \in DOMAIN names' <=> h \in desired
      <4>1. i \in 1 .. u - 1
            BY <1>2, <3>1, <3>4
      <4> QED BY <2>1, <2>2, <3>4, <4>1
    <3> QED BY <3>2, <3>3, <3>4
  <2>5. selecting' = [selecting EXCEPT ![c] = more]
        BY <1>4, Zenon DEF StopsAt, after
  <2>6. more.old = FALSE /\ more.desired = desired /\ more.todo = after /\ more # C!Idle
        BY DEF C!Idle
  <2> HIDE DEF more
  <2>7. selecting'[c] = more /\ \A d \in Selections : d # c => selecting'[d] = C!Idle
        BY <1>1, <2>5 DEF Alone
  <2>8. \A h \in C!Builtin :
          (\A i \in 1 .. Len(selecting'[c].todo) : selecting'[c].todo[i] # h)
            => (h \in DOMAIN names' <=> h \in selecting'[c].desired)
        BY <2>4, <2>6, <2>7
  <2> QED BY <2>6, <2>7, <2>8 DEF Underway, Alone, Progress
<1> QED BY <1>3, <1>4, LoopGoesOn, Zenon

-----------------------------------------------------------------------------
(* The agent.                                                               *)

\* The tools of an agent that is up are those of its hands, and its selection of
\* hands is that of agent.json or of the one call that changes it.
CapInv ==
  /\ CapTypes
  /\ agentState = "up" => HandsOK(C!Now, taken)
  /\ SelectionInv

\* The registry of an agent that has no hands.
NoTools == [tools |-> <<>>, names |-> <<>>]

\* It is a registry, and in order.
LEMMA NoToolsOK == NoTools \in Registries /\ HandsOK(NoTools, {}) /\ NamesOK(NoTools)
<1> DEFINE none == <<>>
<1>1. DOMAIN none = {} /\ none = [x \in {} |-> none[x]]
      OBVIOUS
<1>2. NoTools.tools = none /\ NoTools.names = none /\ NoTools = [tools |-> none, names |-> none]
      BY DEF NoTools
<1> HIDE DEF none
<1>3. none \in ToolMaps /\ none \in NameMaps
  <2>1. none \in [DOMAIN none -> [hand : C!Hands, capability : Capability]]
        BY <1>1
  <2>2. none \in [DOMAIN none -> SUBSET Labels]
        BY <1>1
  <2> QED BY <1>1, <2>1, <2>2, ToolMap, NameMap, Zenon
<1>4. IsFiniteSet(DOMAIN NoTools.tools)
      BY <1>1, <1>2, FS_EmptySet
<1> QED BY <1>1, <1>2, <1>3, <1>4 DEF Registries, HandsOK, NamesOK

\* The order of the built-in hands has each of them once.
LEMMA OrderIsTodo == Order \in Todos /\ \A h \in C!Builtin : \E i \in 1 .. Len(Order) : Order[i] = h
<1>1. C!Builtin = Range(Order)
      BY DEF C!Builtin, C!Range, Range
<1>2. DOMAIN Order = 1 .. Len(Order) /\ Order \in Seq(Range(Order)) /\ IsInjective(Order)
      BY HostAssumption
<1>3. \A h \in Range(Order) : \E i \in 1 .. Len(Order) : Order[i] = h
      BY <1>2 DEF Range
<1> QED BY <1>1, <1>2, <1>3 DEF Todos

\* An agent that does not exist yet is in order.
LEMMA CapInit == ASSUME C!Init PROVE CapInv
<1>1. C!Now = NoTools
      BY DEF C!Init, C!Now, NoTools
<1>2. selecting \in [Selections -> Loops \cup {C!Idle}] /\
        \A c \in Selections : selecting[c] = C!Idle
      BY DEF C!Init
<1>3. C!Now \in Registries /\ NamesOK(C!Now)
      BY <1>1, NoToolsOK
<1>4. CapTypes
      BY <1>2, <1>3, HostAssumption DEF C!Init, CapTypes
<1> QED BY <1>4 DEF CapInv, SelectionInv, C!Init

\* An agent that is mounted with a selection has those hands and their tools.
LEMMA MountStep ==
  ASSUME CapInv, NEW selection \in SUBSET C!Builtin, NEW list \in SUBSET Capability,
         C!Mounted(selection, list), asked' \in {asked, list},
         agreed' = (agreed /\ (agentJson.exists => agentJson.builtin = selection))
  PROVE  CapInv'
<1> DEFINE found == IF agentJson.exists THEN agentJson
                    ELSE [exists |-> TRUE, denylist |-> {}, builtin |-> selection]
           all == C!RegisteredAll(NoTools, Order, selection)
<1>1. CapTypes
      BY DEF CapInv
<1>2. /\ mounts < MaxMounts /\ mounts' = mounts + 1 /\ agentState' = "up"
      /\ tools' = all.tools /\ names' = all.names
      /\ agentJson' = [found EXCEPT !.denylist = list]
      /\ denylist' = list /\ taken' = {} /\ changes' = changes
      /\ selecting' = [c \in Selections |-> IF selecting[c] = C!Idle THEN C!Idle
                                            ELSE [selecting[c] EXCEPT !.old = TRUE]]
      BY Zenon DEF C!Mounted, C!Become, NoTools
<1>3. found \in Homes /\ (agentJson.exists => found.builtin = agentJson.builtin)
      /\ (~agentJson.exists => found.builtin = selection)
  <2>1. CASE agentJson \in Homes
        BY <2>1, Zenon DEF Homes
  <2>2. CASE agentJson = C!NoFile
    <3>1. ~agentJson.exists
          BY <2>2 DEF C!NoFile
    <3> QED BY <3>1 DEF Homes
  <2> QED BY <1>1, <2>1, <2>2 DEF CapTypes
<1> HIDE DEF found
<1>4. agentJson' \in Homes /\ agentJson'.builtin = found.builtin
      BY <1>2, <1>3, Zenon DEF Homes
<1>5. /\ all \in Registries /\ HandsOK(all, {}) /\ NamesOK(all)
      /\ \A x : x \in DOMAIN all.names <=>
           \E i \in 1 .. Len(Order) : x = Order[i] /\ Order[i] \in selection
  <2>1. Order \in Seq(C!Hands) /\ IsInjective(Order)
        BY OrderIsTodo DEF Todos, C!Hands
  <2>2. DOMAIN NoTools.names = {}
        BY DEF NoTools
  <2>3. /\ all \in Registries /\ HandsOK(all, {}) /\ NamesOK(all)
        /\ \A x : x \in DOMAIN all.names <=>
                    \/ x \in DOMAIN NoTools.names
                    \/ \E i \in 1 .. Len(Order) : x = Order[i] /\ Order[i] \in selection
        BY <2>1, <2>2, NoToolsOK, AllRegisteredOK
  <2> QED BY <2>2, <2>3
<1> HIDE DEF all
<1>6. C!Now' = all
  <2>1. all = [tools |-> all.tools, names |-> all.names]
        BY <1>5 DEF Registries
  <2> QED BY <1>2, <2>1 DEF C!Now
<1>7. /\ selecting' \in [Selections -> Loops \cup {C!Idle}]
      /\ \A c \in Selections : selecting'[c] # C!Idle => selecting'[c].old
  <2>1. ASSUME NEW c \in Selections
        PROVE  /\ selecting'[c] \in Loops \cup {C!Idle}
               /\ selecting'[c] # C!Idle => selecting'[c].old
    <3>1. CASE selecting[c] = C!Idle
          BY <1>2, <3>1
    <3>2. CASE selecting[c] # C!Idle
      <4>1. selecting[c] \in Loops
            BY <1>1, <3>2 DEF CapTypes
      <4>2. selecting'[c] = [selecting[c] EXCEPT !.old = TRUE]
            BY <1>2, <3>2
      <4> QED BY <4>1, <4>2, Zenon DEF Loops
    <3> QED BY <3>1, <3>2
  <2> QED BY <1>2, <2>1
<1>8. CapTypes'
  <2>1. mounts' \in 0 .. MaxMounts /\ changes' \in 0 .. MaxChanges
        BY <1>1, <1>2, HostAssumption DEF CapTypes
  <2>2. asked' \subseteq Capability /\ agreed' \in BOOLEAN
        BY <1>1 DEF CapTypes
  <2> QED BY <1>2, <1>4, <1>5, <1>6, <1>7, <2>1, <2>2 DEF CapTypes
<1>9. HandsOK(C!Now', taken')
      BY <1>2, <1>5, <1>6
<1>10. agreed' => Settled'
  <2>1. DOMAIN names' = selection
    <3>1. \A x \in selection : \E i \in 1 .. Len(Order) : x = Order[i]
          BY OrderIsTodo
    <3>2. DOMAIN names' = DOMAIN all.names
          BY <1>2
    <3>3. \A x : x \in DOMAIN all.names <=> x \in selection
      <4>1. \A x : x \in DOMAIN all.names
                    <=> \E i \in 1 .. Len(Order) : x = Order[i] /\ Order[i] \in selection
            BY <1>5
      <4>2. \A x \in selection : \E i \in 1 .. Len(Order) : x = Order[i] /\ Order[i] \in selection
            BY <3>1
      <4> QED BY <4>1, <4>2, Zenon
    <3> QED BY <3>2, <3>3
  <2>2. agreed' => agentJson'.builtin = selection
        BY <1>3, <1>4, Zenon
  <2> QED BY <1>7, <2>1, <2>2 DEF Settled
<1> QED BY <1>8, <1>9, <1>10 DEF CapInv, SelectionInv

\* A tool goes, or a runtime tool with its hand.
LEMMA RemoveToolStep ==
  ASSUME CapInv, NEW n \in DOMAIN tools, C!RemoveTool(n)
  PROVE  CapInv'
<1> DEFINE h == tools[n].hand
           left == names[h] \ {n}
           gone == left = {} /\ h \in RuntimeTools
<1>1. CapTypes /\ agentState = "up" /\ HandsOK(C!Now, taken) /\ agentJson \in Homes
      BY DEF CapInv, CapTypes, C!RemoveTool
<1>2. C!Now.tools = tools /\ C!Now.names = names
      BY DEF C!Now
<1>3. /\ tools \in [DOMAIN tools -> [hand : C!Hands, capability : Capability]]
      /\ DOMAIN tools \subseteq Labels /\ names \in [DOMAIN names -> SUBSET Labels]
      /\ DOMAIN names \subseteq C!Hands /\ IsFiniteSet(DOMAIN tools)
      /\ DOMAIN tools \subseteq C!Names /\ \A x \in DOMAIN names : names[x] \subseteq C!Names
  <2>1. tools \in ToolMaps /\ names \in NameMaps /\ IsFiniteSet(DOMAIN tools)
        BY <1>1, <1>2 DEF CapTypes, Registries
  <2>2. NamesOK(C!Now)
        BY <1>1 DEF CapTypes
  <2> QED BY <1>2, <2>1, <2>2, ToolMap, NameMap DEF NamesOK
<1>4. /\ \A x \in DOMAIN names : \A m \in names[x] : m \in DOMAIN tools /\ tools[m].hand = x
      /\ \A m \in DOMAIN tools :
           /\ tools[m].hand \in DOMAIN names /\ m \in names[tools[m].hand]
           /\ tools[m].capability = m.name
      /\ \A x \in DOMAIN names : \A l, m \in names[x] : l.name = m.name => l = m
      /\ \A x \in DOMAIN names : \A m \in names[x] :
           m.name \in C!Admitted(x) /\ <<x, m.name>> \notin taken
      /\ \A x \in DOMAIN names : \A b \in C!Admitted(x) :
           <<x, b>> \notin taken => \E m \in names[x] : m.name = b
      /\ \A t \in taken : \E x \in DOMAIN names : \E b \in C!Admitted(x) : t = <<x, b>>
      BY <1>1, <1>2, Zenon DEF HandsOK
<1>5. /\ h \in DOMAIN names /\ n \in names[h] /\ n.name \in C!Admitted(h) /\ n.name \in Capability
      /\ tools[n].capability = n.name
  <2>1. h \in DOMAIN names /\ n \in names[h] /\ tools[n].capability = n.name
        BY <1>4
  <2> QED BY <1>3, <1>4, <2>1, AdmittedAreOffered, Zenon
<1>6. /\ tools' = [m \in DOMAIN tools \ {n} |-> tools[m]]
      /\ gone => names' = [x \in DOMAIN names \ {h} |-> names[x]] /\ taken' = taken
      /\ ~gone => names' = [names EXCEPT ![h] = left] /\ taken' = taken \cup {<<h, n.name>>}
      BY <1>5 DEF C!RemoveTool, C!Without
<1>7. /\ UNCHANGED <<agentJson, agentState, denylist, selecting, mounts, asked, agreed>>
      /\ changes' \in 0 .. MaxChanges
      BY <1>1, HostAssumption DEF C!RemoveTool, C!Changed, CapTypes
<1>8. gone => \A b : <<h, b>> \notin taken
  <2>1. SUFFICES ASSUME gone, NEW b, <<h, b>> \in taken PROVE FALSE
        OBVIOUS
  <2>2. PICK x \in DOMAIN names : \E d \in C!Admitted(x) : <<h, b>> = <<x, d>>
        BY <1>4, <2>1
  <2>3. b \in C!Admitted(h)
        BY <2>2
  <2>4. \E d \in Capability : Offers[h] = {d}
        BY <2>1, HostAssumption
  <2>5. b = n.name
        BY <1>5, <2>3, <2>4 DEF C!Admitted
  <2> QED BY <1>4, <1>5, <2>1, <2>5
<1> HIDE DEF h, left
<1>9. /\ DOMAIN tools' = DOMAIN tools \ {n}
      /\ \A m \in DOMAIN tools' : tools'[m] = tools[m]
      BY <1>6
<1>10. CASE gone
  <2>1. /\ DOMAIN names' = DOMAIN names \ {h} /\ taken' = taken
        /\ \A x \in DOMAIN names' : names'[x] = names[x]
        BY <1>6, <1>10
  <2>2. names[h] = {n} /\ h \in RuntimeTools
        BY <1>5, <1>10 DEF left
  <2>3. \A x \in DOMAIN names : x # h => n \notin names[x]
        BY <1>4, <1>5
  <2>4. \A m \in DOMAIN tools : m # n => tools[m].hand # h
        BY <1>4, <2>2
  <2>5. C!Now' \in Registries
    <3>1. tools' \in ToolMaps
      <4>1. tools' \in [DOMAIN tools \ {n} -> [hand : C!Hands, capability : Capability]]
            BY <1>3, <1>6
      <4> QED BY <1>3, <1>9, <4>1, ToolMap
    <3>2. names' \in NameMaps
      <4>1. names' \in [DOMAIN names \ {h} -> SUBSET Labels]
            BY <1>3, <1>6, <1>10
      <4> QED BY <1>3, <2>1, <4>1, NameMap
    <3>3. IsFiniteSet(DOMAIN tools')
          BY <1>3, <1>9, FS_RemoveElement
    <3> QED BY <3>1, <3>2, <3>3 DEF Registries, C!Now
  <2>6. NamesOK(C!Now')
        BY <1>3, <1>9, <2>1 DEF NamesOK, C!Now
  <2>7. HandsOK(C!Now', taken')
    <3>1. C!Now'.tools = tools' /\ C!Now'.names = names'
          BY DEF C!Now
    <3>2. \A x \in DOMAIN names' : \A m \in names'[x] : m \in DOMAIN tools' /\ tools'[m].hand = x
          BY <1>4, <1>9, <2>1, <2>3
    <3>3. \A m \in DOMAIN tools' :
            /\ tools'[m].hand \in DOMAIN names' /\ m \in names'[tools'[m].hand]
            /\ tools'[m].capability = m.name
          BY <1>4, <1>9, <2>1, <2>4
    <3>4. \A x \in DOMAIN names' : \A l, m \in names'[x] : l.name = m.name => l = m
          BY <1>4, <2>1
    <3>5. \A x \in DOMAIN names' : \A m \in names'[x] :
            m.name \in C!Admitted(x) /\ <<x, m.name>> \notin taken'
          BY <1>4, <2>1, Zenon
    <3>6. \A x \in DOMAIN names' : \A b \in C!Admitted(x) :
            <<x, b>> \notin taken' => \E m \in names'[x] : m.name = b
          BY <1>4, <2>1
    <3>7. \A t \in taken' : \E x \in DOMAIN names' : \E b \in C!Admitted(x) : t = <<x, b>>
          BY <1>4, <1>8, <1>10, <2>1
    <3> QED BY <3>1, <3>2, <3>3, <3>4, <3>5, <3>6, <3>7 DEF HandsOK
  <2>8. CapTypes'
        BY <1>1, <1>7, <2>1, <2>5, <2>6 DEF CapTypes
  <2>9. SelectionInv'
    <3>1. h \notin C!Builtin
          BY <2>2, HostAssumption DEF C!Builtin, C!Range, Range
    <3>2. \A x \in C!Builtin : x \in DOMAIN names' <=> x \in DOMAIN names
          BY <2>1, <3>1
    <3> QED BY <1>7, <3>2 DEF CapInv, SelectionInv, Settled, Underway, Alone, Progress
  <2> QED BY <2>7, <2>8, <2>9 DEF CapInv
<1>11. CASE ~gone
  <2>1. /\ DOMAIN names' = DOMAIN names /\ taken' = taken \cup {<<h, n.name>>}
        /\ names'[h] = names[h] \ {n}
        /\ \A x \in DOMAIN names : x # h => names'[x] = names[x]
        BY <1>5, <1>6, <1>11 DEF left
  <2>2. \A x \in DOMAIN names : names'[x] = names[x] \ {n}
    <3>1. \A x \in DOMAIN names : x # h => n \notin names[x]
          BY <1>4, <1>5
    <3> QED BY <2>1, <3>1
  <2>3. C!Now' \in Registries
    <3>1. tools' \in ToolMaps
      <4>1. tools' \in [DOMAIN tools \ {n} -> [hand : C!Hands, capability : Capability]]
            BY <1>3, <1>6
      <4> QED BY <1>3, <1>9, <4>1, ToolMap
    <3>2. names' \in NameMaps
      <4>1. names' \in [DOMAIN names -> SUBSET Labels]
        <5>1. left \in SUBSET Labels
              BY <1>3, <1>5 DEF left
        <5> QED BY <1>3, <1>6, <1>11, <5>1
      <4> QED BY <1>3, <2>1, <4>1, NameMap
    <3>3. IsFiniteSet(DOMAIN tools')
          BY <1>3, <1>9, FS_RemoveElement
    <3> QED BY <3>1, <3>2, <3>3 DEF Registries, C!Now
  <2>4. NamesOK(C!Now')
        BY <1>3, <1>9, <2>1, <2>2 DEF NamesOK, C!Now
  <2>5. HandsOK(C!Now', taken')
    <3>1. C!Now'.tools = tools' /\ C!Now'.names = names'
          BY DEF C!Now
    <3>2. \A x \in DOMAIN names' : \A m \in names'[x] : m \in DOMAIN tools' /\ tools'[m].hand = x
          BY <1>4, <1>9, <2>1, <2>2
    <3>3. \A m \in DOMAIN tools' :
            /\ tools'[m].hand \in DOMAIN names' /\ m \in names'[tools'[m].hand]
            /\ tools'[m].capability = m.name
          BY <1>4, <1>9, <2>1, <2>2
    <3>4. \A x \in DOMAIN names' : \A l, m \in names'[x] : l.name = m.name => l = m
          BY <1>4, <2>1, <2>2
    <3>5. \A x \in DOMAIN names' : \A m \in names'[x] :
            m.name \in C!Admitted(x) /\ <<x, m.name>> \notin taken'
      <4>1. ASSUME NEW x \in DOMAIN names, NEW m \in names[x], m # n
            PROVE  m.name \in C!Admitted(x) /\ <<x, m.name>> \notin taken'
        <5>1. m.name \in C!Admitted(x) /\ <<x, m.name>> \notin taken
              BY <1>4
        <5>2. <<x, m.name>> # <<h, n.name>>
              BY <1>4, <1>5, <4>1
        <5> QED BY <2>1, <5>1, <5>2
      <4> QED BY <2>1, <2>2, <4>1, Zenon
    <3>6. \A x \in DOMAIN names' : \A b \in C!Admitted(x) :
            <<x, b>> \notin taken' => \E m \in names'[x] : m.name = b
      <4>1. ASSUME NEW x \in DOMAIN names, NEW b \in C!Admitted(x), <<x, b>> \notin taken'
            PROVE  \E m \in names[x] : m.name = b /\ m # n
        <5>1. PICK m \in names[x] : m.name = b
              BY <1>4, <2>1, <4>1
        <5>2. m # n
              BY <1>4, <1>5, <2>1, <4>1, <5>1
        <5> QED BY <5>1, <5>2
      <4> QED BY <2>1, <2>2, <4>1
    <3>7. \A t \in taken' : \E x \in DOMAIN names' : \E b \in C!Admitted(x) : t = <<x, b>>
          BY <1>4, <1>5, <2>1
    <3> QED BY <3>1, <3>2, <3>3, <3>4, <3>5, <3>6, <3>7 DEF HandsOK
  <2>6. CapTypes'
    <3>1. taken' \subseteq C!Hands \X Capability
          BY <1>1, <1>3, <1>5, <2>1 DEF CapTypes
    <3> QED BY <1>1, <1>7, <2>3, <2>4, <3>1 DEF CapTypes
  <2>7. SelectionInv'
        BY <1>7, <2>1 DEF CapInv, SelectionInv, Settled, Underway, Alone, Progress
  <2> QED BY <2>5, <2>6, <2>7 DEF CapInv
<1> QED BY <1>10, <1>11

\* A step that changes neither hands, nor calls, nor the selection in agent.json.
LEMMA SelectionStays ==
  ASSUME SelectionInv, UNCHANGED <<agentState, selecting, agreed>>,
         \A h \in C!Builtin : h \in DOMAIN names' <=> h \in DOMAIN names,
         agentState = "up" => agentJson'.builtin = agentJson.builtin
  PROVE  SelectionInv'
BY DEF SelectionInv, Settled, Underway, Alone, Progress

\* One hand added or removed.
LEMMA HandStepOK ==
  ASSUME CapInv, NEW h \in Added, C!AddHand(h) \/ C!RemoveHand(h)
  PROVE  CapInv'
<1>1. /\ CapTypes /\ agentState = "up" /\ HandsOK(C!Now, taken) /\ agentJson \in Homes
      /\ C!Now \in Registries /\ NamesOK(C!Now)
      BY DEF CapInv, CapTypes, C!AddHand, C!RemoveHand
<1>2. h \in C!Hands /\ h \notin C!Builtin
      BY HostAssumption DEF C!Hands, C!Builtin, C!Range, Range
<1>3. DOMAIN C!Now.names = DOMAIN names
      BY DEF C!Now
<1>4. /\ UNCHANGED <<agentJson, agentState, denylist, selecting, mounts, asked, agreed>>
      /\ changes' \in 0 .. MaxChanges
      BY <1>1, HostAssumption DEF C!AddHand, C!RemoveHand, C!Changed, CapTypes
<1>5. ASSUME NEW r \in Registries, HandsOK(r, taken'), NamesOK(r),
             tools' = r.tools, names' = r.names, taken' \subseteq taken,
             \A x : x # h => (x \in DOMAIN r.names <=> x \in DOMAIN names)
      PROVE  CapInv'
  <2>1. C!Now' = r
    <3>1. r = [tools |-> r.tools, names |-> r.names]
          BY DEF Registries
    <3> QED BY <1>5, <3>1 DEF C!Now
  <2>2. CapTypes'
        BY <1>1, <1>4, <1>5, <2>1 DEF CapTypes
  <2>3. \A x \in C!Builtin : x \in DOMAIN names' <=> x \in DOMAIN names
        BY <1>2, <1>5
  <2>4. SelectionInv'
        BY <1>4, <2>3, SelectionStays DEF CapInv
  <2> QED BY <1>5, <2>1, <2>2, <2>4 DEF CapInv
<1>6. CASE C!AddHand(h)
  <2> DEFINE r == C!Registered(C!Now, h)
  <2>1. h \notin DOMAIN names /\ tools' = r.tools /\ names' = r.names /\ taken' = taken
        BY <1>6, Zenon DEF C!AddHand, C!Become
  <2>2. r \in Registries /\ HandsOK(r, taken) /\ NamesOK(r) /\
          DOMAIN r.names = DOMAIN names \cup {h}
        BY <1>1, <1>2, <1>3, <2>1, RegisteredOK
  <2> HIDE DEF r
  <2> QED BY <1>5, <2>1, <2>2
<1>7. CASE C!RemoveHand(h)
  <2> DEFINE r == C!Unregistered(C!Now, h)
             kept == {t \in taken : t[1] # h}
  <2>1. h \in DOMAIN names /\ tools' = r.tools /\ names' = r.names /\ taken' = kept
        BY <1>7, Zenon DEF C!RemoveHand, C!Become
  <2>2. r \in Registries /\ HandsOK(r, kept) /\ NamesOK(r) /\ DOMAIN r.names = DOMAIN names \ {h}
        BY <1>1, <1>3, <2>1, UnregisteredOK
  <2>3. kept \subseteq taken
        OBVIOUS
  <2> HIDE DEF r, kept
  <2> QED BY <1>5, <2>1, <2>2, <2>3
<1> QED BY <1>6, <1>7

\* One call of setBuiltinHands, begun or resumed.
LEMMA LoopStep ==
  ASSUME CapInv, NEW c \in Selections, C!SetBuiltinHands(c) \/ C!Removed(c)
  PROVE  CapInv'
<1>1. CapTypes /\ (agentState = "up" => HandsOK(C!Now, taken)) /\ SelectionInv
      BY DEF CapInv
<1>2. CASE C!SetBuiltinHands(c)
  <2>1. PICK desired \in SUBSET C!Builtin : C!Continue(c, FALSE, desired, Order)
        BY <1>2, Zenon DEF C!SetBuiltinHands
  <2>2. /\ agentState = "up" /\ UNCHANGED <<agentState, denylist, mounts, asked>>
        /\ changes' \in 0 .. MaxChanges /\ agreed' \in BOOLEAN
        /\ agreed' => \A d \in Selections : selecting[d] = C!Idle
    <3>1. /\ agentState = "up" /\ UNCHANGED <<agentState, denylist, mounts, asked>>
          /\ changes < MaxChanges /\ changes' = changes + 1
          /\ agreed' = (agreed /\ \A d \in Selections : selecting[d] = C!Idle)
          BY <1>2, Zenon DEF C!SetBuiltinHands, C!Changed
    <3>2. changes' \in 0 .. MaxChanges
          BY <1>1, <3>1, HostAssumption DEF CapTypes
    <3>3. agreed' \in BOOLEAN /\ (agreed' => \A d \in Selections : selecting[d] = C!Idle)
          BY <3>1, Zenon
    <3> QED BY <3>1, <3>2, <3>3
  <2>3. Order \in Todos /\ Progress(Order, desired)
        BY OrderIsTodo DEF Progress
  <2>4. CapTypes' /\ (agentState' = "up" => HandsOK(C!Now', taken'))
        BY <1>1, <2>1, <2>2, <2>3, LoopKeepsTools, Zenon
  <2>5. agreed' => Settled' \/ Underway(c)'
    <3>1. SUFFICES ASSUME agreed' PROVE Settled' \/ Underway(c)'
          OBVIOUS
    <3>2. Alone(c)
          BY <2>2, <3>1 DEF Alone
    <3> QED BY <1>1, <2>1, <2>2, <2>3, <3>2, LoopSelects, Zenon
  <2> QED BY <2>4, <2>5 DEF CapInv, SelectionInv
<1>3. CASE C!Removed(c)
  <2> DEFINE one == selecting[c]
  <2>1. /\ one \in Loops /\ one # C!Idle
        BY <1>1, <1>3 DEF C!Removed, CapTypes, C!Idle
  <2>2. one.old \in BOOLEAN /\ one.desired \in SUBSET C!Builtin /\ one.todo \in Todos
        BY <2>1 DEF Loops
  <2>3. /\ C!Continue(c, one.old, one.desired, one.todo)
        /\ UNCHANGED <<agentState, denylist, mounts, changes, asked>>
        /\ agreed' = (agreed /\ ~one.old)
        BY <1>3, Zenon DEF C!Removed
  <2>4. agentState # "down" /\ changes' \in 0 .. MaxChanges /\ agreed' \in BOOLEAN
        BY <1>1, <2>1, <2>3 DEF CapTypes
  <2> HIDE DEF one
  <2>5. CapTypes' /\ (agentState' = "up" => HandsOK(C!Now', taken'))
        BY <1>1, <2>2, <2>3, <2>4, LoopKeepsTools
  <2>6. agentState' = "up" /\ agreed' => Settled' \/ Underway(c)'
    <3>1. SUFFICES ASSUME agentState' = "up", agreed' PROVE Settled' \/ Underway(c)'
          OBVIOUS
    <3>2. agentState = "up" /\ agreed /\ ~one.old
          BY <2>3, <3>1, Zenon
    <3>3. PICK d \in Selections : Underway(d)
          BY <1>1, <2>1, <3>2 DEF SelectionInv, Settled, one
    <3>4. d = c
          BY <2>1, <3>3 DEF Underway, Alone, one
    <3>5. Alone(c) /\ Progress(one.todo, one.desired)
          BY <3>3, <3>4 DEF Underway, one
    <3>6. C!Continue(c, FALSE, one.desired, one.todo)
      <4>1. one.old = FALSE
            BY <2>2, <3>2
      <4> QED BY <2>3, <4>1, Zenon
    <3> QED BY <1>1, <2>2, <3>2, <3>5, <3>6, LoopSelects, Zenon
  <2> QED BY <2>5, <2>6 DEF CapInv, SelectionInv
<1> QED BY <1>2, <1>3

\* Every step of the agent keeps its tools in order.
LEMMA CapStep ==
  ASSUME CapInv, [C!Next]_(C!vars)
  PROVE  CapInv'
<1>1. CapTypes /\ (agentState = "up" => HandsOK(C!Now, taken)) /\ SelectionInv
      BY DEF CapInv
<1>2. CASE UNCHANGED C!vars
  <2>1. /\ UNCHANGED <<agentJson, agentState, tools, names, denylist, selecting>>
        /\ UNCHANGED <<mounts, changes, asked, taken, agreed>>
        BY <1>2 DEF C!vars
  <2>2. C!Now' = C!Now
        BY <2>1 DEF C!Now
  <2>3. SelectionInv'
        BY <1>1, <2>1, SelectionStays
  <2> QED BY <1>1, <2>1, <2>2, <2>3 DEF CapInv, CapTypes
<1>3. CASE C!Create
  <2>1. PICK selection \in SUBSET C!Builtin, list \in Denylists :
          /\ C!Mounted(selection, list)
          /\ agreed' = (agreed /\ (agentJson.exists => agentJson.builtin = selection))
          /\ asked' = list
        BY <1>3 DEF C!Create
  <2>2. list \in SUBSET Capability
        BY HostAssumption
  <2> QED BY <2>1, <2>2, MountStep
<1>4. CASE C!Rehydrate
  <2>1. /\ agentJson.exists /\ C!Mounted(agentJson.builtin, {})
        /\ asked' = asked /\ agreed' = agreed
        BY <1>4 DEF C!Rehydrate
  <2>2. agentJson.builtin \in SUBSET C!Builtin
    <3>1. C!NoFile.exists = FALSE
          BY DEF C!NoFile
    <3>2. agentJson # C!NoFile
          BY <2>1, <3>1
    <3>3. agentJson \in Homes
          BY <1>1, <3>2 DEF CapTypes
    <3> QED BY <3>3 DEF Homes
  <2>3. agreed' = (agreed /\ (agentJson.exists => agentJson.builtin = agentJson.builtin))
    <3>1. agreed \in BOOLEAN
          BY <1>1 DEF CapTypes
    <3> QED BY <2>1, <3>1, Zenon
  <2>4. {} \in SUBSET Capability /\ asked' \in {asked, {}} /\ C!Mounted(agentJson.builtin, {})
        BY <2>1
  <2> QED BY <2>2, <2>3, <2>4, MountStep
<1>5. CASE C!Dispose
  <2>1. C!Now' = C!Now
        BY <1>5 DEF C!Dispose, C!Now
  <2> QED BY <1>1, <1>5, <2>1 DEF C!Dispose, CapInv, CapTypes, SelectionInv
<1>6. CASE C!Disposed
  <2>1. /\ agentState = "disposed" /\ names' = <<>>
        /\ UNCHANGED <<agentJson, agentState, tools, denylist, selecting, mounts, changes, asked,
             taken, agreed>>
        BY <1>6 DEF C!Disposed
  <2>2. C!Now' = [C!Now EXCEPT !.names = <<>>] /\ C!Now' = [tools |-> tools, names |-> <<>>]
        BY <2>1 DEF C!Now
  <2>3. C!Now' \in Registries /\ NamesOK(C!Now')
    <3> DEFINE none == <<>>
    <3>1. none \in NameMaps /\ DOMAIN none = {}
      <4>1. NoTools.names \in NameMaps
            BY NoToolsOK DEF Registries
      <4> QED BY <4>1 DEF NoTools
    <3>2. tools \in ToolMaps /\ IsFiniteSet(DOMAIN tools) /\ DOMAIN tools \subseteq C!Names
          BY <1>1 DEF CapTypes, Registries, NamesOK, C!Now
    <3>3. C!Now' = [tools |-> tools, names |-> none]
          BY <2>2, Zenon
    <3> HIDE DEF none
    <3>4. C!Now' \in [tools : ToolMaps, names : NameMaps]
          BY <3>1, <3>2, <3>3, Zenon
    <3>5. C!Now' \in Registries
          BY <3>2, <3>3, <3>4 DEF Registries
    <3>6. NamesOK(C!Now')
          BY <3>1, <3>2, <3>3 DEF NamesOK
    <3> QED BY <3>5, <3>6
  <2> QED BY <1>1, <2>1, <2>3 DEF CapInv, CapTypes, SelectionInv
<1>7. CASE C!Crash
  <2>1. /\ agentState' = "down" /\ tools' = <<>> /\ names' = <<>> /\ denylist' = {} /\ taken' = {}
        /\ selecting' = [c \in Selections |-> C!Idle]
        /\ UNCHANGED <<agentJson, mounts, changes, asked, agreed>>
        BY <1>7 DEF C!Crash
  <2>2. C!Now' = NoTools
        BY <2>1 DEF C!Now, NoTools
  <2>3. selecting' \in [Selections -> Loops \cup {C!Idle}] /\
          \A c \in Selections : selecting'[c] = C!Idle
        BY <2>1
  <2> QED BY <1>1, <2>1, <2>2, <2>3, NoToolsOK DEF CapInv, CapTypes, SelectionInv
<1>8. ASSUME NEW h \in Added, C!AddHand(h) \/ C!RemoveHand(h) PROVE CapInv'
      BY <1>8, HandStepOK
<1>9. ASSUME NEW n \in DOMAIN tools, C!RemoveTool(n) PROVE CapInv'
      BY <1>9, RemoveToolStep
<1>10. CASE C!SetToolDenylist
  <2>1. PICK l \in Denylists : denylist' = l /\ asked' = l /\
               agentJson' = [agentJson EXCEPT !.denylist = l]
        BY <1>10 DEF C!SetToolDenylist
  <2>2. /\ agentState = "up"
        /\ UNCHANGED <<agentState, tools, names, selecting, mounts, taken, agreed>>
        /\ changes' \in 0 .. MaxChanges
    <3>1. /\ agentState = "up"
          /\ UNCHANGED <<agentState, tools, names, selecting, mounts, taken, agreed>>
          /\ changes < MaxChanges /\ changes' = changes + 1
          BY <1>10, Zenon DEF C!SetToolDenylist, C!Changed
    <3>2. changes' \in 0 .. MaxChanges
          BY <1>1, <3>1, HostAssumption DEF CapTypes
    <3> QED BY <3>1, <3>2
  <2>3. l \subseteq Capability
        BY HostAssumption
  <2>4. agentJson' \in Homes /\ agentJson'.builtin = agentJson.builtin
        BY <1>1, <2>1, <2>2, <2>3, Zenon DEF CapTypes, Homes
  <2>5. C!Now' = C!Now
        BY <2>2 DEF C!Now
  <2>6. CapTypes'
        BY <1>1, <2>1, <2>2, <2>3, <2>4, <2>5 DEF CapTypes
  <2>7. SelectionInv'
        BY <1>1, <2>2, <2>4, SelectionStays
  <2> QED BY <1>1, <2>2, <2>5, <2>6, <2>7 DEF CapInv
<1>11. ASSUME NEW c \in Selections, C!SetBuiltinHands(c) \/ C!Removed(c) PROVE CapInv'
       BY <1>11, LoopStep
<1> QED BY <1>2, <1>3, <1>4, <1>5, <1>6, <1>7, <1>8, <1>9, <1>10, <1>11 DEF C!Next

\* What the invariant says of the tools and hands, in the words of the properties.
LEMMA CapTypesOK == ASSUME CapInv PROVE C!TypeOK
<1>1. /\ tools \in [DOMAIN tools -> [hand : C!Hands, capability : Capability]]
      /\ names \in [DOMAIN names -> SUBSET Labels] /\ DOMAIN names \subseteq C!Hands
      /\ DOMAIN tools \subseteq C!Names /\ \A x \in DOMAIN names : names[x] \subseteq C!Names
  <2>1. tools \in ToolMaps /\ names \in NameMaps
        BY DEF CapInv, CapTypes, Registries, C!Now
  <2>2. DOMAIN tools \subseteq C!Names /\ \A x \in DOMAIN names : names[x] \subseteq C!Names
        BY DEF CapInv, CapTypes, NamesOK, C!Now
  <2> QED BY <2>1, <2>2, ToolMap, NameMap
<1>2. ASSUME NEW c \in Selections, selecting[c] # C!Idle
      PROVE  selecting[c].desired \subseteq C!Builtin /\
               C!Range(selecting[c].todo) \subseteq C!Builtin
  <2>1. selecting[c] \in Loops
        BY <1>2 DEF CapInv, CapTypes
  <2>2. selecting[c].todo \in Seq(C!Builtin)
        BY <2>1 DEF Loops, Todos
  <2> QED BY <2>1, <2>2 DEF Loops, C!Range
<1> QED BY <1>1, <1>2, Zenon DEF CapInv, CapTypes, C!TypeOK, Homes

\* What the run checks follows.
LEMMA ToolsInOrder == ASSUME CapInv PROVE C!ToolsAreHands /\ C!SelectionIsKept
<1>1. C!ToolsAreHands
  <2>1. SUFFICES ASSUME agentState = "up"
        PROVE  /\ DOMAIN tools = UNION C!Range(names)
               /\ \A h \in DOMAIN names :
                    /\ \A n \in names[h] : tools[n].hand = h
                    /\ {tools[n].capability : n \in names[h]} =
                         {b \in C!Admitted(h) : <<h, b>> \notin taken}
                    /\ C!Cardinality(names[h]) =
                         C!Cardinality({tools[n].capability : n \in names[h]})
        BY Zenon DEF C!ToolsAreHands
  <2>2. /\ \A x \in DOMAIN names : \A m \in names[x] : m \in DOMAIN tools /\ tools[m].hand = x
        /\ \A m \in DOMAIN tools :
             /\ tools[m].hand \in DOMAIN names /\ m \in names[tools[m].hand]
             /\ tools[m].capability = m.name
        /\ \A x \in DOMAIN names : \A l, m \in names[x] : l.name = m.name => l = m
        /\ \A x \in DOMAIN names : \A m \in names[x] :
             m.name \in C!Admitted(x) /\ <<x, m.name>> \notin taken
        /\ \A x \in DOMAIN names : \A b \in C!Admitted(x) :
             <<x, b>> \notin taken => \E m \in names[x] : m.name = b
    <3>1. HandsOK(C!Now, taken) /\ C!Now.tools = tools /\ C!Now.names = names
          BY <2>1 DEF CapInv, C!Now
    <3> QED BY <3>1 DEF HandsOK
  <2>3. DOMAIN tools = UNION C!Range(names)
    <3>1. \A m : m \in UNION C!Range(names) <=> \E x \in DOMAIN names : m \in names[x]
          BY DEF C!Range
    <3>2. \A m : m \in DOMAIN tools <=> \E x \in DOMAIN names : m \in names[x]
          BY <2>2
    <3> QED BY <3>1, <3>2, Zenon
  <2>4. ASSUME NEW h \in DOMAIN names
        PROVE  /\ {tools[n].capability : n \in names[h]} =
                 {b \in C!Admitted(h) : <<h, b>> \notin taken}
               /\ C!Cardinality(names[h]) = C!Cardinality({tools[n].capability : n \in names[h]})
    <3> DEFINE caps == {tools[n].capability : n \in names[h]}
               f == [n \in names[h] |-> n.name]
    <3>1. \A n \in names[h] : tools[n].capability = n.name
          BY <2>2
    <3>2. \A b : b \in caps <=> \E n \in names[h] : n.name = b
          BY <3>1
    <3> HIDE DEF caps
    <3>3. caps = {b \in C!Admitted(h) : <<h, b>> \notin taken}
          BY <2>2, <3>2
    <3>4. IsFiniteSet(names[h])
      <4>1. IsFiniteSet(DOMAIN tools)
            BY DEF CapInv, CapTypes, Registries, C!Now
      <4>2. names[h] \in SUBSET DOMAIN tools
            BY <2>2
      <4> QED BY <4>1, <4>2, FS_Subset
    <3>5. f \in Surjection(names[h], caps) /\ f \in Injection(names[h], caps)
      <4>1. f \in [names[h] -> caps]
            BY <3>2
      <4>2. \A l, m \in names[h] : f[l] = f[m] => l = m
            BY <2>2
      <4>3. \A b \in caps : \E n \in names[h] : f[n] = b
            BY <3>2
      <4> HIDE DEF f
      <4> QED BY <4>1, <4>2, <4>3 DEF Surjection, Injection, IsInjective
    <3>6. Cardinality(names[h]) = Cardinality(caps)
      <4> HIDE DEF f
      <4> QED BY <3>4, <3>5, FS_Surjection
    <3>7. C!Cardinality(names[h]) = C!Cardinality(caps)
      <4>1. \A s : C!Cardinality(s) = Cardinality(s)
            BY Zenon DEF C!Cardinality, Cardinality
      <4> QED BY <3>6, <4>1
    <3> QED BY <3>3, <3>7 DEF caps
  <2> QED BY <2>2, <2>3, <2>4, Zenon
<1>2. C!SelectionIsKept
      BY DEF CapInv, SelectionInv, Settled, Underway, C!SelectionIsKept
<1> QED BY <1>1, <1>2

\* Property ToolsAreKept: however hands come and go, alone or by calls that overlap,
\* and whatever names their tools are given, the tools that the model sees are those
\* of the hands that are registered, and the built-in hands are those of agent.json.
THEOREM ToolsCorrect == HostSpec => []ToolsAreKept
<1>1. HostInit => CapInv
      BY CapInit DEF HostInit
<1>2. CapInv /\ [HostNext]_hostVars => CapInv'
      BY CapStep, HostStep
<1>3. CapInv => ToolsAreKept
      BY ToolsInOrder DEF ToolsAreKept
<1> QED BY <1>1, <1>2, <1>3, PTL DEF HostSpec

-----------------------------------------------------------------------------
(* What the observer writes down about turns and delegates.                 *)

\* The delegates of a query that are not over.
Deputies(p) == {d \in O!Started : query[d].parent = p /\ query[d].pc # "over"}

\* Where a query has no calls.
Toolless == {"begun", "ask", "answered", "ending", "cut"}

\* The calls of a query fit into one response, and there are none before its
\* first inference and while it asks; as many delegate as delegates are alive.
QueryOK(q) ==
  /\ query[q].guards + query[q].running + query[q].away <= MaxTools
  /\ query[q].pc \in Toolless => ~O!Waits(q)
  /\ query[q].asked = 0 => ~O!Waits(q) /\ query[q].pc \notin {"answered", "tools"}
  /\ query[q].pc = "ending" => query[q].parent = O!None
  /\ query[q].away = Cardinality(Deputies(q))
  /\ query[q].parent # O!None => query[q].parent \in O!Started \ {q}

ObserverTypes ==
  /\ O!TypeOK
  /\ recovery = resolved.crashed
  /\ Len(query) <= MaxQueries
  /\ \A q \in O!Started : QueryOK(q)

\* What is known of a query by its type.
LEMMA QueryFields ==
  ASSUME ObserverTypes, NEW q \in O!Started
  PROVE  /\ q \in 1 .. Len(query) /\ q \in Nat /\ q # 0 /\ q \in 1 .. Len(row)
         /\ query[q] \in O!Query /\ row[q] \in O!Row
         /\ query[q].asked \in 0 .. MaxAsked
         /\ query[q].guards \in 0 .. MaxTools /\ query[q].running \in 0 .. MaxTools
         /\ query[q].away \in 0 .. MaxTools /\ MaxTools \in Nat /\ MaxAsked \in Nat
         /\ query[q].guarded \in Nat /\ query[q].called \in Nat
         /\ query[q].session \in ObservedSessions \cup O!Queries
         /\ q \in O!Queries
<1>1. query \in Seq(O!Query) /\ row \in Seq(O!Row) /\ Len(row) = Len(query)
      BY DEF ObserverTypes, O!TypeOK
<1>2. DOMAIN query = 1 .. Len(query) /\ Len(query) \in Nat
      BY <1>1, LenProperties
<1>3. q \in 1 .. Len(query) /\ q \in 1 .. Len(row)
      BY <1>1, <1>2 DEF O!Started
<1>4. query[q] \in O!Query /\ row[q] \in O!Row
      BY <1>1, <1>3, ElementOfSeq
<1>5. q \in O!Queries
      BY <1>2, <1>3, HostAssumption DEF O!Queries, ObserverTypes
<1> QED BY <1>2, <1>3, <1>4, <1>5, HostAssumption DEF O!Query

LEMMA FewDeputies ==
  ASSUME ObserverTypes, NEW q
  PROVE  IsFiniteSet(Deputies(q)) /\ Cardinality(Deputies(q)) \in Nat
<1>1. query \in Seq(O!Query)
      BY DEF ObserverTypes, O!TypeOK
<1>2. O!Started = 1 .. Len(query) /\ Len(query) \in Nat
      BY <1>1, LenProperties DEF O!Started
<1>3. IsFiniteSet(O!Started)
      BY <1>2, FS_Interval
<1>4. Deputies(q) \subseteq O!Started
      BY DEF Deputies
<1> QED BY <1>3, <1>4, FS_Subset, FS_CardinalityType

\* The collector keeps to its types, whatever it is told.
CollectorOK ==
  /\ recovery \in BOOLEAN /\ turnId \in 0 .. Len(query)
  /\ session \in ObservedSessions \cup O!Queries \cup {O!None}
  /\ lastCall \in O!Call \cup {O!NoCall}
  /\ latest \in [ObservedSessions \cup O!Queries -> O!Call \cup {O!NoCall}]
  /\ row \in Seq(O!Row) /\ Len(row) = Len(query)

\* A row is changed: that of the current turn.
Marks(r) ==
  row' = IF turnId = O!None THEN row ELSE [row EXCEPT ![turnId] = r]

LEMMA RowsKept ==
  ASSUME CollectorOK, Len(query) \in Nat, NEW r, Marks(r),
         turnId \in 1 .. Len(row) => r \in O!Row
  PROVE  /\ row' \in Seq(O!Row) /\ Len(row') = Len(row)
         /\ \A n \in 1 .. Len(row) : n # turnId => row'[n] = row[n]
         /\ turnId # 0 => row'[turnId] = r
<1>1. turnId = 0 \/ turnId \in 1 .. Len(row)
      BY DEF CollectorOK
<1>2. CASE turnId = 0
      BY <1>2 DEF Marks, CollectorOK, O!None
<1>3. CASE turnId \in 1 .. Len(row)
  <2>1. row' = [row EXCEPT ![turnId] = r]
        BY <1>3 DEF Marks, O!None
  <2> QED BY <1>3, <2>1, ExceptSeq DEF CollectorOK
<1> QED BY <1>1, <1>2, <1>3

\* What the collector does with what it hears of a query that goes on.
LEMMA Hears ==
  ASSUME CollectorOK, Len(query') = Len(query), Len(query) \in Nat,
         \/ \E inf \in O!Call, s \in ObservedSessions \cup O!Queries : O!OnInference(inf, s)
         \/ O!OnApiResponse \/ O!OnGuardDecision \/ O!OnToolExec
         \/ \E s \in ObservedSessions \cup O!Queries : O!OnQueryEnd(s)
         \/ UNCHANGED O!collector
  PROVE  /\ CollectorOK' /\ recovery' = recovery
         /\ turnId' \in {turnId, 0}
         /\ \A n \in 1 .. Len(row) : n # turnId => row'[n] = row[n]
<1>0. Len(query)' = Len(query) /\ turnId \in 0 .. Len(query) /\ turnId' \in {turnId, 0}
      BY DEF CollectorOK, O!OnInference, O!OnApiResponse, O!OnGuardDecision, O!OnToolExec,
         O!OnQueryEnd, O!collector, O!None
<1>r. turnId \in 1 .. Len(row) => row[turnId] \in O!Row
      BY ElementOfSeq DEF CollectorOK
<1>s. ASSUME NEW r, Marks(r), turnId \in 1 .. Len(row) => r \in O!Row
      PROVE  /\ row' \in Seq(O!Row) /\ Len(row') = Len(row)
             /\ \A n \in 1 .. Len(row) : n # turnId => row'[n] = row[n]
      BY <1>s, RowsKept
<1>1. ASSUME NEW inf \in O!Call, NEW s \in ObservedSessions \cup O!Queries, O!OnInference(inf, s)
      PROVE  CollectorOK' /\ \A n \in 1 .. Len(row) : n # turnId => row'[n] = row[n]
  <2>1. PICK r : r = [row[turnId] EXCEPT !.llm = @ + 1]
        BY Zenon
  <2>2. turnId \in 1 .. Len(row) => r \in O!Row
        BY <1>r, <2>1 DEF O!Row
  <2>3. Marks(r)
        BY <1>1, <2>1 DEF O!OnInference, Marks
  <2> QED BY <1>0, <1>1, <1>s, <2>2, <2>3 DEF O!OnInference, CollectorOK
<1>2. CASE O!OnApiResponse
      BY <1>0, <1>2 DEF O!OnApiResponse, CollectorOK
<1>3. CASE O!OnGuardDecision
  <2>1. PICK r : r = [row[turnId] EXCEPT !.guards = @ + 1]
        BY Zenon
  <2>2. turnId \in 1 .. Len(row) => r \in O!Row
        BY <1>r, <2>1 DEF O!Row
  <2>3. Marks(r)
        BY <1>3, <2>1 DEF O!OnGuardDecision, Marks
  <2> QED BY <1>0, <1>3, <1>s, <2>2, <2>3, Zenon DEF O!OnGuardDecision, CollectorOK
<1>4. CASE O!OnToolExec
  <2>1. PICK r : r = [row[turnId] EXCEPT !.tools = @ + 1]
        BY Zenon
  <2>2. turnId \in 1 .. Len(row) => r \in O!Row
        BY <1>r, <2>1 DEF O!Row
  <2>3. Marks(r)
        BY <1>4, <2>1 DEF O!OnToolExec, Marks
  <2> QED BY <1>0, <1>4, <1>s, <2>2, <2>3, Zenon DEF O!OnToolExec, CollectorOK
<1>5. ASSUME NEW s \in ObservedSessions \cup O!Queries, O!OnQueryEnd(s)
      PROVE  CollectorOK' /\ \A n \in 1 .. Len(row) : n # turnId => row'[n] = row[n]
  <2>1. PICK r : r = [row[turnId] EXCEPT !.status = "completed"]
        BY Zenon
  <2>2. turnId \in 1 .. Len(row) => r \in O!Row
        BY <1>r, <2>1 DEF O!Row
  <2>3. Marks(r)
        BY <1>5, <2>1 DEF O!OnQueryEnd, Marks
  <2> QED BY <1>0, <1>5, <1>s, <2>2, <2>3 DEF O!OnQueryEnd, CollectorOK, O!None
<1>6. CASE UNCHANGED O!collector
      BY <1>0, <1>6 DEF O!collector, CollectorOK
<1>7. recovery' = recovery
      BY DEF O!OnInference, O!OnApiResponse, O!OnGuardDecision, O!OnToolExec,
         O!OnQueryEnd, O!collector
<1> QED BY <1>0, <1>1, <1>2, <1>3, <1>4, <1>5, <1>6, <1>7

\* One query goes on, and its calls with it.
LEMMA OneGoesOn ==
  ASSUME ObserverTypes, NEW q \in O!Started, NEW r \in O!Query,
         query' = [query EXCEPT ![q] = r],
         r.parent = query[q].parent, r.away = query[q].away,
         (r.pc = "over" <=> query[q].pc = "over") \/ query[q].parent = O!None,
         r.guards + r.running + r.away <= MaxTools,
         r.pc \in Toolless => r.guards + r.running + r.away = 0,
         r.asked = 0 => r.guards + r.running + r.away = 0 /\ r.pc \notin {"answered", "tools"},
         r.pc = "ending" => r.parent = O!None
  PROVE  /\ query' \in Seq(O!Query) /\ Len(query') = Len(query) /\ O!Started' = O!Started
         /\ query'[q] = r /\ \A p \in O!Started \ {q} : query'[p] = query[p]
         /\ \A p \in O!Started : QueryOK(p)'
<1>1. query \in Seq(O!Query) /\ q \in 1 .. Len(query) /\ O!Started = 1 .. Len(query)
  <2>1. query \in Seq(O!Query)
        BY DEF ObserverTypes, O!TypeOK
  <2> QED BY <2>1, LenProperties DEF O!Started
<1>2. query' \in Seq(O!Query) /\ Len(query') = Len(query)
      BY <1>1, ExceptSeq
<1>3. O!Started' = O!Started
      BY <1>1, <1>2, LenProperties DEF O!Started
<1>4. query'[q] = r /\ \A p \in O!Started \ {q} : query'[p] = query[p]
      BY <1>1, ExceptSeq
<1>5. ASSUME NEW p \in O!Started
      PROVE  Deputies(p)' = Deputies(p)
  <2>1. p # O!None
        BY QueryFields DEF O!None
  <2> QED BY <1>3, <1>4, <2>1 DEF Deputies
<1>6. ASSUME NEW p \in O!Started
      PROVE  QueryOK(p)'
  <2>1. QueryOK(p)
        BY DEF ObserverTypes
  <2>2. Cardinality(Deputies(p)') = Cardinality(Deputies(p))
        BY <1>5
  <2>3. CASE p = q
        BY <1>3, <1>4, <2>1, <2>2, <2>3 DEF QueryOK, O!Waits
  <2>4. CASE p # q
        BY <1>3, <1>4, <2>1, <2>2, <2>4 DEF QueryOK, O!Waits
  <2> QED BY <2>3, <2>4
<1> QED BY <1>2, <1>3, <1>4, <1>6

\* The steps of a query that neither begins nor ends a delegate, by what they
\* make of it.
Goes(q, r) ==
  \/ /\ query[q].pc = "ask" /\ query[q].asked < MaxAsked
     /\ \E pc \in {"answered", "failing"} :
          r = [query[q] EXCEPT !.pc = pc, !.asked = @ + 1]
     /\ O!OnInference([of |-> q, n |-> query[q].asked + 1], query[q].session)
     /\ UNCHANGED mislinked
  \/ /\ query[q].pc = "answered"
     /\ \E n \in 0 .. MaxTools : r = [query[q] EXCEPT !.pc = "tools", !.guards = n]
     /\ O!OnApiResponse
     /\ UNCHANGED mislinked
  \/ /\ query[q].guards > 0
     /\ \E runs \in {0, 1} :
          r = [query[q] EXCEPT !.guards = @ - 1, !.running = @ + runs,
                               !.guarded = IF query[q].pc = "over" THEN @ ELSE @ + 1]
     /\ O!OnGuardDecision
     /\ UNCHANGED mislinked
  \/ /\ query[q].guards > 0
     /\ r = [query[q] EXCEPT !.guards = @ - 1, !.pc = IF @ = "over" THEN @ ELSE "failing"]
     /\ UNCHANGED <<O!collector, mislinked>>
  \/ /\ query[q].running > 0
     /\ r = [query[q] EXCEPT !.running = @ - 1,
                             !.called = IF query[q].pc = "over" THEN @ ELSE @ + 1]
     /\ O!OnToolExec
     /\ mislinked' = IF query[q].pc = "over" \/ lastCall = [of |-> q, n |-> query[q].asked]
                     THEN mislinked ELSE mislinked \cup {q}
  \/ /\ query[q].running > 0
     /\ r = [query[q] EXCEPT !.running = @ - 1]
     /\ UNCHANGED <<O!collector, mislinked>>
  \/ /\ query[q].pc = "tools" /\ ~O!Waits(q)
     /\ r = [query[q] EXCEPT !.pc = "ask"]
     /\ UNCHANGED <<O!collector, mislinked>>
  \/ /\ query[q].pc = "begun"
     /\ \E pc \in {"ask", "cut"} : r = [query[q] EXCEPT !.pc = pc]
     /\ UNCHANGED <<O!collector, mislinked>>
  \/ /\ query[q].pc \in {"ask", "answered", "tools"}
     /\ r = [query[q] EXCEPT !.pc = "failing"]
     /\ UNCHANGED <<O!collector, mislinked>>
  \/ /\ query[q].parent = O!None /\ O!Ends(q)
     /\ r = [query[q] EXCEPT !.pc = IF @ = "failing" THEN "over" ELSE "ending"]
     /\ O!OnQueryEnd(query[q].session)
     /\ UNCHANGED mislinked
  \/ /\ query[q].pc = "ending"
     /\ r = [query[q] EXCEPT !.pc = "over"]
     /\ UNCHANGED O!collector \/ O!OnQueryEnd(query[q].session)
     /\ UNCHANGED mislinked

Advances(q) ==
  \/ O!Guard(q) \/ O!GuardThrows(q) \/ O!ToolReturns(q) \/ O!ToolThrows(q)
  \/ O!UserLogged(q) \/ O!Throws(q) \/ O!AskAgain(q) \/ O!TurnEnds(q) \/ O!HookEnds(q)
  \/ \E answered \in BOOLEAN : O!Ask(q, answered)
  \/ \E n \in 0 .. MaxTools : O!Respond(q, n)

LEMMA AdvanceGoes ==
  ASSUME ObserverTypes, NEW q \in O!Started, Advances(q)
  PROVE  \E r \in O!Query : /\ Goes(q, r) /\ query' = [query EXCEPT ![q] = r]
                            /\ UNCHANGED <<resolved, unmixed>>
<1>0. /\ query[q] \in O!Query /\ query[q].asked \in 0 .. MaxAsked
      /\ query[q].guards \in 0 .. MaxTools /\ query[q].running \in 0 .. MaxTools
      /\ query[q].away \in 0 .. MaxTools /\ MaxTools \in Nat /\ MaxAsked \in Nat
      /\ query[q].guarded \in Nat /\ query[q].called \in Nat /\ QueryOK(q)
      BY QueryFields DEF ObserverTypes
<1>1. CASE O!Guard(q)
  <2>1. PICK runs \in {0, 1} :
          query' = [query EXCEPT ![q].guards = @ - 1, ![q].running = @ + runs,
                                 ![q].guarded = IF query[q].pc = "over" THEN @ ELSE @ + 1]
        BY <1>1, Zenon DEF O!Guard
  <2>2. PICK r : r = [query[q] EXCEPT !.guards = @ - 1, !.running = @ + runs,
                               !.guarded = IF query[q].pc = "over" THEN @ ELSE @ + 1]
        OBVIOUS
  <2>3. /\ query[q].guards - 1 \in 0 .. MaxTools /\ query[q].running + runs \in 0 .. MaxTools
        /\ query[q].guards > 0
        BY <1>0, <1>1 DEF O!Guard, QueryOK
  <2>4. r \in O!Query
    <3>1. PICK n : n = IF query[q].pc = "over" THEN query[q].guarded ELSE query[q].guarded + 1
          OBVIOUS
    <3>2. n \in Nat
          BY <1>0, <3>1
    <3>3. r = [query[q] EXCEPT !.guards = query[q].guards - 1, !.running = query[q].running + runs,
                               !.guarded = n]
          BY <1>0, <2>2, <3>1 DEF O!Query
    <3> QED BY <1>0, <2>3, <3>2, <3>3, Zenon DEF O!Query
  <2>5. query' = [query EXCEPT ![q] = r]
        BY <1>0, <2>1, <2>2, Zenon DEF O!Started
  <2>6. O!OnGuardDecision /\ UNCHANGED <<resolved, unmixed, mislinked>>
        BY <1>1 DEF O!Guard
  <2> QED BY <2>2, <2>3, <2>4, <2>5, <2>6, Zenon DEF Goes
<1>2. CASE O!GuardThrows(q)
  <2>1. PICK r : r = [query[q] EXCEPT !.guards = @ - 1, !.pc = IF @ = "over" THEN @ ELSE "failing"]
        OBVIOUS
  <2>2. query[q].guards - 1 \in 0 .. MaxTools /\ query[q].guards > 0
        BY <1>0, <1>2 DEF O!GuardThrows
  <2>3. r \in O!Query
        BY <1>0, <2>1, <2>2, Zenon DEF O!Query
  <2>4. query' = [query EXCEPT ![q] = r]
        BY <1>0, <1>2, <2>1, Zenon DEF O!GuardThrows, O!Started
  <2> QED BY <1>2, <2>1, <2>2, <2>3, <2>4, Zenon DEF Goes, O!GuardThrows
<1>3. CASE O!ToolReturns(q)
  <2>1. PICK r : r = [query[q] EXCEPT !.running = @ - 1,
                             !.called = IF query[q].pc = "over" THEN @ ELSE @ + 1]
        OBVIOUS
  <2>2. query[q].running - 1 \in 0 .. MaxTools /\ query[q].running > 0
        BY <1>0, <1>3 DEF O!ToolReturns
  <2>3. r \in O!Query
    <3>1. PICK n : n = IF query[q].pc = "over" THEN query[q].called ELSE query[q].called + 1
          OBVIOUS
    <3>2. n \in Nat
          BY <1>0, <3>1
    <3>3. r = [query[q] EXCEPT !.running = query[q].running - 1, !.called = n]
          BY <1>0, <2>1, <3>1 DEF O!Query
    <3> QED BY <1>0, <2>2, <3>2, <3>3, Zenon DEF O!Query
  <2>4. query' = [query EXCEPT ![q] = r]
        BY <1>0, <1>3, <2>1, Zenon DEF O!ToolReturns, O!Started
  <2> QED BY <1>3, <2>1, <2>2, <2>3, <2>4, Zenon DEF Goes, O!ToolReturns
<1>4. CASE O!ToolThrows(q)
  <2>1. PICK r : r = [query[q] EXCEPT !.running = @ - 1]
        BY Zenon
  <2>2. query[q].running - 1 \in 0 .. MaxTools /\ query[q].running > 0
        BY <1>0, <1>4 DEF O!ToolThrows
  <2>3. r \in O!Query
        BY <1>0, <2>1, <2>2 DEF O!Query
  <2>4. query' = [query EXCEPT ![q] = r]
        BY <1>0, <1>4, <2>1 DEF O!ToolThrows, O!Started
  <2> QED BY <1>4, <2>1, <2>2, <2>3, <2>4, Zenon DEF Goes, O!ToolThrows
<1>5. CASE O!AskAgain(q)
  <2>1. PICK r : r = [query[q] EXCEPT !.pc = "ask"]
        BY Zenon
  <2>2. r \in O!Query
        BY <1>0, <2>1 DEF O!Query
  <2>3. query' = [query EXCEPT ![q] = r]
        BY <1>0, <1>5, <2>1 DEF O!AskAgain, O!Started
  <2> QED BY <1>5, <2>1, <2>2, <2>3, Zenon DEF Goes, O!AskAgain
<1>6. CASE O!TurnEnds(q)
  <2>1. PICK r : r = [query[q] EXCEPT !.pc = IF @ = "failing" THEN "over" ELSE "ending"]
        BY Zenon
  <2>2. r \in O!Query
        BY <1>0, <2>1, Zenon DEF O!Query
  <2>3. query' = [query EXCEPT ![q] = r]
        BY <1>0, <1>6, <2>1, Zenon DEF O!TurnEnds, O!Started
  <2> QED BY <1>6, <2>1, <2>2, <2>3, Zenon DEF Goes, O!TurnEnds
<1>7. ASSUME NEW answered \in BOOLEAN, O!Ask(q, answered)
      PROVE  \E r \in O!Query : /\ Goes(q, r) /\ query' = [query EXCEPT ![q] = r]
                                /\ UNCHANGED <<resolved, unmixed>>
  <2>1. PICK pc : pc = IF answered THEN "answered" ELSE "failing"
        OBVIOUS
  <2>2. PICK r : r = [query[q] EXCEPT !.pc = pc, !.asked = @ + 1]
        OBVIOUS
  <2>3. query[q].asked + 1 \in 0 .. MaxAsked /\ query[q].asked < MaxAsked
        BY <1>0, <1>7 DEF O!Ask
  <2>4. r \in O!Query
        BY <1>0, <2>1, <2>2, <2>3, Zenon DEF O!Query
  <2>5. query' = [query EXCEPT ![q] = r]
        BY <1>0, <1>7, <2>1, <2>2, Zenon DEF O!Ask, O!Started
  <2>6. /\ query[q].pc = "ask" /\ UNCHANGED <<resolved, unmixed, mislinked>>
        /\ O!OnInference([of |-> q, n |-> query[q].asked + 1], query[q].session)
        BY <1>7 DEF O!Ask
  <2> QED BY <2>1, <2>2, <2>3, <2>4, <2>5, <2>6, Zenon DEF Goes
<1>8. ASSUME NEW n \in 0 .. MaxTools, O!Respond(q, n)
      PROVE  \E r \in O!Query : /\ Goes(q, r) /\ query' = [query EXCEPT ![q] = r]
                                /\ UNCHANGED <<resolved, unmixed>>
  <2>1. PICK r : r = [query[q] EXCEPT !.pc = "tools", !.guards = n]
        OBVIOUS
  <2>2. r \in O!Query
        BY <1>0, <2>1, Zenon DEF O!Query
  <2>3. query' = [query EXCEPT ![q] = r]
        BY <1>0, <1>8, <2>1, Zenon DEF O!Respond, O!Started
  <2>4. query[q].pc = "answered" /\ O!OnApiResponse /\ UNCHANGED <<resolved, unmixed, mislinked>>
        BY <1>8 DEF O!Respond
  <2> QED BY <2>1, <2>2, <2>3, <2>4, Zenon DEF Goes
<1>9. CASE O!UserLogged(q)
  <2>1. PICK pc \in {"ask", "cut"} : query' = [query EXCEPT ![q].pc = pc]
        BY <1>9 DEF O!UserLogged
  <2>2. PICK r : r = [query[q] EXCEPT !.pc = pc]
        BY Zenon
  <2>3. r \in O!Query
        BY <1>0, <2>1, <2>2, Zenon DEF O!Query
  <2>4. query' = [query EXCEPT ![q] = r]
        BY <1>0, <2>1, <2>2, Zenon DEF O!Started
  <2> QED BY <1>9, <2>1, <2>2, <2>3, <2>4, Zenon DEF Goes, O!UserLogged
<1>10. CASE O!Throws(q)
  <2>1. PICK r : r = [query[q] EXCEPT !.pc = "failing"]
        BY Zenon
  <2>2. r \in O!Query
        BY <1>0, <2>1 DEF O!Query
  <2>3. query' = [query EXCEPT ![q] = r]
        BY <1>0, <1>10, <2>1 DEF O!Throws, O!Started
  <2> QED BY <1>10, <2>1, <2>2, <2>3, Zenon DEF Goes, O!Throws
<1>11. CASE O!HookEnds(q)
  <2>1. PICK r : r = [query[q] EXCEPT !.pc = "over"]
        BY Zenon
  <2>2. r \in O!Query
        BY <1>0, <2>1 DEF O!Query
  <2>3. query' = [query EXCEPT ![q] = r]
        BY <1>0, <1>11, <2>1 DEF O!HookEnds, O!Started
  <2> QED BY <1>11, <2>1, <2>2, <2>3, Zenon DEF Goes, O!HookEnds
<1> QED BY <1>1, <1>2, <1>3, <1>4, <1>5, <1>6, <1>7, <1>8, <1>9, <1>10, <1>11 DEF Advances

\* A step of a query keeps to the types, and to its own row.
LEMMA GoesOK ==
  ASSUME ObserverTypes, NEW q \in O!Started, NEW r \in O!Query, Goes(q, r),
         query' = [query EXCEPT ![q] = r], UNCHANGED <<resolved, unmixed>>
  PROVE  /\ ObserverTypes'
         /\ O!Started' = O!Started /\ query'[q] = r
         /\ \A p \in O!Started \ {q} : query'[p] = query[p]
         /\ turnId' \in {turnId, 0} /\ mislinked' \subseteq mislinked \cup {q}
         /\ \A n \in 1 .. Len(row) : n # turnId => row'[n] = row[n]
<1>0. /\ query[q] \in O!Query /\ query[q].asked \in 0 .. MaxAsked
      /\ query[q].guards \in 0 .. MaxTools /\ query[q].running \in 0 .. MaxTools
      /\ query[q].away \in 0 .. MaxTools /\ MaxTools \in Nat /\ MaxAsked \in Nat
      /\ query[q].session \in ObservedSessions \cup O!Queries /\ QueryOK(q)
      BY QueryFields DEF ObserverTypes
<1>1. /\ r.parent = query[q].parent /\ r.away = query[q].away
      /\ (r.pc = "over" <=> query[q].pc = "over") \/ query[q].parent = O!None
      /\ r.session = query[q].session /\ r.crashed = query[q].crashed
  <2>1. /\ r.parent = query[q].parent /\ r.away = query[q].away
        /\ r.session = query[q].session /\ r.crashed = query[q].crashed
        BY ZenonT(60), <1>0 DEF Goes, O!Query
  <2>2. CASE query[q].parent = O!None
        BY <2>1, <2>2
  <2>3. CASE query[q].parent # O!None
    <3>1. query[q].pc # "ending"
          BY <1>0, <2>3 DEF QueryOK
    <3>2. r.pc = "over" <=> query[q].pc = "over"
          BY ZenonT(60), <1>0, <2>3, <3>1 DEF Goes, O!Query
    <3> QED BY <2>1, <3>2
  <2> QED BY <2>2, <2>3
<1>2. /\ r.guards + r.running + r.away <= MaxTools
      /\ r.pc \in Toolless => r.guards + r.running + r.away = 0
      /\ r.asked = 0 => r.guards + r.running + r.away = 0 /\ r.pc \notin {"answered", "tools"}
      /\ r.pc = "ending" => r.parent = O!None
  <2> USE <1>0 DEF O!Query, QueryOK, Toolless, O!Waits
  <2>1. ASSUME NEW pc, r = [query[q] EXCEPT !.pc = pc, !.asked = @ + 1], query[q].pc = "ask"
        PROVE  /\ r.guards + r.running + r.away = 0 /\ r.asked # 0
    <3>1. ~(query[q].guards + query[q].running + query[q].away > 0)
          BY <2>1
    <3>2. /\ r.guards = query[q].guards /\ r.running = query[q].running
          /\ r.asked = query[q].asked + 1
          BY <2>1
    <3> QED BY <1>1, <3>1, <3>2
  <2>2. ASSUME NEW n \in 0 .. MaxTools, r = [query[q] EXCEPT !.pc = "tools", !.guards = n],
               query[q].pc = "answered"
        PROVE  /\ r.guards + r.running + r.away <= MaxTools /\ r.asked # 0 /\ r.pc = "tools"
        BY <2>2
  <2>3. ASSUME query[q].guards > 0 \/ query[q].running > 0
        PROVE  query[q].pc \notin Toolless /\ query[q].asked # 0
        BY <2>3
  <2>4. ASSUME query[q].guards > 0, NEW runs \in {0, 1},
               r.guards = query[q].guards - 1 /\ r.running = query[q].running + runs
        PROVE  r.guards + r.running + r.away <= MaxTools
        BY <1>1, <2>4
  <2>5. ASSUME query[q].running > 0,
               r.guards = query[q].guards /\ r.running = query[q].running - 1
        PROVE  r.guards + r.running + r.away <= MaxTools
        BY <1>1, <2>5
  <2>6. CASE \E pc \in {"answered", "failing"} :
               query[q].pc = "ask" /\ r = [query[q] EXCEPT !.pc = pc, !.asked = @ + 1]
        BY <2>1, <2>6, Zenon
  <2>7. CASE \E n \in 0 .. MaxTools :
               query[q].pc = "answered" /\ r = [query[q] EXCEPT !.pc = "tools", !.guards = n]
        BY <2>2, <2>7, Zenon
  <2>8. CASE \E runs \in {0, 1} :
               /\ query[q].guards > 0
               /\ r = [query[q] EXCEPT !.guards = @ - 1, !.running = @ + runs,
                               !.guarded = IF query[q].pc = "over" THEN @ ELSE @ + 1]
    <3>1. PICK runs \in {0, 1} :
            r.guards = query[q].guards - 1 /\ r.running = query[q].running + runs
          BY <2>8
    <3>2. r.pc = query[q].pc /\ r.asked = query[q].asked
          BY <2>8
    <3> QED BY <2>3, <2>4, <2>8, <3>1, <3>2
  <2>9. CASE /\ query[q].guards > 0
             /\ r = [query[q] EXCEPT !.guards = @ - 1, !.pc = IF @ = "over" THEN @ ELSE "failing"]
    <3>1. r.guards = query[q].guards - 1 /\ r.running = query[q].running + 0
          BY <2>9
    <3>2. r.pc \in {"over", "failing"} /\ r.asked = query[q].asked
          BY <2>9
    <3> QED BY <2>3, <2>4, <2>9, <3>1, <3>2
  <2>10. CASE /\ query[q].running > 0
              /\ \/ r = [query[q] EXCEPT !.running = @ - 1,
                             !.called = IF query[q].pc = "over" THEN @ ELSE @ + 1]
                 \/ r = [query[q] EXCEPT !.running = @ - 1]
    <3>1. /\ r.guards = query[q].guards /\ r.running = query[q].running - 1
          /\ r.pc = query[q].pc /\ r.asked = query[q].asked
          BY <2>10, Zenon
    <3> QED BY <2>3, <2>5, <2>10, <3>1
  <2>11. ASSUME NEW pc, r = [query[q] EXCEPT !.pc = pc]
         PROVE  /\ r.pc = pc /\ r.asked = query[q].asked
                /\ r.guards + r.running + r.away =
                     query[q].guards + query[q].running + query[q].away
    <3>1. /\ r.pc = pc /\ r.asked = query[q].asked
          /\ r.guards = query[q].guards /\ r.running = query[q].running /\ r.away = query[q].away
          BY <2>11, Zenon
    <3> QED BY <3>1
  <2>12. ~O!Waits(q) => query[q].guards + query[q].running + query[q].away = 0
        OBVIOUS
  <2>13. CASE query[q].pc = "tools" /\ ~O!Waits(q) /\ r = [query[q] EXCEPT !.pc = "ask"]
        BY <2>11, <2>12, <2>13
  <2>14. CASE query[q].pc = "begun" /\ \E pc \in {"ask", "cut"} : r = [query[q] EXCEPT !.pc = pc]
    <3>1. PICK pc \in {"ask", "cut"} : r = [query[q] EXCEPT !.pc = pc]
          BY <2>14
    <3> QED BY <2>11, <2>12, <2>14, <3>1
  <2>15. CASE /\ query[q].pc \in {"ask", "answered", "tools"}
              /\ r = [query[q] EXCEPT !.pc = "failing"]
        BY <2>11, <2>12, <2>15
  <2>16. CASE /\ query[q].parent = O!None /\ O!Ends(q)
              /\ r = [query[q] EXCEPT !.pc = IF @ = "failing" THEN "over" ELSE "ending"]
    <3>1. CASE query[q].pc = "failing"
      <4>1. r = [query[q] EXCEPT !.pc = "over"]
            BY <2>16, <3>1
      <4> QED BY <2>11, <2>12, <3>1, <4>1
    <3>2. CASE query[q].pc # "failing"
      <4>1. r = [query[q] EXCEPT !.pc = "ending"] /\ ~O!Waits(q)
            BY <2>16, <3>2 DEF O!Ends
      <4> QED BY <1>1, <2>11, <2>12, <2>16, <4>1
    <3> QED BY <3>1, <3>2
  <2>17. CASE query[q].pc = "ending" /\ r = [query[q] EXCEPT !.pc = "over"]
        BY <2>11, <2>12, <2>17
  <2> QED BY <2>6, <2>7, <2>8, <2>9, <2>10, <2>13, <2>14, <2>15, <2>16, <2>17, Zenon DEF Goes
<1>3. /\ query' \in Seq(O!Query) /\ Len(query') = Len(query) /\ O!Started' = O!Started
      /\ query'[q] = r /\ \A p \in O!Started \ {q} : query'[p] = query[p]
      /\ \A p \in O!Started : QueryOK(p)'
      BY <1>1, <1>2, OneGoesOn, Zenon
<1>4. /\ CollectorOK /\ Len(query) \in Nat /\ query \in Seq(O!Query)
      BY LenProperties DEF ObserverTypes, O!TypeOK, CollectorOK
<1>5. \/ \E inf \in O!Call, s \in ObservedSessions \cup O!Queries : O!OnInference(inf, s)
      \/ O!OnApiResponse \/ O!OnGuardDecision \/ O!OnToolExec
      \/ \E s \in ObservedSessions \cup O!Queries : O!OnQueryEnd(s)
      \/ UNCHANGED O!collector
  <2>1. ASSUME query[q].asked < MaxAsked
        PROVE  [of |-> q, n |-> query[q].asked + 1] \in O!Call
    <3>1. q \in O!Queries
          BY <1>4, QueryFields
    <3> QED BY <1>0, <2>1, <3>1 DEF O!Call
  <2> QED BY <1>0, <2>1, Zenon DEF Goes
<1>6. /\ CollectorOK' /\ recovery' = recovery
      /\ turnId' \in {turnId, 0}
      /\ \A n \in 1 .. Len(row) : n # turnId => row'[n] = row[n]
      BY <1>3, <1>4, <1>5, Hears
<1>7. mislinked' \subseteq mislinked \cup {q}
      BY Zenon DEF Goes
<1>8. O!TypeOK'
      BY <1>3, <1>6, <1>7 DEF ObserverTypes, O!TypeOK, CollectorOK
<1> QED BY <1>3, <1>6, <1>7, <1>8 DEF ObserverTypes

\* query_start makes the newest row the current one.
LEMMA RowAdded ==
  ASSUME CollectorOK, Len(query) \in Nat, Len(query') = Len(query) + 1,
         NEW s \in ObservedSessions \cup O!Queries, O!OnQueryStart(s)
  PROVE  /\ CollectorOK' /\ recovery' = FALSE /\ turnId' = Len(query) + 1
         /\ \A n \in 1 .. Len(row) : row'[n] = row[n]
         /\ row'[Len(query) + 1] = [status |-> "active", recovered |-> recovery,
                                    llm |-> 0, tools |-> 0, guards |-> 0]
         /\ session' = s /\ UNCHANGED <<lastCall, latest>>
<1>1. PICK r : r = [status |-> "active", recovered |-> recovery,
                    llm |-> 0, tools |-> 0, guards |-> 0]
      BY Zenon
<1>2. r \in O!Row
      BY <1>1 DEF CollectorOK, O!Row
<1>3. row' = Append(row, r) /\ row \in Seq(O!Row) /\ Len(row) = Len(query)
      BY <1>1 DEF O!OnQueryStart, CollectorOK
<1>4. /\ row' \in Seq(O!Row) /\ Len(row') = Len(query) + 1
      /\ \A n \in 1 .. Len(row) : row'[n] = row[n]
      /\ row'[Len(query) + 1] = r
      BY <1>2, <1>3, AppendProperties
<1>5. recovery' = FALSE /\ turnId' = Len(query) + 1 /\ session' = s /\ UNCHANGED <<lastCall, latest>>
      BY <1>3 DEF O!OnQueryStart
<1>6. CollectorOK'
  <2>1. turnId' \in 0 .. Len(query')
        BY <1>5
  <2>2. session' \in ObservedSessions \cup O!Queries \cup {O!None}
        BY <1>5
  <2>3. /\ lastCall' \in O!Call \cup {O!NoCall}
        /\ latest' \in [ObservedSessions \cup O!Queries -> O!Call \cup {O!NoCall}]
        BY <1>5 DEF CollectorOK
  <2>4. row' \in Seq(O!Row) /\ Len(row') = Len(query')
        BY <1>4
  <2> QED BY <1>5, <2>1, <2>2, <2>3, <2>4, Zenon DEF CollectorOK
<1> QED BY <1>1, <1>4, <1>5, <1>6

\* A query that starts has nothing behind it.
New(pc, s, parent, crashed) ==
  [pc |-> pc, session |-> s, parent |-> parent, crashed |-> crashed,
   asked |-> 0, called |-> 0, guarded |-> 0, guards |-> 0, running |-> 0, away |-> 0]

LEMMA NoDeputies ==
  ASSUME ObserverTypes
  PROVE  /\ query \in Seq(O!Query) /\ Len(query) \in Nat /\ O!Started = 1 .. Len(query)
         /\ \A d \in O!Started : query[d].parent # Len(query) + 1
<1>1. query \in Seq(O!Query)
      BY DEF ObserverTypes, O!TypeOK
<1>2. Len(query) \in Nat /\ O!Started = 1 .. Len(query)
      BY <1>1, LenProperties DEF O!Started
<1>3. \A d \in O!Started : query[d].parent # Len(query) + 1
      BY <1>2 DEF ObserverTypes, QueryOK, O!None
<1> QED BY <1>1, <1>2, <1>3

LEMMA StartOK ==
  ASSUME ObserverTypes, O!Start
  PROVE  /\ ObserverTypes'
         /\ O!Started' = O!Started \cup {Len(query) + 1}
         /\ \A p \in O!Started : query'[p] = query[p] /\ row'[p] = row[p]
         /\ query'[Len(query) + 1] = New("begun", resolved.session, O!None, resolved.crashed)
         /\ row'[Len(query) + 1] = [status |-> "active", recovered |-> resolved.crashed,
                                    llm |-> 0, tools |-> 0, guards |-> 0]
         /\ turnId' = Len(query) + 1 /\ mislinked' = mislinked /\ session' = resolved.session
<1>n. PICK n : n = Len(query) + 1
      OBVIOUS
<1> USE <1>n
<1>0. /\ query \in Seq(O!Query) /\ Len(query) \in Nat /\ O!Started = 1 .. Len(query)
      /\ CollectorOK /\ Len(row) = Len(query) /\ recovery = resolved.crashed
      BY NoDeputies DEF ObserverTypes, O!TypeOK, CollectorOK
<1>1. PICK r : r = New("begun", resolved.session, O!None, resolved.crashed)
      OBVIOUS
<1>2. /\ Len(query) < MaxQueries /\ query' = Append(query, r)
      /\ O!OnQueryStart(resolved.session) /\ mislinked' = mislinked /\ resolved' = O!NoTurn
      BY <1>1 DEF O!Start, O!Begin, New
<1>3. resolved.session \in ObservedSessions /\ resolved.crashed \in BOOLEAN
  <2>1. resolved \in O!Resolved \cup {O!NoTurn} /\ resolved.pc = "resolved"
        BY DEF ObserverTypes, O!TypeOK, O!Start
  <2>2. resolved \in O!Resolved
        BY <2>1 DEF O!NoTurn
  <2> QED BY <2>2 DEF O!Resolved
<1>4. r \in O!Query
      BY <1>1, <1>3, HostAssumption DEF New, O!Query
<1>5. /\ query' \in Seq(O!Query) /\ Len(query') = n /\ query'[n] = r
      /\ \A p \in O!Started : query'[p] = query[p]
      BY <1>0, <1>2, <1>4, AppendProperties
<1>6. O!Started' = O!Started \cup {n}
  <2>1. O!Started' = 1 .. n
        BY <1>5, LenProperties DEF O!Started
  <2> QED BY <1>0, <2>1
<1>7. /\ CollectorOK' /\ recovery' = FALSE /\ turnId' = n /\ session' = resolved.session
      /\ \A p \in O!Started : row'[p] = row[p]
      /\ row'[n] = [status |-> "active", recovered |-> resolved.crashed,
                    llm |-> 0, tools |-> 0, guards |-> 0]
      BY <1>0, <1>2, <1>3, <1>5, RowAdded, Zenon
<1>8. ASSUME NEW p \in O!Started
      PROVE  QueryOK(p)'
  <2>1. p # O!None
        BY QueryFields DEF O!None
  <2>2. r.parent = O!None
        BY <1>1 DEF New
  <2>3. Deputies(p)' = Deputies(p)
        BY <1>0, <1>5, <1>6, <2>1, <2>2 DEF Deputies
  <2> QED BY <1>5, <1>6, <2>3 DEF ObserverTypes, QueryOK, O!Waits
<1>9. QueryOK(n)'
  <2>1. n # O!None /\ r.parent = O!None
        BY <1>0, <1>1 DEF O!None, New
  <2>2. Deputies(n)' = {}
        BY <1>0, <1>5, <1>6, <2>1, NoDeputies DEF Deputies
  <2>3. Cardinality(Deputies(n)') = 0
        BY <2>2, FS_EmptySet
  <2> QED BY <1>1, <1>5, <2>1, <2>3, HostAssumption DEF QueryOK, Toolless, O!Waits, New
<1>10. resolved'.crashed = FALSE /\ resolved' \in O!Resolved \cup {O!NoTurn}
      BY <1>2 DEF O!NoTurn
<1>11. unmixed' \subseteq O!Started'
  <2>1. unmixed \subseteq O!Started
        BY DEF ObserverTypes, O!TypeOK
  <2>2. unmixed' \subseteq unmixed \cup {n}
        BY DEF O!Start
  <2> QED BY <1>6, <2>1, <2>2
<1>12. O!TypeOK'
  <2>1. mislinked' \subseteq O!Started'
        BY <1>2, <1>6 DEF ObserverTypes, O!TypeOK
  <2> QED BY <1>5, <1>7, <1>10, <1>11, <2>1 DEF O!TypeOK, CollectorOK
<1>13. Len(query') <= MaxQueries
      BY <1>0, <1>2, <1>5, HostAssumption
<1> QED BY <1>1, <1>2, <1>5, <1>6, <1>7, <1>8, <1>9, <1>10, <1>12, <1>13, Zenon DEF ObserverTypes

LEMMA DelegateOK ==
  ASSUME ObserverTypes, NEW q \in O!Started, O!Delegate(q)
  PROVE  /\ ObserverTypes'
         /\ O!Started' = O!Started \cup {Len(query) + 1}
         /\ \A p \in O!Started : row'[p] = row[p]
         /\ \A p \in O!Started \ {q} : query'[p] = query[p]
         /\ query'[q].parent = O!None /\ query'[Len(query) + 1].parent = q
         /\ turnId' = Len(query) + 1 /\ mislinked' = mislinked
<1>n. PICK n : n = Len(query) + 1
      OBVIOUS
<1> USE <1>n
<1>0. /\ query \in Seq(O!Query) /\ Len(query) \in Nat /\ O!Started = 1 .. Len(query)
      /\ CollectorOK /\ Len(row) = Len(query) /\ recovery = resolved.crashed
      /\ resolved \in O!Resolved \cup {O!NoTurn}
      BY NoDeputies DEF ObserverTypes, O!TypeOK, CollectorOK
<1>q. /\ query[q] \in O!Query /\ query[q].guards \in Nat /\ query[q].running \in Nat
      /\ query[q].away \in Nat /\ MaxTools \in Nat
      /\ query[q].running > 0 /\ query[q].parent = O!None
      /\ query[q].guards + query[q].running + query[q].away <= MaxTools
      /\ query[q].guards \in 0 .. MaxTools
      BY QueryFields DEF O!Delegate, ObserverTypes, QueryOK
<1>1. PICK r : r = New("ask", n, q, resolved.crashed)
      OBVIOUS
<1>2. PICK o : o = [query[q] EXCEPT !.running = @ - 1, !.away = @ + 1]
      OBVIOUS
<1>3. PICK qs : qs = [query EXCEPT ![q] = o]
      BY Zenon
<1>4. /\ qs = [query EXCEPT ![q].running = @ - 1, ![q].away = @ + 1]
      BY <1>0, <1>2, <1>3, Zenon
<1>5. /\ Len(qs) < MaxQueries /\ query' = Append(qs, r)
      /\ O!OnQueryStart(n) /\ mislinked' = mislinked
      /\ resolved' = [resolved EXCEPT !.crashed = FALSE] /\ unmixed' = unmixed \ O!InFlight
      BY <1>1, <1>4 DEF O!Delegate, O!Begin, New
<1>6. o \in O!Query
  <2>1. PICK i, j : i = query[q].running - 1 /\ j = query[q].away + 1
        BY Zenon
  <2>2. i \in 0 .. MaxTools /\ j \in 0 .. MaxTools
    <3>1. PICK g, x, a : g = query[q].guards /\ x = query[q].running /\ a = query[q].away
          BY Zenon
    <3>2. /\ g \in Nat /\ x \in Nat /\ a \in Nat /\ MaxTools \in Nat /\ x > 0
          /\ g + x + a <= MaxTools
          BY <1>q, <3>1
    <3>3. i = x - 1 /\ j = a + 1
          BY <2>1, <3>1
    <3> QED BY <3>2, <3>3
  <2>3. o = [query[q] EXCEPT !.running = i, !.away = j] /\ query[q] \in O!Query
        BY <1>2, <1>q, <2>1
  <2> QED BY <2>2, <2>3, Zenon DEF O!Query
<1>7. /\ qs \in Seq(O!Query) /\ Len(qs) = Len(query)
      /\ \A p \in O!Started : qs[p] = IF p = q THEN o ELSE query[p]
      BY <1>0, <1>3, <1>6, ExceptSeq
<1>8. r \in O!Query
  <2>1. resolved.crashed \in BOOLEAN
        BY <1>0 DEF CollectorOK
  <2>2. n \in O!Queries /\ q \in O!Queries
        BY SMTT(30), <1>0, <1>5, <1>7, QueryFields, HostAssumption DEF O!Queries
  <2> QED BY <1>1, <1>q, <2>1, <2>2, HostAssumption DEF New, O!Query
<1>9. /\ query' \in Seq(O!Query) /\ Len(query') = n /\ query'[n] = r
      /\ \A p \in O!Started : query'[p] = IF p = q THEN o ELSE query[p]
      BY <1>0, <1>5, <1>7, <1>8, AppendProperties
<1>10. O!Started' = O!Started \cup {n} /\ n \notin O!Started
  <2>1. O!Started' = 1 .. n
        BY <1>9, LenProperties DEF O!Started
  <2> QED BY <1>0, <2>1
<1>11. /\ CollectorOK' /\ recovery' = FALSE /\ turnId' = n
       /\ \A p \in O!Started : row'[p] = row[p]
  <2>1. n \in O!Queries
        BY SMTT(30), <1>0, <1>5, <1>7, HostAssumption DEF O!Queries
  <2> QED BY <1>0, <1>5, <1>9, <2>1, RowAdded, Zenon
<1>12. /\ r.parent = q /\ r.pc = "ask"
       /\ o.parent = query[q].parent /\ o.pc = query[q].pc /\ o.asked = query[q].asked
       /\ o.guards = query[q].guards /\ o.running = query[q].running - 1 /\ o.away = query[q].away + 1
      BY <1>1, <1>2, <1>q DEF New, O!Query
<1>13. ASSUME NEW p \in O!Started, p # q
       PROVE  QueryOK(p)'
  <2>1. Deputies(p)' = Deputies(p)
        BY <1>9, <1>10, <1>12, <1>13 DEF Deputies
  <2> QED BY <1>9, <1>10, <1>13, <2>1 DEF ObserverTypes, QueryOK, O!Waits
<1>14. QueryOK(q)'
  <2>1. Deputies(q)' = Deputies(q) \cup {n}
        BY <1>9, <1>10, <1>12 DEF Deputies
  <2>2. n \notin Deputies(q)
        BY <1>10 DEF Deputies
  <2>3. Cardinality(Deputies(q)') = Cardinality(Deputies(q)) + 1
        BY <2>1, <2>2, FewDeputies, FS_AddElement
  <2>4. QueryOK(q) /\ O!Waits(q)
        BY <1>q DEF ObserverTypes, O!Waits
  <2>5. o.guards + o.running + o.away <= MaxTools
        BY SMTT(30), <1>q, <1>12
  <2>6. o.pc \notin Toolless /\ o.asked # 0 /\ o.parent = O!None
        BY <1>q, <1>12, <2>4 DEF QueryOK
  <2>7. o.away = Cardinality(Deputies(q)')
        BY <1>12, <2>3, <2>4 DEF QueryOK
  <2>8. query'[q] = o
        BY <1>9
  <2> QED BY <2>5, <2>6, <2>7, <2>8 DEF QueryOK
<1>15. QueryOK(n)'
  <2>1. \A d \in O!Started' : query'[d].parent # n
        BY <1>0, <1>9, <1>10, <1>12, NoDeputies
  <2>2. Deputies(n)' = {}
        BY <2>1 DEF Deputies
  <2>3. Cardinality(Deputies(n)') = 0
        BY <2>2, FS_EmptySet
  <2>4. q \in O!Started' /\ q # n
        BY <1>10
  <2> QED BY <1>1, <1>9, <1>12, <2>3, <2>4, HostAssumption DEF QueryOK, Toolless, O!Waits, New
<1>16. resolved'.crashed = FALSE /\ resolved' \in O!Resolved \cup {O!NoTurn}
  <2>1. CASE resolved \in O!Resolved
        BY <1>5, <2>1, Zenon DEF O!Resolved
  <2>2. CASE resolved = O!NoTurn
    <3>1. [O!NoTurn EXCEPT !.crashed = FALSE] \in [pc : {"none"}, crashed : {FALSE}]
          BY Zenon DEF O!NoTurn
    <3>2. ASSUME NEW t \in [pc : {"none"}, crashed : {FALSE}]
          PROVE  t = O!NoTurn
          BY Zenon DEF O!NoTurn
    <3>3. resolved' = O!NoTurn
          BY <1>5, <2>2, <3>1, <3>2, Zenon
    <3> QED BY <3>3 DEF O!NoTurn
  <2> QED BY <1>0, <2>1, <2>2, Zenon
<1>17. O!TypeOK'
  <2>1. mislinked' \subseteq O!Started' /\ unmixed' \subseteq O!Started'
        BY <1>5, <1>10 DEF ObserverTypes, O!TypeOK
  <2> QED BY <1>9, <1>11, <1>16, <2>1 DEF O!TypeOK, CollectorOK
<1>18. Len(query') <= MaxQueries
      BY SMTT(30), <1>0, <1>5, <1>7, <1>9, HostAssumption
<1> QED BY <1>5, <1>9, <1>10, <1>11, <1>12, <1>13, <1>14, <1>15, <1>16, <1>17, <1>18, <1>q, Zenon
           DEF ObserverTypes

LEMMA DelegateEndsOK ==
  ASSUME ObserverTypes, NEW q \in O!Started, O!DelegateEnds(q)
  PROVE  /\ ObserverTypes'
         /\ query[q].parent \in O!Started \ {q} /\ O!Started' = O!Started
         /\ \A p \in O!Started \ {q, query[q].parent} : query'[p] = query[p]
         /\ \A p \in O!Started : query'[p].parent = query[p].parent
         /\ turnId' \in {turnId, 0} /\ mislinked' = mislinked
         /\ query[q].pc \notin {"over", "cut"}
         /\ \A n \in 1 .. Len(row) : n # turnId => row'[n] = row[n]
<1>m. PICK p : p = query[q].parent
      OBVIOUS
<1> USE <1>m
<1>0. /\ query \in Seq(O!Query) /\ Len(query) \in Nat /\ O!Started = 1 .. Len(query)
      /\ CollectorOK /\ Len(row) = Len(query)
      BY NoDeputies DEF ObserverTypes, O!TypeOK, CollectorOK
<1>p. /\ p \in O!Started \ {q} /\ p # O!None /\ QueryOK(p) /\ QueryOK(q)
      /\ query[q].pc \in {"failing", "tools"}
      BY DEF ObserverTypes, QueryOK, O!DelegateEnds, O!Ends
<1>q. /\ query[q] \in O!Query /\ query[p] \in O!Query /\ query[p].away \in Nat
      /\ query[p].away \in 0 .. MaxTools /\ MaxTools \in Nat
      /\ query[p].called \in Nat /\ query[p].guards \in Nat /\ query[p].running \in Nat
      BY SMTT(30), <1>p, QueryFields
<1>1. PICK oq : oq = [query[q] EXCEPT !.pc = "over"]
      BY Zenon
<1>2. PICK n : n = IF query[q].pc = "tools" THEN query[p].called + 1 ELSE query[p].called
      OBVIOUS
<1>3. PICK op : op = [query[p] EXCEPT !.away = query[p].away - 1, !.called = n]
      OBVIOUS
<1>4. PICK qs : qs = [query EXCEPT ![q] = oq]
      BY Zenon
<1>5. /\ query' = [query EXCEPT ![q].pc = "over", ![p].away = @ - 1,
                                ![p].called = IF query[q].pc = "tools" THEN @ + 1 ELSE @]
      /\ O!OnToolExec \/ UNCHANGED O!collector
      /\ UNCHANGED <<resolved, unmixed, mislinked>>
      BY DEF O!DelegateEnds
<1>6. query' = [qs EXCEPT ![p] = op]
      BY <1>0, <1>1, <1>2, <1>3, <1>4, <1>5, <1>p, <1>q, Zenon DEF O!Query
<1>7. /\ oq \in O!Query /\ oq.pc = "over" /\ oq.parent = p
      /\ oq.guards = query[q].guards /\ oq.running = query[q].running /\ oq.away = query[q].away
      /\ oq.asked = query[q].asked
      BY <1>1, <1>q DEF O!Query
<1>8. q \in Deputies(p)
      BY <1>p DEF Deputies
<1>9. /\ Cardinality(Deputies(p) \ {q}) = Cardinality(Deputies(p)) - 1
      /\ Cardinality(Deputies(p)) # 0
      BY <1>8, FewDeputies, FS_RemoveElement, FS_EmptySet
<1>10. query[p].away - 1 \in 0 .. MaxTools
      BY <1>9, <1>p, <1>q DEF QueryOK
<1>11. /\ op \in O!Query /\ op.pc = query[p].pc /\ op.parent = query[p].parent
       /\ op.guards = query[p].guards /\ op.running = query[p].running
       /\ op.away = query[p].away - 1 /\ op.asked = query[p].asked
  <2>1. n \in Nat
        BY <1>2, <1>q
  <2> QED BY <1>3, <1>q, <1>10, <2>1, Zenon DEF O!Query
<1>12. /\ qs \in Seq(O!Query) /\ Len(qs) = Len(query)
       /\ \A d \in O!Started : qs[d] = IF d = q THEN oq ELSE query[d]
      BY <1>0, <1>4, <1>7, ExceptSeq
<1>13. /\ query' \in Seq(O!Query) /\ Len(query') = Len(query)
       /\ \A d \in O!Started : query'[d] = IF d = p THEN op ELSE qs[d]
      BY <1>0, <1>6, <1>11, <1>12, <1>p, ExceptSeq
<1>14. query'[q] = oq /\ query'[p] = op /\ \A d \in O!Started \ {p, q} : query'[d] = query[d]
      BY <1>12, <1>13, <1>p
<1>15. O!Started' = O!Started
      BY <1>0, <1>13, LenProperties DEF O!Started
<1>16. ASSUME NEW d \in O!Started, d # p
       PROVE  Deputies(d)' = Deputies(d)
      BY <1>7, <1>11, <1>14, <1>15, <1>16, <1>p DEF Deputies
<1>17. Deputies(p)' = Deputies(p) \ {q}
      BY <1>7, <1>11, <1>14, <1>15, <1>p DEF Deputies
<1>18. QueryOK(p)'
  <2>1. op.away = Cardinality(Deputies(p)')
        BY <1>9, <1>11, <1>17, <1>p DEF QueryOK
  <2>2. op.guards + op.running + op.away <= MaxTools
        BY <1>11, <1>p, <1>q DEF QueryOK
  <2>3. query[p].away > 0
        BY <1>9, <1>p, <1>q DEF QueryOK
  <2>4. query[p].pc \notin Toolless /\ query[p].asked # 0
        BY <1>p, <1>q, <2>3 DEF QueryOK, O!Waits
  <2>5. op.parent # O!None => op.parent \in O!Started' \ {p}
        BY <1>11, <1>15, <1>p DEF QueryOK
  <2> QED BY <1>11, <1>14, <1>p, <2>1, <2>2, <2>4, <2>5 DEF QueryOK
<1>19. QueryOK(q)'
      BY <1>7, <1>14, <1>15, <1>16, <1>p DEF QueryOK, Toolless, O!Waits
<1>20. ASSUME NEW d \in O!Started \ {p, q}
       PROVE  QueryOK(d)'
      BY <1>14, <1>15, <1>16 DEF ObserverTypes, QueryOK, O!Waits
<1>21. /\ CollectorOK' /\ recovery' = recovery /\ turnId' \in {turnId, 0}
       /\ \A i \in 1 .. Len(row) : i # turnId => row'[i] = row[i]
      BY <1>0, <1>5, <1>13, Hears
<1>22. O!TypeOK'
      BY <1>5, <1>13, <1>15, <1>21 DEF ObserverTypes, O!TypeOK, CollectorOK
<1>23. \A d \in O!Started : query'[d].parent = query[d].parent
      BY <1>7, <1>11, <1>14
<1> QED BY <1>5, <1>13, <1>14, <1>15, <1>18, <1>19, <1>20, <1>21, <1>22, <1>23, <1>p, Zenon
           DEF ObserverTypes

LEMMA ResolveOK ==
  ASSUME ObserverTypes,
         O!StartFails \/ \E s \in ObservedSessions, crashed \in BOOLEAN : O!Resolve(s, crashed)
  PROVE  /\ ObserverTypes'
         /\ UNCHANGED <<query, turnId, session, lastCall, latest, row, unmixed, mislinked>>
<1>1. UNCHANGED <<query, turnId, session, lastCall, latest, row, unmixed, mislinked>>
      BY DEF O!StartFails, O!Resolve, O!collector
<1>2. recovery' \in BOOLEAN /\ recovery' = resolved'.crashed /\ resolved' \in O!Resolved
  <2>1. /\ resolved \in O!Resolved \cup {O!NoTurn} /\ recovery \in BOOLEAN
        /\ recovery = resolved.crashed
        BY DEF ObserverTypes, O!TypeOK
  <2>2. CASE O!StartFails
    <3>1. resolved \in O!Resolved
          BY <2>1, <2>2 DEF O!StartFails, O!NoTurn
    <3>2. resolved' = [resolved EXCEPT !.pc = "failed"] /\ recovery' = recovery
          BY <2>2 DEF O!StartFails, O!collector
    <3> QED BY <2>1, <3>1, <3>2 DEF O!Resolved
  <2>3. ASSUME NEW s \in ObservedSessions, NEW crashed \in BOOLEAN, O!Resolve(s, crashed)
        PROVE  recovery' \in BOOLEAN /\ recovery' = resolved'.crashed /\ resolved' \in O!Resolved
    <3>1. PICK c, a : c = (crashed \/ resolved.crashed) /\ a = (O!InFlight = {})
          OBVIOUS
    <3>2. c \in BOOLEAN /\ a \in BOOLEAN
          BY <3>1
    <3>3. /\ resolved' = [pc |-> "resolved", session |-> s, crashed |-> c, alone |-> a]
          /\ recovery' = (recovery \/ crashed)
          BY <2>3, <3>1 DEF O!Resolve
    <3>4. recovery' = c
          BY <2>1, <3>1, <3>3
    <3> QED BY <3>2, <3>3, <3>4 DEF O!Resolved
  <2> QED BY <2>2, <2>3
<1>3. O!TypeOK'
      BY <1>1, <1>2 DEF ObserverTypes, O!TypeOK, O!Started
<1>4. \A q \in O!Started' : QueryOK(q)'
  <2>1. query' = query /\ O!Started' = O!Started
        BY <1>1 DEF O!Started
  <2>2. ASSUME NEW q \in O!Started
        PROVE  Deputies(q)' = Deputies(q)
        BY <2>1 DEF Deputies
  <2> QED BY <2>1, <2>2 DEF ObserverTypes, QueryOK, O!Waits
<1> QED BY <1>1, <1>2, <1>3, <1>4 DEF ObserverTypes

LEMMA ObserverInit ==
  ASSUME O!Init
  PROVE  ObserverTypes
<1>1. query = <<>> /\ row = <<>> /\ unmixed = {} /\ mislinked = {}
      BY DEF O!Init
<1>2. query \in Seq(O!Query) /\ row \in Seq(O!Row) /\ Len(query) = 0 /\ Len(row) = 0
      BY <1>1
<1>3. O!Started = {}
      BY <1>2, LenProperties DEF O!Started
<1>4. recovery = FALSE /\ resolved.crashed = FALSE /\ resolved \in O!Resolved \cup {O!NoTurn}
      BY DEF O!Init, O!NoTurn
<1>5. /\ turnId \in 0 .. Len(query) /\ session \in ObservedSessions \cup O!Queries \cup {O!None}
      /\ lastCall \in O!Call \cup {O!NoCall}
      /\ latest \in [ObservedSessions \cup O!Queries -> O!Call \cup {O!NoCall}]
      BY <1>2 DEF O!Init, O!None
<1>6. O!TypeOK
      BY <1>1, <1>2, <1>3, <1>4, <1>5, Zenon DEF O!TypeOK
<1>7. MaxQueries \in Nat
      BY HostAssumption
<1>8. Len(query) <= MaxQueries /\ \A q \in O!Started : QueryOK(q)
      BY <1>2, <1>3, <1>7
<1> QED BY <1>4, <1>6, <1>8, Zenon DEF ObserverTypes, O!Init, O!NoTurn

\* The row of a query tells of it.
Told(q) ==
  /\ row[q].llm = query[q].asked
  /\ row[q].tools = query[q].called
  /\ row[q].guards = query[q].guarded
  /\ row[q].recovered = query[q].crashed
  /\ row[q].status = IF query[q].pc \in {"ending", "over"} THEN "completed" ELSE "active"
  /\ q \notin mislinked

\* The collector's current turn and newest inference are those of a query.
Leads(q) ==
  /\ query[q].pc \in {"ending", "over"} => turnId = 0
  /\ query[q].pc \notin {"ending", "over"} =>
       /\ turnId = q /\ session = query[q].session
       /\ query[q].asked # 0 =>
            /\ lastCall = [of |-> q, n |-> query[q].asked]
            /\ latest[query[q].session] = [of |-> q, n |-> query[q].asked]

\* A turn that nothing else ran beside is current as long as it goes on, and if
\* it ends without a query_end until another query starts.
Undisturbed(q) ==
  /\ query[q].parent = O!None
  /\ q \notin O!InFlight => turnId # q \/ O!InFlight = {}
  /\ q \in O!InFlight => O!InFlight = {q} /\ Leads(q)

TurnInv ==
  /\ ObserverTypes
  /\ \A q \in unmixed : Told(q) /\ Undisturbed(q)

\* A turn hears of its own steps.
LEMMA OwnStep ==
  ASSUME ObserverTypes, NEW q \in O!Started, Told(q), Leads(q),
         NEW r \in O!Query, Goes(q, r), O!Started' = O!Started, query'[q] = r
  PROVE  Told(q)' /\ Leads(q)' /\ query'[q].parent = query[q].parent
<1>0. /\ query[q] \in O!Query /\ row[q] \in O!Row /\ row \in Seq(O!Row) /\ q \in 1 .. Len(row)
      /\ query[q].asked \in Nat /\ query[q].called \in Nat /\ query[q].guarded \in Nat
      /\ row[q].llm \in Nat /\ row[q].tools \in Nat /\ row[q].guards \in Nat
      /\ q # 0 /\ query[q].session \in ObservedSessions \cup O!Queries
      /\ latest \in [ObservedSessions \cup O!Queries -> O!Call \cup {O!NoCall}]
      BY SMTT(30), QueryFields DEF ObserverTypes, O!TypeOK, O!Row
<1>1. ASSUME NEW m, Marks(m), turnId = q
      PROVE  row'[q] = m
      BY <1>0, <1>1, ExceptSeq DEF Marks, O!None
<1>2. ASSUME turnId = 0, NEW m, Marks(m)
      PROVE  row'[q] = row[q]
      BY <1>2 DEF Marks, O!None
<1>q. ASSUME query[q].guards > 0 \/ query[q].running > 0
      PROVE  query[q].pc \notin {"ending", "cut"} /\ query[q].asked # 0
  <2>1. /\ QueryOK(q) /\ query[q].guards \in Nat /\ query[q].running \in Nat
        /\ query[q].away \in Nat
        BY QueryFields DEF ObserverTypes
  <2>2. O!Waits(q)
        BY <1>q, <2>1 DEF O!Waits
  <2> QED BY <2>1, <2>2 DEF QueryOK, Toolless
<1>3. CASE /\ query[q].pc = "ask" /\ query[q].asked < MaxAsked
           /\ \E pc \in {"answered", "failing"} :
                r = [query[q] EXCEPT !.pc = pc, !.asked = @ + 1]
           /\ O!OnInference([of |-> q, n |-> query[q].asked + 1], query[q].session)
           /\ UNCHANGED mislinked
  <2>1. PICK m : m = [row[turnId] EXCEPT !.llm = @ + 1]
        BY Zenon
  <2>2. turnId = q /\ session = query[q].session /\ Marks(m)
        BY <1>3, <2>1 DEF Leads, O!OnInference, Marks
  <2>3. row'[q] = [row[q] EXCEPT !.llm = @ + 1]
        BY <1>1, <2>1, <2>2
  <2>4. /\ row'[q].llm = row[q].llm + 1 /\ row'[q].tools = row[q].tools
        /\ row'[q].guards = row[q].guards /\ row'[q].recovered = row[q].recovered
        /\ row'[q].status = row[q].status
        BY <1>0, <2>3 DEF O!Row
  <2>5. /\ r.pc # "over" /\ r.asked = query[q].asked + 1 /\ r.called = query[q].called
        /\ r.guarded = query[q].guarded /\ r.crashed = query[q].crashed
        /\ r.session = query[q].session /\ r.parent = query[q].parent
        BY <1>0, <1>3 DEF O!Query
  <2>6. /\ lastCall' = [of |-> q, n |-> query[q].asked + 1]
        /\ latest'[query[q].session] = [of |-> q, n |-> query[q].asked + 1]
        /\ turnId' = turnId /\ session' = session
        BY <1>0, <1>3 DEF O!OnInference
  <2>7. Told(q)'
        BY <1>3, <2>4, <2>5 DEF Told
  <2>8. Leads(q)'
        BY <1>3, <2>2, <2>5, <2>6 DEF Leads
  <2> QED BY <2>5, <2>7, <2>8
<1>4. CASE /\ query[q].pc = "answered"
           /\ \E n \in 0 .. MaxTools : r = [query[q] EXCEPT !.pc = "tools", !.guards = n]
           /\ O!OnApiResponse
           /\ UNCHANGED mislinked
  <2>1. /\ r.pc = "tools" /\ r.asked = query[q].asked /\ r.called = query[q].called
        /\ r.guarded = query[q].guarded /\ r.crashed = query[q].crashed
        /\ r.session = query[q].session /\ r.parent = query[q].parent
        BY <1>0, <1>4 DEF O!Query
  <2>2. /\ turnId' = turnId /\ session' = session /\ latest' = latest /\ row' = row
        /\ lastCall' = lastCall \/ lastCall' = latest[session]
        BY <1>4 DEF O!OnApiResponse
  <2>3. Told(q)'
        BY <1>4, <2>1, <2>2 DEF Told
  <2>4. Leads(q)'
        BY <1>4, <2>1, <2>2 DEF Leads
  <2> QED BY <2>1, <2>3, <2>4
<1>5. CASE /\ query[q].guards > 0
           /\ \E runs \in {0, 1} :
                r = [query[q] EXCEPT !.guards = @ - 1, !.running = @ + runs,
                                     !.guarded = IF query[q].pc = "over" THEN @ ELSE @ + 1]
           /\ O!OnGuardDecision
           /\ UNCHANGED mislinked
  <2>1. PICK m : m = [row[turnId] EXCEPT !.guards = @ + 1]
        BY Zenon
  <2>2. Marks(m)
        BY <1>5, <2>1 DEF O!OnGuardDecision, Marks
  <2>3. /\ r.pc = query[q].pc /\ r.asked = query[q].asked /\ r.called = query[q].called
        /\ r.guarded = IF query[q].pc = "over" THEN query[q].guarded ELSE query[q].guarded + 1
        /\ r.crashed = query[q].crashed
        /\ r.session = query[q].session /\ r.parent = query[q].parent
        BY <1>0, <1>5 DEF O!Query
  <2>4. turnId' = turnId /\ session' = session /\ latest' = latest /\ lastCall' = lastCall
        BY <1>5 DEF O!OnGuardDecision
  <2>5. CASE query[q].pc = "over"
    <3>1. row'[q] = row[q]
          BY <1>2, <2>2, <2>5 DEF Leads
    <3>2. Told(q)'
          BY <1>5, <2>3, <2>5, <3>1 DEF Told
    <3> QED BY <2>3, <2>4, <2>5, <3>2 DEF Leads
  <2>6. CASE query[q].pc # "over"
    <3>1. row'[q] = [row[q] EXCEPT !.guards = @ + 1]
          BY <1>1, <1>5, <1>q, <2>1, <2>2, <2>6 DEF Leads
    <3>2. /\ row'[q].guards = row[q].guards + 1 /\ row'[q].tools = row[q].tools
          /\ row'[q].llm = row[q].llm /\ row'[q].recovered = row[q].recovered
          /\ row'[q].status = row[q].status
          BY <1>0, <3>1 DEF O!Row
    <3>3. Told(q)'
          BY <1>5, <2>3, <2>6, <3>2 DEF Told
    <3> QED BY <2>3, <2>4, <2>6, <3>3 DEF Leads
  <2> QED BY <2>5, <2>6
<1>6. CASE /\ query[q].guards > 0
           /\ r = [query[q] EXCEPT !.guards = @ - 1, !.pc = IF @ = "over" THEN @ ELSE "failing"]
           /\ UNCHANGED <<O!collector, mislinked>>
  <2>1. /\ r.pc = "over" <=> query[q].pc = "over"
        /\ r.pc # "ending" /\ query[q].pc # "ending"
        /\ r.asked = query[q].asked /\ r.called = query[q].called
        /\ r.guarded = query[q].guarded /\ r.crashed = query[q].crashed
        /\ r.session = query[q].session /\ r.parent = query[q].parent
        BY <1>0, <1>6, <1>q DEF O!Query
  <2>2. UNCHANGED <<turnId, session, latest, lastCall, row, mislinked>>
        BY <1>6 DEF O!collector
  <2> QED BY <2>1, <2>2 DEF Told, Leads
<1>7. CASE /\ query[q].running > 0
           /\ r = [query[q] EXCEPT !.running = @ - 1,
                                   !.called = IF query[q].pc = "over" THEN @ ELSE @ + 1]
           /\ O!OnToolExec
           /\ mislinked' = IF query[q].pc = "over" \/ lastCall = [of |-> q, n |-> query[q].asked]
                           THEN mislinked ELSE mislinked \cup {q}
  <2>1. PICK m : m = [row[turnId] EXCEPT !.tools = @ + 1]
        BY Zenon
  <2>2. Marks(m)
        BY <1>7, <2>1 DEF O!OnToolExec, Marks
  <2>3. /\ r.pc = query[q].pc /\ r.asked = query[q].asked /\ r.guarded = query[q].guarded
        /\ r.called = IF query[q].pc = "over" THEN query[q].called ELSE query[q].called + 1
        /\ r.crashed = query[q].crashed
        /\ r.session = query[q].session /\ r.parent = query[q].parent
        BY <1>0, <1>7 DEF O!Query
  <2>4. turnId' = turnId /\ session' = session /\ latest' = latest /\ lastCall' = lastCall
        BY <1>7 DEF O!OnToolExec
  <2>5. CASE query[q].pc = "over"
    <3>1. row'[q] = row[q]
          BY <1>2, <2>2, <2>5 DEF Leads
    <3>2. Told(q)'
          BY <1>7, <2>3, <2>5, <3>1 DEF Told
    <3> QED BY <2>3, <2>4, <2>5, <3>2 DEF Leads
  <2>6. CASE query[q].pc # "over"
    <3>1. row'[q] = [row[q] EXCEPT !.tools = @ + 1]
          BY <1>1, <1>7, <1>q, <2>1, <2>2, <2>6 DEF Leads
    <3>2. /\ row'[q].tools = row[q].tools + 1 /\ row'[q].guards = row[q].guards
          /\ row'[q].llm = row[q].llm /\ row'[q].recovered = row[q].recovered
          /\ row'[q].status = row[q].status
          BY <1>0, <3>1 DEF O!Row
    <3>3. query[q].asked # 0 /\ query[q].pc # "ending"
          BY <1>7, <1>q
    <3>4. mislinked' = mislinked
          BY <1>7, <2>6, <3>3 DEF Leads
    <3>5. Told(q)'
          BY <2>3, <2>6, <3>2, <3>4 DEF Told
    <3> QED BY <2>3, <2>4, <2>6, <3>5 DEF Leads
  <2> QED BY <2>5, <2>6
<1>8. CASE /\ query[q].running > 0
           /\ r = [query[q] EXCEPT !.running = @ - 1]
           /\ UNCHANGED <<O!collector, mislinked>>
  <2>1. /\ r.pc = query[q].pc /\ r.asked = query[q].asked /\ r.called = query[q].called
        /\ r.guarded = query[q].guarded /\ r.crashed = query[q].crashed
        /\ r.session = query[q].session /\ r.parent = query[q].parent
        BY <1>0, <1>8 DEF O!Query
  <2>2. UNCHANGED <<turnId, session, latest, lastCall, row, mislinked>>
        BY <1>8 DEF O!collector
  <2> QED BY <2>1, <2>2 DEF Told, Leads
<1>9. CASE /\ query[q].pc = "tools" /\ ~O!Waits(q)
           /\ r = [query[q] EXCEPT !.pc = "ask"]
           /\ UNCHANGED <<O!collector, mislinked>>
  <2>1. /\ r.pc = "ask" /\ r.asked = query[q].asked /\ r.called = query[q].called
        /\ r.guarded = query[q].guarded /\ r.crashed = query[q].crashed
        /\ r.session = query[q].session /\ r.parent = query[q].parent
        BY <1>0, <1>9 DEF O!Query
  <2>2. UNCHANGED <<turnId, session, latest, lastCall, row, mislinked>>
        BY <1>9 DEF O!collector
  <2> QED BY <1>9, <2>1, <2>2 DEF Told, Leads
<1>10. CASE /\ query[q].parent = O!None /\ O!Ends(q)
            /\ r = [query[q] EXCEPT !.pc = IF @ = "failing" THEN "over" ELSE "ending"]
            /\ O!OnQueryEnd(query[q].session)
            /\ UNCHANGED mislinked
  <2>1. PICK m : m = [row[turnId] EXCEPT !.status = "completed"]
        BY Zenon
  <2>2. turnId = q /\ Marks(m)
        BY <1>10, <2>1 DEF Leads, O!OnQueryEnd, Marks, O!Ends
  <2>3. row'[q] = [row[q] EXCEPT !.status = "completed"]
        BY <1>1, <2>1, <2>2
  <2>4. /\ row'[q].llm = row[q].llm /\ row'[q].tools = row[q].tools
        /\ row'[q].guards = row[q].guards /\ row'[q].recovered = row[q].recovered
        /\ row'[q].status = "completed"
        BY <1>0, <2>3 DEF O!Row
  <2>5. /\ r.pc \in {"ending", "over"} /\ r.asked = query[q].asked /\ r.called = query[q].called
        /\ r.guarded = query[q].guarded /\ r.crashed = query[q].crashed
        /\ r.parent = query[q].parent
    <3>1. PICK pc \in {"ending", "over"} : r = [query[q] EXCEPT !.pc = pc]
          BY <1>10, Zenon
    <3> QED BY <1>0, <3>1 DEF O!Query
  <2>6. turnId' = 0
        BY <1>10 DEF O!OnQueryEnd, O!None
  <2>7. Told(q)'
        BY <1>10, <2>4, <2>5 DEF Told
  <2> QED BY <2>5, <2>6, <2>7 DEF Leads
<1>11. CASE /\ query[q].pc = "begun"
            /\ \E pc \in {"ask", "cut"} : r = [query[q] EXCEPT !.pc = pc]
            /\ UNCHANGED <<O!collector, mislinked>>
  <2>1. /\ r.pc \in {"ask", "cut"} /\ r.asked = query[q].asked /\ r.called = query[q].called
        /\ r.guarded = query[q].guarded /\ r.crashed = query[q].crashed
        /\ r.session = query[q].session /\ r.parent = query[q].parent
        BY <1>0, <1>11 DEF O!Query
  <2>2. UNCHANGED <<turnId, session, latest, lastCall, row, mislinked>>
        BY <1>11 DEF O!collector
  <2> QED BY <1>11, <2>1, <2>2 DEF Told, Leads
<1>12. CASE /\ query[q].pc \in {"ask", "answered", "tools"}
            /\ r = [query[q] EXCEPT !.pc = "failing"]
            /\ UNCHANGED <<O!collector, mislinked>>
  <2>1. /\ r.pc = "failing" /\ r.asked = query[q].asked /\ r.called = query[q].called
        /\ r.guarded = query[q].guarded /\ r.crashed = query[q].crashed
        /\ r.session = query[q].session /\ r.parent = query[q].parent
        BY <1>0, <1>12 DEF O!Query
  <2>2. UNCHANGED <<turnId, session, latest, lastCall, row, mislinked>>
        BY <1>12 DEF O!collector
  <2> QED BY <1>12, <2>1, <2>2 DEF Told, Leads
<1>13. CASE /\ query[q].pc = "ending"
            /\ r = [query[q] EXCEPT !.pc = "over"]
            /\ UNCHANGED O!collector \/ O!OnQueryEnd(query[q].session)
            /\ UNCHANGED mislinked
  <2>1. /\ r.pc = "over" /\ r.asked = query[q].asked /\ r.called = query[q].called
        /\ r.guarded = query[q].guarded /\ r.crashed = query[q].crashed
        /\ r.parent = query[q].parent
        BY <1>0, <1>13 DEF O!Query
  <2>2. turnId = 0
        BY <1>13 DEF Leads
  <2>3. turnId' = 0 /\ row' = row
        BY <1>13, <2>2 DEF O!collector, O!OnQueryEnd, O!None
  <2>4. Told(q)'
        BY <1>13, <2>1, <2>3 DEF Told
  <2> QED BY <2>1, <2>3, <2>4 DEF Leads
<1> QED BY <1>3, <1>4, <1>5, <1>6, <1>7, <1>8, <1>9, <1>10, <1>11, <1>12, <1>13, Zenon DEF Goes

\* A query that is over and one that another query runs beside are left alone.
LEMMA Bystander ==
  ASSUME TurnInv, NEW q \in unmixed, q \notin O!InFlight, q \in O!Started',
         query'[q] = query[q], row'[q] = row[q], turnId' # q,
         q \in mislinked' => q \in mislinked
  PROVE  Told(q)' /\ Undisturbed(q)'
<1>1. Told(q) /\ Undisturbed(q)
      BY DEF TurnInv
<1>2. q \in O!Started
      BY DEF TurnInv, ObserverTypes, O!TypeOK
<1>3. q \notin O!InFlight'
      BY <1>2 DEF O!InFlight, O!Waits
<1>4. Told(q)'
      BY <1>1 DEF Told
<1> QED BY <1>1, <1>3, <1>4 DEF Undisturbed

LEMMA AdvanceStep ==
  ASSUME TurnInv, NEW d \in O!Started, Advances(d)
  PROVE  TurnInv'
<1>0. ObserverTypes
      BY DEF TurnInv
<1>1. PICK r \in O!Query : /\ Goes(d, r) /\ query' = [query EXCEPT ![d] = r]
                           /\ UNCHANGED <<resolved, unmixed>>
      BY <1>0, AdvanceGoes
<1>2. /\ ObserverTypes'
      /\ O!Started' = O!Started /\ query'[d] = r
      /\ \A p \in O!Started \ {d} : query'[p] = query[p]
      /\ turnId' \in {turnId, 0} /\ mislinked' \subseteq mislinked \cup {d}
      /\ \A n \in 1 .. Len(row) : n # turnId => row'[n] = row[n]
      BY <1>0, <1>1, GoesOK, Zenon
<1>3. d \in O!InFlight
  <2>1. /\ query[d].guards \in Nat /\ query[d].running \in Nat /\ query[d].away \in Nat
        BY <1>0, QueryFields
  <2>2. \/ query[d].pc \notin {"over", "cut"} \/ query[d].guards > 0 \/ query[d].running > 0
        BY <1>1, Zenon DEF Goes, O!Ends
  <2> QED BY <2>1, <2>2 DEF O!InFlight, O!Waits
<1>4. ASSUME NEW q \in unmixed
      PROVE  Told(q)' /\ Undisturbed(q)'
  <2>1. Told(q) /\ Undisturbed(q) /\ q \in O!Started
        BY <1>0 DEF TurnInv, ObserverTypes, O!TypeOK
  <2>2. q \in 1 .. Len(row) /\ q # 0
        BY <1>0, <2>1, QueryFields
  <2>3. CASE q # d
    <3>1. q \notin O!InFlight /\ turnId # q
          BY <1>3, <2>1, <2>3 DEF Undisturbed
    <3>2. query'[q] = query[q] /\ row'[q] = row[q] /\ turnId' # q /\ q \in O!Started'
          /\ (q \in mislinked' => q \in mislinked)
          BY <1>2, <2>1, <2>2, <2>3, <3>1
    <3> QED BY <3>1, <3>2, Bystander
  <2>4. CASE q = d
    <3>1. O!InFlight = {q} /\ Leads(q)
          BY <1>3, <2>1, <2>4 DEF Undisturbed
    <3>2. Told(q)' /\ Leads(q)' /\ query'[q].parent = query[q].parent
          BY <1>0, <1>1, <1>2, <2>1, <2>4, <3>1, OwnStep
    <3>3. O!InFlight' \subseteq {q}
          BY <1>2, <2>4, <3>1 DEF O!InFlight, O!Waits
    <3>4. q \notin O!InFlight' => O!InFlight' = {}
          BY <3>3
    <3> QED BY <2>1, <3>2, <3>3, <3>4 DEF Undisturbed
  <2> QED BY <2>3, <2>4
<1>5. unmixed' = unmixed
      BY <1>1
<1> QED BY <1>2, <1>4, <1>5 DEF TurnInv

LEMMA TurnStep ==
  ASSUME TurnInv, [O!Next]_(O!vars)
  PROVE  TurnInv'
<1>0. /\ ObserverTypes /\ Len(query) \in Nat /\ O!Started = 1 .. Len(query)
      /\ unmixed \subseteq O!Started /\ mislinked \subseteq O!Started
      /\ \A q \in O!Started : q \in 1 .. Len(row) /\ q # 0 /\ q # Len(query) + 1
  <2>1. ObserverTypes
        BY DEF TurnInv
  <2>2. Len(query) \in Nat /\ O!Started = 1 .. Len(query)
        BY <2>1, NoDeputies
  <2> QED BY <2>1, <2>2, QueryFields DEF ObserverTypes, O!TypeOK
<1>1. ASSUME NEW d \in O!Started, Advances(d)
      PROVE  TurnInv'
      BY <1>1, AdvanceStep
<1>2. CASE O!StartFails \/ \E s \in ObservedSessions, crashed \in BOOLEAN : O!Resolve(s, crashed)
  <2>1. /\ ObserverTypes'
        /\ UNCHANGED <<query, turnId, session, lastCall, latest, row, unmixed, mislinked>>
        BY <1>0, <1>2, ResolveOK
  <2> QED BY <2>1 DEF TurnInv, Told, Undisturbed, Leads, O!InFlight, O!Started, O!Waits
<1>3. CASE O!Start
  <2>n. PICK n : n = Len(query) + 1
        OBVIOUS
  <2> USE <2>n
  <2>1. /\ ObserverTypes'
        /\ O!Started' = O!Started \cup {n}
        /\ \A p \in O!Started : query'[p] = query[p] /\ row'[p] = row[p]
        /\ query'[n] = New("begun", resolved.session, O!None, resolved.crashed)
        /\ row'[n] = [status |-> "active", recovered |-> resolved.crashed,
                      llm |-> 0, tools |-> 0, guards |-> 0]
        /\ turnId' = n /\ mislinked' = mislinked /\ session' = resolved.session
        BY <1>0, <1>3, StartOK
  <2>2. ASSUME NEW q \in unmixed, q \notin O!InFlight
        PROVE  Told(q)' /\ Undisturbed(q)'
        BY <1>0, <2>1, <2>2, Bystander
  <2>3. ASSUME O!InFlight = {}
        PROVE  Told(n)' /\ Undisturbed(n)'
    <3>1. Told(n)'
          BY <1>0, <2>1 DEF Told, New
    <3>2. O!InFlight' = {n}
          BY <1>0, <2>1, <2>3 DEF O!InFlight, O!Waits, New
    <3>3. Leads(n)'
          BY <2>1 DEF Leads, New
    <3>4. query'[n].parent = O!None
          BY <2>1 DEF New
    <3> QED BY <3>1, <3>2, <3>3, <3>4 DEF Undisturbed
  <2>4. \/ unmixed' = unmixed \cup {n} /\ O!InFlight = {}
        \/ unmixed' = unmixed \ O!InFlight
        BY <1>3 DEF O!Start
  <2> QED BY <2>1, <2>2, <2>3, <2>4 DEF TurnInv
<1>4. ASSUME NEW d \in O!Started, O!Delegate(d)
      PROVE  TurnInv'
  <2>1. /\ ObserverTypes'
        /\ O!Started' = O!Started \cup {Len(query) + 1}
        /\ \A p \in O!Started : row'[p] = row[p]
        /\ \A p \in O!Started \ {d} : query'[p] = query[p]
        /\ turnId' = Len(query) + 1 /\ mislinked' = mislinked
        BY <1>0, <1>4, DelegateOK
  <2>2. unmixed' = unmixed \ O!InFlight
        BY <1>4 DEF O!Delegate
  <2>3. d \in O!InFlight
    <3>1. query[d].guards \in Nat /\ query[d].running \in Nat /\ query[d].away \in Nat
          BY <1>0, QueryFields
    <3>2. query[d].running > 0
          BY <1>4, Zenon DEF O!Delegate
    <3>3. O!Waits(d)
          BY SMTT(30), <3>1, <3>2 DEF O!Waits
    <3> QED BY <3>3 DEF O!InFlight
  <2>4. ASSUME NEW q \in unmixed'
        PROVE  Told(q)' /\ Undisturbed(q)'
    <3>1. q \in unmixed /\ q \notin O!InFlight /\ q # d /\ q \in O!Started
          BY <1>0, <2>2, <2>3
    <3> QED BY <1>0, <2>1, <3>1, Bystander
  <2> QED BY <2>1, <2>4 DEF TurnInv
<1>5. ASSUME NEW d \in O!Started, O!DelegateEnds(d)
      PROVE  TurnInv'
  <2>1. /\ ObserverTypes'
        /\ query[d].parent \in O!Started \ {d} /\ O!Started' = O!Started
        /\ \A p \in O!Started \ {d, query[d].parent} : query'[p] = query[p]
        /\ turnId' \in {turnId, 0} /\ mislinked' = mislinked
        /\ query[d].pc \notin {"over", "cut"}
        /\ \A n \in 1 .. Len(row) : n # turnId => row'[n] = row[n]
        BY <1>0, <1>5, DelegateEndsOK
  <2>2. unmixed' = unmixed
        BY <1>5 DEF O!DelegateEnds
  <2>3. d \in O!InFlight /\ query[d].parent \in O!InFlight
    <3>1. PICK p : p = query[d].parent
          OBVIOUS
    <3>2. d \in Deputies(p) /\ p \in O!Started
          BY <2>1, <3>1 DEF Deputies
    <3>3. Cardinality(Deputies(p)) # 0
          BY <1>0, <3>2, FewDeputies, FS_EmptySet
    <3>4. query[p].away # 0
          BY <1>0, <3>2, <3>3 DEF ObserverTypes, QueryOK
    <3>5. query[p].guards \in Nat /\ query[p].running \in Nat /\ query[p].away \in Nat
          BY <1>0, <3>2, QueryFields
    <3>6. O!Waits(p)
          BY <3>4, <3>5 DEF O!Waits
    <3> QED BY <2>1, <3>1, <3>2, <3>6 DEF O!InFlight
  <2>4. ASSUME NEW q \in unmixed
        PROVE  Told(q)' /\ Undisturbed(q)'
    <3>1. q \notin O!InFlight
          BY <2>1, <2>3 DEF TurnInv, Undisturbed
    <3>2. q \in O!Started /\ q # d /\ q # query[d].parent /\ turnId # q
          BY <1>0, <2>3, <3>1 DEF TurnInv, Undisturbed
    <3> QED BY <1>0, <2>1, <3>1, <3>2, Bystander
  <2> QED BY <2>1, <2>2, <2>4 DEF TurnInv
<1>6. CASE UNCHANGED O!vars
      BY <1>6 DEF O!vars, O!agent, O!collector, TurnInv, ObserverTypes, O!TypeOK, QueryOK, Deputies,
         Told, Undisturbed, Leads, O!InFlight, O!Started, O!Waits
<1> QED BY <1>1, <1>2, <1>3, <1>4, <1>5, <1>6 DEF O!Next, Advances

\* Property TurnsAreTold: however turns fail, from the first await behind their
\* query_start to the hook behind their query_end, are called off or leave calls
\* behind, the row of a turn that nothing else ran beside tells of that turn.  If
\* the append of its user_message throws, it has no query_end and stays active.
THEOREM TurnsCorrect == HostSpec => []TurnsAreTold
<1>1. HostInit => TurnInv
      BY ObserverInit, Zenon DEF HostInit, TurnInv, O!Init
<1>2. TurnInv /\ [HostNext]_hostVars => TurnInv'
      BY HostStep, TurnStep
<1>3. TurnInv => TurnsAreTold
      BY DEF TurnInv, Told, TurnsAreTold, O!TurnsAreTold
<1> QED BY <1>1, <1>2, <1>3, PTL DEF HostSpec

-----------------------------------------------------------------------------
(* The store of a team.                                                     *)

D == INSTANCE Teams_proofs WITH Patches <- Claims, Parallel <- Requests

\* The team store of a host is the one of the theorems in Teams_proofs.
LEMMA SameTeams ==
  /\ T!Changes = D!Changes
  /\ T!Init => D!Init
  /\ [T!Next]_(T!vars) => [D!Next]_(D!vars)
  /\ D!AckedIsKept => T!AckedIsKept
<1> USE DEF T!Changes, D!Changes, T!Idle, D!Idle, T!Done, D!Done, T!Torn, D!Torn,
        T!UnderWay, D!UnderWay, T!disk, D!disk, T!server, D!server, T!vars, D!vars,
        T!Cardinality, D!Cardinality
<1>1. T!Init => D!Init
      BY DEF T!Init, D!Init
<1>2. [T!Next]_(T!vars) => [D!Next]_(D!vars)
  <2>1. ASSUME NEW c PROVE T!Begin(c) => D!Begin(c)
      BY DEF T!Begin, D!Begin, T!Made, D!Made
  <2>2. ASSUME NEW c PROVE T!Read(c) => D!Read(c)
      BY DEF T!Read, D!Read
  <2>3. ASSUME NEW c PROVE T!Load(c) => D!Load(c)
      BY DEF T!Load, D!Load, T!Made, D!Made
  <2>4. ASSUME NEW c PROVE T!Open(c) => D!Open(c)
      BY DEF T!Open, D!Open
  <2>5. ASSUME NEW c PROVE T!Write(c) => D!Write(c)
      BY Zenon DEF T!Write, D!Write
  <2>6. ASSUME NEW c PROVE T!Rename(c) => D!Rename(c)
      BY DEF T!Rename, D!Rename
  <2>7. T!Restart => D!Restart
      BY DEF T!Restart, D!Restart
  <2> QED BY <2>1, <2>2, <2>3, <2>4, <2>5, <2>6, <2>7 DEF T!Next, D!Next
<1>3. D!AckedIsKept => T!AckedIsKept
      BY DEF D!AckedIsKept, T!AckedIsKept, D!Last, T!Last
<1> QED BY <1>1, <1>2, <1>3

\* Whenever the server dies, its file has every change that was answered while
\* requests did not overlap; its memory has those it answered itself, unless
\* requests loaded it side by side.
THEOREM AckedCorrect ==
  ASSUME IsFiniteSet(T!Changes), "torn" \notin T!Changes
  PROVE  HostSpec => []AckedIsKept
<1>0. D!IsFiniteSet(D!Changes) /\ "torn" \notin D!Changes
  <2>1. IsFiniteSet(D!Changes) => D!IsFiniteSet(D!Changes)
        BY DEF IsFiniteSet, D!IsFiniteSet
  <2> QED BY <2>1, SameTeams
<1>1. HostInit => D!TeamInv
      BY <1>0, SameTeams, D!TeamInit DEF HostInit
<1>2. D!TeamInv /\ [HostNext]_hostVars => D!TeamInv'
  <2>1. [HostNext]_hostVars => [T!Next]_(T!vars)
        BY DEF HostNext, Stays, Components, hostVars, teamVars, T!vars, T!server, T!disk
  <2> QED BY <1>0, <2>1, SameTeams, D!TeamStep
<1>3. D!TeamInv => AckedIsKept
      BY SameTeams, D!TeamKeeps DEF AckedIsKept
<1> QED BY <1>1, <1>2, <1>3, PTL DEF HostSpec

-----------------------------------------------------------------------------
(* The stream of a session's events.                                        *)

N == INSTANCE EventStream_proofs WITH
  Sessions <- {OneSession}, MaxEvents <- MaxStreamed, saved <- listed

K == INSTANCE EventStream_proofs WITH
  Appenders <- {OneAppender}, MaxEvents <- MaxStreamed, saved <- listed

\* The stream of one session is that of the theorem in EventStream_proofs.
LEMMA SameStream ==
  /\ E!Init => N!Init
  /\ [E!Next]_(E!vars) => [N!Next]_(N!vars)
  /\ N!NoGap => E!NoGap
<1> USE DEF E!ToSet, N!ToSet, E!Events, N!Events, E!Idle, N!Idle,
        E!Off, N!Off, E!logVars, N!logVars, E!clientVars, N!clientVars,
        E!vars, N!vars
<1>1. E!Init => N!Init
      BY DEF E!Init, N!Init
<1>2. [E!Next]_(E!vars) => [N!Next]_(N!vars)
  <2>1. ASSUME NEW a, NEW s PROVE E!WriteLine(a, s) => N!WriteLine(a, s)
      BY DEF E!WriteLine, N!WriteLine
  <2>2. ASSUME NEW a PROVE E!FanOut(a) => N!FanOut(a)
      BY DEF E!FanOut, N!FanOut
  <2>3. ASSUME NEW s PROVE /\ E!Save(s) => N!Save(s)
                           /\ E!Clear(s) => N!Clear(s)
      BY DEF E!Save, N!Save, E!Clear, N!Clear
  <2>4. E!Connect => N!Connect
      BY DEF E!Connect, N!Connect
  <2>5. \A some, todo : E!Send(some, todo) => N!Send(some, todo)
    <3>1. \A buffer, replayed : E!Unsent(buffer, replayed) = N!Unsent(buffer, replayed)
        BY DEF E!Unsent, N!Unsent, E!Cardinality, N!Cardinality
    <3>. QED BY <3>1, Zenon DEF E!Send, N!Send
  <2>6. E!List => N!List
      BY <2>5 DEF E!List, N!List
  <2>7. E!Replay => N!Replay
    <3>1. \A s : E!Behind(s) = N!Behind(s)
        BY DEF E!Behind, N!Behind
    <3>. QED BY <2>5, <3>1 DEF E!Replay, N!Replay
  <2>8. E!Drop => N!Drop
      BY DEF E!Drop, N!Drop
  <2> QED BY <2>1, <2>2, <2>3, <2>4, <2>6, <2>7, <2>8 DEF E!Next, N!Next
<1>3. N!NoGap => E!NoGap
      BY Zenon DEF N!NoGap, E!NoGap
<1> QED BY <1>1, <1>2, <1>3

\* So is that of several sessions.
LEMMA SameStreams ==
  /\ M!Init => K!Init
  /\ [M!Next]_(M!vars) => [K!Next]_(K!vars)
  /\ K!NoGap => M!NoGap
<1> USE DEF M!ToSet, K!ToSet, M!Events, K!Events, M!Idle, K!Idle,
        M!Off, K!Off, M!logVars, K!logVars, M!clientVars, K!clientVars,
        M!vars, K!vars
<1>1. M!Init => K!Init
      BY DEF M!Init, K!Init
<1>2. [M!Next]_(M!vars) => [K!Next]_(K!vars)
  <2>1. ASSUME NEW a, NEW s PROVE M!WriteLine(a, s) => K!WriteLine(a, s)
      BY DEF M!WriteLine, K!WriteLine
  <2>2. ASSUME NEW a PROVE M!FanOut(a) => K!FanOut(a)
      BY DEF M!FanOut, K!FanOut
  <2>3. ASSUME NEW s PROVE /\ M!Save(s) => K!Save(s)
                           /\ M!Clear(s) => K!Clear(s)
      BY DEF M!Save, K!Save, M!Clear, K!Clear
  <2>4. M!Connect => K!Connect
      BY DEF M!Connect, K!Connect
  <2>5. \A some, todo : M!Send(some, todo) => K!Send(some, todo)
    <3>1. \A buffer, replayed : M!Unsent(buffer, replayed) = K!Unsent(buffer, replayed)
        BY DEF M!Unsent, K!Unsent, M!Cardinality, K!Cardinality
    <3>. QED BY <3>1, Zenon DEF M!Send, K!Send
  <2>6. M!List => K!List
      BY <2>5 DEF M!List, K!List
  <2>7. M!Replay => K!Replay
    <3>1. \A s : M!Behind(s) = K!Behind(s)
        BY DEF M!Behind, K!Behind
    <3>. QED BY <2>5, <3>1 DEF M!Replay, K!Replay
  <2>8. M!Drop => K!Drop
      BY DEF M!Drop, K!Drop
  <2> QED BY <2>1, <2>2, <2>3, <2>4, <2>6, <2>7, <2>8 DEF M!Next, K!Next
<1>3. K!NoGap => M!NoGap
      BY Zenon DEF K!NoGap, M!NoGap
<1> QED BY <1>1, <1>2, <1>3

\* The invariant of whichever stream the host was started with.
StreamsInv ==
  /\ chosen = "stream" => N!StreamInv
  /\ chosen = "streams" => K!StreamInv

\* It holds at the start.
LEMMA StreamsInit ==
  ASSUME HostInit
  PROVE  StreamsInv
<1>0. MaxStreamed \in Nat /\ MaxDrops \in Nat
      BY HostAssumption
<1>1. ASSUME chosen = "stream" PROVE N!StreamInv
  <2>1. E!Init
        BY <1>1 DEF HostInit
  <2> QED BY <1>0, <2>1, SameStream, N!StreamInit
<1>2. ASSUME chosen = "streams" PROVE K!StreamInv
  <2>1. M!Init
        BY <1>2 DEF HostInit
  <2> QED BY <1>0, <2>1, SameStreams, K!StreamInit
<1> QED BY <1>1, <1>2 DEF StreamsInv

\* Every step of the host keeps it.
LEMMA StreamsStep ==
  ASSUME StreamsInv, [HostNext]_hostVars
  PROVE  StreamsInv'
<1>0. MaxStreamed \in Nat /\ MaxDrops \in Nat
      BY HostAssumption
<1>1. chosen' = chosen
      BY DEF HostNext, hostVars
<1>2. ASSUME chosen = "stream" PROVE N!StreamInv'
  <2>1. [E!Next]_(E!vars)
        BY <1>2 DEF HostNext, hostVars, streamVars, E!vars, E!logVars, E!clientVars
  <2> QED BY <1>0, <1>2, <2>1, SameStream, N!StreamNext DEF StreamsInv
<1>3. ASSUME chosen = "streams" PROVE K!StreamInv'
  <2>1. [M!Next]_(M!vars)
        BY <1>3 DEF HostNext, hostVars, streamVars, M!vars, M!logVars, M!clientVars
  <2> QED BY <1>0, <1>3, <2>1, SameStreams, K!StreamNext DEF StreamsInv
<1> QED BY <1>1, <1>2, <1>3 DEF StreamsInv

\* A client of either stream that reconnects with the id it saw last has no gap
\* behind what it has.
THEOREM NoGapCorrect == HostSpec => []NoGap
<1>1. HostInit => StreamsInv
      BY StreamsInit
<1>2. StreamsInv /\ [HostNext]_hostVars => StreamsInv'
      BY StreamsStep
<1>3. StreamsInv => NoGap
      BY SameStream, SameStreams, N!StreamGivesNoGap, K!StreamGivesNoGap DEF StreamsInv, NoGap
<1> QED BY <1>1, <1>2, <1>3, PTL DEF HostSpec

-----------------------------------------------------------------------------
(* What the variables of a host hold.                                       *)

\* The types of the team store and of the streams are those of their own modules of
\* theorems.
LEMMA SameTypes ==
  /\ D!TypeOK => T!TypeOK
  /\ N!TypeOK => E!TypeOK
  /\ K!TypeOK => M!TypeOK
<1>1. D!TypeOK => T!TypeOK
      BY DEF D!TypeOK, T!TypeOK, D!Changes, T!Changes, D!Req, T!Req, D!Idle, T!Idle,
         D!Done, T!Done, D!Torn, T!Torn
<1>2. N!TypeOK => E!TypeOK
      BY DEF N!TypeOK, E!TypeOK, N!Events, E!Events, N!Idle, E!Idle, N!Stream, E!Stream
<1>3. K!TypeOK => M!TypeOK
      BY DEF K!TypeOK, M!TypeOK, K!Events, M!Events, K!Idle, M!Idle, K!Stream, M!Stream
<1> QED BY <1>1, <1>2, <1>3

\* The invariants of all components, and what is known of the two that need more
\* to be assumed for theirs.
TypesInv ==
  /\ LogInv /\ SaveInv /\ dir \in BOOLEAN /\ ensured \in BOOLEAN
  /\ StreamsInv /\ GuardInv /\ FailInv /\ TurnInv /\ ServerInv /\ HandInv /\ CapInv
  /\ D!TeamTypes /\ starts \in 1 .. MaxStarts

\* Every variable of the components of a host holds what the code can put there.
THEOREM TypesCorrect ==
  ASSUME IsFiniteSet(T!Changes), MaxStarts \in Nat \ {0}
  PROVE  HostSpec => []TypesOK
<1>0. D!IsFiniteSet(D!Changes)
  <2>1. IsFiniteSet(D!Changes) => D!IsFiniteSet(D!Changes)
        BY DEF IsFiniteSet, D!IsFiniteSet
  <2> QED BY <2>1, SameTeams
<1>1. HostInit => TypesInv
  <2> SUFFICES ASSUME HostInit PROVE TypesInv
      OBVIOUS
  <2>1. Init /\ A!Init /\ F!Init /\ O!Init /\ T!Init /\ S!Init /\ H!Init /\ C!Init
        BY DEF HostInit
  <2>2. LogInv /\ SaveInv /\ dir \in BOOLEAN /\ ensured \in BOOLEAN
    <3>1. dir = FALSE /\ ensured = FALSE
          BY <2>1 DEF Init
    <3> QED BY <2>1, <3>1, LogInit, SaveInit, Zenon
  <2>3. GuardInv /\ FailInv /\ ServerInv /\ HandInv /\ CapInv
        BY <2>1, GuardInit, FailInit, ServerInit, HandInit, CapInit
  <2>4. TurnInv
        BY <2>1, ObserverInit, Zenon DEF TurnInv, O!Init
  <2>5. D!TeamTypes
        BY <1>0, <2>1, SameTeams, D!TeamInit DEF D!TeamInv
  <2>6. starts \in 1 .. MaxStarts
        BY <2>1 DEF T!Init
  <2>7. StreamsInv
        BY StreamsInit
  <2> QED BY <2>2, <2>3, <2>4, <2>5, <2>6, <2>7 DEF TypesInv
<1>2. TypesInv /\ [HostNext]_hostVars => TypesInv'
  <2> SUFFICES ASSUME TypesInv, [HostNext]_hostVars PROVE TypesInv'
      OBVIOUS
  <2>1. LogInv' /\ SaveInv' /\ dir' \in BOOLEAN /\ ensured' \in BOOLEAN
        BY HostStep, LogStep, SaveStep, DirStep DEF TypesInv
  <2>2. GuardInv' /\ FailInv' /\ TurnInv' /\ ServerInv' /\ HandInv' /\ CapInv'
        BY HostStep, GuardStep, FailStep, TurnStep, ServerStep, HandStep, CapStep DEF TypesInv
  <2>3. StreamsInv'
        BY StreamsStep DEF TypesInv
  <2>4. [T!Next]_(T!vars)
        BY DEF HostNext, Stays, Components, hostVars, teamVars, T!vars, T!server, T!disk
  <2>5. D!TeamTypes' /\ starts' \in 1 .. MaxStarts
        BY <1>0, <2>4, SameTeams, D!TypesStep DEF TypesInv
  <2> QED BY <2>1, <2>2, <2>3, <2>5 DEF TypesInv
<1>3. TypesInv => TypesOK
  <2> SUFFICES ASSUME TypesInv PROVE TypesOK
      OBVIOUS
  <2>1. TypeOK
        BY FilesTyped DEF TypesInv
  <2>2. /\ chosen = "stream" => E!TypeOK
        /\ chosen = "streams" => M!TypeOK
        BY SameTypes DEF TypesInv, StreamsInv, N!StreamInv, K!StreamInv
  <2>3. A!TypeOK /\ F!TypeOK /\ O!TypeOK /\ S!TypeOK /\ H!TypeOK
        BY DEF TypesInv, GuardInv, FailInv, TurnInv, ObserverTypes, ServerInv, HandInv
  <2>4. T!TypeOK
        BY <1>0, SameTypes, D!TypesHold DEF TypesInv
  <2>5. C!TypeOK
        BY CapTypesOK DEF TypesInv
  <2> QED BY <2>1, <2>2, <2>3, <2>4, <2>5 DEF TypesOK
<1> QED BY <1>1, <1>2, <1>3, PTL DEF HostSpec

=============================================================================
