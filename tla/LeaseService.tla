---------------------------- MODULE LeaseService ----------------------------
(***************************************************************************)
(* What the lease table of RuntimeOrchestrator promises its callers,       *)
(* without tables, states or reaping: at any time a set of grants, at most *)
(* one per agent, each good until its deadline.  A grant vanishes at its   *)
(* deadline by itself; before it, only because it is released or because   *)
(* the worker that serves it leaves.                                       *)
(***************************************************************************)
EXTENDS Integers

CONSTANTS Agents, Holders, Workers, NoWorker, Ttls

VARIABLES
  now,   \* the shared clock
  held   \* the grants in force

Grants == [agent : Agents, holder : Holders, worker : Workers \cup {NoWorker},
           until : Nat]

Init == now = 0 /\ held = {}

Tick ==
  /\ now' = now + 1
  /\ held' = {g \in held : g.until > now + 1}

\* Only an agent nobody holds can be granted.
Grant(a, h, w, ttl) ==
  /\ \A g \in held : g.agent # a
  /\ held' = held \cup {[agent |-> a, holder |-> h, worker |-> w,
                         until |-> now + ttl]}
  /\ now' = now

\* A renewal moves the deadline of one grant in force and nothing else.
Renew(g, ttl) ==
  /\ held' = (held \ {g}) \cup {[g EXCEPT !.until = now + ttl]}
  /\ now' = now

Release(g) ==
  /\ held' = held \ {g}
  /\ now' = now

\* All the grants of the workers that leave go together.
Revoke(gone) ==
  /\ held' = {g \in held : g.worker \notin gone}
  /\ now' = now

Next ==
  \/ Tick
  \/ \E a \in Agents, h \in Holders, w \in Workers \cup {NoWorker}, ttl \in Ttls :
       Grant(a, h, w, ttl)
  \/ \E g \in held, ttl \in Ttls : Renew(g, ttl)
  \/ \E g \in held : Release(g)
  \/ \E gone \in SUBSET Workers : Revoke(gone)

Spec == Init /\ [][Next]_<<now, held>>

=============================================================================
