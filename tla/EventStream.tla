---------------------------- MODULE EventStream -----------------------------
(***************************************************************************)
(* The live event stream of an agent: FileEventLogStore's append and       *)
(* fanOut, WorkerDaemon.handleEventStream with its replay, and a client    *)
(* that reconnects with the id it saw last                                 *)
(* (packages/core/src/event-log/jsonl-store.ts, worker-daemon/src/         *)
(* daemon.ts, client/src/agent-handle.ts).                                 *)
(*                                                                         *)
(* An event is a number.  A session is known to the session store once it  *)
(* was saved, which happens after its first events.  a8s relays the stream *)
(* byte by byte and is left out.                                           *)
(***************************************************************************)
EXTENDS Naturals, FiniteSets, SequencesExt

CONSTANTS
  Sessions,
  Appenders,   \* callers of append() that do not wait for one another
  Everything,  \* no ?session= filter
  MaxEvents,   \* bound: events appended
  MaxDrops     \* bound: connections lost

VARIABLES
  log,      \* events.jsonl of each session
  unlisted, \* events a session had before it was first saved
  saved,    \* sessions the session store lists
  count,    \* events so far
  append,   \* each caller's event that is in the file and not fanned out
  overtaken, \* events that were not fanned out when a later one was written
  stream,   \* the server's side of the connection
  wire,     \* events written to it
  got,      \* events the client received on earlier connections
  last,     \* the id of the last one of them, 0 before
  filter,   \* what the client asked for
  drops

logVars == <<log, unlisted, saved, count, append, overtaken>>
clientVars == <<got, last, filter>>
vars == <<logVars, stream, wire, clientVars, drops>>

Events == 1 .. MaxEvents

Idle == [pc |-> "idle"]

\* from: Last-Event-ID; todo: sessions to replay; buffer: liveBuffer;
\* replayed: replayedIds.
Stream == [pc : {"off", "list", "replay", "live"}, from : Events \cup {0},
           todo : SUBSET Sessions, buffer : Seq(Events), replayed : SUBSET Events]

Off == [pc |-> "off", from |-> 0, todo |-> {}, buffer |-> <<>>, replayed |-> {}]

Init ==
  /\ log = [s \in Sessions |-> <<>>]
  /\ unlisted = [s \in Sessions |-> {}]
  /\ saved \in SUBSET Sessions  \* those that were cleared before
  /\ count = 0
  /\ append = [a \in Appenders |-> Idle]
  /\ overtaken = {}
  /\ stream = Off
  /\ wire = <<>>
  /\ got = {}
  /\ last = 0
  /\ filter \in Sessions \cup {Everything}
  /\ drops = 0

-----------------------------------------------------------------------------
(* The agent *)

\* append, up to appendFile's answer: the line is in the file.
WriteLine(a, s) ==
  /\ append[a] = Idle
  /\ count < MaxEvents
  /\ count' = count + 1
  /\ log' = [log EXCEPT ![s] = Append(@, count + 1)]
  /\ unlisted' = [unlisted EXCEPT ![s] = IF s \in saved THEN @ ELSE @ \cup {count + 1}]
  /\ append' = [append EXCEPT ![a] = [pc |-> "fanOut", session |-> s, event |-> count + 1]]
  /\ overtaken' = overtaken \cup {append[b].event : b \in {c \in Appenders : append[c] # Idle}}
  /\ UNCHANGED <<saved, stream, wire, clientVars, drops>>

\* fanOut: the listener buffers the event until the replay is over.
FanOut(a) ==
  LET e == append[a].event
      listens == filter \in {Everything, append[a].session}
  IN  /\ append[a].pc = "fanOut"
      /\ append' = [append EXCEPT ![a] = Idle]
      /\ stream' = IF listens /\ stream.pc \in {"list", "replay"}
                   THEN [stream EXCEPT !.buffer = Append(@, e)] ELSE stream
      /\ wire' = IF listens /\ stream.pc = "live" THEN Append(wire, e) ELSE wire
      /\ UNCHANGED <<log, unlisted, saved, count, overtaken, clientVars, drops>>

\* The first save of a session, once its first event is in the log.
Save(s) ==
  /\ log[s] # <<>>
  /\ s \notin saved
  /\ saved' = saved \cup {s}
  /\ UNCHANGED <<log, unlisted, count, append, overtaken, stream, wire, clientVars, drops>>

\* clearSession: the log is unlinked, and the session stays.
Clear(s) ==
  /\ log[s] # <<>>
  /\ log' = [log EXCEPT ![s] = <<>>]
  /\ saved' = saved \cup {s}
  /\ UNCHANGED <<unlisted, count, append, overtaken, stream, wire, clientVars, drops>>

-----------------------------------------------------------------------------
(* The daemon *)

\* handleEventStream, up to its first await: it listens before it reads.
Connect ==
  /\ stream.pc = "off"
  /\ stream' = [Off EXCEPT !.from = last, !.pc = IF filter = Everything THEN "list" ELSE "replay",
                           !.todo = IF filter = Everything THEN {} ELSE {filter}]
  /\ UNCHANGED <<logVars, wire, clientVars, drops>>

\* What was buffered and not replayed, in the order in which it was buffered.
Unsent(buffer, replayed) ==
  LET kept == {i \in DOMAIN buffer : buffer[i] \notin replayed}
      Place(i) == Cardinality({j \in kept : j <= i})
  IN  [n \in 1 .. Cardinality(kept) |-> buffer[CHOOSE i \in kept : Place(i) = n]]

\* What is sent next, and, when nothing is left to replay, what was buffered;
\* the ids are forgotten then.
Send(events, todo) ==
  LET replayed == stream.replayed \cup ToSet(events)
  IN  IF todo # {}
      THEN /\ wire' = wire \o events
           /\ stream' = [stream EXCEPT !.pc = "replay", !.todo = todo, !.replayed = replayed]
      ELSE /\ wire' = wire \o events \o Unsent(stream.buffer, replayed)
           /\ stream' = [Off EXCEPT !.pc = "live"]

\* listSessionViews: the sessions of the session store.
List ==
  /\ stream.pc = "list"
  /\ Send(<<>>, saved)
  /\ UNCHANGED <<logVars, clientVars, drops>>

\* Fault: an id of another session ends the replay of this one at once.
Behind_Nothing(s) ==
  IF stream.from \in ToSet(log[s])
  THEN SubSeq(log[s], (CHOOSE i \in DOMAIN log[s] : log[s][i] = stream.from) + 1, Len(log[s]))
  ELSE IF stream.from = 0 THEN log[s] ELSE <<>>

\* The events behind Last-Event-ID, or all of them when it is not in this log.
Behind(s) ==
  IF stream.from \in ToSet(log[s])
  THEN SubSeq(log[s], (CHOOSE i \in DOMAIN log[s] : log[s][i] = stream.from) + 1, Len(log[s]))
  ELSE log[s]

\* getSessionEvents of one session, and everything written after it.
Replay ==
  /\ stream.pc = "replay"
  /\ \E s \in stream.todo : Send(Behind(s), stream.todo \ {s})
  /\ UNCHANGED <<logVars, clientVars, drops>>

-----------------------------------------------------------------------------
(* The client *)

\* The connection breaks: the client has received some of what was written to
\* it, and the daemon unsubscribes.
Drop ==
  /\ stream.pc # "off"
  /\ drops < MaxDrops
  /\ drops' = drops + 1
  /\ \E n \in 0 .. Len(wire) :
       /\ got' = got \cup ToSet(SubSeq(wire, 1, n))
       /\ last' = IF n = 0 THEN last ELSE wire[n]
  /\ stream' = Off
  /\ wire' = <<>>
  /\ UNCHANGED <<logVars, filter>>

Next ==
  \/ \E a \in Appenders : FanOut(a) \/ \E s \in Sessions : WriteLine(a, s)
  \/ \E s \in Sessions : Save(s) \/ Clear(s)
  \/ Connect \/ List \/ Replay \/ Drop

Spec == Init /\ [][Next]_vars

-----------------------------------------------------------------------------
(* Properties *)

\* The variables hold what the code can put there.
TypeOK ==
  /\ log \in [Sessions -> Seq(Events)]
  /\ unlisted \in [Sessions -> SUBSET Events]
  /\ saved \subseteq Sessions
  /\ count \in 0 .. MaxEvents
  /\ append \in [Appenders -> [pc : {"fanOut"}, session : Sessions, event : Events]
                                \cup {Idle}]
  /\ overtaken \subseteq Events
  /\ stream \in Stream
  /\ wire \in Seq(Events)
  /\ got \subseteq Events
  /\ last \in Events \cup {0}
  /\ filter \in Sessions \cup {Everything}
  /\ drops \in 0 .. MaxDrops

\* daemon.ts:798, "this makes drops invisible to a well-behaved EventSource
\* client that retries with its last seen id": whatever is appended, saved or
\* cleared around a replay, an event that the client has means that it has the
\* events before it, too.  Two exceptions: appends that did not wait for one
\* another reach the listener in either order, so that the id seen last may be
\* ahead of one that is still to come; and a stream without a filter lacks the
\* first events of a session that was not saved when it began.
NoGap ==
  \A n \in 0 .. Len(wire) :
    LET has == got \cup ToSet(SubSeq(wire, 1, n))
    IN  \A s \in Sessions : \A j \in DOMAIN log[s] : \A i \in 1 .. j - 1 :
          log[s][j] \in has =>
            \/ log[s][i] \in has
            \/ log[s][i] \in overtaken
            \/ filter = Everything /\ log[s][i] \in unlisted[s]

=============================================================================
