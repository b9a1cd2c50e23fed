------------------------------- MODULE Teams --------------------------------
(***************************************************************************)
(* The shared state of a team: the worklist and the messages of a project, *)
(* kept by TeamStore in one JSON file (packages/a8s-server/src/            *)
(* team-store.ts, routes/team.ts) for the tools of the team's agents       *)
(* (packages/worker-daemon/src/team-mode.ts).                              *)
(*                                                                         *)
(* A request makes one change: it adds a task, patches one or posts a      *)
(* message.  A state of the store is the set of changes it has seen.  The  *)
(* file system is names and inodes, because requests that overlap may      *)
(* write to one temporary file.                                            *)
(***************************************************************************)
EXTENDS Naturals, FiniteSets, SequencesExt

CONSTANTS
  Tasks,    \* tasks to add
  Patches,  \* [task, by]: claims and updates
  Posts,    \* messages to post
  Parallel, \* bound: requests under way at once
  MaxStarts \* bound: starts of the server

VARIABLES
  projects,   \* server: `projects`, and those that an overlapping load replaced
  seq,        \* server: seq
  req,        \* requests
  inodes,     \* disk: what each inode holds
  file,       \* disk: the inode of the store's file, 0 without one
  tmp,        \* disk: the inode of the temporary file of each seq
  starts,
  acked,      \* changes that were answered
  recent,     \* those answered since the server started
  calm,       \* no two requests were under way at once
  reloaded    \* a load ended after another one, since the server started

server == <<projects, seq, req>>
disk == <<inodes, file, tmp>>
vars == <<server, disk, starts, acked, recent, calm, reloaded>>

Changes == Tasks \cup Patches \cup Posts

\* A file that does not parse.
Torn == {"torn"}

Idle == [pc |-> "idle"]
Done == [pc |-> "done"]

\* found: what readFile read; of: the object that record refers to.
Req == [pc : {"load"}]
         \cup [pc : {"loaded"}, found : SUBSET Changes]
         \cup [pc : {"mkdir"}, of : Nat]
         \cup [pc : {"write"}, of : Nat, seq : Nat, inode : Nat, record : SUBSET Changes]
         \cup [pc : {"rename"}, seq : Nat]

Init ==
  /\ projects = <<>>
  /\ seq = 0
  /\ req = [c \in Changes |-> Idle]
  /\ inodes = <<>>
  /\ file = 0
  /\ tmp = [n \in 0 .. Cardinality(Changes) |-> 0]
  /\ starts = 1
  /\ acked = {}
  /\ recent = {}
  /\ calm = TRUE
  /\ reloaded = FALSE

UnderWay == {c \in Changes : req[c] \notin {Idle, Done}}

-----------------------------------------------------------------------------
(* A request *)

\* A change is made to the last of `states` at once, and persist() makes the
\* directory.  A patch of an unknown task is answered with 404.
Made(c, states) ==
  LET n == Len(states)
  IN  IF c \in Patches /\ c.task \notin states[n]
      THEN /\ projects' = states
           /\ req' = [req EXCEPT ![c] = Done]
           /\ UNCHANGED seq
      ELSE /\ projects' = [states EXCEPT ![n] = @ \cup {c}]
           /\ req' = [req EXCEPT ![c] = [pc |-> "mkdir", of |-> n]]
           /\ seq' = IF c \in Patches THEN seq ELSE seq + 1

\* addTask, patchTask or appendMessage, up to the first await.
Begin(c) ==
  /\ req[c] = Idle
  /\ Cardinality(UnderWay) < Parallel
  /\ IF projects # <<>> THEN Made(c, projects)
     ELSE /\ req' = [req EXCEPT ![c] = [pc |-> "load"]]
          /\ UNCHANGED <<projects, seq>>
  /\ calm' = (calm /\ UnderWay = {})
  /\ UNCHANGED <<disk, starts, acked, recent, reloaded>>

\* readFile: no file, or one that does not parse, is an empty store.
Read(c) ==
  /\ req[c].pc = "load"
  /\ req' = [req EXCEPT ![c] =
               [pc |-> "loaded",
                found |-> IF file = 0 \/ inodes[file] = Torn THEN {} ELSE inodes[file]]]
  /\ UNCHANGED <<projects, seq, disk, starts, acked, recent, calm, reloaded>>

\* ensureLoaded is over: every load replaces `projects`.
Load(c) ==
  /\ req[c].pc = "loaded"
  /\ Made(c, Append(projects, req[c].found))
  /\ reloaded' = (projects # <<>>)
  /\ UNCHANGED <<disk, starts, acked, recent, calm>>

\* Fault: the store's file is written in place.
Open_InPlace(c) ==
  /\ req[c].pc = "mkdir"
  /\ inodes' = IF file = 0 THEN Append(inodes, Torn) ELSE [inodes EXCEPT ![file] = Torn]
  /\ file' = IF file = 0 THEN Len(inodes) + 1 ELSE file
  /\ tmp' = [tmp EXCEPT ![seq] = file']
  /\ req' = [req EXCEPT ![c] = [pc |-> "write", of |-> @.of, seq |-> seq, inode |-> file',
                                record |-> projects[@.of]]]
  /\ UNCHANGED <<projects, seq, starts, acked, recent, calm, reloaded>>

\* The temporary file is named after seq as it is by now, and what it will
\* hold is settled.
Open(c) ==
  LET i == IF tmp[seq] = 0 THEN Len(inodes) + 1 ELSE tmp[seq]
  IN  /\ req[c].pc = "mkdir"
      /\ inodes' = IF tmp[seq] = 0 THEN Append(inodes, Torn) ELSE [inodes EXCEPT ![i] = Torn]
      /\ tmp' = [tmp EXCEPT ![seq] = i]
      /\ req' = [req EXCEPT ![c] = [pc |-> "write", of |-> @.of, seq |-> seq, inode |-> i,
                                    record |-> projects[@.of]]]
      /\ UNCHANGED <<projects, seq, file, starts, acked, recent, calm, reloaded>>

\* The bytes are there, wherever the file is by now.  Over those of another
\* request, some of which may stay, they need not parse.
Write(c) ==
  /\ req[c].pc = "write"
  /\ \E content \in {req[c].record} \cup (IF inodes[req[c].inode] = Torn THEN {} ELSE {Torn}) :
       inodes' = [inodes EXCEPT ![req[c].inode] = content]
  /\ req' = [req EXCEPT ![c] = [pc |-> "rename", seq |-> @.seq]]
  /\ UNCHANGED <<projects, seq, file, tmp, starts, acked, recent, calm, reloaded>>

\* rename, and the answer; it fails when another request renamed the file.
Rename(c) ==
  LET n == req[c].seq
  IN  /\ req[c].pc = "rename"
      /\ req' = [req EXCEPT ![c] = Done]
      /\ \/ /\ tmp[n] # 0
            /\ file' = tmp[n]
            /\ tmp' = [tmp EXCEPT ![n] = 0]
            /\ acked' = acked \cup {c}
            /\ recent' = recent \cup {c}
         \/ /\ tmp[n] = 0
            /\ UNCHANGED <<file, tmp, acked, recent>>
      /\ UNCHANGED <<projects, seq, inodes, starts, calm, reloaded>>

\* The server dies and is started again; temporary files stay.
Restart ==
  /\ starts < MaxStarts
  /\ starts' = starts + 1
  /\ projects' = <<>>
  /\ seq' = 0
  /\ req' = [c \in Changes |-> IF c \in UnderWay THEN Done ELSE req[c]]
  /\ recent' = {}
  /\ reloaded' = FALSE
  /\ UNCHANGED <<disk, acked, calm>>

Next ==
  \/ \E c \in Changes : Begin(c) \/ Read(c) \/ Load(c) \/ Open(c) \/ Write(c) \/ Rename(c)
  \/ Restart

Spec == Init /\ [][Next]_vars

-----------------------------------------------------------------------------
(* Properties *)

\* The variables hold what the code can put there.
TypeOK ==
  /\ projects \in Seq(SUBSET Changes)
  /\ seq \in DOMAIN tmp
  /\ req \in [Changes -> Req \cup {Idle, Done}]
  /\ inodes \in Seq((SUBSET Changes) \cup {Torn})
  /\ file \in 0 .. Len(inodes)
  /\ \A n \in DOMAIN tmp : tmp[n] \in 0 .. Len(inodes)
  /\ starts \in 1 .. MaxStarts
  /\ recent \subseteq acked /\ acked \subseteq Changes
  /\ calm \in BOOLEAN /\ reloaded \in BOOLEAN

\* What a tool reported as done (team-mode.ts: "delivered", "claimed") is there
\* when a teammate is woken and looks.  The running server has every change it
\* answered, unless requests loaded the store side by side when it started;
\* the file has them too, and survives a death of the server at any moment,
\* unless requests overlapped: those write to each other's temporary files,
\* and rename them in either order.
AckedIsKept ==
  /\ projects # <<>> /\ ~reloaded => recent \subseteq Last(projects)
  /\ calm /\ acked # {} => file # 0 /\ inodes[file] # Torn /\ acked \subseteq inodes[file]

=============================================================================
