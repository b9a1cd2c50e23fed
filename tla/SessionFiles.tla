---------------------------- MODULE SessionFiles ----------------------------
(***************************************************************************)
(* The directory of one session: events.jsonl, written by                  *)
(* FileEventLogStore, messages.json and metadata.json, written by          *)
(* FileSessionStore through writeJsonAtomic (packages/core/src/event-log,  *)
(* session/file-store.ts, atomic-write.ts), and the conversation that      *)
(* DefaultContextStrategy rebuilds from the log.                           *)
(*                                                                         *)
(* The log is modelled line by line.  A process that dies in the middle of *)
(* a write leaves an unterminated line, and the next append continues it.  *)
(* Events are named by their place in `events`, the order in which they    *)
(* were handed to the store.  A version of the session is a number.        *)
(***************************************************************************)
EXTENDS Integers, FiniteSets, SequencesExt

CONSTANTS
  Savers,      \* the caller of save and clearSession; saves that overlap
               \* write the same temporary file and are left out
  MaxEvents,   \* bound: events handed to the log
  MaxSaves,    \* bound: versions of the session
  MaxCrashes,  \* bound: deaths of the process
  MaxCalls,    \* bound: tool calls of one response
  LinesPerEvent  \* lines that a read from the end keeps for each event asked
                 \* for: 4 in the code

ASSUME SessionFilesAssumption ==
  /\ MaxEvents \in Nat /\ MaxSaves \in Nat /\ MaxCrashes \in Nat
  /\ MaxCalls \in Nat /\ LinesPerEvent \in Nat
  /\ IsFiniteSet(Savers) /\ Cardinality(Savers) <= 1

VARIABLES
  lines,     \* events.jsonl: its lines
  events,    \* what was handed to append and appendBatch
  heard,     \* events that listeners were given since the log was cleared
  writing,   \* events of the append in flight
  turn,      \* what the turn says next, and its calls without a result
  files,     \* messages.json and metadata.json: content and .tmp
  dir,       \* whether the session directory exists
  ensured,   \* ensuredDirs has the session
  version,   \* versions handed to save
  saved,     \* the last version whose save resolved, no deletion meanwhile
  calls,     \* saves and clears in flight
  crashes

logVars == <<lines, events, heard, writing, turn>>
fileVars == <<files, version, saved, calls>>
vars == <<logVars, fileVars, dir, ensured, crashes>>

Names == {"messages", "metadata"}

\* whole: the last event's JSON is complete; ended: the line is terminated.
Line == [evs : Seq(1 .. MaxEvents), whole : BOOLEAN, ended : BOOLEAN]

Asks == (1 .. MaxEvents) \X (1 .. MaxCalls)

EventKinds ==
  [type : {"user", "snapshot"}] \cup [type : {"assistant"}, uses : SUBSET Asks]
    \cup [type : {"result"}, call : Asks]

\* Contents of a JSON file: 0 is no file, -1 one that was written half.
Content == -1 .. MaxSaves

Call == [op : {"save", "clear"}, file : Names, version : 1 .. MaxSaves,
         alone : BOOLEAN,   \* no deletion meanwhile
         pc : {"load", "truncate", "write", "rename"}]

Idle == [pc |-> "idle"]

At(next, open) == [next |-> next, open |-> open]

Init ==
  /\ lines = <<>>
  /\ events = <<>>
  /\ heard = {}
  /\ writing = <<>>
  /\ turn = At("user", {})
  /\ files = [n \in Names |-> [content |-> 0, tmp |-> 0]]
  /\ dir = FALSE
  /\ ensured = FALSE
  /\ version = 0
  /\ saved = 0
  /\ calls = [s \in Savers |-> Idle]
  /\ crashes = 0

-----------------------------------------------------------------------------
(* Lines *)

\* What is appended continues a line that was left unterminated.
Write(file, added) ==
  IF added = <<>> THEN file
  ELSE IF file # <<>> /\ ~Last(file).ended
  THEN Append(Front(file), [evs |-> Last(file).evs \o added[1].evs,
                            whole |-> added[1].whole, ended |-> added[1].ended])
         \o Tail(added)
  ELSE file \o added

Whole(evs) == [i \in DOMAIN evs |-> [evs |-> <<evs[i]>>, whole |-> TRUE, ended |-> TRUE]]

\* A write that stopped: some whole lines, then one without its end.
Stopped(evs, k, whole) ==
  Append(SubSeq(Whole(evs), 1, k), [evs |-> <<evs[k + 1]>>, whole |-> whole, ended |-> FALSE])

Torn(evs) == {Stopped(evs, k, whole) : k \in 0 .. Len(evs) - 1, whole \in BOOLEAN}

\* parseLine: a line with anything but one complete event is skipped.
Parses(line) == Len(line.evs) = 1 /\ line.whole

Typed(line, types) == Parses(line) /\ events[line.evs[1]].type \in types

AllTypes == {"user", "assistant", "result", "snapshot"}

\* What reading the lines one after the other finds.
Found(types, found, line) ==
  IF Typed(line, types) THEN Append(found, line.evs[1]) ELSE found

EventsIn(ls, types) == FoldLeft(LAMBDA found, line : Found(types, found, line), <<>>, ls)

\* Fault: reading ends at the first line that does not parse.
Forward_StopsAtTorn(types) ==
  LET bad == {i \in DOMAIN lines : ~Parses(lines[i])}
      n == IF bad = {} THEN Len(lines) ELSE (CHOOSE i \in bad : \A j \in bad : i <= j) - 1
  IN  EventsIn(SubSeq(lines, 1, n), types)

\* getForwardEvents
Forward(types) == EventsIn(lines, types)

Smaller(i, j) == IF i < j THEN i ELSE j

Newest(s, n) == SubSeq(s, Len(s) - Smaller(n, Len(s)) + 1, Len(s))

\* readTailLines reads backwards, in chunks, down to line `from`.  It stops at
\* any line when it has read maxBytes; or when it has seen `limit` lines that
\* may match: without a filter all of them, with one those that say one of its
\* types somewhere, and lines that do not parse and events that quote an event
\* can do so as well; or else at line 1.
Scanned(from) == SubSeq(lines, from, Len(lines))

\* getTailEvents: of the lines scanned the newest are kept, a number of them
\* for each event asked for, whatever they say; then they are parsed.
TailOf(types, limit, from) ==
  Newest(EventsIn(Newest(Scanned(from), LinesPerEvent * limit), types), limit)

Readable == ToSet(Forward(AllTypes))

-----------------------------------------------------------------------------
(* The event log *)

\* What a turn hands to the log next: its user message, responses, the
\* results of their calls in any order, and a snapshot when it ends.
NextEvents ==
  CASE turn.next = "assistant" ->
         [type : {"assistant"}, uses : {{Len(events) + 1} \X (1 .. k) : k \in 0 .. MaxCalls}]
    [] turn.next = "result" -> [type : {"result"}, call : turn.open]
    [] OTHER -> [type : {turn.next}]

After(e) ==
  CASE e.type = "user" -> At("assistant", {})
    [] e.type = "assistant" -> IF e.uses = {} THEN At("snapshot", {}) ELSE At("result", e.uses)
    [] e.type = "snapshot" -> At("user", {})
    [] e.type = "result" -> IF turn.open = {e.call} THEN At("assistant", {})
                            ELSE At("result", turn.open \ {e.call})

\* append(), up to appendFile: ensureDir makes the directory only once.
BeginAppend(e) ==
  /\ writing = <<>>
  /\ Len(events) < MaxEvents
  /\ e \in NextEvents
  /\ events' = Append(events, e)
  /\ turn' = After(e)
  /\ writing' = <<Len(events) + 1>>
  /\ dir' = (dir \/ ~ensured)
  /\ ensured' = TRUE
  /\ UNCHANGED <<lines, heard, fileVars, crashes>>

\* appendBatch: the events of a write that are still to come join it.
JoinBatch(e) ==
  /\ writing # <<>>
  /\ Len(events) < MaxEvents
  /\ e \in NextEvents
  /\ events' = Append(events, e)
  /\ turn' = After(e)
  /\ writing' = Append(writing, Len(events) + 1)
  /\ UNCHANGED <<lines, heard, fileVars, dir, ensured, crashes>>

\* appendFile succeeds and the listeners are told; it fails when the directory
\* is gone, and so does the turn.
EndAppend ==
  /\ writing # <<>>
  /\ writing' = <<>>
  /\ \/ /\ dir
        /\ lines' = Write(lines, Whole(writing))
        /\ heard' = heard \cup ToSet(writing)
        /\ UNCHANGED turn
     \/ /\ ~dir
        /\ turn' = At("user", {})
        /\ UNCHANGED <<lines, heard>>
  /\ UNCHANGED <<events, fileVars, dir, ensured, crashes>>

-----------------------------------------------------------------------------
(* The session store *)

\* save(): messages.json first, then metadata.json.
BeginSave(s) ==
  /\ calls[s] = Idle
  /\ version < MaxSaves
  /\ version' = version + 1
  /\ dir' = TRUE
  /\ calls' = [calls EXCEPT ![s] = [op |-> "save", file |-> "messages",
                                    version |-> version + 1, alone |-> TRUE, pc |-> "truncate"]]
  /\ UNCHANGED <<logVars, files, saved, ensured, crashes>>

\* clearSession: the log goes first; then an empty session is saved.
BeginClear(s) ==
  /\ calls[s] = Idle
  /\ version < MaxSaves
  /\ version' = version + 1
  /\ lines' = <<>>
  /\ heard' = {}
  /\ calls' = [calls EXCEPT ![s] = [op |-> "clear", file |-> "messages",
                                    version |-> version + 1, alone |-> TRUE, pc |-> "load"]]
  /\ UNCHANGED <<events, writing, turn, files, saved, dir, ensured, crashes>>

Load(s) ==
  /\ calls[s].pc = "load"
  /\ dir' = TRUE
  /\ calls' = [calls EXCEPT ![s].pc = "truncate"]
  /\ UNCHANGED <<logVars, files, version, saved, ensured, crashes>>

\* Fault: the file is written in place.
Truncate_InPlace(s) ==
  /\ calls[s].pc = "truncate"
  /\ files' = [files EXCEPT ![calls[s].file].tmp = -1, ![calls[s].file].content = -1]
  /\ calls' = [calls EXCEPT ![s].pc = "write"]
  /\ UNCHANGED <<logVars, version, saved, dir, ensured, crashes>>

\* writeFile opens the temporary file, or fails without its directory.
Truncate(s) ==
  LET call == calls[s]
  IN  /\ call.pc = "truncate"
      /\ \/ /\ dir
            /\ files' = [files EXCEPT ![call.file].tmp = -1]
            /\ calls' = [calls EXCEPT ![s].pc = "write"]
         \/ /\ ~dir
            /\ calls' = [calls EXCEPT ![s] = Idle]
            /\ UNCHANGED files
      /\ UNCHANGED <<logVars, version, saved, dir, ensured, crashes>>

\* The content is there; into a file that was unlinked it goes unseen.
Fill(s) ==
  LET call == calls[s]
  IN  /\ call.pc = "write"
      /\ files' = [files EXCEPT ![call.file].tmp = IF @ = 0 THEN 0 ELSE call.version]
      /\ calls' = [calls EXCEPT ![s].pc = "rename"]
      /\ UNCHANGED <<logVars, version, saved, dir, ensured, crashes>>

\* rename moves whatever the temporary file holds by now, or fails.
Rename(s) ==
  LET call == calls[s]
      file == files[call.file]
  IN  /\ call.pc = "rename"
      /\ \/ /\ file.tmp # 0
            /\ files' = [files EXCEPT ![call.file] = [content |-> file.tmp, tmp |-> 0]]
            /\ IF call.file = "messages"
               THEN /\ calls' = [calls EXCEPT ![s].file = "metadata", ![s].pc = "truncate"]
                    /\ dir' = TRUE
                    /\ UNCHANGED saved
               ELSE /\ calls' = [calls EXCEPT ![s] = Idle]
                    /\ saved' = IF call.alone THEN call.version ELSE saved
                    /\ UNCHANGED dir
         \/ /\ file.tmp = 0
            /\ calls' = [calls EXCEPT ![s] = Idle]
            /\ UNCHANGED <<files, saved, dir>>
      /\ UNCHANGED <<logVars, version, ensured, crashes>>

\* Fault: the temporary files are forgotten.
Delete_NoTmp ==
  /\ dir
  /\ dir' = FALSE
  /\ lines' = <<>>
  /\ heard' = {}
  /\ files' = [n \in Names |-> [content |-> 0]]
  /\ saved' = 0
  /\ UNCHANGED <<events, writing, turn, version, calls, ensured, crashes>>

\* deleteSession, at any moment: the directory goes with everything in it.
Delete ==
  /\ dir
  /\ dir' = FALSE
  /\ lines' = <<>>
  /\ heard' = {}
  /\ files' = [n \in Names |-> [content |-> 0, tmp |-> 0]]
  /\ saved' = 0
  /\ calls' = [s \in Savers |-> IF calls[s] = Idle THEN Idle
                                ELSE [calls[s] EXCEPT !.alone = FALSE]]
  /\ UNCHANGED <<events, writing, turn, version, ensured, crashes>>

-----------------------------------------------------------------------------

\* The process dies, possibly in the middle of a write, and is started again.
Crash ==
  /\ crashes < MaxCrashes
  /\ crashes' = crashes + 1
  /\ lines' \in {lines} \cup (IF dir THEN {Write(lines, t) : t \in Torn(writing)} ELSE {})
  /\ writing' = <<>>
  /\ turn' = At("user", {})
  /\ ensured' = FALSE
  /\ calls' = [s \in Savers |-> Idle]
  /\ UNCHANGED <<events, heard, files, dir, version, saved>>

Next ==
  \/ \E e \in NextEvents : BeginAppend(e) \/ JoinBatch(e)
  \/ EndAppend
  \/ \E s \in Savers :
       BeginSave(s) \/ BeginClear(s) \/ Load(s) \/ Truncate(s) \/ Fill(s) \/ Rename(s)
  \/ Delete
  \/ Crash

Spec == Init /\ [][Next]_vars

-----------------------------------------------------------------------------
(* DefaultContextStrategy *)

Message == [role : {"user", "assistant"}, uses : SUBSET Asks, results : SUBSET Asks,
            text : BOOLEAN]

Says(role, uses, results, text) ==
  [role |-> role, uses |-> uses, results |-> results, text |-> text]

\* messages_snapshot: the conversation of a turn that ended.
Base == <<Says("user", {}, {}, TRUE), Says("assistant", {}, {}, TRUE)>>

\* A result joins the results before it; anything else is a message.
Replayed(ms, e) ==
  CASE e.type = "user" -> Append(ms, Says("user", {}, {}, TRUE))
    [] e.type = "assistant" -> Append(ms, Says("assistant", e.uses, {}, TRUE))
    [] e.type = "result" ->
         IF ms # <<>> /\ Last(ms).role = "user" /\ ~Last(ms).text
         THEN Append(Front(ms), [Last(ms) EXCEPT !.results = @ \cup {e.call}])
         ELSE Append(ms, Says("user", {}, {e.call}, FALSE))

\* Calls of message i whose results are not right behind it.
Missing(ms, i) ==
  ms[i].uses \ (IF i < Len(ms) /\ ms[i + 1].role = "user" THEN ms[i + 1].results ELSE {})

Displaced(ms, j) == ms[j].results \cap UNION {Missing(ms, i) : i \in 1 .. j - 2}

\* Each message without its results that are displaced.
Sifted(ms) == [j \in DOMAIN ms |-> [ms[j] EXCEPT !.results = @ \ Displaced(ms, j)]]

Emptied(m) == m.uses = {} /\ m.results = {} /\ ~m.text

\* Message m follows `out`, with the results its predecessor lacks; a message
\* that lost its last result is spliced out.
Placed(out, m) ==
  LET lacks == IF out = <<>> THEN {} ELSE Last(out).uses
  IN  IF Emptied(m) THEN out
      ELSE IF m.role = "user" THEN Append(out, [m EXCEPT !.results = @ \cup lacks])
      ELSE IF lacks = {} THEN Append(out, m)
      ELSE out \o <<Says("user", {}, lacks, FALSE), m>>

\* Fault: a result that came late stays where it is.
Repaired_LateOnly(ms) ==
  FoldLeft(LAMBDA out, m : IF Emptied(m) THEN out ELSE Append(out, m), <<>>, Sifted(ms))

\* repairOrphanToolUses: displaced results move up to their calls, calls
\* without one get a synthetic result.
Repaired(ms) ==
  LET out == FoldLeft(Placed, <<>>, Sifted(ms))
  IN  IF out # <<>> /\ Last(out).uses # {}
      THEN Append(out, Says("user", {}, Last(out).uses, FALSE)) ELSE out

\* mergeAdjacentMessages
Merged(out, m) ==
  IF out # <<>> /\ Last(out).role = m.role
  THEN Append(Front(out), Says(m.role, Last(out).uses \cup m.uses,
                               Last(out).results \cup m.results, Last(out).text \/ m.text))
  ELSE Append(out, m)

\* buildMessages: from the newest snapshot on.
Rebuilt ==
  LET found == Forward(AllTypes)
      log == [i \in DOMAIN found |-> events[found[i]]]
      snaps == {i \in DOMAIN log : log[i].type = "snapshot"}
      from == IF snaps = {} THEN 0 ELSE CHOOSE i \in snaps : \A j \in snaps : j <= i
      raw == FoldLeft(Replayed, IF snaps = {} THEN <<>> ELSE Base,
                      SubSeq(log, from + 1, Len(log)))
  IN  FoldLeft(Merged, <<>>, Repaired(raw))

-----------------------------------------------------------------------------
(* Properties *)

\* The variables hold what the code can put there.
TypeOK ==
  /\ lines \in Seq(Line)
  /\ events \in Seq(EventKinds) /\ Len(events) <= MaxEvents
  /\ heard \subseteq DOMAIN events
  /\ writing \in Seq(DOMAIN events)
  /\ turn \in [next : {"user", "assistant", "result", "snapshot"}, open : SUBSET Asks]
  /\ files \in [Names -> [content : Content, tmp : Content]]
  /\ dir \in BOOLEAN /\ ensured \in BOOLEAN
  /\ version \in 0 .. MaxSaves /\ saved \in 0 .. MaxSaves
  /\ calls \in [Savers -> Call \cup {Idle}]
  /\ crashes \in 0 .. MaxCrashes

\* A death of the process in the middle of a write costs at most one event
\* that listeners have seen, the next one, however many follow: readers skip
\* what does not parse and go on behind it (jsonl-store.ts:269).  types.ts:349
\* promises that it costs none, see HeardIsReadable.
OneLossPerCrash == Cardinality(heard \ Readable) <= crashes

\* types.ts:349: listeners fire after the append succeeded, "so what the
\* listener sees and what getEvents() will return on a later read are
\* guaranteed consistent".  It is not so for the event that was appended
\* behind a torn line.
HeardIsReadable == heard \subseteq Readable

\* A tail read, wherever it stops, returns the end of what a full read returns,
\* around torn and continued lines as well, and never an event of the middle.
\* types.ts:306, "only the newest N matching events", promises all N of them.
\* They are all there if the read came to the first line or found as many before
\* it stopped, and had no more lines than it keeps.  There are fewer, against
\* types.ts:306, when newer lines of other types crowd them out of those kept
\* (jsonl-store.ts:239) or when the read stopped at lines that only may have
\* matched (jsonl-store.ts:234); and with types.ts:308 when it stopped at maxBytes.
TailAgrees ==
  \A types \in {AllTypes, {"user"}, {"assistant", "result"}}, limit \in 1 .. 2,
     from \in 1 .. Len(lines) + 1 :
    LET tail == TailOf(types, limit, from)
    IN  /\ tail = Newest(Forward(types), Len(tail))
        /\ \/ from = 1
           \/ Len(EventsIn(Scanned(from), types)) >= limit
           => \/ Len(tail) = Smaller(limit, Len(Forward(types)))
              \/ Len(Scanned(from)) > LinesPerEvent * limit

\* atomic-write.ts:38: "a crash mid-save leaves either the old file intact or
\* the new file fully written": with one save at a time, a session whose save
\* was answered loads, from files no older than that, until it is deleted.
SavedSurvives ==
  \A n \in Names : files[n].content # -1 /\ files[n].content >= saved

\* context-builder.ts:44, "messages suitable for the provider": whatever lines
\* the log has lost, each tool call of the rebuilt conversation has its result
\* right behind it.
RebuiltIsPaired ==
  LET messages == Rebuilt
  IN  \A i \in DOMAIN messages :
        messages[i].uses # {} =>
          /\ i < Len(messages)
          /\ messages[i + 1].role = "user"
          /\ messages[i].uses \subseteq messages[i + 1].results

=============================================================================
