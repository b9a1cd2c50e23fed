------------------------ MODULE SessionFiles_proofs -------------------------
(***************************************************************************)
(* The invariants of SessionFiles, for every number of events, callers and *)
(* crashes: SaveInv of session.json, LogInv of the event log, and what is  *)
(* rebuilt from it.  Host_proofs concludes from them.                      *)
(*                                                                         *)
(* What a loop over a sequence leaves (the lines of a log, the messages of *)
(* a conversation) is known from the value after each of its steps:        *)
(* Stepwise is the induction, which rests on the least step that fails.    *)
(***************************************************************************)
EXTENDS SessionFiles, FiniteSetTheorems, SequenceTheorems, WellFoundedInduction, TLAPS

-----------------------------------------------------------------------------
(* Induction along a sequence, and what a fold computes.                    *)

\* A set of numbers that is not empty has a least one.
LEMMA LeastOf ==
  ASSUME NEW Ns, Ns \subseteq Nat, Ns # {}
  PROVE  \E d \in Ns : \A u \in Ns : d <= u
<1>1. PICK d \in Ns : \A u \in Ns : ~(<<u, d>> \in OpToRel(<, Nat))
      BY NatLessThanWellFounded, WFMin
<1>2. \A u \in Ns : ~(u < d)
      BY <1>1 DEF OpToRel
<1> QED BY <1>2

\* What holds before the first step and is kept by each of N steps, holds after
\* all of them.
LEMMA Stepwise ==
  ASSUME NEW N \in Nat, NEW Holds, 0 \in Holds,
         \A n \in 1 .. N : n - 1 \in Holds => n \in Holds
  PROVE  \A n \in 0 .. N : n \in Holds
<1>1. SUFFICES ASSUME {n \in 0 .. N : n \notin Holds} # {} PROVE FALSE
      OBVIOUS
<1> DEFINE Fails == {n \in 0 .. N : n \notin Holds}
<1>2. PICK d \in Fails : \A u \in Fails : d <= u
  <2>1. Fails \subseteq Nat /\ Fails # {}
        BY <1>1
  <2> HIDE DEF Fails
  <2> QED BY <2>1, LeastOf
<1>3. d \in 1 .. N /\ d - 1 \in 0 .. N /\ ~(d <= d - 1)
      BY <1>2
<1> QED BY <1>2, <1>3

\* The greatest of the first numbers is the last one.
LEMMA MaxOfFirst ==
  ASSUME NEW n \in Nat \ {0}, NEW s \in SUBSET (1 .. n), n \in s
  PROVE  Max(s) = n
<1>1. n \in s /\ \A y \in s : n >= y
      OBVIOUS
<1>2. \A x \in s : (\A y \in s : x >= y) => x = n
      OBVIOUS
<1> QED BY <1>1, <1>2, Zenon DEF Max

\* A set of places that is not empty has a greatest one.
LEMMA GreatestOf ==
  ASSUME NEW n \in Nat, NEW s \in SUBSET (1 .. n), s # {}
  PROVE  \E x \in s : \A y \in s : x >= y
<1> DEFINE Upper == {u \in Nat : \A y \in s : u >= y}
<1>1. n \in Upper /\ Upper \subseteq Nat
      OBVIOUS
<1> HIDE DEF Upper
<1>2. PICK d \in Upper : \A u \in Upper : d <= u
      BY <1>1, LeastOf
<1>3. d \in s
  <2>1. SUFFICES ASSUME d \notin s PROVE FALSE
        OBVIOUS
  <2>2. d \in Nat /\ \A y \in s : d >= y /\ y \in Nat /\ d # y /\ y >= 1
        BY <1>2, <2>1 DEF Upper
  <2>3. d - 1 \in Nat /\ \A y \in s : d - 1 >= y
    <3>1. PICK y \in s : TRUE
          OBVIOUS
    <3>2. d - 1 \in Nat
          BY <2>2, <3>1
    <3>3. ASSUME NEW z \in s PROVE d - 1 >= z
          BY <2>2
    <3> QED BY <3>2, <3>3
  <2>4. d - 1 \in Upper
        BY <2>3 DEF Upper
  <2> QED BY <1>2, <2>2, <2>4
<1> QED BY <1>2, <1>3 DEF Upper

\* Max is in the set.
LEMMA MaxIsIn ==
  ASSUME NEW n \in Nat, NEW s \in SUBSET (1 .. n), s # {}
  PROVE  Max(s) \in s
<1>1. \E x \in s : \A y \in s : x >= y
      BY GreatestOf
<1> QED BY <1>1, Zenon DEF Max

\* A function on the sets of places that folds their values, the last one
\* outermost.
Folds(it, N, base, step) ==
  it = [s \in SUBSET (1 .. N) |->
          IF s = {} THEN base ELSE step[<<Max(s), it[s \ {Max(s)}]>>]]

\* There is one, whatever a step does.
LEMMA FoldExists ==
  ASSUME NEW N \in Nat, NEW V, NEW base \in V, NEW step \in [(1 .. N) \X V -> V]
  PROVE  \E it \in [SUBSET (1 .. N) -> V] : Folds(it, N, base, step)
<1> DEFINE Good(it, n) ==
      \A s \in SUBSET (1 .. n) :
        it[s] = IF s = {} THEN base ELSE step[<<Max(s), it[s \ {Max(s)}]>>]
    Holds == {n \in 0 .. N : \E it \in [SUBSET (1 .. n) -> V] : Good(it, n)}
<1>1. 0 \in Holds
  <2>1. SUBSET (1 .. 0) = {{}}
        OBVIOUS
  <2> DEFINE none == [s \in SUBSET (1 .. 0) |-> base]
  <2>2. none \in [SUBSET (1 .. 0) -> V] /\ Good(none, 0)
        BY <2>1
  <2> HIDE DEF none, Good
  <2>3. \E it \in [SUBSET (1 .. 0) -> V] : Good(it, 0)
        BY <2>2
  <2>4. 0 \in 0 .. N
        OBVIOUS
  <2> QED BY <2>3, <2>4
<1>2. ASSUME NEW n \in 1 .. N, n - 1 \in Holds
      PROVE  n \in Holds
  <2>1. PICK it \in [SUBSET (1 .. n - 1) -> V] : Good(it, n - 1)
        BY <1>2
  <2> DEFINE more == [s \in SUBSET (1 .. n) |->
                        IF n \in s THEN step[<<n, it[s \ {n}]>>] ELSE it[s]]
  <2>2. \A s \in SUBSET (1 .. n) : n \notin s => s \in SUBSET (1 .. n - 1)
        OBVIOUS
  <2>3. \A s \in SUBSET (1 .. n) : s \ {n} \in SUBSET (1 .. n - 1)
        OBVIOUS
  <2>4. more \in [SUBSET (1 .. n) -> V]
        BY <2>2, <2>3
  <2>5. ASSUME NEW s \in SUBSET (1 .. n)
        PROVE  more[s] = IF s = {} THEN base ELSE step[<<Max(s), more[s \ {Max(s)}]>>]
    <3>1. CASE n \in s
      <4>1. Max(s) = n
            BY <3>1, MaxOfFirst
      <4>2. s \ {n} \in SUBSET (1 .. n) /\ n \notin s \ {n}
            OBVIOUS
      <4>3. more[s \ {n}] = it[s \ {n}]
            BY <4>2
      <4> QED BY <3>1, <4>1, <4>3
    <3>2. CASE n \notin s
      <4>1. s \in SUBSET (1 .. n - 1) /\ more[s] = it[s]
            BY <2>2, <3>2
      <4>2. s \ {Max(s)} \in SUBSET (1 .. n) /\ n \notin s \ {Max(s)}
            BY <3>2
      <4>3. more[s \ {Max(s)}] = it[s \ {Max(s)}]
            BY <4>2
      <4> QED BY <2>1, <4>1, <4>3
    <3> QED BY <3>1, <3>2
  <2>6. Good(more, n)
        BY <2>5
  <2> HIDE DEF more, Good
  <2>7. \E fn \in [SUBSET (1 .. n) -> V] : Good(fn, n)
        BY <2>4, <2>6
  <2> QED BY <2>7
<1>3. N \in Holds
  <2> HIDE DEF Holds
  <2>1. \A n \in 0 .. N : n \in Holds
        BY <1>1, <1>2, Stepwise
  <2> QED BY <2>1
<1>4. PICK it \in [SUBSET (1 .. N) -> V] : Good(it, N)
      BY <1>3
<1>5. it = [s \in SUBSET (1 .. N) |-> it[s]]
      OBVIOUS
<1> QED BY <1>4, <1>5 DEF Folds

\* The first n places without the last one of them.
LEMMA LastOfFirst ==
  ASSUME NEW n \in Nat \ {0}
  PROVE  1 .. n # {} /\ Max(1 .. n) = n /\ (1 .. n) \ {n} = 1 .. n - 1
<1>1. n \in 1 .. n /\ 1 .. n \in SUBSET (1 .. n)
      OBVIOUS
<1>2. Max(1 .. n) = n
      BY <1>1, MaxOfFirst
<1> QED BY <1>1, <1>2

-----------------------------------------------------------------------------
(* Reading the event log.                                                   *)

\* What has been found after each line.
FoundAfter(g, ls, types) ==
  /\ g[0] = <<>> /\ EventsIn(ls, types) = g[Len(ls)]
  /\ \A n \in 1 .. Len(ls) : g[n] = Found(types, g[n - 1], ls[n])

\* Reading lines is one step for each line.
LEMMA Reading ==
  ASSUME NEW L, NEW ls \in Seq(L), NEW types, NEW V, <<>> \in V,
         \A found \in V, n \in 1 .. Len(ls) : Found(types, found, ls[n]) \in V
  PROVE  \E g : FoundAfter(g, ls, types)
<1> DEFINE N == Len(ls)
           step == [p \in (1 .. N) \X V |-> Found(types, p[2], ls[p[1]])]
           Unfolds(it) ==
             it = [s \in SUBSET DOMAIN ls |->
                     IF s = {} THEN <<>>
                     ELSE Found(types, it[s \ {Max(s)}], ls[Max(s)])]
<1>1. EventsIn(ls, types) = (CHOOSE it : Unfolds(it))[DOMAIN ls]
      BY Zenon DEF EventsIn, FoldLeft, MapThenFoldSet
<1>2. N \in Nat /\ DOMAIN ls = 1 .. N
      OBVIOUS
<1>3. \E it : Unfolds(it)
  <2>1. step \in [(1 .. N) \X V -> V]
        OBVIOUS
  <2> HIDE DEF step
  <2>2. PICK it \in [SUBSET (1 .. N) -> V] : Folds(it, N, <<>>, step)
        BY <1>2, <2>1, FoldExists
  <2>3. ASSUME NEW s \in SUBSET (1 .. N), s # {}
        PROVE  step[<<Max(s), it[s \ {Max(s)}]>>] = Found(types, it[s \ {Max(s)}], ls[Max(s)])
    <3>1. Max(s) \in 1 .. N
          BY <1>2, <2>3, MaxIsIn
    <3>2. it[s \ {Max(s)}] \in V
          BY <2>2
    <3> QED BY <3>1, <3>2 DEF step
  <2>4. Unfolds(it)
        BY <1>2, <2>2, <2>3 DEF Folds
  <2> QED BY <2>4
<1>4. PICK it : Unfolds(it) /\ EventsIn(ls, types) = it[DOMAIN ls]
  <2> HIDE DEF Unfolds
  <2> QED BY <1>1, <1>3
<1> DEFINE g == [n \in 0 .. N |-> it[1 .. n]]
<1>5. g[0] = <<>>
  <2>1. 1 .. 0 = {} /\ {} \in SUBSET DOMAIN ls
        OBVIOUS
  <2>2. it[{}] = <<>>
        BY <1>4, <2>1
  <2> QED BY <1>2, <2>1, <2>2
<1>6. ASSUME NEW n \in 1 .. N
      PROVE  g[n] = Found(types, g[n - 1], ls[n])
  <2>1. 1 .. n # {} /\ Max(1 .. n) = n /\ (1 .. n) \ {n} = 1 .. n - 1 /\ 1 .. n \in SUBSET DOMAIN ls
        BY <1>2, LastOfFirst
  <2>2. it[1 .. n] = Found(types, it[1 .. n - 1], ls[n])
        BY <1>4, <2>1
  <2>3. n \in 0 .. N /\ n - 1 \in 0 .. N
        BY <1>2
  <2> QED BY <2>2, <2>3
<1>7. EventsIn(ls, types) = g[N]
      BY <1>2, <1>4
<1> HIDE DEF g
<1>8. FoundAfter(g, ls, types)
      BY <1>5, <1>6, <1>7 DEF FoundAfter
<1> QED BY <1>8

-----------------------------------------------------------------------------
(* Saving the session.                                                      *)

\* The types of what a save touches.
FileTypes ==
  /\ files \in [Names -> [content : Content, tmp : Content]]
  /\ version \in 0 .. MaxSaves /\ saved \in 0 .. MaxSaves
  /\ calls \in [Savers -> Call \cup {Idle}]

\* A save that is under way is newer than the one that was answered last.  When
\* it is about to rename, the temporary file is its own, or was deleted; when it
\* has come to the second file, the first one is there, unless it was deleted.
SaveInv ==
  /\ FileTypes
  /\ SavedSurvives
  /\ saved <= version
  /\ \A s \in Savers : calls[s] # Idle =>
       /\ saved <= calls[s].version /\ calls[s].version <= version
       /\ calls[s].pc = "rename" => files[calls[s].file].tmp \in {0, calls[s].version}
       /\ calls[s].file = "metadata" /\ calls[s].alone =>
            files["messages"].content >= calls[s].version

\* There is one caller at most.
LEMMA OneSaver ==
  ASSUME NEW s \in Savers, NEW t \in Savers
  PROVE  s = t
<1> SUFFICES ASSUME s # t
             PROVE  FALSE
    OBVIOUS
<1>1. {s, t} \in SUBSET Savers /\ {s, t} = {s} \cup {t}
      OBVIOUS
<1>2. IsFiniteSet({s}) /\ Cardinality({s}) = 1
      BY FS_Singleton
<1>3. Cardinality({s} \cup {t}) = Cardinality({s}) + 1
      BY <1>2, FS_AddElement
<1>4. Cardinality({s, t}) <= Cardinality(Savers) /\ Cardinality(Savers) \in Nat
      BY <1>1, SessionFilesAssumption, FS_Subset, FS_CardinalityType
<1> QED BY <1>1, <1>2, <1>3, <1>4, SessionFilesAssumption

LEMMA SaveInit ==
  ASSUME Init
  PROVE  SaveInv
BY SessionFilesAssumption DEF Init, SaveInv, FileTypes, SavedSurvives, Content, Names, Idle

\* A step of the caller.
LEMMA SaverStep ==
  ASSUME SaveInv, NEW s \in Savers,
         BeginSave(s) \/ BeginClear(s) \/ Load(s) \/ Truncate(s) \/ Fill(s) \/ Rename(s)
  PROVE  SaveInv'
<1> USE DEF SaveInv, FileTypes, SavedSurvives
<1>0. /\ \A t \in Savers : t = s
      /\ MaxSaves \in Nat
      BY OneSaver, SessionFilesAssumption
<1>1. CASE BeginSave(s) \/ BeginClear(s)
  <2> DEFINE new(op, pc) == [op |-> op, file |-> "messages", version |-> version + 1,
                             alone |-> TRUE, pc |-> pc]
  <2>1. /\ calls[s] = Idle /\ version < MaxSaves /\ version' = version + 1
        /\ files' = files /\ saved' = saved
        BY <1>1 DEF BeginSave, BeginClear
  <2>2. PICK op \in {"save", "clear"}, pc \in {"load", "truncate"} :
          calls' = [calls EXCEPT ![s] = new(op, pc)]
        BY <1>1 DEF BeginSave, BeginClear
  <2>3. new(op, pc) \in Call
        BY <1>0, <2>1 DEF Call, Names
  <2>4. /\ calls'[s].version = version + 1 /\ calls'[s].pc # "rename"
        /\ calls'[s].file = "messages"
        BY <2>2
  <2> HIDE DEF new
  <2>5. calls' \in [Savers -> Call \cup {Idle}]
        BY <2>2, <2>3
  <2>6. version + 1 \in 0 .. MaxSaves
        BY <1>0, <2>1
  <2> QED BY <1>0, <2>1, <2>4, <2>5, <2>6
<1>2. ASSUME calls[s] # Idle, NEW pc \in {"truncate", "write", "rename"}, calls[s].pc # "rename",
             calls' = [calls EXCEPT ![s].pc = pc],
             UNCHANGED <<version, saved>>,
             NEW txt \in Content,
             files' = [files EXCEPT ![calls[s].file].tmp = txt],
             pc = "rename" => txt \in {0, calls[s].version}
      PROVE  SaveInv'
  <2>1. calls[s] \in Call /\ calls[s].file \in Names
        BY <1>2 DEF Call
  <2>2. /\ calls'[s] = [calls[s] EXCEPT !.pc = pc]
        /\ files' \in [Names -> [content : Content, tmp : Content]]
        /\ \A n \in Names : files'[n].content = files[n].content
        /\ files'[calls[s].file].tmp = txt
        BY <1>2, <2>1
  <2>3. /\ calls'[s] \in Call /\ calls'[s].pc = pc
        /\ calls'[s].version = calls[s].version /\ calls'[s].file = calls[s].file
        /\ calls'[s].alone = calls[s].alone
        BY <2>1, <2>2 DEF Call
  <2>4. calls' \in [Savers -> Call \cup {Idle}]
        BY <1>2, <2>2, <2>3
  <2> QED BY ZenonT(40), <1>0, <1>2, <2>2, <2>3, <2>4 DEF Names
<1>3. ASSUME calls' = [calls EXCEPT ![s] = Idle], UNCHANGED <<files, version, saved>>
      PROVE  SaveInv'
      BY <1>0, <1>3
<1>4. CASE Load(s)
      BY <1>0, <1>4 DEF Load, Idle, Call
<1>5. CASE Truncate(s)
  <2>1. calls[s] # Idle /\ calls[s].pc = "truncate" /\ -1 \in Content
        BY <1>0, <1>5 DEF Truncate, Idle, Content
  <2> QED BY <1>2, <1>3, <1>5, <2>1 DEF Truncate
<1>6. CASE Fill(s)
  <2>1. calls[s] # Idle /\ calls[s].pc = "write" /\ calls[s] \in Call
        BY <1>6 DEF Fill, Idle
  <2>2. calls[s].version \in Content /\ 0 \in Content
        BY <1>0, <2>1 DEF Call, Content
  <2> DEFINE txt == IF files[calls[s].file].tmp = 0 THEN 0 ELSE calls[s].version
  <2>3. txt \in Content /\ files' = [files EXCEPT ![calls[s].file].tmp = txt]
        BY <1>6, <2>2 DEF Fill
  <2> QED BY <1>2, <1>6, <2>1, <2>3 DEF Fill
<1>7. CASE Rename(s)
  <2> DEFINE f == calls[s].file
  <2>1. calls[s] # Idle /\ calls[s].pc = "rename" /\ calls[s] \in Call /\ f \in Names
        BY <1>7 DEF Rename, Idle, Call
  <2>2. CASE files[f].tmp # 0
    <3>1. files[f].tmp = calls[s].version /\ version' = version
          BY <1>7, <2>1, <2>2 DEF Rename
    <3>2. /\ files' = [files EXCEPT ![f] = [content |-> calls[s].version, tmp |-> 0]]
          /\ calls[s].version \in Content /\ 0 \in Content /\ calls[s].version \in 0 .. MaxSaves
          BY <1>0, <1>7, <2>1, <2>2, <3>1 DEF Rename, Call, Content
    <3>3. /\ files' \in [Names -> [content : Content, tmp : Content]]
          /\ files'[f].content = calls[s].version
          /\ \A n \in Names : n # f => files'[n] = files[n]
          BY <2>1, <3>2
    <3>4. CASE f = "messages"
      <4>1. saved' = saved /\ calls' = [calls EXCEPT ![s].file = "metadata", ![s].pc = "truncate"]
            BY <1>7, <2>2, <3>4 DEF Rename
      <4>2. calls'[s] = [calls[s] EXCEPT !.file = "metadata", !.pc = "truncate"]
            BY <4>1
      <4>3. /\ calls'[s] \in Call /\ calls'[s].pc = "truncate"
            /\ calls'[s].version = calls[s].version /\ calls'[s].alone = calls[s].alone
            BY <2>1, <4>2 DEF Call, Names
      <4>4. calls' \in [Savers -> Call \cup {Idle}]
            BY <4>1, <4>2, <4>3
      <4> QED BY <1>0, <2>1, <3>1, <3>2, <3>3, <3>4, <4>1, <4>3, <4>4 DEF Names
    <3>5. CASE f = "metadata"
      <4>1. /\ calls' = [calls EXCEPT ![s] = Idle]
            /\ saved' = IF calls[s].alone THEN calls[s].version ELSE saved
            BY <1>7, <2>2, <3>5 DEF Rename
      <4> QED BY <1>0, <2>1, <3>1, <3>2, <3>3, <3>5, <4>1 DEF Names
    <3> QED BY <2>1, <3>4, <3>5 DEF Names
  <2>3. CASE files[f].tmp = 0
        BY <1>3, <1>7, <2>3 DEF Rename
  <2> QED BY <2>2, <2>3
<1> QED BY <1>1, <1>4, <1>5, <1>6, <1>7

LEMMA SaveStep ==
  ASSUME SaveInv, [Next]_vars
  PROVE  SaveInv'
<1> USE DEF SaveInv, FileTypes, SavedSurvives
<1>1. CASE UNCHANGED fileVars
      BY <1>1 DEF fileVars
<1>2. CASE Delete
  <2>1. /\ files' = [n \in Names |-> [content |-> 0, tmp |-> 0]] /\ saved' = 0
        /\ version' = version
        BY <1>2 DEF Delete
  <2>2. 0 \in Content /\ 0 \in 0 .. MaxSaves /\ MaxSaves \in Nat
        BY SessionFilesAssumption DEF Content
  <2>3. \A s \in Savers :
          \/ calls'[s] = Idle
          \/ /\ calls[s] # Idle /\ calls'[s] \in Call /\ calls'[s].alone = FALSE
             /\ calls'[s].version = calls[s].version /\ calls'[s].file = calls[s].file
    <3> TAKE s \in Savers
    <3>1. CASE calls[s] = Idle
          BY <1>2, <3>1 DEF Delete
    <3>2. CASE calls[s] # Idle
      <4>1. calls'[s] = [calls[s] EXCEPT !.alone = FALSE] /\ calls[s] \in Call
            BY <1>2, <3>2 DEF Delete
      <4> QED BY <3>2, <4>1 DEF Call
    <3> QED BY <3>1, <3>2
  <2>4. calls' \in [Savers -> Call \cup {Idle}]
        BY <1>2, <2>3 DEF Delete
  <2>5. \A s \in Savers : calls'[s] # Idle => calls'[s].file \in Names /\ calls'[s].version \in 1 .. MaxSaves
        BY <2>3 DEF Call
  <2> QED BY <2>1, <2>2, <2>3, <2>4, <2>5
<1>3. CASE Crash
      BY <1>3 DEF Crash
<1>4. ASSUME NEW s \in Savers,
             BeginSave(s) \/ BeginClear(s) \/ Load(s) \/ Truncate(s) \/ Fill(s) \/ Rename(s)
      PROVE  SaveInv'
      BY <1>4, SaverStep
<1>5. ASSUME NEW e \in NextEvents, BeginAppend(e) \/ JoinBatch(e)
      PROVE  SaveInv'
      BY <1>1, <1>5 DEF BeginAppend, JoinBatch
<1>6. CASE EndAppend \/ UNCHANGED vars
      BY <1>1, <1>6 DEF EndAppend, vars
<1> QED BY <1>2, <1>3, <1>4, <1>5, <1>6 DEF Next

-----------------------------------------------------------------------------
(* Rebuilding the conversation.                                             *)

\* The conversation that a base and the events after it give.
ReplayedAll(base, said) == FoldLeft(Replayed, base, said)

\* The conversation after each number of events.
Replays(g, base, said) ==
  /\ g[0] = base /\ ReplayedAll(base, said) = g[Len(said)]
  /\ \A n \in 1 .. Len(said) : g[n] = Replayed(g[n - 1], said[n])

\* Replaying events is one step for each event.
LEMMA Replaying ==
  ASSUME NEW base, NEW Elems, NEW said \in Seq(Elems), NEW V, base \in V,
         \A ms \in V, n \in 1 .. Len(said) : Replayed(ms, said[n]) \in V
  PROVE  \E g : Replays(g, base, said)
<1> DEFINE N == Len(said)
           step == [p \in (1 .. N) \X V |-> Replayed(p[2], said[p[1]])]
           Unfolds(it) ==
             it = [s \in SUBSET DOMAIN said |->
                     IF s = {} THEN base
                     ELSE Replayed(it[s \ {Max(s)}], said[Max(s)])]
<1>1. ReplayedAll(base, said) = (CHOOSE it : Unfolds(it))[DOMAIN said]
      BY Zenon DEF ReplayedAll, FoldLeft, MapThenFoldSet
<1>2. N \in Nat /\ DOMAIN said = 1 .. N
      OBVIOUS
<1>3. \E it : Unfolds(it)
  <2>1. step \in [(1 .. N) \X V -> V]
        OBVIOUS
  <2> HIDE DEF step
  <2>2. PICK it \in [SUBSET (1 .. N) -> V] : Folds(it, N, base, step)
        BY <1>2, <2>1, FoldExists
  <2>3. ASSUME NEW s \in SUBSET (1 .. N), s # {}
        PROVE  step[<<Max(s), it[s \ {Max(s)}]>>] = Replayed(it[s \ {Max(s)}], said[Max(s)])
    <3>1. Max(s) \in 1 .. N
          BY <1>2, <2>3, MaxIsIn
    <3>2. it[s \ {Max(s)}] \in V
          BY <2>2
    <3> QED BY <3>1, <3>2 DEF step
  <2>4. Unfolds(it)
        BY <1>2, <2>2, <2>3 DEF Folds
  <2> QED BY <2>4
<1>4. PICK it : Unfolds(it) /\ ReplayedAll(base, said) = it[DOMAIN said]
  <2> HIDE DEF Unfolds
  <2> QED BY <1>1, <1>3
<1> DEFINE g == [n \in 0 .. N |-> it[1 .. n]]
<1>5. g[0] = base
  <2>1. 1 .. 0 = {} /\ {} \in SUBSET DOMAIN said
        OBVIOUS
  <2>2. it[{}] = base
        BY <1>4, <2>1
  <2> QED BY <1>2, <2>1, <2>2
<1>6. ASSUME NEW n \in 1 .. N
      PROVE  g[n] = Replayed(g[n - 1], said[n])
  <2>1. 1 .. n # {} /\ Max(1 .. n) = n /\ (1 .. n) \ {n} = 1 .. n - 1 /\
          1 .. n \in SUBSET DOMAIN said
        BY <1>2, LastOfFirst
  <2>2. it[1 .. n] = Replayed(it[1 .. n - 1], said[n])
        BY <1>4, <2>1
  <2>3. n \in 0 .. N /\ n - 1 \in 0 .. N
        BY <1>2
  <2> QED BY <2>2, <2>3
<1>7. ReplayedAll(base, said) = g[N]
  <2>1. it[DOMAIN said] = g[N]
        BY <1>2
  <2> HIDE DEF g, N, Unfolds
  <2> QED BY <1>4, <2>1, Zenon
<1> HIDE DEF g
<1>8. Replays(g, base, said)
      BY <1>5, <1>6, <1>7 DEF Replays
<1> QED BY <1>8

\* So is placing messages behind their calls,
LEMMA Placing ==
  ASSUME NEW Elems, NEW ms \in Seq(Elems), NEW V, <<>> \in V,
         \A out \in V, n \in 1 .. Len(ms) : Placed(out, ms[n]) \in V
  PROVE  \E g : /\ g[0] = <<>> /\ FoldLeft(Placed, <<>>, ms) = g[Len(ms)]
                /\ \A n \in 1 .. Len(ms) : g[n] = Placed(g[n - 1], ms[n])
<1> DEFINE N == Len(ms)
           step == [p \in (1 .. N) \X V |-> Placed(p[2], ms[p[1]])]
           Unfolds(it) ==
             it = [s \in SUBSET DOMAIN ms |->
                     IF s = {} THEN <<>>
                     ELSE Placed(it[s \ {Max(s)}], ms[Max(s)])]
<1>1. FoldLeft(Placed, <<>>, ms) = (CHOOSE it : Unfolds(it))[DOMAIN ms]
      BY Zenon DEF FoldLeft, MapThenFoldSet
<1>2. N \in Nat /\ DOMAIN ms = 1 .. N
      OBVIOUS
<1>3. \E it : Unfolds(it)
  <2>1. step \in [(1 .. N) \X V -> V]
        OBVIOUS
  <2> HIDE DEF step
  <2>2. PICK it \in [SUBSET (1 .. N) -> V] : Folds(it, N, <<>>, step)
        BY <1>2, <2>1, FoldExists
  <2>3. ASSUME NEW s \in SUBSET (1 .. N), s # {}
        PROVE  step[<<Max(s), it[s \ {Max(s)}]>>] = Placed(it[s \ {Max(s)}], ms[Max(s)])
    <3>1. Max(s) \in 1 .. N
          BY <1>2, <2>3, MaxIsIn
    <3>2. it[s \ {Max(s)}] \in V
          BY <2>2
    <3> QED BY <3>1, <3>2 DEF step
  <2>4. Unfolds(it)
        BY <1>2, <2>2, <2>3 DEF Folds
  <2> QED BY <2>4
<1>4. PICK it : Unfolds(it) /\ FoldLeft(Placed, <<>>, ms) = it[DOMAIN ms]
  <2> HIDE DEF Unfolds
  <2> QED BY <1>1, <1>3
<1> DEFINE g == [n \in 0 .. N |-> it[1 .. n]]
<1>5. g[0] = <<>>
  <2>1. 1 .. 0 = {} /\ {} \in SUBSET DOMAIN ms
        OBVIOUS
  <2>2. it[{}] = <<>>
        BY <1>4, <2>1
  <2> QED BY <1>2, <2>1, <2>2
<1>6. ASSUME NEW n \in 1 .. N
      PROVE  g[n] = Placed(g[n - 1], ms[n])
  <2>1. 1 .. n # {} /\ Max(1 .. n) = n /\ (1 .. n) \ {n} = 1 .. n - 1 /\ 1 .. n \in SUBSET DOMAIN ms
        BY <1>2, LastOfFirst
  <2>2. it[1 .. n] = Placed(it[1 .. n - 1], ms[n])
        BY <1>4, <2>1
  <2>3. n \in 0 .. N /\ n - 1 \in 0 .. N
        BY <1>2
  <2> QED BY <2>2, <2>3
<1>7. FoldLeft(Placed, <<>>, ms) = g[N]
  <2>1. it[DOMAIN ms] = g[N]
        BY <1>2
  <2> HIDE DEF g, N, Unfolds
  <2> QED BY <1>4, <2>1, Zenon
<1> HIDE DEF g
<1> QED BY <1>5, <1>6, <1>7

\* and merging neighbours.
LEMMA Merging ==
  ASSUME NEW Elems, NEW ms \in Seq(Elems), NEW V, <<>> \in V,
         \A out \in V, n \in 1 .. Len(ms) : Merged(out, ms[n]) \in V
  PROVE  \E g : /\ g[0] = <<>> /\ FoldLeft(Merged, <<>>, ms) = g[Len(ms)]
                /\ \A n \in 1 .. Len(ms) : g[n] = Merged(g[n - 1], ms[n])
<1> DEFINE N == Len(ms)
           step == [p \in (1 .. N) \X V |-> Merged(p[2], ms[p[1]])]
           Unfolds(it) ==
             it = [s \in SUBSET DOMAIN ms |->
                     IF s = {} THEN <<>>
                     ELSE Merged(it[s \ {Max(s)}], ms[Max(s)])]
<1>1. FoldLeft(Merged, <<>>, ms) = (CHOOSE it : Unfolds(it))[DOMAIN ms]
      BY Zenon DEF FoldLeft, MapThenFoldSet
<1>2. N \in Nat /\ DOMAIN ms = 1 .. N
      OBVIOUS
<1>3. \E it : Unfolds(it)
  <2>1. step \in [(1 .. N) \X V -> V]
        OBVIOUS
  <2> HIDE DEF step
  <2>2. PICK it \in [SUBSET (1 .. N) -> V] : Folds(it, N, <<>>, step)
        BY <1>2, <2>1, FoldExists
  <2>3. ASSUME NEW s \in SUBSET (1 .. N), s # {}
        PROVE  step[<<Max(s), it[s \ {Max(s)}]>>] = Merged(it[s \ {Max(s)}], ms[Max(s)])
    <3>1. Max(s) \in 1 .. N
          BY <1>2, <2>3, MaxIsIn
    <3>2. it[s \ {Max(s)}] \in V
          BY <2>2
    <3> QED BY <3>1, <3>2 DEF step
  <2>4. Unfolds(it)
        BY <1>2, <2>2, <2>3 DEF Folds
  <2> QED BY <2>4
<1>4. PICK it : Unfolds(it) /\ FoldLeft(Merged, <<>>, ms) = it[DOMAIN ms]
  <2> HIDE DEF Unfolds
  <2> QED BY <1>1, <1>3
<1> DEFINE g == [n \in 0 .. N |-> it[1 .. n]]
<1>5. g[0] = <<>>
  <2>1. 1 .. 0 = {} /\ {} \in SUBSET DOMAIN ms
        OBVIOUS
  <2>2. it[{}] = <<>>
        BY <1>4, <2>1
  <2> QED BY <1>2, <2>1, <2>2
<1>6. ASSUME NEW n \in 1 .. N
      PROVE  g[n] = Merged(g[n - 1], ms[n])
  <2>1. 1 .. n # {} /\ Max(1 .. n) = n /\ (1 .. n) \ {n} = 1 .. n - 1 /\ 1 .. n \in SUBSET DOMAIN ms
        BY <1>2, LastOfFirst
  <2>2. it[1 .. n] = Merged(it[1 .. n - 1], ms[n])
        BY <1>4, <2>1
  <2>3. n \in 0 .. N /\ n - 1 \in 0 .. N
        BY <1>2
  <2> QED BY <2>2, <2>3
<1>7. FoldLeft(Merged, <<>>, ms) = g[N]
  <2>1. it[DOMAIN ms] = g[N]
        BY <1>2
  <2> HIDE DEF g, N, Unfolds
  <2> QED BY <1>4, <2>1, Zenon
<1> HIDE DEF g
<1> QED BY <1>5, <1>6, <1>7

\* What replaying and repairing keep: a user calls no tools.
Spoken == {m \in Message : m.role = "user" => m.uses = {}}

\* Calls of a message that is not the last one have their results behind it.
Answered(ms) ==
  \A i \in 1 .. Len(ms) - 1 :
    ms[i].uses # {} => ms[i + 1].role = "user" /\ ms[i].uses \subseteq ms[i + 1].results

\* A sequence with another last element.
LEMMA LastReplaced ==
  ASSUME NEW Elems, NEW s \in Seq(Elems), s # <<>>, NEW x \in Elems
  PROVE  /\ Append(Front(s), x) \in Seq(Elems) /\ Len(Append(Front(s), x)) = Len(s)
         /\ Last(Append(Front(s), x)) = x
         /\ \A i \in 1 .. Len(s) - 1 : Append(Front(s), x)[i] = s[i]
<1>1. Len(s) \in Nat \ {0}
      OBVIOUS
<1>2. Front(s) \in Seq(Elems) /\ Len(Front(s)) = Len(s) - 1 /\
        \A i \in 1 .. Len(s) - 1 : Front(s)[i] = s[i]
  <2>1. /\ SubSeq(s, 1, Len(s) - 1) \in Seq(Elems) /\ Len(SubSeq(s, 1, Len(s) - 1)) = Len(s) - 1
        /\ \A i \in 1 .. Len(s) - 1 : SubSeq(s, 1, Len(s) - 1)[i] = s[i]
    <3>1. \A i \in 1 .. Len(s) - 1 : s[i] \in Elems
          OBVIOUS
    <3>2. Len(s) - 1 \in Int /\ 1 \in Int
          BY <1>1
    <3> DEFINE n == Len(s) - 1
    <3>3. n \in Int /\ \A i \in 1 .. n : s[i] \in Elems
          BY <3>1, <3>2
    <3> HIDE DEF n
    <3>4. /\ SubSeq(s, 1, n) \in Seq(Elems)
          /\ Len(SubSeq(s, 1, n)) = IF 1 <= n THEN n - 1 + 1 ELSE 0
          /\ \A i \in 1 .. n - 1 + 1 : SubSeq(s, 1, n)[i] = s[1 + i - 1]
          BY <3>2, <3>3, SubSeqProperties
    <3>5. n \in Nat /\ (IF 1 <= n THEN n - 1 + 1 ELSE 0) = n /\ n - 1 + 1 = n
      <4>1. n \in Nat
            BY <1>1 DEF n
      <4> QED BY <4>1
    <3>6. \A i \in 1 .. n : 1 + i - 1 = i
          BY <3>5
    <3>7. /\ SubSeq(s, 1, n) \in Seq(Elems) /\ Len(SubSeq(s, 1, n)) = n
          /\ \A i \in 1 .. n : SubSeq(s, 1, n)[i] = s[i]
          BY <3>4, <3>5, <3>6
    <3> QED BY <3>7, Zenon DEF n
  <2> QED BY <2>1 DEF Front
<1> QED BY <1>1, <1>2 DEF Last

\* A message of given parts.
LEMMA SaysType ==
  ASSUME NEW role \in {"user", "assistant"}, NEW uses \in SUBSET Asks, NEW results \in SUBSET Asks,
         NEW text \in BOOLEAN, role = "user" => uses = {}
  PROVE  Says(role, uses, results, text) \in Spoken
BY DEF Says, Spoken, Message

\* Replaying yields messages.
LEMMA ReplayedType ==
  ASSUME NEW ms \in Seq(Spoken), NEW e \in EventKinds, e.type # "snapshot"
  PROVE  Replayed(ms, e) \in Seq(Spoken)
<1>1. CASE e.type = "user"
  <2>1. Says("user", {}, {}, TRUE) \in Spoken
        BY SaysType
  <2>2. Replayed(ms, e) = Append(ms, Says("user", {}, {}, TRUE))
        BY <1>1, Zenon DEF Replayed
  <2> QED BY <2>1, <2>2, AppendProperties
<1>2. CASE e.type = "assistant"
  <2>1. e.uses \in SUBSET Asks
        BY <1>2 DEF EventKinds
  <2>2. Says("assistant", e.uses, {}, TRUE) \in Spoken
        BY <2>1, SaysType
  <2>3. Replayed(ms, e) = Append(ms, Says("assistant", e.uses, {}, TRUE))
        BY <1>2, Zenon DEF Replayed
  <2> QED BY <2>2, <2>3, AppendProperties
<1>3. CASE e.type = "result"
  <2>1. e.call \in Asks
        BY <1>3 DEF EventKinds
  <2>2. Says("user", {}, {e.call}, FALSE) \in Spoken
        BY <2>1, SaysType
  <2>3. CASE ms # <<>> /\ Last(ms).role = "user" /\ ~Last(ms).text
    <3>1. Last(ms) \in Spoken
          BY <2>3 DEF Last
    <3>2. [Last(ms) EXCEPT !.results = @ \cup {e.call}] \in Spoken
          BY <2>1, <3>1 DEF Spoken, Message
    <3>3. Append(Front(ms), [Last(ms) EXCEPT !.results = @ \cup {e.call}]) \in Seq(Spoken)
          BY <2>3, <3>2, LastReplaced
    <3>4. Replayed(ms, e) = Append(Front(ms), [Last(ms) EXCEPT !.results = @ \cup {e.call}])
          BY <1>3, <2>3, Zenon DEF Replayed
    <3> QED BY <3>3, <3>4
  <2>4. CASE ~(ms # <<>> /\ Last(ms).role = "user" /\ ~Last(ms).text)
    <3>1. Replayed(ms, e) = Append(ms, Says("user", {}, {e.call}, FALSE))
          BY <1>3, <2>4, Zenon DEF Replayed
    <3> QED BY <2>2, <3>1, AppendProperties
  <2> QED BY <2>3, <2>4
<1> QED BY <1>1, <1>2, <1>3 DEF EventKinds

\* So does leaving out displaced results,
LEMMA SiftedType ==
  ASSUME NEW ms \in Seq(Spoken)
  PROVE  Sifted(ms) \in Seq(Spoken)
<1>1. ASSUME NEW j \in 1 .. Len(ms)
      PROVE  [ms[j] EXCEPT !.results = @ \ Displaced(ms, j)] \in Spoken
  <2>1. ms[j] \in Spoken
        OBVIOUS
  <2>2. ASSUME NEW m \in Spoken, NEW d PROVE [m EXCEPT !.results = @ \ d] \in Spoken
        BY DEF Spoken, Message
  <2> QED BY <2>1, <2>2
<1>2. Sifted(ms) = [j \in 1 .. Len(ms) |-> [ms[j] EXCEPT !.results = @ \ Displaced(ms, j)]]
  <2>1. DOMAIN ms = 1 .. Len(ms)
        OBVIOUS
  <2> QED BY <2>1, Zenon DEF Sifted
<1>3. \A d : \A f : f = [j \in 1 .. Len(ms) |-> d[j]] /\
        (\A j \in 1 .. Len(ms) : d[j] \in Spoken) => f \in Seq(Spoken)
      OBVIOUS
<1> DEFINE sifted == [j \in 1 .. Len(ms) |-> [ms[j] EXCEPT !.results = @ \ Displaced(ms, j)]]
<1>4. \A j \in 1 .. Len(ms) : sifted[j] \in Spoken
      BY <1>1, Zenon
<1>5. Sifted(ms) = [j \in 1 .. Len(ms) |-> sifted[j]]
      BY <1>2, Zenon
<1> HIDE DEF sifted
<1> QED BY <1>3, <1>4, <1>5

\* and placing a message, after which the calls of all but the last one are
\* answered.
LEMMA PlacedType ==
  ASSUME NEW out \in Seq(Spoken), NEW m \in Spoken
  PROVE  Placed(out, m) \in Seq(Spoken) /\ (Answered(out) => Answered(Placed(out, m)))
<1> DEFINE lacks == IF out = <<>> THEN {} ELSE Last(out).uses
<1>1. lacks \in SUBSET Asks /\ Len(out) \in Nat /\ (out # <<>> => Last(out) = out[Len(out)])
      BY DEF Last, Spoken, Message
<1> HIDE DEF lacks
<1>2. CASE Emptied(m)
      BY <1>2 DEF Placed
<1>3. CASE ~Emptied(m) /\ m.role = "user"
  <2> DEFINE x == [m EXCEPT !.results = @ \cup lacks]
  <2>1. x \in Spoken /\ x.role = "user" /\ x.results = m.results \cup lacks
        BY <1>1, <1>3 DEF Spoken, Message
  <2>2. Placed(out, m) = Append(out, x)
        BY <1>3 DEF Placed, lacks
  <2> HIDE DEF x
  <2>3. ASSUME Answered(out) PROVE Answered(Append(out, x))
    <3>1. \A i \in 1 .. Len(out) : out[i].uses # {} /\ i = Len(out) => out[i].uses = lacks
          BY <1>1 DEF lacks
    <3> QED BY <2>1, <2>3, <3>1 DEF Answered
  <2> QED BY <2>1, <2>2, <2>3
<1>4. CASE ~Emptied(m) /\ m.role # "user" /\ lacks = {}
  <2>1. Placed(out, m) = Append(out, m)
        BY <1>4 DEF Placed, lacks
  <2>2. \A i \in 1 .. Len(out) : i = Len(out) => out[i].uses = {}
        BY <1>1, <1>4 DEF lacks
  <2> QED BY <2>1, <2>2 DEF Answered
<1>5. CASE ~Emptied(m) /\ m.role # "user" /\ lacks # {}
  <2> DEFINE x == Says("user", {}, lacks, FALSE)
  <2>1. x \in Spoken /\ x.role = "user" /\ x.results = lacks /\ x.uses = {}
        BY <1>1, SaysType DEF Says
  <2>2. Placed(out, m) = out \o <<x, m>>
        BY <1>5 DEF Placed, lacks
  <2> HIDE DEF x
  <2>3. \A i \in 1 .. Len(out) : i = Len(out) => out[i].uses = lacks
        BY <1>1 DEF lacks
  <2>4. /\ out \o <<x, m>> \in Seq(Spoken) /\ Len(out \o <<x, m>>) = Len(out) + 2
        /\ \A i \in 1 .. Len(out) : (out \o <<x, m>>)[i] = out[i]
        /\ (out \o <<x, m>>)[Len(out) + 1] = x
        BY <1>1, <2>1
  <2>5. ASSUME Answered(out) PROVE Answered(out \o <<x, m>>)
    <3> DEFINE r == out \o <<x, m>>
    <3> HIDE DEF r
    <3>1. ASSUME NEW i \in 1 .. Len(out) + 1, r[i].uses # {}
          PROVE  r[i + 1].role = "user" /\ r[i].uses \subseteq r[i + 1].results
      <4>1. i # Len(out) + 1
            BY <2>1, <2>4, <3>1 DEF r
      <4>2. CASE i = Len(out)
            BY <1>1, <2>1, <2>3, <2>4, <4>2 DEF r
      <4>3. CASE i \in 1 .. Len(out) - 1
        <5>1. i \in 1 .. Len(out) /\ i + 1 \in 1 .. Len(out)
              BY <1>1, <4>3
        <5>2. r[i] = out[i] /\ r[i + 1] = out[i + 1]
              BY <2>4, <5>1 DEF r
        <5> QED BY <2>5, <3>1, <4>3, <5>2 DEF Answered
      <4> QED BY <1>1, <4>1, <4>2, <4>3
    <3>2. Len(r) - 1 = Len(out) + 1
          BY <1>1, <2>4 DEF r
    <3>3. Answered(r)
          BY <3>1, <3>2 DEF Answered
    <3> QED BY <3>3 DEF r
  <2> QED BY <2>2, <2>4, <2>5
<1> QED BY <1>2, <1>3, <1>4, <1>5

\* Repaired messages have all their calls answered.
LEMMA RepairedPaired ==
  ASSUME NEW ms \in Seq(Spoken)
  PROVE  /\ Repaired(ms) \in Seq(Spoken) /\ Answered(Repaired(ms))
         /\ Repaired(ms) # <<>> => Last(Repaired(ms)).uses = {}
<1> DEFINE placed == FoldLeft(Placed, <<>>, Sifted(ms))
<1>1. Sifted(ms) \in Seq(Spoken)
      BY SiftedType
<1>2. PICK g : /\ g[0] = <<>> /\ placed = g[Len(Sifted(ms))]
               /\ \A n \in 1 .. Len(Sifted(ms)) : g[n] = Placed(g[n - 1], Sifted(ms)[n])
  <2>1. <<>> \in Seq(Spoken)
        OBVIOUS
  <2>2. \A out \in Seq(Spoken), n \in 1 .. Len(Sifted(ms)) :
          Placed(out, Sifted(ms)[n]) \in Seq(Spoken)
        BY <1>1, PlacedType
  <2> HIDE DEF placed
  <2>3. \E g : /\ g[0] = <<>> /\ FoldLeft(Placed, <<>>, Sifted(ms)) = g[Len(Sifted(ms))]
               /\ \A n \in 1 .. Len(Sifted(ms)) : g[n] = Placed(g[n - 1], Sifted(ms)[n])
        BY <1>1, <2>1, <2>2, Placing
  <2> QED BY <2>3, Zenon DEF placed
<1>3. placed \in Seq(Spoken) /\ Answered(placed)
  <2> DEFINE Holds == {n \in 0 .. Len(Sifted(ms)) : g[n] \in Seq(Spoken) /\ Answered(g[n])}
  <2>1. 0 \in Holds
    <3>1. <<>> \in Seq(Spoken) /\ Answered(<<>>) /\ 0 \in 0 .. Len(Sifted(ms))
          BY <1>1 DEF Answered
    <3> QED BY <1>2, <3>1
  <2>2. ASSUME NEW n \in 1 .. Len(Sifted(ms)), n - 1 \in Holds
        PROVE  n \in Holds
    <3>1. Sifted(ms)[n] \in Spoken /\ n \in 0 .. Len(Sifted(ms))
          BY <1>1
    <3>2. g[n - 1] \in Seq(Spoken) /\ Answered(g[n - 1])
          BY <2>2
    <3>3. g[n] = Placed(g[n - 1], Sifted(ms)[n])
          BY <1>2
    <3> QED BY <3>1, <3>2, <3>3, PlacedType
  <2>3. Len(Sifted(ms)) \in Nat /\ Len(Sifted(ms)) \in 0 .. Len(Sifted(ms))
        BY <1>1
  <2> HIDE DEF Holds, placed
  <2>4. Len(Sifted(ms)) \in Holds
        BY <2>1, <2>2, <2>3, Stepwise
  <2> QED BY <1>2, <2>4, Zenon DEF Holds
<1>4. Repaired(ms) = IF placed # <<>> /\ Last(placed).uses # {}
                     THEN Append(placed, Says("user", {}, Last(placed).uses, FALSE)) ELSE placed
      BY Zenon DEF Repaired
<1> HIDE DEF placed
<1>5. CASE placed # <<>> /\ Last(placed).uses # {}
  <2> DEFINE x == Says("user", {}, Last(placed).uses, FALSE)
  <2>1. Last(placed) = placed[Len(placed)] /\ Len(placed) \in Nat \ {0} /\ Last(placed) \in Spoken
        BY <1>3, <1>5 DEF Last
  <2>2. Last(placed).uses \in SUBSET Asks
        BY <2>1 DEF Spoken, Message
  <2>3. x \in Spoken /\ x.role = "user" /\ x.results = Last(placed).uses /\ x.uses = {}
        BY <2>2, SaysType DEF Says
  <2> HIDE DEF x
  <2>4. Answered(Append(placed, x))
    <3>1. /\ Len(Append(placed, x)) = Len(placed) + 1 /\ Append(placed, x)[Len(placed) + 1] = x
          /\ \A i \in 1 .. Len(placed) : Append(placed, x)[i] = placed[i]
          BY <1>3, <2>1, <2>3
    <3> DEFINE r == Append(placed, x)
    <3> HIDE DEF r
    <3>2. ASSUME NEW i \in 1 .. Len(placed), r[i].uses # {}
          PROVE  r[i + 1].role = "user" /\ r[i].uses \subseteq r[i + 1].results
      <4>1. CASE i = Len(placed)
            BY <2>1, <2>3, <3>1, <4>1 DEF r
      <4>2. CASE i \in 1 .. Len(placed) - 1
        <5>1. i \in 1 .. Len(placed) /\ i + 1 \in 1 .. Len(placed)
              BY <2>1, <4>2
        <5>2. r[i] = placed[i] /\ r[i + 1] = placed[i + 1]
              BY <3>1, <5>1 DEF r
        <5> QED BY <1>3, <3>2, <4>2, <5>2 DEF Answered
      <4> QED BY <2>1, <4>1, <4>2
    <3>3. Len(r) - 1 = Len(placed)
          BY <2>1, <3>1 DEF r
    <3>4. Answered(r)
          BY <3>2, <3>3 DEF Answered
    <3> QED BY <3>4 DEF r
  <2>5. Append(placed, x) \in Seq(Spoken) /\ Last(Append(placed, x)).uses = {}
        BY <1>3, <2>3 DEF Last
  <2> QED BY <1>4, <1>5, <2>4, <2>5 DEF x
<1>6. CASE ~(placed # <<>> /\ Last(placed).uses # {})
      BY <1>3, <1>4, <1>6
<1> QED BY <1>5, <1>6

\* Merging neighbours keeps the calls answered.
LEMMA MergedPaired ==
  ASSUME NEW p \in Seq(Spoken), Answered(p), p # <<>> => Last(p).uses = {}
  PROVE  LET out == FoldLeft(Merged, <<>>, p)
         IN  out \in Seq(Spoken) /\ Answered(out) /\ (out # <<>> => Last(out).uses = {})
<1> DEFINE merged == FoldLeft(Merged, <<>>, p)
           Joined(out, m) == Says(m.role, Last(out).uses \cup m.uses,
                                  Last(out).results \cup m.results, Last(out).text \/ m.text)
<1>1. ASSUME NEW out \in Seq(Spoken), NEW m \in Spoken
      PROVE  /\ out # <<>> /\ Last(out).role = m.role
                => /\ Merged(out, m) = Append(Front(out), Joined(out, m))
                   /\ Joined(out, m) \in Spoken /\ Last(out) \in Spoken
                   /\ Last(out) = out[Len(out)]
             /\ ~(out # <<>> /\ Last(out).role = m.role) => Merged(out, m) = Append(out, m)
  <2>1. CASE out # <<>> /\ Last(out).role = m.role
    <3>1. Last(out) \in Spoken /\ Last(out) = out[Len(out)]
          BY <2>1 DEF Last
    <3>2. /\ m.role \in {"user", "assistant"} /\ Last(out).uses \cup m.uses \in SUBSET Asks
          /\ Last(out).results \cup m.results \in SUBSET Asks
          /\ (Last(out).text \/ m.text) \in BOOLEAN
          /\ m.role = "user" => Last(out).uses \cup m.uses = {}
          BY <2>1, <3>1 DEF Spoken, Message
    <3>3. Joined(out, m) \in Spoken
          BY <3>2, SaysType
    <3>4. Merged(out, m) = Append(Front(out), Joined(out, m))
          BY <2>1, Zenon DEF Merged
    <3> QED BY <2>1, <3>1, <3>3, <3>4
  <2>2. CASE ~(out # <<>> /\ Last(out).role = m.role)
        BY <2>2, Zenon DEF Merged
  <2> QED BY <2>1, <2>2
<1>2. ASSUME NEW out \in Seq(Spoken), NEW m \in Spoken
      PROVE  Merged(out, m) \in Seq(Spoken)
  <2>1. CASE out # <<>> /\ Last(out).role = m.role
    <3>1. Merged(out, m) = Append(Front(out), Joined(out, m)) /\ Joined(out, m) \in Spoken
          BY <1>1, <2>1
    <3> HIDE DEF Joined
    <3>2. Append(Front(out), Joined(out, m)) \in Seq(Spoken)
          BY <2>1, <3>1, LastReplaced
    <3> QED BY <3>1, <3>2
  <2>2. CASE ~(out # <<>> /\ Last(out).role = m.role)
    <3>1. Merged(out, m) = Append(out, m)
          BY <1>1, <2>2
    <3> QED BY <3>1, AppendProperties
  <2> QED BY <2>1, <2>2
<1>3. PICK g : /\ g[0] = <<>> /\ merged = g[Len(p)]
               /\ \A n \in 1 .. Len(p) : g[n] = Merged(g[n - 1], p[n])
  <2>1. <<>> \in Seq(Spoken)
        OBVIOUS
  <2>2. ASSUME NEW out \in Seq(Spoken), NEW n \in 1 .. Len(p)
        PROVE  Merged(out, p[n]) \in Seq(Spoken)
    <3>1. p[n] \in Spoken
          OBVIOUS
    <3> QED BY <1>2, <3>1
  <2> HIDE DEF merged
  <2>3. \E g : /\ g[0] = <<>> /\ FoldLeft(Merged, <<>>, p) = g[Len(p)]
               /\ \A n \in 1 .. Len(p) : g[n] = Merged(g[n - 1], p[n])
        BY <2>1, <2>2, Merging
  <2> QED BY <2>3, Zenon DEF merged
<1> DEFINE Good(n) ==
      /\ g[n] \in Seq(Spoken) /\ Answered(g[n])
      /\ n # 0 => g[n] # <<>> /\ Last(g[n]).role = p[n].role /\ Last(g[n]).uses = p[n].uses
    Holds == {n \in 0 .. Len(p) : Good(n)}
<1>4. 0 \in Holds
  <2>1. <<>> \in Seq(Spoken) /\ Answered(<<>>) /\ 0 \in 0 .. Len(p)
        BY DEF Answered
  <2>2. Good(0)
        BY <1>3, <2>1
  <2> QED BY <2>1, <2>2
<1>5. ASSUME NEW n \in 1 .. Len(p), n - 1 \in Holds
      PROVE  n \in Holds
  <2> DEFINE out == g[n - 1]
             m == p[n]
  <2>1. /\ out \in Seq(Spoken) /\ Answered(out) /\ m \in Spoken
        /\ n - 1 # 0 => /\ out # <<>> /\ Last(out).role = p[n - 1].role
                        /\ Last(out).uses = p[n - 1].uses
        BY <1>5
  <2>2. g[n] = Merged(out, m)
        BY <1>3
  <2>3. n = 1 => out = <<>>
        BY <1>3
  <2>4. n \in 0 .. Len(p) /\ n # 0 /\ n \in Nat
        OBVIOUS
  <2>5. ASSUME out # <<>>, Last(out).uses # {}
        PROVE  m.role = "user" /\ Last(out).uses \subseteq m.results /\ Last(out).role # m.role
    <3>1. n - 1 # 0 /\ n - 1 \in 1 .. Len(p) - 1
          BY <2>3, <2>4, <2>5
    <3>2. p[n - 1].uses # {} /\ p[n - 1] \in Spoken
          BY <2>1, <2>5, <3>1
    <3>3. p[n - 1 + 1] = m
          BY <2>4
    <3>4. m.role = "user" /\ p[n - 1].uses \subseteq m.results
          BY <3>1, <3>2, <3>3 DEF Answered
    <3> QED BY <2>1, <3>1, <3>2, <3>4 DEF Spoken
  <2> HIDE DEF out, m
  <2>6. CASE out # <<>> /\ Last(out).role = m.role
    <3> DEFINE x == Joined(out, m)
               r == Append(Front(out), x)
    <3>1. /\ g[n] = r /\ x \in Spoken /\ Last(out) \in Spoken /\ Last(out) = out[Len(out)]
          BY <1>1, <2>1, <2>2, <2>6
    <3>2. x.role = m.role /\ x.uses = m.uses /\ Last(out).results \subseteq x.results
      <4>1. /\ x.role = m.role /\ x.uses = Last(out).uses \cup m.uses
            /\ x.results = Last(out).results \cup m.results
            BY DEF Says
      <4>2. Last(out).uses = {}
            BY <2>5, <2>6
      <4> QED BY <4>1, <4>2
    <3> HIDE DEF x
    <3>3. /\ r \in Seq(Spoken) /\ Len(r) = Len(out) /\ Last(r) = x /\ r # <<>>
          /\ \A i \in 1 .. Len(out) - 1 : r[i] = out[i]
      <4>1. /\ r \in Seq(Spoken) /\ Len(r) = Len(out) /\ Last(r) = x
            /\ \A i \in 1 .. Len(out) - 1 : r[i] = out[i]
            BY <2>1, <2>6, <3>1, LastReplaced
      <4>2. Len(out) # 0
            BY <2>1, <2>6
      <4>3. r # <<>>
            BY <4>1, <4>2
      <4> QED BY <4>1, <4>3
    <3> HIDE DEF r
    <3>4. r[Len(r)] = x /\ Len(r) \in Nat
          BY <3>3 DEF Last
    <3>5. ASSUME NEW i \in 1 .. Len(r) - 1, r[i].uses # {}
          PROVE  r[i + 1].role = "user" /\ r[i].uses \subseteq r[i + 1].results
      <4>1. r[i] = out[i] /\ i \in 1 .. Len(out) - 1
            BY <3>3
      <4>2. out[i + 1].role = "user" /\ out[i].uses \subseteq out[i + 1].results
            BY <2>1, <3>5, <4>1 DEF Answered
      <4>3. CASE i + 1 = Len(r)
            BY <2>6, <3>1, <3>2, <3>3, <3>4, <4>1, <4>2, <4>3
      <4>4. CASE i + 1 # Len(r)
        <5>1. i + 1 \in 1 .. Len(out) - 1
              BY <3>3, <3>4, <4>4
        <5> QED BY <3>3, <4>1, <4>2, <5>1
      <4> QED BY <4>3, <4>4
    <3>6. Answered(r)
          BY <3>5 DEF Answered
    <3>7. Good(n)
          BY <3>1, <3>2, <3>3, <3>6 DEF m
    <3> QED BY <2>4, <3>7
  <2>7. CASE ~(out # <<>> /\ Last(out).role = m.role)
    <3> DEFINE r == Append(out, m)
    <3>1. g[n] = r
          BY <1>1, <2>1, <2>2, <2>7
    <3>2. /\ r \in Seq(Spoken) /\ Len(r) = Len(out) + 1 /\ r[Len(out) + 1] = m /\ r # <<>>
          /\ Len(out) \in Nat /\ \A i \in 1 .. Len(out) : r[i] = out[i]
          BY <2>1
    <3> HIDE DEF r
    <3>3. ASSUME NEW i \in 1 .. Len(r) - 1, r[i].uses # {}
          PROVE  r[i + 1].role = "user" /\ r[i].uses \subseteq r[i + 1].results
      <4>1. r[i] = out[i] /\ i \in 1 .. Len(out)
            BY <3>2
      <4>2. CASE i = Len(out)
        <5>1. out # <<>> /\ Last(out) = out[i]
              BY <2>1, <4>1, <4>2 DEF Last
        <5> QED BY <2>5, <3>2, <3>3, <4>1, <4>2, <5>1
      <4>3. CASE i # Len(out)
        <5>1. i \in 1 .. Len(out) - 1 /\ i + 1 \in 1 .. Len(out)
              BY <3>2, <4>1, <4>3
        <5> QED BY <2>1, <3>2, <3>3, <4>1, <5>1 DEF Answered
      <4> QED BY <4>2, <4>3
    <3>4. Answered(r)
          BY <3>3 DEF Answered
    <3>5. Last(r) = m
          BY <3>2 DEF Last
    <3>6. Good(n)
          BY <3>1, <3>2, <3>4, <3>5 DEF m
    <3> QED BY <2>4, <3>6
  <2> QED BY <2>6, <2>7
<1>6. Len(p) \in Nat /\ Len(p) \in 0 .. Len(p)
      OBVIOUS
<1>7. Len(p) \in Holds
  <2> HIDE DEF Holds, merged
  <2> QED BY <1>4, <1>5, <1>6, Stepwise
<1>8. Good(Len(p))
      BY <1>7, Zenon
<1> HIDE DEF merged
<1>9. merged \in Seq(Spoken) /\ Answered(merged) /\ (merged # <<>> => Last(merged).uses = {})
  <2>1. CASE Len(p) = 0
        BY <1>3, <1>8, <2>1
  <2>2. CASE Len(p) # 0
    <3>1. p # <<>> /\ Last(p) = p[Len(p)]
          BY <2>2 DEF Last
    <3> QED BY <1>3, <1>8, <2>2, <3>1
  <2> QED BY <2>1, <2>2
<1> QED BY <1>9, Zenon DEF merged

\* Lines that hold events of Evs.
LinesOf(Evs) == {l \in [evs : Seq(Evs), whole : BOOLEAN, ended : BOOLEAN] : Len(l.evs) # 0}

\* What is found are events of Evs throughout.
Reads(g, Evs, ls, types) ==
  /\ FoundAfter(g, ls, types)
  /\ \A n \in 0 .. Len(ls) : g[n] \in Seq(Evs)

\* Reading line after line, in full.
LEMMA ReadingSteps ==
  ASSUME NEW Evs, NEW ls \in Seq(LinesOf(Evs)), NEW types
  PROVE  \E g : Reads(g, Evs, ls, types)
<1>1. ASSUME NEW found \in Seq(Evs), NEW n \in 1 .. Len(ls)
      PROVE  Found(types, found, ls[n]) \in Seq(Evs)
  <2>1. ls[n] \in LinesOf(Evs)
        OBVIOUS
  <2>2. CASE Typed(ls[n], types)
    <3>1. Len(ls[n].evs) = 1 /\ ls[n].evs \in Seq(Evs)
          BY <2>1, <2>2 DEF Typed, Parses, LinesOf
    <3>2. ls[n].evs[1] \in Evs
          BY <3>1
    <3> QED BY <2>2, <3>2 DEF Found
  <2>3. CASE ~Typed(ls[n], types)
        BY <2>3 DEF Found
  <2> QED BY <2>2, <2>3
<1>2. <<>> \in Seq(Evs)
      OBVIOUS
<1>3. PICK g : FoundAfter(g, ls, types)
      BY <1>1, <1>2, Reading
<1> DEFINE Holds == {n \in 0 .. Len(ls) : g[n] \in Seq(Evs)}
<1>4. 0 \in Holds /\ Len(ls) \in Nat
  <2>1. 0 \in 0 .. Len(ls) /\ Len(ls) \in Nat
        OBVIOUS
  <2>2. g[0] \in Seq(Evs)
        BY <1>2, <1>3 DEF FoundAfter
  <2> QED BY <2>1, <2>2
<1>5. ASSUME NEW n \in 1 .. Len(ls), n - 1 \in Holds PROVE n \in Holds
      BY <1>1, <1>3, <1>5 DEF FoundAfter
<1>6. \A n \in 0 .. Len(ls) : n \in Holds
  <2> HIDE DEF Holds
  <2> QED BY <1>4, <1>5, Stepwise
<1> QED BY <1>3, <1>6 DEF Reads

\* What is found are the events of the lines that parse and have the type.
LEMMA WhatIsFound ==
  ASSUME NEW Evs, NEW ls \in Seq(LinesOf(Evs)), NEW types
  PROVE  /\ EventsIn(ls, types) \in Seq(Evs)
         /\ \A e : e \in ToSet(EventsIn(ls, types))
                     <=> \E n \in 1 .. Len(ls) : Typed(ls[n], types) /\ e = ls[n].evs[1]
<1>1. PICK g : /\ g[0] = <<>> /\ EventsIn(ls, types) = g[Len(ls)]
               /\ \A n \in 1 .. Len(ls) : g[n] = Found(types, g[n - 1], ls[n])
               /\ \A n \in 0 .. Len(ls) : g[n] \in Seq(Evs)
  <2>1. \E g : Reads(g, Evs, ls, types)
        BY ReadingSteps
  <2> QED BY <2>1 DEF Reads, FoundAfter
<1> DEFINE In(e, n) == \E i \in 1 .. Len(g[n]) : e = g[n][i]
    Good(n) == \A e : In(e, n) <=> \E k \in 1 .. n : Typed(ls[k], types) /\ e = ls[k].evs[1]
    Holds == {n \in 0 .. Len(ls) : Good(n)}
<1>2. 0 \in Holds /\ Len(ls) \in Nat
      BY <1>1
<1>3. ASSUME NEW n \in 1 .. Len(ls), n - 1 \in Holds PROVE n \in Holds
  <2>1. /\ n \in Nat /\ n - 1 \in 0 .. Len(ls) /\ n \in 0 .. Len(ls)
        /\ Good(n - 1) /\ g[n - 1] \in Seq(Evs)
        /\ g[n] = Found(types, g[n - 1], ls[n])
        BY <1>1, <1>3
  <2>2. CASE Typed(ls[n], types)
    <3>1. g[n] = Append(g[n - 1], ls[n].evs[1])
          BY <2>1, <2>2 DEF Found
    <3>2. \A e : In(e, n) <=> In(e, n - 1) \/ e = ls[n].evs[1]
      <4>1. /\ Len(g[n]) = Len(g[n - 1]) + 1 /\ g[n][Len(g[n - 1]) + 1] = ls[n].evs[1]
            /\ Len(g[n - 1]) \in Nat /\ \A i \in 1 .. Len(g[n - 1]) : g[n][i] = g[n - 1][i]
            BY <2>1, <3>1
      <4>2. /\ Len(g[n - 1]) \in 1 .. Len(g[n]) \cup {0}
            /\ 1 .. Len(g[n]) = (1 .. Len(g[n - 1])) \cup {Len(g[n - 1]) + 1}
            BY <4>1
      <4> QED BY <4>1, <4>2, Zenon
    <3>3. Good(n)
      <4> HIDE DEF In
      <4> QED BY <2>1, <2>2, <3>2
    <3> QED BY <2>1, <3>3
  <2>3. CASE ~Typed(ls[n], types)
    <3>1. g[n] = g[n - 1]
          BY <2>1, <2>3 DEF Found
    <3>2. \A e : In(e, n) <=> In(e, n - 1)
          BY <3>1
    <3>3. Good(n)
      <4> HIDE DEF In
      <4> QED BY <2>1, <2>3, <3>2
    <3> QED BY <2>1, <3>3
  <2> QED BY <2>2, <2>3
<1>4. Len(ls) \in Holds /\ Len(ls) \in 0 .. Len(ls)
  <2>1. Len(ls) \in 0 .. Len(ls)
        BY <1>2
  <2> HIDE DEF Holds
  <2> QED BY <1>2, <1>3, <2>1, Stepwise
<1>5. \A e : e \in ToSet(g[Len(ls)]) <=> In(e, Len(ls))
      BY <1>1, <1>4 DEF ToSet
<1> HIDE DEF In
<1> QED BY <1>1, <1>4, <1>5

\* Reading the end of the lines finds the end of what reading them all finds.
LEMMA TailIsFound ==
  ASSUME NEW Evs, NEW ls \in Seq(LinesOf(Evs)), NEW types, NEW k \in 0 .. Len(ls)
  PROVE  \E before \in Seq(Evs) :
           EventsIn(ls, types) = before \o EventsIn(SubSeq(ls, k + 1, Len(ls)), types)
<1> DEFINE rest == SubSeq(ls, k + 1, Len(ls))
<1>1. /\ rest \in Seq(LinesOf(Evs)) /\ Len(rest) = Len(ls) - k /\ Len(rest) \in Nat
      /\ \A n \in 1 .. Len(rest) : rest[n] = ls[k + n]
  <2>1. k + 1 \in Int /\ Len(ls) \in Int /\ \A i \in k + 1 .. Len(ls) : ls[i] \in LinesOf(Evs)
        OBVIOUS
  <2>2. /\ rest \in Seq(LinesOf(Evs))
        /\ Len(rest) = IF k + 1 <= Len(ls) THEN Len(ls) - (k + 1) + 1 ELSE 0
        /\ \A i \in 1 .. Len(ls) - (k + 1) + 1 : rest[i] = ls[k + 1 + i - 1]
        BY <2>1, SubSeqProperties
  <2> HIDE DEF rest
  <2>3. Len(rest) = Len(ls) - k /\ Len(ls) - (k + 1) + 1 = Len(ls) - k
        BY <2>2
  <2>4. ASSUME NEW n \in 1 .. Len(rest) PROVE rest[n] = ls[k + n]
    <3>1. k + 1 + n - 1 = k + n
          BY <2>3
    <3> QED BY <2>2, <2>3, <3>1
  <2> QED BY <2>2, <2>3, <2>4
<1> HIDE DEF rest
<1>2. PICK g : /\ g[0] = <<>> /\ EventsIn(ls, types) = g[Len(ls)]
               /\ \A n \in 1 .. Len(ls) : g[n] = Found(types, g[n - 1], ls[n])
               /\ \A n \in 0 .. Len(ls) : g[n] \in Seq(Evs)
      BY ReadingSteps DEF Reads, FoundAfter
<1>3. PICK h : /\ h[0] = <<>> /\ EventsIn(rest, types) = h[Len(rest)]
               /\ \A n \in 1 .. Len(rest) : h[n] = Found(types, h[n - 1], rest[n])
               /\ \A n \in 0 .. Len(rest) : h[n] \in Seq(Evs)
  <2>1. rest \in Seq(LinesOf(Evs))
        BY <1>1
  <2> QED BY <2>1, ReadingSteps DEF Reads, FoundAfter
<1> DEFINE Holds == {n \in 0 .. Len(rest) : g[k + n] = g[k] \o h[n]}
<1>4. 0 \in Holds
  <2>1. g[k] \in Seq(Evs) /\ k + 0 = k
        BY <1>2
  <2>2. g[k] \o <<>> = g[k]
        BY <2>1, ConcatEmptySeq
  <2>3. g[k + 0] = g[k] \o h[0]
        BY <1>3, <2>1, <2>2, Zenon
  <2>4. 0 \in 0 .. Len(rest)
        BY <1>1
  <2> QED BY <2>3, <2>4
<1>5. ASSUME NEW n \in 1 .. Len(rest), n - 1 \in Holds PROVE n \in Holds
  <2>1. /\ k + n \in 1 .. Len(ls) /\ k + (n - 1) = k + n - 1 /\ k \in 0 .. Len(ls)
        /\ n \in 0 .. Len(rest) /\ n - 1 \in 0 .. Len(rest)
        BY <1>1
  <2>2. /\ g[k + n] = Found(types, g[k + n - 1], ls[k + n]) /\ g[k] \in Seq(Evs)
        /\ h[n] = Found(types, h[n - 1], rest[n]) /\ h[n - 1] \in Seq(Evs)
        /\ rest[n] = ls[k + n] /\ g[k + n - 1] = g[k] \o h[n - 1]
    <3>1. /\ g[k + n] = Found(types, g[k + n - 1], ls[k + n]) /\ g[k] \in Seq(Evs)
          BY <1>2, <2>1
    <3>2. h[n] = Found(types, h[n - 1], rest[n]) /\ h[n - 1] \in Seq(Evs)
          BY <1>3, <2>1
    <3>3. rest[n] = ls[k + n]
          BY <1>1
    <3>4. g[k + (n - 1)] = g[k] \o h[n - 1]
          BY <1>5
    <3> QED BY <2>1, <3>1, <3>2, <3>3, <3>4
  <2>3. rest[n] \in LinesOf(Evs)
        BY <1>1
  <2>4. CASE Typed(rest[n], types)
    <3>1. /\ g[k + n] = Append(g[k] \o h[n - 1], rest[n].evs[1])
          /\ h[n] = Append(h[n - 1], rest[n].evs[1])
          BY <2>2, <2>4 DEF Found
    <3>2. Append(g[k] \o h[n - 1], rest[n].evs[1]) = g[k] \o Append(h[n - 1], rest[n].evs[1])
      <4>1. rest[n].evs[1] \in Evs
            BY <2>3, <2>4 DEF Typed, Parses, LinesOf
      <4>2. ASSUME NEW s \in Seq(Evs), NEW t \in Seq(Evs), NEW e \in Evs
            PROVE  Append(s \o t, e) = s \o Append(t, e)
            OBVIOUS
      <4> QED BY <2>2, <4>1, <4>2
    <3> QED BY <2>1, <3>1, <3>2
  <2>5. CASE ~Typed(rest[n], types)
    <3>1. g[k + n] = g[k] \o h[n - 1] /\ h[n] = h[n - 1]
          BY <2>2, <2>5 DEF Found
    <3> QED BY <2>1, <3>1
  <2> QED BY <2>4, <2>5
<1>6. Len(rest) \in Holds
  <2>1. Len(rest) \in 0 .. Len(rest)
        BY <1>1
  <2> HIDE DEF Holds
  <2> QED BY <1>1, <1>4, <1>5, <2>1, Stepwise
<1>7. k + Len(rest) = Len(ls) /\ g[k] \in Seq(Evs)
      BY <1>1, <1>2
<1>8. EventsIn(ls, types) = g[k] \o EventsIn(rest, types)
      BY <1>2, <1>3, <1>6, <1>7
<1> QED BY <1>7, <1>8 DEF rest

\* The end of what was found is the end of the longer sequence.
LEMMA NewestOfTail ==
  ASSUME NEW Evs, NEW b \in Seq(Evs), NEW s \in Seq(Evs), NEW limit \in Nat
  PROVE  LET t == Newest(s, limit)
         IN  t = Newest(b \o s, Len(t)) /\ Len(t) = Smaller(limit, Len(s))
<1> DEFINE k == Smaller(limit, Len(s))
           t == Newest(s, limit)
           a == b \o s
<1>1. k \in Nat /\ k <= Len(s) /\ Len(s) \in Nat /\ Len(b) \in Nat
      BY DEF Smaller
<1>2. /\ a \in Seq(Evs) /\ Len(a) = Len(b) + Len(s)
      BY ConcatProperties
<1>3. t = SubSeq(s, Len(s) - k + 1, Len(s))
      BY DEF Newest
<1> HIDE DEF k, t, a
<1>4. /\ t \in Seq(Evs) /\ Len(t) = k
  <2> DEFINE m == Len(s) - k + 1
             n == Len(s)
  <2>1. m \in Int /\ n \in Int /\ \A i \in m .. n : s[i] \in Evs
        BY <1>1
  <2>2. n - m + 1 = k /\ (m <= n <=> k # 0)
        BY <1>1
  <2> HIDE DEF m, n
  <2>3. SubSeq(s, m, n) \in Seq(Evs) /\ Len(SubSeq(s, m, n)) = IF m <= n THEN n - m + 1 ELSE 0
        BY <2>1, SubSeqProperties
  <2>4. SubSeq(s, m, n) \in Seq(Evs) /\ Len(SubSeq(s, m, n)) = k
        BY <1>1, <2>2, <2>3
  <2> QED BY <1>3, <2>4 DEF m, n
<1>5. Smaller(Len(t), Len(a)) = k
      BY <1>1, <1>2, <1>4 DEF Smaller
<1>6. Newest(a, Len(t)) = SubSeq(a, Len(a) - k + 1, Len(a))
      BY <1>5, Zenon DEF Newest
<1>7. SubSeq(a, Len(a) - k + 1, Len(a)) = t
  <2>1. CASE k = 0
    <3>1. Len(a) - k + 1 \in Int /\ Len(a) \in Int /\ Len(a) < Len(a) - k + 1
          BY <1>1, <1>2, <2>1
    <3>2. SubSeq(a, Len(a) - k + 1, Len(a)) = <<>>
          BY <3>1, SubSeqEmpty
    <3> QED BY <1>4, <2>1, <3>2
  <2>2. CASE k # 0
    <3>1. /\ Len(a) - k + 1 \in Len(b) + 1 .. Len(b) + Len(s)
          /\ Len(a) \in Len(b) + 1 .. Len(b) + Len(s)
          /\ Len(a) - k + 1 - Len(b) = Len(s) - k + 1 /\ Len(a) - Len(b) = Len(s)
          BY <1>1, <1>2, <2>2
    <3> DEFINE m == Len(a) - k + 1
               n == Len(a)
    <3>2. m \in Len(b) + 1 .. Len(b) + Len(s) /\ n \in Len(b) + 1 .. Len(b) + Len(s)
          BY <3>1
    <3> HIDE DEF m, n
    <3>3. SubSeq(b \o s, m, n) = SubSeq(s, m - Len(b), n - Len(b))
          BY <3>2, SubSeqOfConcat2, Zenon
    <3>4. m - Len(b) = Len(s) - k + 1 /\ n - Len(b) = Len(s)
          BY <1>1, <1>2, <3>1 DEF m, n
    <3>5. SubSeq(a, m, n) = SubSeq(s, Len(s) - k + 1, Len(s))
          BY <3>3, <3>4, Zenon DEF a
    <3> QED BY <1>3, <3>5, Zenon DEF m, n
  <2> QED BY <2>1, <2>2
<1> QED BY <1>4, <1>6, <1>7 DEF t, a, k

\* The last lines of some are some lines.
LEMMA SomeLines ==
  ASSUME NEW Evs, NEW ls \in Seq(LinesOf(Evs)), NEW k \in 0 .. Len(ls)
  PROVE  LET ending == SubSeq(ls, k + 1, Len(ls))
         IN  ending \in Seq(LinesOf(Evs)) /\ Len(ending) = Len(ls) - k
<1>1. \A i \in k + 1 .. Len(ls) : ls[i] \in LinesOf(Evs)
      OBVIOUS
<1>2. k + 1 \in Int /\ Len(ls) \in Int
      OBVIOUS
<1> DEFINE ending == SubSeq(ls, k + 1, Len(ls))
<1>3. /\ ending \in Seq(LinesOf(Evs))
      /\ Len(ending) = IF k + 1 <= Len(ls) THEN Len(ls) - (k + 1) + 1 ELSE 0
      BY <1>1, <1>2, SubSeqProperties
<1> HIDE DEF ending
<1>4. Len(ending) = Len(ls) - k
      BY <1>3
<1> QED BY <1>3, <1>4 DEF ending

\* The newest lines of those that were read say the end of what all of them say,
\* and all of it if there are no more of them than are kept.
LEMMA TailOfSome ==
  ASSUME NEW Evs, NEW ls \in Seq(LinesOf(Evs)), NEW types, NEW limit \in Nat, NEW kept \in Nat
  PROVE  LET said == EventsIn(ls, types)
             tail == Newest(EventsIn(Newest(ls, kept), types), limit)
         IN  /\ said \in Seq(Evs)
             /\ tail = Newest(said, Len(tail)) /\ Len(tail) \in Nat
             /\ Len(tail) <= Len(said) /\ Len(tail) <= limit
             /\ Len(tail) = Smaller(limit, Len(said)) \/ Len(ls) > kept
<1> DEFINE n == Smaller(kept, Len(ls))
           k == Len(ls) - n
           ending == SubSeq(ls, k + 1, Len(ls))
           found == EventsIn(ending, types)
           said == EventsIn(ls, types)
           tail == Newest(EventsIn(Newest(ls, kept), types), limit)
<1>1. Len(ls) \in Nat
      OBVIOUS
<1>2. n \in Nat /\ n <= Len(ls) /\ (n < Len(ls) => Len(ls) > kept) /\ k \in 0 .. Len(ls)
      BY <1>1 DEF Smaller
<1>3. tail = Newest(found, limit)
      BY Zenon DEF Newest
<1> HIDE DEF k, n, tail
<1>4. PICK before \in Seq(Evs) : said = before \o found
  <2>1. k \in 0 .. Len(ls)
        BY <1>2
  <2> QED BY <2>1, TailIsFound, Zenon
<1>5. ending \in Seq(LinesOf(Evs))
      BY <1>2, SomeLines
<1>6. found \in Seq(Evs) /\ said \in Seq(Evs)
  <2> HIDE DEF ending
  <2> QED BY <1>5, WhatIsFound
<1> HIDE DEF found, said
<1>7. tail = Newest(said, Len(tail)) /\ Len(tail) = Smaller(limit, Len(found))
      BY <1>3, <1>4, <1>6, NewestOfTail
<1>8. Len(found) \in Nat /\ Len(said) \in Nat /\ Len(found) <= Len(said)
      BY <1>4, <1>6
<1>9. Len(tail) \in Nat /\ Len(tail) <= Len(said) /\ Len(tail) <= limit
      BY <1>7, <1>8 DEF Smaller
<1>10. Len(tail) = Smaller(limit, Len(said)) \/ Len(ls) > kept
  <2>1. CASE n = Len(ls)
    <3>1. k + 1 = 1
          BY <1>1, <2>1 DEF k
    <3>2. ending = ls
          BY <3>1, SubSeqFull
    <3>3. found = said
          BY <3>2, Zenon DEF found, said
    <3> QED BY <1>7, <3>3, Zenon
  <2>2. CASE n # Len(ls)
        BY <1>1, <1>2, <2>2
  <2> QED BY <2>1, <2>2
<1> QED BY <1>6, <1>7, <1>9, <1>10 DEF said, tail

\* The end of the end is the end.
LEMMA NewestOfEnd ==
  ASSUME NEW Evs, NEW b \in Seq(Evs), NEW s \in Seq(Evs), NEW n \in Nat, n <= Len(s)
  PROVE  Newest(s, n) = Newest(b \o s, n)
<1> DEFINE t == Newest(s, n)
<1>1. t = Newest(b \o s, Len(t)) /\ Len(t) = Smaller(n, Len(s))
      BY NewestOfTail
<1>2. Smaller(n, Len(s)) = n
      BY DEF Smaller
<1> HIDE DEF t
<1> QED BY <1>1, <1>2, Zenon DEF t

\* A tail read agrees with a full one, whatever is read and wherever it stops.
LEMMA TailOfLog ==
  ASSUME NEW Evs, lines \in Seq(LinesOf(Evs)), NEW types, NEW limit \in Nat,
         NEW from \in 1 .. Len(lines) + 1
  PROVE  LET tail == TailOf(types, limit, from)
         IN  /\ tail = Newest(Forward(types), Len(tail))
             /\ \/ from = 1
                \/ Len(EventsIn(Scanned(from), types)) >= limit
                => \/ Len(tail) = Smaller(limit, Len(Forward(types)))
                   \/ Len(Scanned(from)) > LinesPerEvent * limit
<1> DEFINE k == from - 1
           kept == LinesPerEvent * limit
           read == Scanned(from)
           said == EventsIn(read, types)
           tail == TailOf(types, limit, from)
<1>1. k \in 0 .. Len(lines) /\ k + 1 = from /\ kept \in Nat
      BY SessionFilesAssumption
<1>2. read = SubSeq(lines, k + 1, Len(lines))
      BY <1>1, Zenon DEF Scanned
<1>3. tail = Newest(EventsIn(Newest(read, kept), types), limit)
      BY Zenon DEF TailOf
<1>4. Forward(types) = EventsIn(lines, types)
      BY Zenon DEF Forward
<1> HIDE DEF k, kept, tail, read
<1>5. PICK before \in Seq(Evs) : Forward(types) = before \o said
  <2>1. k \in 0 .. Len(lines)
        BY <1>1
  <2>2. \E before \in Seq(Evs) :
          EventsIn(lines, types) = before \o EventsIn(SubSeq(lines, k + 1, Len(lines)), types)
        BY <2>1, TailIsFound, Zenon
  <2> QED BY <1>2, <1>4, <2>2, Zenon
<1>6. read \in Seq(LinesOf(Evs))
      BY <1>1, <1>2, SomeLines
<1>7. /\ said \in Seq(Evs)
      /\ tail = Newest(said, Len(tail)) /\ Len(tail) \in Nat
      /\ Len(tail) <= Len(said) /\ Len(tail) <= limit
      /\ Len(tail) = Smaller(limit, Len(said)) \/ Len(read) > kept
      BY <1>1, <1>3, <1>6, TailOfSome
<1> HIDE DEF said
<1>8. tail = Newest(Forward(types), Len(tail))
      BY <1>5, <1>7, NewestOfEnd
<1>9. Len(said) \in Nat /\ Len(Forward(types)) \in Nat /\ Len(said) <= Len(Forward(types))
      BY <1>5, <1>7
<1>10. ASSUME from = 1 \/ Len(said) >= limit
       PROVE  Len(tail) = Smaller(limit, Len(Forward(types))) \/ Len(read) > kept
  <2>1. CASE from = 1
    <3>1. read = lines
          BY <2>1, SubSeqFull DEF read, Scanned
    <3>2. said = Forward(types)
          BY <1>4, <3>1, Zenon DEF said
    <3> QED BY <1>7, <3>2, Zenon
  <2>2. CASE Len(said) >= limit
        BY <1>7, <1>9, <2>2 DEF Smaller
  <2> QED BY <1>10, <2>1, <2>2
<1> QED BY <1>8, <1>10 DEF tail, kept, said, read

\* Whatever events the lines hold, the conversation built of them is paired.
LEMMA RebuiltPaired ==
  ASSUME events \in Seq(EventKinds), lines \in Seq(LinesOf(DOMAIN events))
  PROVE  RebuiltIsPaired
<1> DEFINE found == Forward(AllTypes)
           said == [i \in DOMAIN found |-> events[found[i]]]
           snaps == {i \in DOMAIN said : said[i].type = "snapshot"}
           from == IF snaps = {} THEN 0 ELSE CHOOSE i \in snaps : \A j \in snaps : j <= i
           since == SubSeq(said, from + 1, Len(said))
           base == IF snaps = {} THEN <<>> ELSE Base
           raw == FoldLeft(Replayed, base, since)
<1>1. Rebuilt = FoldLeft(Merged, <<>>, Repaired(raw))
      BY Zenon DEF Rebuilt
<1>2. found \in Seq(DOMAIN events)
      BY WhatIsFound DEF Forward
<1>3. said \in Seq(EventKinds)
  <2> HIDE DEF found
  <2>1. /\ Len(found) \in Nat /\ DOMAIN found = 1 .. Len(found)
        /\ \A i \in 1 .. Len(found) : events[found[i]] \in EventKinds
        BY <1>2
  <2> QED BY <2>1
<1> HIDE DEF said
<1>4. /\ Len(said) \in Nat /\ DOMAIN said = 1 .. Len(said)
      /\ from \in 0 .. Len(said) /\ \A i \in snaps : i <= from
  <2>1. Len(said) \in Nat /\ DOMAIN said = 1 .. Len(said) /\ snaps \in SUBSET (1 .. Len(said))
        BY <1>3
  <2>2. CASE snaps = {}
        BY <2>1, <2>2
  <2>3. CASE snaps # {}
    <3> HIDE DEF snaps
    <3>1. \E x \in snaps : \A y \in snaps : x >= y
          BY <2>1, <2>3, GreatestOf
    <3>2. \E x \in snaps : \A y \in snaps : y <= x
          BY <2>1, <3>1
    <3>3. from \in snaps /\ \A y \in snaps : y <= from
          BY <2>3, <3>2
    <3> HIDE DEF from
    <3> QED BY <2>1, <3>3
  <2> QED BY <2>2, <2>3
<1>5. /\ since \in Seq(EventKinds) /\ Len(since) \in Nat
      /\ \A n \in 1 .. Len(since) : since[n] \in EventKinds /\ since[n].type # "snapshot"
  <2>0. \A i \in snaps : i <= from
        BY <1>4
  <2> HIDE DEF from, snaps
  <2>1. from + 1 \in Int /\ Len(said) \in Int /\
          \A i \in from + 1 .. Len(said) : said[i] \in EventKinds
        BY <1>3, <1>4
  <2>2. /\ since \in Seq(EventKinds)
        /\ Len(since) = IF from + 1 <= Len(said) THEN Len(said) - (from + 1) + 1 ELSE 0
        /\ \A i \in 1 .. Len(said) - (from + 1) + 1 : since[i] = said[from + 1 + i - 1]
        BY <2>1, SubSeqProperties
  <2> HIDE DEF since
  <2>3. Len(since) = Len(said) - from /\ Len(said) - (from + 1) + 1 = Len(said) - from
    <3>1. Len(said) \in Nat /\ from \in 0 .. Len(said)
          BY <1>4
    <3>2. /\ (IF from + 1 <= Len(said) THEN Len(said) - (from + 1) + 1 ELSE 0) = Len(said) - from
          /\ Len(said) - (from + 1) + 1 = Len(said) - from
          BY <3>1
    <3> QED BY <2>2, <3>2
  <2>4. ASSUME NEW n \in 1 .. Len(since)
        PROVE  since[n] \in EventKinds /\ since[n].type # "snapshot"
    <3>1. /\ n \in 1 .. Len(said) - (from + 1) + 1 /\ from + 1 + n - 1 = from + n
          /\ from + n \in 1 .. Len(said) /\ ~(from + n <= from)
      <4>1. Len(said) \in Nat /\ from \in 0 .. Len(said) /\ n \in 1 .. Len(said) - from
            BY <1>4, <2>3
      <4> QED BY <4>1
    <3>2. since[n] = said[from + n]
          BY <2>2, <3>1
    <3>3. from + n \notin snaps
          BY <2>0, <3>1
    <3>4. said[from + n] \in EventKinds /\ said[from + n].type # "snapshot"
      <4> DEFINE j == from + n
      <4>1. j \in 1 .. Len(said) /\ j \notin snaps
            BY <3>1, <3>3
      <4> HIDE DEF j
      <4>2. said[j] \in EventKinds /\ j \in DOMAIN said
            BY <1>3, <1>4, <4>1
      <4>3. said[j].type # "snapshot"
            BY <4>1, <4>2 DEF snaps
      <4> QED BY <4>2, <4>3 DEF j
    <3> QED BY <3>2, <3>4
  <2>5. Len(since) \in Nat
        BY <2>2
  <2> QED BY <2>2, <2>4, <2>5
<1> HIDE DEF since
<1>6. base \in Seq(Spoken)
  <2>1. Says("user", {}, {}, TRUE) \in Spoken /\ Says("assistant", {}, {}, TRUE) \in Spoken
        BY SaysType
  <2>2. \A x \in Spoken, y \in Spoken : <<x, y>> \in Seq(Spoken)
        OBVIOUS
  <2>3. Base \in Seq(Spoken)
        BY <2>1, <2>2, Zenon DEF Base
  <2> QED BY <2>3 DEF base
<1> HIDE DEF base
<1>7. raw \in Seq(Spoken)
  <2>1. ASSUME NEW ms \in Seq(Spoken), NEW n \in 1 .. Len(since)
        PROVE  Replayed(ms, since[n]) \in Seq(Spoken)
    <3>1. since[n] \in EventKinds /\ since[n].type # "snapshot"
          BY <1>5
    <3> QED BY <3>1, ReplayedType
  <2>2. PICK g : Replays(g, base, since)
    <3>1. since \in Seq(EventKinds)
          BY <1>5
    <3> DEFINE V == Seq(Spoken)
    <3>2. base \in V /\ \A ms \in V, n \in 1 .. Len(since) : Replayed(ms, since[n]) \in V
          BY <1>6, <2>1
    <3> HIDE DEF V, raw
    <3> QED BY <3>1, <3>2, Replaying
  <2> DEFINE Holds == {n \in 0 .. Len(since) : g[n] \in Seq(Spoken)}
  <2>3. 0 \in Holds
    <3>1. 0 \in 0 .. Len(since) /\ g[0] \in Seq(Spoken)
          BY <1>5, <1>6, <2>2 DEF Replays
    <3> QED BY <3>1
  <2>4. ASSUME NEW n \in 1 .. Len(since), n - 1 \in Holds PROVE n \in Holds
    <3>1. g[n - 1] \in Seq(Spoken) /\ g[n] = Replayed(g[n - 1], since[n])
          BY <2>2, <2>4 DEF Replays
    <3>2. n \in 0 .. Len(since)
          BY <1>5
    <3> QED BY <2>1, <3>1, <3>2
  <2>5. Len(since) \in 0 .. Len(since)
        BY <1>5
  <2>6. Len(since) \in Holds
    <3> HIDE DEF Holds
    <3> QED BY <1>5, <2>3, <2>4, <2>5, Stepwise
  <2>7. ReplayedAll(base, since) \in Seq(Spoken)
        BY <2>2, <2>6 DEF Replays
  <2> QED BY <2>7, Zenon DEF ReplayedAll
<1> HIDE DEF raw
<1> DEFINE out == FoldLeft(Merged, <<>>, Repaired(raw))
<1>8. out \in Seq(Spoken) /\ Answered(out) /\ (out # <<>> => Last(out).uses = {})
  <2>1. /\ Repaired(raw) \in Seq(Spoken) /\ Answered(Repaired(raw))
        /\ Repaired(raw) # <<>> => Last(Repaired(raw)).uses = {}
        BY <1>7, RepairedPaired
  <2> DEFINE p == Repaired(raw)
  <2> HIDE DEF p
  <2>2. p \in Seq(Spoken) /\ Answered(p) /\ (p # <<>> => Last(p).uses = {})
        BY <2>1 DEF p
  <2>3. LET o == FoldLeft(Merged, <<>>, p)
        IN  o \in Seq(Spoken) /\ Answered(o) /\ (o # <<>> => Last(o).uses = {})
        BY <2>2, MergedPaired
  <2> QED BY <2>3, Zenon DEF p
<1>9. Rebuilt = out
      BY <1>1
<1> HIDE DEF out
<1>10. ASSUME NEW i \in DOMAIN out, out[i].uses # {}
       PROVE  i < Len(out) /\ out[i + 1].role = "user" /\ out[i].uses \subseteq out[i + 1].results
  <2>1. i \in 1 .. Len(out) /\ Len(out) \in Nat
        BY <1>8, <1>10
  <2>2. i # Len(out)
        BY <1>8, <1>10, <2>1 DEF Last
  <2>3. i \in 1 .. Len(out) - 1
        BY <2>1, <2>2
  <2> QED BY <1>8, <1>10, <2>3 DEF Answered
<1> QED BY <1>9, <1>10, Zenon DEF RebuiltIsPaired

-----------------------------------------------------------------------------
(* Writing the event log.                                                   *)

\* Only the last line may be without its end.
Orderly(ls) == \A i \in 1 .. Len(ls) - 1 : ls[i].ended

\* The file ends in the middle of a line, which holds these events.
Cut(ls) == ls # <<>> /\ ~Last(ls).ended

\* The events of the line that the file ends in the middle of.
CutOff(ls) == IF Cut(ls) THEN ToSet(Last(ls).evs) ELSE {}

\* The events of the lines that parse.
Seen(ls) == {ls[n].evs[1] : n \in {i \in 1 .. Len(ls) : Parses(ls[i])}}

\* The parts of a concatenation.
LEMMA ConcatParts ==
  ASSUME NEW Elems, NEW a \in Seq(Elems), NEW b \in Seq(Elems)
  PROVE  /\ a \o b \in Seq(Elems) /\ Len(a \o b) = Len(a) + Len(b)
         /\ Len(a) \in Nat /\ Len(b) \in Nat
         /\ \A i \in 1 .. Len(a) : (a \o b)[i] = a[i]
         /\ \A i \in 1 .. Len(b) : (a \o b)[Len(a) + i] = b[i]
OBVIOUS

\* What is appended is there, the first line of it excepted where the file was
\* cut; of what was there only that cut line is lost.
LEMMA WriteAdds ==
  ASSUME NEW Evs, NEW ls \in Seq(LinesOf(Evs)), Orderly(ls),
         NEW added \in Seq(LinesOf(Evs)), added # <<>>, Orderly(added)
  PROVE  /\ Write(ls, added) \in Seq(LinesOf(Evs)) /\ Write(ls, added) # <<>>
         /\ Orderly(Write(ls, added))
         /\ Last(Write(ls, added)).ended = Last(added).ended
         /\ ToSet(Last(Write(ls, added)).evs) \subseteq ToSet(Last(added).evs) \cup CutOff(ls)
         /\ \A e \in Seen(ls) : e \in CutOff(ls) \/ e \in Seen(Write(ls, added))
         /\ \A e \in Seen(added) : \/ Cut(ls) /\ e = added[1].evs[1]
                                   \/ e \in Seen(Write(ls, added))
<1> DEFINE w == Write(ls, added)
<1>1. /\ Len(ls) \in Nat /\ Len(added) \in Nat \ {0} /\ Last(added) = added[Len(added)]
      /\ \A i \in 1 .. Len(ls) : ls[i] \in LinesOf(Evs)
      /\ \A i \in 1 .. Len(added) : added[i] \in LinesOf(Evs)
      BY DEF Last
<1>2. CASE ~Cut(ls)
  <2>1. w = ls \o added
        BY <1>2, Zenon DEF Write, Cut
  <2>2. /\ w \in Seq(LinesOf(Evs)) /\ Len(w) = Len(ls) + Len(added)
        /\ \A i \in 1 .. Len(ls) : w[i] = ls[i]
        /\ \A i \in 1 .. Len(added) : w[Len(ls) + i] = added[i]
        BY <2>1, ConcatParts
  <2> HIDE DEF w
  <2>3. Len(w) \in Nat /\ w # <<>> /\ Last(w) = Last(added)
        BY <1>1, <2>2 DEF Last
  <2>4. Orderly(w)
    <3>1. ASSUME NEW i \in 1 .. Len(w) - 1 PROVE w[i].ended
      <4>1. CASE i < Len(ls)
        <5>1. i \in 1 .. Len(ls) - 1 /\ w[i] = ls[i]
              BY <1>1, <2>2, <4>1
        <5>2. ls[i].ended
              BY <5>1 DEF Orderly
        <5> QED BY <5>1, <5>2
      <4>2. CASE i = Len(ls)
            BY <1>1, <1>2, <2>2, <4>2 DEF Cut, Last
      <4>3. CASE i > Len(ls)
        <5> DEFINE j == i - Len(ls)
        <5>1. j \in 1 .. Len(added) - 1 /\ Len(ls) + j = i
              BY <1>1, <2>2, <4>3
        <5> HIDE DEF j
        <5>2. w[i] = added[j]
          <6>1. j \in 1 .. Len(added)
                BY <1>1, <5>1
          <6>2. w[Len(ls) + j] = added[j]
                BY <2>2, <6>1
          <6> QED BY <5>1, <6>2
        <5>3. added[j].ended
              BY <5>1 DEF Orderly
        <5> QED BY <5>2, <5>3
      <4> QED BY <1>1, <4>1, <4>2, <4>3
    <3> QED BY <3>1 DEF Orderly
  <2>5. \A e \in Seen(ls) : e \in Seen(w)
    <3>1. ASSUME NEW n \in 1 .. Len(ls), Parses(ls[n]) PROVE ls[n].evs[1] \in Seen(w)
      <4>1. n \in 1 .. Len(w) /\ w[n] = ls[n]
            BY <1>1, <2>2
      <4> QED BY <3>1, <4>1 DEF Seen
    <3> QED BY <3>1 DEF Seen
  <2>6. \A e \in Seen(added) : e \in Seen(w)
    <3>1. ASSUME NEW n \in 1 .. Len(added), Parses(added[n]) PROVE added[n].evs[1] \in Seen(w)
      <4>1. Len(ls) + n \in 1 .. Len(w) /\ w[Len(ls) + n] = added[n]
            BY <1>1, <2>2
      <4> QED BY <3>1, <4>1 DEF Seen
    <3> QED BY <3>1 DEF Seen
  <2> QED BY <2>2, <2>3, <2>4, <2>5, <2>6 DEF w
<1>3. CASE Cut(ls)
  <2> DEFINE joined == [evs |-> Last(ls).evs \o added[1].evs, whole |-> added[1].whole,
                        ended |-> added[1].ended]
             kept == Append(Front(ls), joined)
  <2>1. w = kept \o Tail(added)
        BY <1>3, Zenon DEF Write, Cut
  <2>2. /\ ls # <<>> /\ Last(ls) = ls[Len(ls)] /\ Len(ls) # 0
        /\ Last(ls) \in LinesOf(Evs) /\ added[1] \in LinesOf(Evs)
        BY <1>1, <1>3 DEF Cut, Last
  <2>3. /\ joined \in LinesOf(Evs) /\ joined.ended = added[1].ended
        /\ ToSet(joined.evs) \subseteq ToSet(Last(ls).evs) \cup ToSet(added[1].evs)
    <3>1. ASSUME NEW a \in Seq(Evs), NEW b \in Seq(Evs), Len(b) # 0
          PROVE  /\ a \o b \in Seq(Evs) /\ Len(a \o b) # 0
                 /\ ToSet(a \o b) \subseteq ToSet(a) \cup ToSet(b)
      <4>1. /\ a \o b \in Seq(Evs) /\ Len(a \o b) = Len(a) + Len(b)
            /\ Len(a) \in Nat /\ Len(b) \in Nat
            /\ \A i \in 1 .. Len(a) : (a \o b)[i] = a[i]
            /\ \A i \in 1 .. Len(b) : (a \o b)[Len(a) + i] = b[i]
            BY ConcatParts
      <4>2. ASSUME NEW i \in 1 .. Len(a) + Len(b)
            PROVE  (a \o b)[i] \in ToSet(a) \cup ToSet(b)
        <5>1. CASE i <= Len(a)
              BY <4>1, <5>1 DEF ToSet
        <5>2. CASE i > Len(a)
          <6>1. i - Len(a) \in 1 .. Len(b) /\ Len(a) + (i - Len(a)) = i
                BY <4>1, <5>2
          <6>2. (a \o b)[i] = b[i - Len(a)]
                BY <4>1, <6>1
          <6> QED BY <6>1, <6>2 DEF ToSet
        <5> QED BY <4>1, <5>1, <5>2
      <4>3. DOMAIN (a \o b) = 1 .. Len(a) + Len(b)
            BY <4>1
      <4>4. ToSet(a \o b) \subseteq ToSet(a) \cup ToSet(b)
            BY <4>2, <4>3 DEF ToSet
      <4> QED BY <3>1, <4>1, <4>4
    <3>2. /\ Last(ls).evs \in Seq(Evs) /\ added[1].evs \in Seq(Evs) /\ Len(added[1].evs) # 0
          /\ added[1].whole \in BOOLEAN /\ added[1].ended \in BOOLEAN
          BY <2>2 DEF LinesOf
    <3>3. /\ Last(ls).evs \o added[1].evs \in Seq(Evs) /\ Len(Last(ls).evs \o added[1].evs) # 0
          /\ ToSet(Last(ls).evs \o added[1].evs) \subseteq
               ToSet(Last(ls).evs) \cup ToSet(added[1].evs)
          BY <3>1, <3>2
    <3> QED BY <3>2, <3>3 DEF LinesOf
  <2> HIDE DEF joined
  <2>4. /\ kept \in Seq(LinesOf(Evs)) /\ Len(kept) = Len(ls) /\ kept[Len(ls)] = joined
        /\ \A i \in 1 .. Len(ls) - 1 : kept[i] = ls[i]
    <3>1. /\ kept \in Seq(LinesOf(Evs)) /\ Len(kept) = Len(ls) /\ Last(kept) = joined
          /\ \A i \in 1 .. Len(ls) - 1 : kept[i] = ls[i]
          BY <2>2, <2>3, LastReplaced
    <3> QED BY <3>1 DEF Last
  <2> HIDE DEF kept
  <2>5. /\ Tail(added) \in Seq(LinesOf(Evs)) /\ Len(Tail(added)) = Len(added) - 1
        /\ \A i \in 1 .. Len(added) - 1 : Tail(added)[i] = added[i + 1]
        BY <1>1, HeadTailProperties
  <2>6. /\ w \in Seq(LinesOf(Evs)) /\ Len(w) = Len(ls) + Len(added) - 1
        /\ \A i \in 1 .. Len(ls) - 1 : w[i] = ls[i]
        /\ w[Len(ls)] = joined
        /\ \A i \in 2 .. Len(added) : w[Len(ls) - 1 + i] = added[i]
    <3>1. /\ w \in Seq(LinesOf(Evs)) /\ Len(w) = Len(kept) + Len(Tail(added))
          /\ \A i \in 1 .. Len(kept) : w[i] = kept[i]
          /\ \A i \in 1 .. Len(Tail(added)) : w[Len(kept) + i] = Tail(added)[i]
      <4> DEFINE others == Tail(added)
      <4>1. others \in Seq(LinesOf(Evs)) /\ w = kept \o others
            BY <2>1, <2>5
      <4> HIDE DEF others, w
      <4> DEFINE both == kept \o others
      <4>2. /\ both \in Seq(LinesOf(Evs)) /\ Len(both) = Len(kept) + Len(others)
            /\ \A i \in 1 .. Len(kept) : both[i] = kept[i]
            /\ \A i \in 1 .. Len(others) : both[Len(kept) + i] = others[i]
        <5>1. kept \in Seq(LinesOf(Evs)) /\ others \in Seq(LinesOf(Evs))
              BY <2>4, <4>1
        <5> QED BY <5>1, ConcatParts
      <4>3. w = both
            BY <4>1
      <4> HIDE DEF both
      <4> QED BY <4>2, <4>3 DEF others
    <3> HIDE DEF w
    <3>2. ASSUME NEW i \in 2 .. Len(added) PROVE w[Len(ls) - 1 + i] = added[i]
      <4> DEFINE j == i - 1
      <4>1. j \in 1 .. Len(added) - 1 /\ j + 1 = i /\ Len(ls) - 1 + i = Len(ls) + j
            BY <1>1
      <4> HIDE DEF j
      <4>2. w[Len(ls) + j] = added[j + 1]
            BY <2>4, <2>5, <3>1, <4>1
      <4> QED BY <4>1, <4>2
    <3>3. Len(ls) \in 1 .. Len(kept) /\ \A i \in 1 .. Len(ls) - 1 : i \in 1 .. Len(kept)
          BY <1>1, <2>2, <2>4
    <3>4. Len(w) = Len(ls) + Len(added) - 1
          BY <1>1, <2>4, <2>5, <3>1
    <3>5. w[Len(ls)] = joined /\ \A i \in 1 .. Len(ls) - 1 : w[i] = ls[i]
          BY <2>4, <3>1, <3>3
    <3> QED BY <3>1, <3>2, <3>4, <3>5
  <2> HIDE DEF w
  <2>7. Len(w) \in Nat \ {0} /\ w # <<>> /\ Last(w) = w[Len(w)]
        BY <1>1, <2>2, <2>6 DEF Last
  <2>8. Last(w).ended = Last(added).ended /\
          ToSet(Last(w).evs) \subseteq ToSet(Last(added).evs) \cup CutOff(ls)
    <3>1. CASE Len(added) = 1
      <4>1. Len(w) = Len(ls) /\ Last(added) = added[1]
            BY <1>1, <2>6, <3>1
      <4>2. Last(w) = joined
            BY <2>6, <2>7, <4>1
      <4>3. CutOff(ls) = ToSet(Last(ls).evs)
            BY <1>3 DEF CutOff
      <4>4. joined.ended = added[1].ended
            BY <2>3
      <4>5. ToSet(joined.evs) \subseteq ToSet(added[1].evs) \cup CutOff(ls)
            BY <2>3, <4>3
      <4>6. Last(w).ended = Last(added).ended
            BY <4>1, <4>2, <4>4
      <4>7. Last(w).evs = joined.evs /\ Last(added).evs = added[1].evs
            BY <4>1, <4>2
      <4>8. ToSet(Last(w).evs) \subseteq ToSet(Last(added).evs) \cup CutOff(ls)
            BY <4>5, <4>7, Zenon
      <4> QED BY <4>6, <4>8, Zenon
    <3>2. CASE Len(added) # 1
      <4>1. Len(added) \in 2 .. Len(added) /\ Len(w) = Len(ls) - 1 + Len(added)
        <5>1. Len(ls) \in Nat /\ Len(added) \in Nat /\ Len(added) >= 2
          <6>1. Len(ls) \in Nat /\ Len(added) \in Nat /\ Len(added) # 0
                BY <1>1
          <6>2. \A k \in Nat : k # 0 /\ k # 1 => k >= 2
                OBVIOUS
          <6> QED BY <3>2, <6>1, <6>2
        <5>2. Len(w) = Len(ls) + Len(added) - 1
              BY <2>6
        <5> QED BY <5>1, <5>2
      <4>2. Last(w) = Last(added)
            BY <1>1, <2>6, <2>7, <4>1
      <4> QED BY <4>2
    <3> QED BY <3>1, <3>2
  <2>9. Orderly(w)
    <3>1. ASSUME NEW i \in 1 .. Len(w) - 1 PROVE w[i].ended
      <4>1. CASE i < Len(ls)
            BY <1>1, <2>6, <4>1 DEF Orderly
      <4>2. CASE i = Len(ls)
        <5>1. 1 \in 1 .. Len(added) - 1
              BY <1>1, <2>6, <4>2
        <5> QED BY <2>3, <2>6, <4>2, <5>1 DEF Orderly
      <4>3. CASE i > Len(ls)
        <5> DEFINE j == i - Len(ls) + 1
        <5>1. j \in 2 .. Len(added) /\ j \in 1 .. Len(added) - 1 /\ Len(ls) - 1 + j = i
              BY <1>1, <2>6, <4>3
        <5> HIDE DEF j
        <5>2. w[Len(ls) - 1 + j] = added[j]
              BY <2>6, <5>1
        <5> QED BY <5>1, <5>2 DEF Orderly
      <4> QED BY <1>1, <4>1, <4>2, <4>3
    <3> QED BY <3>1 DEF Orderly
  <2>10. \A e \in Seen(ls) : e \in CutOff(ls) \/ e \in Seen(w)
    <3>1. ASSUME NEW n \in 1 .. Len(ls), Parses(ls[n])
          PROVE  ls[n].evs[1] \in CutOff(ls) \/ ls[n].evs[1] \in Seen(w)
      <4>1. CASE n = Len(ls)
        <5>1. ls[n] = Last(ls) /\ Len(ls[n].evs) = 1 /\ ls[n].evs \in Seq(Evs)
              BY <2>2, <3>1, <4>1 DEF Parses, LinesOf
        <5>2. 1 \in DOMAIN ls[n].evs
              BY <5>1
        <5> QED BY <1>3, <5>1, <5>2 DEF CutOff, ToSet
      <4>2. CASE n # Len(ls)
        <5>1. n \in 1 .. Len(w) /\ w[n] = ls[n]
              BY <1>1, <2>6, <4>2
        <5> QED BY <3>1, <5>1 DEF Seen
      <4> QED BY <4>1, <4>2
    <3> QED BY <3>1 DEF Seen
  <2>11. \A e \in Seen(added) : (Cut(ls) /\ e = added[1].evs[1]) \/ e \in Seen(w)
    <3>1. ASSUME NEW n \in 1 .. Len(added), n # 1, Parses(added[n])
          PROVE  added[n].evs[1] \in Seen(w)
      <4>1. n \in 2 .. Len(added) /\ Len(ls) - 1 + n \in 1 .. Len(w)
            BY <1>1, <2>2, <2>6, <3>1
      <4>2. w[Len(ls) - 1 + n] = added[n]
            BY <2>6, <4>1
      <4> DEFINE j == Len(ls) - 1 + n
      <4> HIDE DEF j
      <4>3. j \in 1 .. Len(w) /\ w[j] = added[n]
            BY <4>1, <4>2 DEF j
      <4> QED BY <3>1, <4>3 DEF Seen
    <3> QED BY <1>3, <3>1 DEF Seen
  <2> QED BY <2>6, <2>7, <2>8, <2>9, <2>10, <2>11 DEF w
<1> QED BY <1>2, <1>3

\* A whole write has a line for each event,
LEMMA WholeLines ==
  ASSUME NEW Evs, NEW evs \in Seq(Evs)
  PROVE  /\ Whole(evs) \in Seq(LinesOf(Evs)) /\ Len(Whole(evs)) = Len(evs)
         /\ \A i \in 1 .. Len(evs) : Whole(evs)[i] =
              [evs |-> <<evs[i]>>, whole |-> TRUE, ended |-> TRUE]
         /\ Orderly(Whole(evs)) /\ ToSet(evs) \subseteq Seen(Whole(evs))
<1>1. Len(evs) \in Nat /\ DOMAIN evs = 1 .. Len(evs)
      OBVIOUS
<1>2. ASSUME NEW i \in 1 .. Len(evs)
      PROVE  [evs |-> <<evs[i]>>, whole |-> TRUE, ended |-> TRUE] \in LinesOf(Evs)
  <2>1. evs[i] \in Evs
        OBVIOUS
  <2>2. <<evs[i]>> \in Seq(Evs) /\ Len(<<evs[i]>>) # 0
        BY <2>1
  <2> QED BY <2>2 DEF LinesOf
<1> DEFINE ls == [i \in 1 .. Len(evs) |-> [evs |-> <<evs[i]>>, whole |-> TRUE, ended |-> TRUE]]
<1>3. Whole(evs) = ls
      BY <1>1, Zenon DEF Whole
<1>4. /\ ls \in Seq(LinesOf(Evs)) /\ Len(ls) = Len(evs)
      /\ \A i \in 1 .. Len(evs) : ls[i] = [evs |-> <<evs[i]>>, whole |-> TRUE, ended |-> TRUE]
  <2>1. ls \in [1 .. Len(evs) -> LinesOf(Evs)]
        BY <1>2
  <2>2. \A f \in [1 .. Len(evs) -> LinesOf(Evs)] : f \in Seq(LinesOf(Evs)) /\ Len(f) = Len(evs)
        BY <1>1
  <2> QED BY <2>1, <2>2
<1> HIDE DEF ls
<1>5. ASSUME NEW i \in 1 .. Len(evs)
      PROVE  ls[i].ended /\ Parses(ls[i]) /\ ls[i].evs[1] = evs[i]
  <2>1. ls[i].ended = TRUE /\ ls[i].whole = TRUE /\ ls[i].evs = <<evs[i]>>
    <3>1. ls[i] = [evs |-> <<evs[i]>>, whole |-> TRUE, ended |-> TRUE]
          BY <1>4, Zenon
    <3> QED BY <3>1
  <2>2. \A x : Len(<<x>>) = 1 /\ <<x>>[1] = x
        OBVIOUS
  <2>3. Len(ls[i].evs) = 1 /\ ls[i].evs[1] = evs[i]
        BY <2>1, <2>2
  <2> QED BY <2>1, <2>3 DEF Parses
<1>6. Orderly(ls)
      BY <1>1, <1>4, <1>5 DEF Orderly
<1>7. ToSet(evs) \subseteq Seen(ls)
      BY <1>1, <1>4, <1>5 DEF Seen, ToSet
<1> QED BY <1>3, <1>4, <1>6, <1>7

\* and one that stopped ends with a line that is cut.
LEMMA TornLines ==
  ASSUME NEW Evs, NEW evs \in Seq(Evs), NEW t \in Torn(evs)
  PROVE  /\ t \in Seq(LinesOf(Evs)) /\ t # <<>> /\ Orderly(t)
         /\ Last(t).ended = FALSE /\ ToSet(Last(t).evs) \subseteq ToSet(evs)
<1>1. PICK k \in 0 .. Len(evs) - 1, w \in BOOLEAN : t = Stopped(evs, k, w)
      BY DEF Torn
<1> DEFINE part == [evs |-> <<evs[k + 1]>>, whole |-> w, ended |-> FALSE]
           before == SubSeq(Whole(evs), 1, k)
<1>2. k + 1 \in 1 .. Len(evs) /\ Len(evs) \in Nat /\ k \in Nat /\ DOMAIN evs = 1 .. Len(evs)
      OBVIOUS
<1>3. part \in LinesOf(Evs) /\ part.ended = FALSE /\ ToSet(part.evs) \subseteq ToSet(evs)
  <2>1. evs[k + 1] \in Evs /\ evs[k + 1] \in ToSet(evs)
        BY <1>2 DEF ToSet
  <2>2. \A x \in Evs : <<x>> \in Seq(Evs) /\ Len(<<x>>) # 0 /\ ToSet(<<x>>) = {x}
        BY DEF ToSet
  <2>3. <<evs[k + 1]>> \in Seq(Evs) /\ Len(<<evs[k + 1]>>) # 0 /\
          ToSet(<<evs[k + 1]>>) \subseteq ToSet(evs)
        BY <2>1, <2>2
  <2> QED BY <2>3 DEF LinesOf
<1>4. /\ before \in Seq(LinesOf(Evs)) /\ Len(before) = k
      /\ \A i \in 1 .. k : before[i] = Whole(evs)[i]
  <2> DEFINE ls == Whole(evs)
  <2>1. ls \in Seq(LinesOf(Evs)) /\ Len(ls) = Len(evs)
        BY WholeLines
  <2> HIDE DEF ls
  <2>2. k \in Int /\ 1 \in Int /\ \A i \in 1 .. k : ls[i] \in LinesOf(Evs)
        BY <1>2, <2>1
  <2>3. /\ SubSeq(ls, 1, k) \in Seq(LinesOf(Evs))
        /\ Len(SubSeq(ls, 1, k)) = IF 1 <= k THEN k - 1 + 1 ELSE 0
        /\ \A i \in 1 .. k - 1 + 1 : SubSeq(ls, 1, k)[i] = ls[1 + i - 1]
        BY <2>2, SubSeqProperties
  <2>4. (IF 1 <= k THEN k - 1 + 1 ELSE 0) = k /\ k - 1 + 1 = k /\ \A i \in 1 .. k : 1 + i - 1 = i
        BY <1>2
  <2>5. /\ SubSeq(ls, 1, k) \in Seq(LinesOf(Evs)) /\ Len(SubSeq(ls, 1, k)) = k
        /\ \A i \in 1 .. k : SubSeq(ls, 1, k)[i] = ls[i]
        BY <2>3, <2>4
  <2> QED BY <2>5 DEF ls
<1> HIDE DEF part, before
<1>5. /\ t = Append(before, part) /\ t \in Seq(LinesOf(Evs)) /\ Len(t) = k + 1
      /\ t[k + 1] = part /\ \A i \in 1 .. k : t[i] = before[i]
  <2>1. t = Append(before, part)
        BY <1>1, Zenon DEF Stopped, before, part
  <2>2. /\ Append(before, part) \in Seq(LinesOf(Evs)) /\ Len(Append(before, part)) = k + 1
        /\ Append(before, part)[k + 1] = part
        /\ \A i \in 1 .. k : Append(before, part)[i] = before[i]
        BY <1>3, <1>4
  <2> QED BY <2>1, <2>2
<1>6. t # <<>> /\ Last(t) = part
      BY <1>2, <1>5 DEF Last
<1>7. Orderly(t)
  <2>1. ASSUME NEW i \in 1 .. Len(t) - 1 PROVE t[i].ended
    <3>1. i \in 1 .. k /\ i \in 1 .. Len(evs)
          BY <1>2, <1>5
    <3>2. Whole(evs)[i] = [evs |-> <<evs[i]>>, whole |-> TRUE, ended |-> TRUE]
          BY <3>1, WholeLines
    <3>3. t[i] = Whole(evs)[i]
          BY <1>4, <1>5, <3>1
    <3> QED BY <3>2, <3>3
  <2> QED BY <2>1 DEF Orderly
<1> QED BY <1>3, <1>5, <1>6, <1>7

\* What can be read are the events of the lines that parse.
LEMMA WhatIsReadable ==
  ASSUME events \in Seq(EventKinds), lines \in Seq(LinesOf(DOMAIN events))
  PROVE  Readable = Seen(lines)
<1>1. ASSUME NEW n \in 1 .. Len(lines) PROVE Typed(lines[n], AllTypes) <=> Parses(lines[n])
  <2>1. CASE Parses(lines[n])
    <3>1. lines[n] \in LinesOf(DOMAIN events)
          OBVIOUS
    <3>2. lines[n].evs[1] \in DOMAIN events
          BY <2>1, <3>1 DEF Parses, LinesOf
    <3>3. events[lines[n].evs[1]] \in EventKinds
          BY <3>2
    <3>4. \A e \in EventKinds : e.type \in AllTypes
          BY DEF EventKinds, AllTypes
    <3> QED BY <2>1, <3>3, <3>4 DEF Typed
  <2>2. CASE ~Parses(lines[n])
        BY <2>2 DEF Typed
  <2> QED BY <2>1, <2>2
<1>2. \A e : e \in ToSet(EventsIn(lines, AllTypes))
               <=> \E n \in 1 .. Len(lines) : Typed(lines[n], AllTypes) /\ e = lines[n].evs[1]
      BY WhatIsFound
<1>3. Readable = ToSet(EventsIn(lines, AllTypes))
      BY Zenon DEF Readable, Forward
<1>4. \A e : e \in Readable <=> e \in Seen(lines)
      BY <1>1, <1>2, <1>3 DEF Seen
<1> QED BY <1>4

\* The log, and what of it has been heard: no listener has an event that is being
\* written or that the file ends in the middle of, and each event that it has and
\* no reader finds is the loss of a crash; a file that is cut is one loss to come.
LogTypes ==
  /\ events \in Seq(EventKinds) /\ Len(events) <= MaxEvents
  /\ turn \in [next : {"user", "assistant", "result", "snapshot"}, open : SUBSET Asks]
  /\ lines \in Seq(LinesOf(DOMAIN events))
  /\ writing \in Seq(DOMAIN events)
  /\ heard \subseteq DOMAIN events
  /\ crashes \in 0 .. MaxCrashes

\* The inductive invariant of the log.
LogInv ==
  /\ LogTypes
  /\ Orderly(lines)
  /\ heard \cap ToSet(writing) = {}
  /\ heard \cap CutOff(lines) = {}
  /\ Cardinality(heard \ Seen(lines)) <= crashes
  /\ Cut(lines) => Cardinality(heard \ Seen(lines)) + 1 <= crashes

\* An event is one the log can hold, and the turn goes on after it.
LEMMA NextOfTurn ==
  ASSUME LogTypes, Len(events) < MaxEvents, NEW e \in NextEvents
  PROVE  /\ e \in EventKinds
         /\ After(e) \in [next : {"user", "assistant", "result", "snapshot"}, open : SUBSET Asks]
<1>0. Len(events) \in Nat /\ MaxEvents \in Nat /\ MaxCalls \in Nat
      BY SessionFilesAssumption DEF LogTypes
<1>1. /\ turn.next \in {"user", "assistant", "result", "snapshot"} /\ turn.open \subseteq Asks
      BY DEF LogTypes
<1>2. e \in EventKinds
  <2>1. CASE turn.next = "assistant"
    <3>1. NextEvents =
            [type : {"assistant"}, uses : {{Len(events) + 1} \X (1 .. k) : k \in 0 .. MaxCalls}]
          BY <2>1, Zenon DEF NextEvents
    <3>2. \A k \in 0 .. MaxCalls : {Len(events) + 1} \X (1 .. k) \subseteq Asks
          BY <1>0 DEF Asks
    <3> QED BY <3>1, <3>2 DEF EventKinds
  <2>2. CASE turn.next = "result"
    <3>1. NextEvents = [type : {"result"}, call : turn.open]
      <4>1. turn.next # "assistant"
            BY <2>2
      <4> QED BY <2>2, <4>1, Zenon DEF NextEvents
    <3> QED BY <1>1, <3>1 DEF EventKinds
  <2>3. CASE turn.next \notin {"assistant", "result"}
    <3>1. NextEvents = [type : {turn.next}]
      <4>1. turn.next # "assistant" /\ turn.next # "result"
            BY <2>3
      <4> QED BY <4>1, Zenon DEF NextEvents
    <3>2. turn.next \in {"user", "snapshot"}
          BY <1>1, <2>3
    <3> QED BY <3>1, <3>2 DEF EventKinds
  <2> QED BY <2>1, <2>2, <2>3
<1>3. After(e) \in [next : {"user", "assistant", "result", "snapshot"}, open : SUBSET Asks]
  <2>1. CASE e.type = "user"
    <3>1. After(e) = At("assistant", {})
          BY <2>1, Zenon DEF After
    <3> QED BY <3>1 DEF At
  <2>2. CASE e.type = "assistant"
    <3>1. After(e) = IF e.uses = {} THEN At("snapshot", {}) ELSE At("result", e.uses)
      <4>1. e.type # "user"
            BY <2>2
      <4> QED BY <2>2, <4>1, Zenon DEF After
    <3>2. e.uses \subseteq Asks
          BY <1>2, <2>2 DEF EventKinds
    <3> QED BY <3>1, <3>2 DEF At
  <2>3. CASE e.type = "snapshot"
    <3>1. After(e) = At("user", {})
      <4>1. e.type # "user" /\ e.type # "assistant"
            BY <2>3
      <4> QED BY <2>3, <4>1, Zenon DEF After
    <3> QED BY <3>1 DEF At
  <2>4. CASE e.type = "result"
    <3>1. After(e) = IF turn.open = {e.call} THEN At("assistant", {})
                     ELSE At("result", turn.open \ {e.call})
      <4>1. e.type # "user" /\ e.type # "assistant" /\ e.type # "snapshot"
            BY <2>4
      <4> QED BY <2>4, <4>1, Zenon DEF After
    <3> QED BY <1>1, <3>1 DEF At
  <2> QED BY <1>2, <2>1, <2>2, <2>3, <2>4 DEF EventKinds
<1> QED BY <1>2, <1>3

\* It holds before the first event.
LEMMA LogInit == ASSUME Init PROVE LogInv
<1>1. LogTypes
  <2>1. turn \in [next : {"user", "assistant", "result", "snapshot"}, open : SUBSET Asks]
        BY DEF Init, At
  <2> QED BY <2>1, SessionFilesAssumption DEF Init, LogTypes
<1>2. ~Cut(lines) /\ CutOff(lines) = {} /\ Orderly(lines)
      BY DEF Init, Cut, CutOff, Orderly
<1>3. heard = {} /\ crashes = 0
      BY DEF Init
<1>4. heard \ Seen(lines) = {} /\ heard \cap ToSet(writing) = {} /\ heard \cap CutOff(lines) = {}
      BY <1>3
<1>5. Cardinality(heard \ Seen(lines)) = 0
      BY <1>4, FS_EmptySet
<1> QED BY <1>1, <1>2, <1>3, <1>4, <1>5 DEF LogInv

\* The log goes on with one event; the lines stay as they are.
LEMMA EventLogged ==
  ASSUME LogInv, NEW e \in NextEvents, BeginAppend(e) \/ JoinBatch(e)
  PROVE  LogInv'
<1> DEFINE n == Len(events) + 1
<1>1. /\ Len(events) \in Nat /\ DOMAIN events = 1 .. Len(events) /\ MaxEvents \in Nat
      /\ Len(events) < MaxEvents
      BY SessionFilesAssumption DEF LogInv, LogTypes, BeginAppend, JoinBatch
<1>2. e \in EventKinds
      BY <1>1, NextOfTurn DEF LogInv
<1>3. After(e) \in [next : {"user", "assistant", "result", "snapshot"}, open : SUBSET Asks]
      BY <1>1, NextOfTurn DEF LogInv
<1>4. /\ events' = Append(events, e) /\ turn' = After(e) /\ lines' = lines /\ heard' = heard
      /\ crashes' = crashes
      BY DEF BeginAppend, JoinBatch
<1>5. /\ events' \in Seq(EventKinds) /\ Len(events') = n /\ DOMAIN events' = 1 .. n
      BY <1>2, <1>4 DEF LogInv, LogTypes
<1>6. DOMAIN events \subseteq DOMAIN events' /\ n \in DOMAIN events' /\ n \notin heard
      BY <1>1, <1>5 DEF LogInv, LogTypes
<1>7. lines' \in Seq(LinesOf(DOMAIN events'))
  <2>1. \A l \in LinesOf(DOMAIN events) : l \in LinesOf(DOMAIN events')
        BY <1>6 DEF LinesOf
  <2>2. lines \in Seq(LinesOf(DOMAIN events))
        BY DEF LogInv, LogTypes
  <2> QED BY <1>4, <2>1, <2>2
<1>8. writing' \in Seq(DOMAIN events') /\ heard' \cap ToSet(writing)' = {}
  <2>1. writing \in Seq(DOMAIN events')
        BY <1>6 DEF LogInv, LogTypes
  <2>2. CASE writing' = <<n>>
        BY <1>4, <1>6, <2>2 DEF ToSet
  <2>3. CASE writing' = Append(writing, n)
    <3>1. /\ writing' \in Seq(DOMAIN events') /\ Len(writing') = Len(writing) + 1
          /\ writing'[Len(writing) + 1] = n /\ Len(writing) \in Nat
          /\ \A i \in 1 .. Len(writing) : writing'[i] = writing[i]
          BY <1>6, <2>1, <2>3
    <3>2. ASSUME NEW i \in 1 .. Len(writing') PROVE writing'[i] \notin heard
      <4>1. \A j \in 1 .. Len(writing) : writing[j] \in ToSet(writing)
            BY <2>1 DEF ToSet
      <4> QED BY <1>6, <3>1, <3>2, <4>1 DEF LogInv
    <3> QED BY <1>4, <3>1, <3>2 DEF ToSet
  <2> QED BY <2>2, <2>3 DEF BeginAppend, JoinBatch
<1>9. LogTypes'
      BY <1>1, <1>3, <1>4, <1>5, <1>6, <1>7, <1>8 DEF LogTypes, LogInv
<1>10. /\ Orderly(lines)' /\ CutOff(lines)' = CutOff(lines) /\ Seen(lines)' = Seen(lines)
       /\ Cut(lines)' = Cut(lines)
      BY <1>4 DEF LogInv
<1> QED BY <1>4, <1>8, <1>9, <1>10 DEF LogInv

\* What was written can be read, but for its first event where the file was cut.
LEMMA WritingEnds ==
  ASSUME LogInv, EndAppend
  PROVE  LogInv'
<1>1. /\ writing \in Seq(DOMAIN events) /\ writing # <<>> /\ lines \in Seq(LinesOf(DOMAIN events))
      /\ Orderly(lines) /\ heard \subseteq DOMAIN events /\ crashes \in Nat
      BY SessionFilesAssumption DEF EndAppend, LogInv, LogTypes
<1>2. /\ writing' = <<>> /\ events' = events /\ crashes' = crashes
      BY DEF EndAppend
<1>3. heard' \cap ToSet(writing)' = {}
      BY <1>2 DEF ToSet
<1>4. writing' \in Seq(DOMAIN events')
      BY <1>2
<1>5. CASE dir
  <2> DEFINE added == Whole(writing)
  <2>1. lines' = Write(lines, added) /\ heard' = heard \cup ToSet(writing) /\ turn' = turn
        BY <1>5 DEF EndAppend
  <2>2. /\ added \in Seq(LinesOf(DOMAIN events)) /\ Len(added) = Len(writing) /\ Orderly(added)
        /\ \A i \in 1 .. Len(writing) :
             added[i] = [evs |-> <<writing[i]>>, whole |-> TRUE, ended |-> TRUE]
        /\ ToSet(writing) \subseteq Seen(added)
        BY <1>1, WholeLines
  <2> HIDE DEF added
  <2>3. Len(writing) \in Nat \ {0} /\ added # <<>> /\ Last(added) = added[Len(writing)]
        BY <1>1, <2>2 DEF Last
  <2>4. Last(added).ended = TRUE /\ added[1].evs[1] = writing[1]
    <3>1. ASSUME NEW i \in 1 .. Len(writing)
          PROVE  added[i].ended = TRUE /\ added[i].evs = <<writing[i]>>
      <4>1. added[i] = [evs |-> <<writing[i]>>, whole |-> TRUE, ended |-> TRUE]
            BY <2>2, Zenon
      <4> QED BY <4>1
    <3>2. 1 \in 1 .. Len(writing) /\ Len(writing) \in 1 .. Len(writing)
          BY <2>3
    <3>3. added[1].evs[1] = writing[1]
      <4>1. added[1].evs = <<writing[1]>>
            BY <3>1, <3>2, Zenon
      <4>2. \A x : <<x>>[1] = x
            OBVIOUS
      <4>3. <<writing[1]>>[1] = writing[1]
            BY <4>2
      <4> QED BY <4>1, <4>3, Zenon
    <3>4. Last(added).ended = TRUE
      <4>1. added[Len(writing)].ended = TRUE
            BY <3>1, <3>2, Zenon
      <4> QED BY <2>3, <4>1, Zenon
    <3> QED BY <3>3, <3>4
  <2> DEFINE written == Write(lines, added)
  <2>5. /\ written \in Seq(LinesOf(DOMAIN events)) /\ written # <<>> /\ Orderly(written)
        /\ Last(written).ended = Last(added).ended
        /\ \A e \in Seen(lines) : e \in CutOff(lines) \/ e \in Seen(written)
        /\ \A e \in Seen(added) : \/ Cut(lines) /\ e = added[1].evs[1]
                                  \/ e \in Seen(written)
    <3>1. lines \in Seq(LinesOf(DOMAIN events)) /\ Orderly(lines)
          BY <1>1
    <3>2. added \in Seq(LinesOf(DOMAIN events)) /\ added # <<>> /\ Orderly(added)
          BY <2>2, <2>3
    <3>3. /\ Write(lines, added) \in Seq(LinesOf(DOMAIN events)) /\ Write(lines, added) # <<>>
          /\ Orderly(Write(lines, added))
          /\ Last(Write(lines, added)).ended = Last(added).ended
          BY <3>1, <3>2, WriteAdds
    <3>4. \A e \in Seen(lines) : e \in CutOff(lines) \/ e \in Seen(Write(lines, added))
          BY <3>1, <3>2, WriteAdds
    <3>5. \A e \in Seen(added) :
            (Cut(lines) /\ e = added[1].evs[1]) \/ e \in Seen(Write(lines, added))
          BY <3>1, <3>2, WriteAdds
    <3> QED BY <3>3, <3>4, <3>5
  <2> HIDE DEF written
  <2>6. /\ lines' \in Seq(LinesOf(DOMAIN events)) /\ lines' # <<>> /\ Orderly(lines')
        /\ Last(lines').ended = Last(added).ended
        /\ \A e \in Seen(lines) : e \in CutOff(lines) \/ e \in Seen(lines')
        /\ \A e \in Seen(added) : \/ Cut(lines) /\ e = added[1].evs[1]
                                  \/ e \in Seen(lines')
    <3>1. lines' = written
          BY <2>1 DEF written
    <3> QED BY <2>5, <3>1, Zenon
  <2>7. ~Cut(lines') /\ CutOff(lines') = {}
        BY <2>4, <2>6 DEF Cut, CutOff
  <2>8. ToSet(writing) \subseteq DOMAIN events
        BY <1>1 DEF ToSet
  <2>9. LogTypes'
        BY <1>1, <1>2, <1>4, <2>1, <2>6, <2>8 DEF LogTypes, LogInv
  <2> DEFINE lost == heard \ Seen(lines)
             lostThen == heard' \ Seen(lines')
  <2>10. lostThen \subseteq lost \cup {writing[1]} /\ (~Cut(lines) => lostThen \subseteq lost)
        BY <2>1, <2>2, <2>4, <2>6 DEF LogInv
  <2>11. IsFiniteSet(lost) /\ Cardinality(lost) \in Nat
    <3>1. IsFiniteSet(DOMAIN events)
      <4>1. DOMAIN events = 1 .. Len(events) /\ Len(events) \in Nat
            BY DEF LogInv, LogTypes
      <4> QED BY <4>1, FS_Interval
    <3>2. lost \subseteq DOMAIN events
          BY <1>1
    <3> QED BY <3>1, <3>2, FS_Subset, FS_CardinalityType
  <2>12. Cardinality(lostThen) <= crashes
    <3>1. CASE Cut(lines)
      <4>1. /\ IsFiniteSet(lost \cup {writing[1]})
            /\ Cardinality(lost \cup {writing[1]}) <= Cardinality(lost) + 1
            BY <2>11, FS_AddElement
      <4>2. Cardinality(lostThen) <= Cardinality(lost \cup {writing[1]})
            BY <2>10, <4>1, FS_Subset
      <4>3. Cardinality(lost) + 1 <= crashes
            BY <3>1 DEF LogInv
      <4>4. Cardinality(lostThen) \in Nat /\ Cardinality(lost \cup {writing[1]}) \in Nat
            BY <2>10, <4>1, FS_Subset, FS_CardinalityType
      <4> HIDE DEF lost, lostThen
      <4> QED BY <1>1, <2>11, <4>1, <4>2, <4>3, <4>4
    <3>2. CASE ~Cut(lines)
      <4>1. Cardinality(lostThen) <= Cardinality(lost) /\ Cardinality(lostThen) \in Nat
            BY <2>10, <2>11, <3>2, FS_Subset, FS_CardinalityType
      <4>2. Cardinality(lost) <= crashes
            BY DEF LogInv
      <4> HIDE DEF lost, lostThen
      <4> QED BY <1>1, <2>11, <4>1, <4>2
    <3> QED BY <3>1, <3>2
  <2> QED BY <1>2, <1>3, <2>6, <2>7, <2>9, <2>12 DEF LogInv
<1>6. CASE ~dir
  <2>1. lines' = lines /\ heard' = heard /\ turn' = At("user", {})
        BY <1>6 DEF EndAppend
  <2>2. turn' \in [next : {"user", "assistant", "result", "snapshot"}, open : SUBSET Asks]
        BY <2>1 DEF At
  <2>3. LogTypes'
        BY <1>2, <1>4, <2>1, <2>2 DEF LogTypes, LogInv
  <2> QED BY <1>2, <1>3, <2>1, <2>3 DEF LogInv
<1> QED BY <1>5, <1>6

\* A crash in a write cuts the file, in the middle of an event that nobody heard.
LEMMA WritingStops ==
  ASSUME LogInv, Crash
  PROVE  LogInv'
<1>1. /\ writing \in Seq(DOMAIN events) /\ lines \in Seq(LinesOf(DOMAIN events))
      /\ Orderly(lines) /\ heard \subseteq DOMAIN events /\ crashes \in Nat
      BY SessionFilesAssumption DEF LogInv, LogTypes
<1>2. /\ writing' = <<>> /\ events' = events /\ crashes' = crashes + 1 /\ heard' = heard
      /\ turn' = At("user", {}) /\ crashes' \in 0 .. MaxCrashes
      BY <1>1, SessionFilesAssumption DEF Crash
<1>3. heard' \cap ToSet(writing)' = {}
      BY <1>2 DEF ToSet
<1>4. writing' \in Seq(DOMAIN events')
      BY <1>2
<1>5. turn' \in [next : {"user", "assistant", "result", "snapshot"}, open : SUBSET Asks]
      BY <1>2 DEF At
<1> DEFINE lost == heard \ Seen(lines)
           lostThen == heard \ Seen(lines')
<1>6. IsFiniteSet(lost) /\ Cardinality(lost) \in Nat /\ Cardinality(lost) <= crashes
  <2>1. IsFiniteSet(DOMAIN events)
    <3>1. DOMAIN events = 1 .. Len(events) /\ Len(events) \in Nat
          BY DEF LogInv, LogTypes
    <3> QED BY <3>1, FS_Interval
  <2>2. lost \subseteq DOMAIN events
        BY <1>1
  <2> QED BY <2>1, <2>2, FS_Subset, FS_CardinalityType DEF LogInv
<1>7. CASE lines' = lines
  <2>1. LogTypes'
        BY <1>2, <1>4, <1>5, <1>7 DEF LogTypes, LogInv
  <2>2. Seen(lines') = Seen(lines) /\ CutOff(lines') = CutOff(lines) /\ Orderly(lines')
        BY <1>1, <1>7
  <2>3. Cardinality(lost) + 1 <= crashes' /\ Cardinality(lost) <= crashes'
    <3> HIDE DEF lost
    <3> QED BY <1>1, <1>2, <1>6
  <2> QED BY <1>2, <1>3, <2>1, <2>2, <2>3 DEF LogInv
<1>8. ASSUME NEW t \in Torn(writing), lines' = Write(lines, t)
      PROVE  LogInv'
  <2>1. /\ t \in Seq(LinesOf(DOMAIN events)) /\ t # <<>> /\ Orderly(t)
        /\ ToSet(Last(t).evs) \subseteq ToSet(writing)
        BY <1>1, TornLines
  <2>2. /\ lines' \in Seq(LinesOf(DOMAIN events)) /\ Orderly(lines')
        /\ ToSet(Last(lines').evs) \subseteq ToSet(Last(t).evs) \cup CutOff(lines)
        /\ \A e \in Seen(lines) : e \in CutOff(lines) \/ e \in Seen(lines')
        BY <1>1, <1>8, <2>1, WriteAdds
  <2>3. LogTypes'
        BY <1>2, <1>4, <1>5, <2>2 DEF LogTypes, LogInv
  <2>4. heard \cap CutOff(lines') = {}
        BY <2>1, <2>2 DEF CutOff, LogInv
  <2>5. lostThen \subseteq lost
        BY <2>2 DEF LogInv
  <2>6. Cardinality(lostThen) <= Cardinality(lost) /\ Cardinality(lostThen) \in Nat
        BY <1>6, <2>5, FS_Subset, FS_CardinalityType
  <2>7. Cardinality(lostThen) <= crashes' /\ Cardinality(lostThen) + 1 <= crashes'
    <3> HIDE DEF lost, lostThen
    <3> QED BY <1>1, <1>2, <1>6, <2>6
  <2> QED BY <1>2, <1>3, <2>2, <2>3, <2>4, <2>7 DEF LogInv
<1>9. lines' = lines \/ \E t \in Torn(writing) : lines' = Write(lines, t)
      BY DEF Crash
<1> QED BY <1>7, <1>8, <1>9

\* Every step of a session keeps it.
LEMMA LogStep ==
  ASSUME LogInv, [Next]_vars
  PROVE  LogInv'
<1>1. ASSUME UNCHANGED <<logVars, crashes>> PROVE LogInv'
      BY <1>1 DEF logVars, LogInv, LogTypes
<1>2. CASE UNCHANGED vars
      BY <1>1, <1>2 DEF vars
<1>3. ASSUME NEW e \in NextEvents, BeginAppend(e) \/ JoinBatch(e) PROVE LogInv'
      BY <1>3, EventLogged
<1>4. CASE EndAppend
      BY <1>4, WritingEnds
<1>5. CASE Crash
      BY <1>5, WritingStops
<1>6. ASSUME lines' = <<>>, heard' = {}, UNCHANGED <<events, writing, turn, crashes>> PROVE LogInv'
  <2>1. LogTypes'
        BY <1>6 DEF LogInv, LogTypes
  <2>2. ~Cut(lines') /\ Orderly(lines')
        BY <1>6 DEF Cut, Orderly
  <2>3. heard' \ Seen(lines') = {} /\ heard' \cap ToSet(writing)' = {} /\
          heard' \cap CutOff(lines') = {}
        BY <1>6
  <2>4. Cardinality(heard' \ Seen(lines')) = 0 /\ 0 <= crashes'
    <3>1. crashes' \in Nat
          BY <2>1, SessionFilesAssumption DEF LogTypes
    <3> QED BY <2>3, <3>1, FS_EmptySet
  <2> QED BY <2>1, <2>2, <2>3, <2>4 DEF LogInv
<1>7. ASSUME NEW s \in Savers, BeginSave(s) \/ Load(s) \/ Truncate(s) \/ Fill(s) \/ Rename(s)
      PROVE  LogInv'
      BY <1>1, <1>7 DEF BeginSave, Load, Truncate, Fill, Rename
<1>8. ASSUME NEW s \in Savers, BeginClear(s) PROVE LogInv'
      BY <1>6, <1>8 DEF BeginClear
<1>9. CASE Delete
      BY <1>6, <1>9 DEF Delete
<1> QED BY <1>2, <1>3, <1>4, <1>5, <1>7, <1>8, <1>9 DEF Next

\* Then a crash costs the readers one event that listeners have seen, and reading
\* from the end finds the end of the log.
LEMMA LogSafe == ASSUME LogInv PROVE OneLossPerCrash /\ TailAgrees
<1>1. events \in Seq(EventKinds) /\ lines \in Seq(LinesOf(DOMAIN events))
      BY DEF LogInv, LogTypes
<1>2. Readable = Seen(lines)
      BY <1>1, WhatIsReadable
<1>3. OneLossPerCrash
      BY <1>2 DEF OneLossPerCrash, LogInv
<1>4. \A limit \in 1 .. 2 : limit \in Nat
      OBVIOUS
<1>5. TailAgrees
      BY <1>1, <1>4, TailOfLog DEF TailAgrees
<1> QED BY <1>3, <1>5

-----------------------------------------------------------------------------
(* What the files hold.                                                     *)

\* Whether a session has its directory, and whether it was made sure of.
LEMMA DirStep ==
  ASSUME dir \in BOOLEAN, ensured \in BOOLEAN, [Next]_vars
  PROVE  dir' \in BOOLEAN /\ ensured' \in BOOLEAN
<1>1. ASSUME NEW e, BeginAppend(e) \/ JoinBatch(e)
      PROVE  dir' \in BOOLEAN /\ ensured' \in BOOLEAN
  <2>1. /\ dir' = (dir \/ ~ensured) \/ dir' = dir
        /\ ensured' = TRUE \/ ensured' = ensured
        BY <1>1, Zenon DEF BeginAppend, JoinBatch
  <2> QED BY <2>1
<1>2. ASSUME NEW s, BeginSave(s) \/ BeginClear(s) \/ Load(s) \/ Truncate(s) \/ Fill(s) \/ Rename(s)
      PROVE  dir' \in BOOLEAN /\ ensured' \in BOOLEAN
  <2>1. /\ dir' = TRUE \/ dir' = dir
        /\ ensured' = ensured
        BY <1>2, Zenon DEF BeginSave, BeginClear, Load, Truncate, Fill, Rename
  <2> QED BY <2>1
<1>3. ASSUME EndAppend \/ Delete \/ Crash \/ UNCHANGED vars
      PROVE  dir' \in BOOLEAN /\ ensured' \in BOOLEAN
  <2>1. /\ dir' = FALSE \/ dir' = dir
        /\ ensured' = FALSE \/ ensured' = ensured
        BY <1>3, Zenon DEF EndAppend, Delete, Crash, vars
  <2> QED BY <2>1
<1> QED BY <1>1, <1>2, <1>3, Zenon DEF Next

\* A sequence of some things is one of more things.
LEMMA WiderSeq ==
  ASSUME NEW Some, NEW More, Some \subseteq More, NEW s \in Seq(Some)
  PROVE  s \in Seq(More)
<1>1. /\ Len(s) \in Nat /\ s \in [1 .. Len(s) -> Some]
      OBVIOUS
<1>2. s \in [1 .. Len(s) -> More]
      BY <1>1
<1> QED BY <1>1, <1>2

\* The files of a session hold what they should.
LEMMA FilesTyped ==
  ASSUME LogInv, SaveInv, dir \in BOOLEAN, ensured \in BOOLEAN
  PROVE  TypeOK
<1>1. LogTypes /\ FileTypes
      BY DEF LogInv, SaveInv
<1>2. lines \in Seq(Line)
  <2>1. DOMAIN events \subseteq 1 .. MaxEvents
    <3>1. events \in Seq(EventKinds) /\ Len(events) <= MaxEvents /\ MaxEvents \in Nat
          BY <1>1, SessionFilesAssumption DEF LogTypes
    <3>2. DOMAIN events = 1 .. Len(events) /\ Len(events) \in Nat
          BY <3>1
    <3> QED BY <3>1, <3>2
  <2>2. LinesOf(DOMAIN events) \subseteq Line
    <3> SUFFICES ASSUME NEW l \in LinesOf(DOMAIN events) PROVE l \in Line
        OBVIOUS
    <3>1. l \in [evs : Seq(DOMAIN events), whole : BOOLEAN, ended : BOOLEAN]
          BY DEF LinesOf
    <3>2. l.evs \in Seq(1 .. MaxEvents)
      <4>1. l.evs \in Seq(DOMAIN events)
            BY <3>1
      <4> QED BY <2>1, <4>1, WiderSeq
    <3> QED BY <3>1, <3>2 DEF Line
  <2>3. lines \in Seq(LinesOf(DOMAIN events))
        BY <1>1 DEF LogTypes
  <2> QED BY <2>2, <2>3, WiderSeq
<1> QED BY <1>1, <1>2 DEF LogTypes, FileTypes, TypeOK

=============================================================================
