---------------------------- MODULE Teams_proofs ----------------------------
(***************************************************************************)
(* What the team store answered is there (Teams): in the memory of the     *)
(* running server unless requests loaded it side by side, in its file      *)
(* unless requests overlapped; for any tasks, claims, posts, bounds and    *)
(* restarts.                                                               *)
(***************************************************************************)
EXTENDS Teams, TLAPS, FiniteSetTheorems, SequenceTheorems

(* The inductive invariant.                                                *)

\* Requests whose change is made and not answered yet.
Live == {c \in Changes : req[c].pc \in {"mkdir", "write", "rename"}}

\* Requests that may have counted seq up.
Counted == {c \in Changes : req[c].pc \notin {"idle", "load", "loaded"}}

\* What a request refers to exists.
RefersTo(r) ==
  /\ r.pc = "mkdir" => r.of \in 1 .. Len(projects)
  /\ r.pc = "write" => r.inode \in 1 .. Len(inodes) /\ r.seq \in DOMAIN tmp
  /\ r.pc = "rename" => r.seq \in DOMAIN tmp

\* TypeOK but for the bound on starts, and where the names of files lead.
TeamTypes ==
  /\ projects \in Seq(SUBSET Changes)
  /\ tmp \in [0 .. Cardinality(Changes) -> Nat]
  /\ seq \in Nat /\ seq <= Cardinality(Counted)
  /\ req \in [Changes -> Req \cup {Idle, Done}]
  /\ \A c \in Changes : RefersTo(req[c])
  /\ inodes \in Seq((SUBSET Changes) \cup {Torn})
  /\ file \in 0 .. Len(inodes)
  /\ \A n \in DOMAIN tmp : tmp[n] <= Len(inodes)
  /\ recent \subseteq acked /\ acked \subseteq Changes
  /\ calm \in BOOLEAN /\ reloaded \in BOOLEAN

\* No two names are of one inode.
NamesApart ==
  /\ \A n \in DOMAIN tmp : tmp[n] # 0 => tmp[n] # file
  /\ \A n, m \in DOMAIN tmp : tmp[n] # 0 /\ tmp[n] = tmp[m] => n = m

\* The memory has what was answered and what is about to be, until a second
\* load replaces it.
MemoryHas ==
  IF projects = <<>> THEN Live \cup recent = {}
  ELSE ~reloaded => Len(projects) = 1 /\ Live \cup recent \subseteq projects[1]

\* What a request alone under way reads, makes, writes and renames has everything
\* that was answered, and its own change.
Carries(c) ==
  /\ req[c].pc = "loaded" => acked \subseteq req[c].found
  /\ req[c].pc \in {"mkdir", "write", "rename"} =>
       projects # <<>> /\ c \in projects[Len(projects)]
  /\ req[c].pc = "mkdir" => req[c].of = Len(projects)
  /\ req[c].pc = "write" =>
       /\ tmp[req[c].seq] = req[c].inode /\ inodes[req[c].inode] = Torn
       /\ acked \cup {c} \subseteq req[c].record
  /\ req[c].pc = "rename" =>
       /\ tmp[req[c].seq] # 0 /\ inodes[tmp[req[c].seq]] # Torn
       /\ acked \cup {c} \subseteq inodes[tmp[req[c].seq]]

\* The file and the memory have what was answered.
FileHas ==
  /\ file # 0 => inodes[file] # Torn /\ acked \subseteq inodes[file]
  /\ file = 0 => acked = {}
  /\ projects # <<>> => acked \subseteq projects[Len(projects)]

DiskHas ==
  calm =>
    /\ \A c, d \in UnderWay : c = d
    /\ FileHas
    /\ \A c \in Changes : Carries(c)

TeamInv == TeamTypes /\ NamesApart /\ MemoryHas /\ DiskHas

-----------------------------------------------------------------------------
(* Requests, and how they are counted *)

\* A set that has another one and an element more has one element more at least.
LEMMA OneMore ==
  ASSUME NEW All, IsFiniteSet(All), NEW S, NEW T, S \subseteq T, T \subseteq All,
         NEW c \in T, c \notin S
  PROVE  Cardinality(S) \in Nat /\ Cardinality(T) \in Nat /\ Cardinality(S) + 1 <= Cardinality(T)
<1>1. IsFiniteSet(T) /\ IsFiniteSet(S)
      BY FS_Subset
<1>2. Cardinality(S \cup {c}) = Cardinality(S) + 1
      BY <1>1, FS_AddElement
<1>3. S \cup {c} \subseteq T
      OBVIOUS
<1>4. Cardinality(S \cup {c}) <= Cardinality(T)
      BY <1>1, <1>3, FS_Subset
<1>. QED
      BY <1>1, <1>2, <1>4, FS_CardinalityType

\* A set that has another one has no fewer elements.
LEMMA NoneLess ==
  ASSUME NEW All, IsFiniteSet(All), NEW S, NEW T, S \subseteq T, T \subseteq All
  PROVE  Cardinality(S) \in Nat /\ Cardinality(T) \in Nat /\ Cardinality(S) <= Cardinality(T)
<1>1. IsFiniteSet(T) /\ IsFiniteSet(S)
      BY FS_Subset
<1>. QED
      BY <1>1, FS_Subset, FS_CardinalityType

\* What a request holds, by where it is.
LEMMA Requests ==
  ASSUME TeamTypes, NEW c \in Changes
  PROVE  /\ req[c].pc \in {"idle", "load", "loaded", "mkdir", "write", "rename", "done"}
         /\ req[c].pc = "idle" <=> req[c] = Idle
         /\ req[c].pc = "done" <=> req[c] = Done
         /\ req[c].pc = "loaded" => req[c].found \in SUBSET Changes
         /\ req[c].pc = "mkdir" => req[c].of \in 1 .. Len(projects)
         /\ req[c].pc = "write" =>
              /\ req[c].of \in Nat /\ req[c].record \in SUBSET Changes
              /\ req[c].seq \in DOMAIN tmp /\ req[c].inode \in 1 .. Len(inodes)
         /\ req[c].pc = "rename" => req[c].seq \in DOMAIN tmp
<1>1. req[c] \in Req \cup {Idle, Done} /\ RefersTo(req[c])
      BY DEF TeamTypes
<1>2. CASE req[c] = Idle
      BY <1>2 DEF Idle, Done
<1>3. CASE req[c] = Done
      BY <1>3 DEF Idle, Done
<1>4. CASE req[c] \in Req
      BY <1>1, <1>4 DEF Req, RefersTo, Idle, Done
<1>. QED
      BY <1>1, <1>2, <1>3, <1>4

\* The step that makes a change keeps the types.
LEMMA MadeTypes ==
  ASSUME TeamTypes, IsFiniteSet(Changes), NEW c \in Changes,
         req[c].pc \in {"idle", "loaded"},
         NEW states \in Seq(SUBSET Changes), states # <<>>, Len(projects) <= Len(states),
         Made(c, states), UNCHANGED <<disk, acked, recent>>,
         calm' \in BOOLEAN, reloaded' \in BOOLEAN
  PROVE  TeamTypes'
<1>1. Len(states) \in 1 .. Len(states) /\ Len(states) \in Nat \ {0} /\ Len(projects) \in Nat
      BY EmptySeq DEF TeamTypes
<1>2. projects' \in Seq(SUBSET Changes) /\ Len(projects') = Len(states)
  <2>1. states[Len(states)] \in SUBSET Changes
      BY <1>1, ElementOfSeq
  <2>2. states[Len(states)] \cup {c} \in SUBSET Changes
      BY <2>1
  <2>. DEFINE made == [states EXCEPT ![Len(states)] = @ \cup {c}]
  <2>3. made \in Seq(SUBSET Changes) /\ Len(made) = Len(states)
      BY <1>1, <2>2, ExceptSeq
  <2>. QED
      BY <2>3 DEF Made
<1>3. req' \in [Changes -> Req \cup {Idle, Done}]
  <2>1. [pc |-> "mkdir", of |-> Len(states)] \in Req
      BY <1>1 DEF Req
  <2>2. req \in [Changes -> Req \cup {Idle, Done}]
      BY DEF TeamTypes
  <2>. QED
      BY <2>1, <2>2 DEF Made
<1>4. req \in [Changes -> Req \cup {Idle, Done}]
      BY DEF TeamTypes
<1>5. \A d \in Changes : d # c => req'[d] = req[d]
      BY <1>4 DEF Made
<1>6. req'[c] = Done \/ req'[c] = [pc |-> "mkdir", of |-> Len(states)]
      BY <1>4 DEF Made
<1>7. Counted \subseteq Counted' /\ c \in Counted' /\ c \notin Counted /\ Counted' \subseteq Changes
      BY <1>4, <1>5, <1>6 DEF Counted, Done
<1>8. seq' \in Nat /\ seq' <= Cardinality(Counted')
  <2>1. Cardinality(Counted) \in Nat /\ Cardinality(Counted') \in Nat
        /\ Cardinality(Counted) + 1 <= Cardinality(Counted')
      BY <1>7, OneMore
  <2>2. seq' = seq \/ seq' = seq + 1
      BY DEF Made
  <2>. QED
      BY <2>1, <2>2 DEF TeamTypes
<1>9. \A d \in Changes : RefersTo(req[d])'
  <2>. SUFFICES ASSUME NEW d \in Changes PROVE RefersTo(req[d])'
      OBVIOUS
  <2>1. RefersTo(req[d])
      BY DEF TeamTypes
  <2>2. CASE d = c
      BY <1>1, <1>2, <1>6, <2>2 DEF RefersTo, Done
  <2>3. CASE d # c
      BY <1>1, <1>2, <1>5, <2>1, <2>3 DEF RefersTo, disk
  <2>. QED
      BY <2>2, <2>3
<1>. QED
      BY <1>2, <1>3, <1>8, <1>9 DEF TeamTypes, disk

-----------------------------------------------------------------------------
(* Types *)

\* A step that moves one request on, before or after its change is made, and
\* leaves the count alone keeps the count's bound.
LEMMA CountStays ==
  ASSUME TeamTypes, IsFiniteSet(Changes), Counted \subseteq Counted', seq' = seq
  PROVE  seq' \in Nat /\ seq' <= Cardinality(Counted')
<1>1. Counted' \subseteq Changes
      BY DEF Counted
<1>2. Cardinality(Counted) \in Nat /\ Cardinality(Counted') \in Nat
      /\ Cardinality(Counted) <= Cardinality(Counted')
      BY <1>1, NoneLess
<1>. QED
      BY <1>2 DEF TeamTypes

\* How a request that is under way changes.
LEMMA ReqTypes ==
  ASSUME TeamTypes, NEW c \in Changes, NEW r \in Req \cup {Done},
         req' = [req EXCEPT ![c] = r],
         r.pc \in {"idle", "load", "loaded"} => req[c].pc \in {"idle", "load", "loaded"}
  PROVE  /\ req' \in [Changes -> Req \cup {Idle, Done}]
         /\ req'[c] = r
         /\ \A d \in Changes : d # c => req'[d] = req[d]
         /\ Counted \subseteq Counted'
<1>1. req \in [Changes -> Req \cup {Idle, Done}]
      BY DEF TeamTypes
<1>2. /\ req' \in [Changes -> Req \cup {Idle, Done}]
      /\ req'[c] = r
      /\ \A d \in Changes : d # c => req'[d] = req[d]
      BY <1>1
<1>. QED
      BY <1>2 DEF Counted

\* Begin keeps the types.
LEMMA BeginTypes ==
  ASSUME TeamTypes, IsFiniteSet(Changes), NEW c \in Changes, Begin(c)
  PROVE  TeamTypes'
<1>1. req[c].pc = "idle" /\ calm' \in BOOLEAN /\ reloaded' = reloaded /\ reloaded' \in BOOLEAN
      BY DEF Begin, Idle, TeamTypes
<1>2. CASE projects # <<>>
  <2>1. Made(c, projects) /\ UNCHANGED <<disk, acked, recent>>
      BY <1>2 DEF Begin
  <2>2. projects \in Seq(SUBSET Changes) /\ Len(projects) <= Len(projects)
      BY DEF TeamTypes
  <2>. QED
      BY <1>1, <1>2, <2>1, <2>2, MadeTypes
<1>3. CASE projects = <<>>
  <2>1. [pc |-> "load"] \in Req
      BY DEF Req
  <2>2. req' = [req EXCEPT ![c] = [pc |-> "load"]] /\ UNCHANGED <<projects, seq>>
      BY <1>3 DEF Begin
  <2>. DEFINE r == [pc |-> "load"]
  <2>3. /\ req' \in [Changes -> Req \cup {Idle, Done}]
        /\ req'[c] = r
        /\ \A d \in Changes : d # c => req'[d] = req[d]
        /\ Counted \subseteq Counted'
    <3>. HIDE DEF r
    <3>1. r \in Req /\ req' = [req EXCEPT ![c] = r]
        BY <2>1, <2>2 DEF r
    <3>. QED
        BY <1>1, <3>1, ReqTypes
  <2>4. seq' \in Nat /\ seq' <= Cardinality(Counted')
      BY <2>2, <2>3, CountStays
  <2>5. \A d \in Changes : RefersTo(req[d])'
      BY <2>2, <2>3 DEF RefersTo, Begin, disk, TeamTypes
  <2>. QED
      BY <1>1, <2>2, <2>3, <2>4, <2>5 DEF TeamTypes, Begin, disk
<1>. QED
      BY <1>2, <1>3

\* What a request reads of the file.
LEMMA FoundType ==
  ASSUME TeamTypes
  PROVE  (IF file = 0 \/ inodes[file] = Torn THEN {} ELSE inodes[file]) \in SUBSET Changes
<1>1. CASE file = 0
      BY <1>1
<1>2. CASE file # 0
  <2>1. file \in 1 .. Len(inodes) /\ inodes \in Seq((SUBSET Changes) \cup {Torn})
      BY <1>2 DEF TeamTypes
  <2>2. inodes[file] \in (SUBSET Changes) \cup {Torn}
      BY <2>1, ElementOfSeq
  <2>. QED
      BY <2>2
<1>. QED
      BY <1>1, <1>2

\* Read keeps the types.
LEMMA ReadTypes ==
  ASSUME TeamTypes, IsFiniteSet(Changes), NEW c \in Changes, Read(c)
  PROVE  TeamTypes'
<1>1. PICK found \in SUBSET Changes : req' = [req EXCEPT ![c] = [pc |-> "loaded", found |-> found]]
      BY FoundType DEF Read
<1>. DEFINE r == [pc |-> "loaded", found |-> found]
<1>2. r \in Req /\ r.pc = "loaded"
      BY DEF Req
<1>3. /\ req' \in [Changes -> Req \cup {Idle, Done}]
      /\ req'[c] = r
      /\ \A d \in Changes : d # c => req'[d] = req[d]
      /\ Counted \subseteq Counted'
  <2>. HIDE DEF r
  <2>1. req' = [req EXCEPT ![c] = r]
      BY <1>1 DEF r
  <2>. QED
      BY <1>2, <2>1, ReqTypes DEF Read
<1>4. seq' \in Nat /\ seq' <= Cardinality(Counted')
      BY <1>3, CountStays DEF Read
<1>5. \A d \in Changes : RefersTo(req[d])'
      BY <1>3 DEF RefersTo, Read, disk, TeamTypes
<1>. QED
      BY <1>3, <1>4, <1>5 DEF TeamTypes, Read, disk

\* Load keeps the types.
LEMMA LoadTypes ==
  ASSUME TeamTypes, IsFiniteSet(Changes), NEW c \in Changes, Load(c)
  PROVE  TeamTypes'
<1>1. req[c].pc = "loaded" /\ req[c].found \in SUBSET Changes
      BY Requests DEF Load
<1>. DEFINE states == Append(projects, req[c].found)
<1>2. states \in Seq(SUBSET Changes) /\ Len(states) = Len(projects) + 1 /\ Len(projects) \in Nat
      BY <1>1, AppendProperties, LenProperties DEF TeamTypes
<1>3. states # <<>> /\ Len(projects) <= Len(states)
      BY <1>2, EmptySeq
<1>4. Made(c, states) /\ UNCHANGED <<disk, acked, recent>> /\ calm' \in BOOLEAN
      /\ reloaded' \in BOOLEAN
      BY DEF Load, TeamTypes
<1>. HIDE DEF states
<1>. QED
      BY <1>1, <1>2, <1>3, <1>4, MadeTypes

\* The inodes after a write.
LEMMA WrittenInodes ==
  ASSUME TeamTypes, NEW i \in 1 .. Len(inodes), NEW content \in (SUBSET Changes) \cup {Torn},
         inodes' = [inodes EXCEPT ![i] = content]
  PROVE  /\ inodes' \in Seq((SUBSET Changes) \cup {Torn}) /\ Len(inodes') = Len(inodes)
         /\ inodes'[i] = content
         /\ \A j \in 1 .. Len(inodes) : j # i => inodes'[j] = inodes[j]
<1>. DEFINE written == [inodes EXCEPT ![i] = content]
<1>1. /\ written \in Seq((SUBSET Changes) \cup {Torn}) /\ Len(written) = Len(inodes)
      /\ \A j \in 1 .. Len(inodes) : written[j] = IF j = i THEN content ELSE inodes[j]
      BY ExceptSeq DEF TeamTypes
<1>2. inodes' = written
      OBVIOUS
<1>. HIDE DEF written
<1>. QED
      BY <1>1, <1>2

\* The inodes after a file was made or emptied, or written.
LEMMA OpenedInodes ==
  ASSUME TeamTypes, seq \in DOMAIN tmp,
         NEW i, i = IF tmp[seq] = 0 THEN Len(inodes) + 1 ELSE tmp[seq],
         inodes' = IF tmp[seq] = 0 THEN Append(inodes, Torn) ELSE [inodes EXCEPT ![i] = Torn]
  PROVE  /\ inodes' \in Seq((SUBSET Changes) \cup {Torn})
         /\ Len(inodes') \in Nat /\ Len(inodes) <= Len(inodes')
         /\ i \in 1 .. Len(inodes') /\ inodes'[i] = Torn
         /\ \A j \in 1 .. Len(inodes) : j # i => inodes'[j] = inodes[j]
<1>1. inodes \in Seq((SUBSET Changes) \cup {Torn}) /\ Torn \in (SUBSET Changes) \cup {Torn}
      /\ Len(inodes) \in Nat /\ tmp[seq] \in 0 .. Len(inodes)
      BY DEF TeamTypes
<1>2. CASE tmp[seq] = 0
  <2>1. inodes' = Append(inodes, Torn) /\ i = Len(inodes) + 1
      BY <1>2
  <2>. QED
      BY <1>1, <2>1, AppendProperties
<1>3. CASE tmp[seq] # 0
  <2>1. inodes' = [inodes EXCEPT ![i] = Torn] /\ i \in 1 .. Len(inodes)
      BY <1>1, <1>3
  <2>2. Torn \in (SUBSET Changes) \cup {Torn}
      OBVIOUS
  <2>3. /\ inodes' \in Seq((SUBSET Changes) \cup {Torn}) /\ Len(inodes') = Len(inodes)
        /\ inodes'[i] = Torn
        /\ \A j \in 1 .. Len(inodes) : j # i => inodes'[j] = inodes[j]
      BY <2>1, <2>2, WrittenInodes, Zenon
  <2>4. Len(inodes') \in Nat /\ Len(inodes) <= Len(inodes') /\ i \in 1 .. Len(inodes')
      BY <1>1, <2>1, <2>3
  <2>. QED
      BY <2>3, <2>4, Zenon
<1>. QED
      BY <1>2, <1>3

\* The last value of seq is one that tmp has a name for.
LEMMA SeqNames ==
  ASSUME TeamTypes, IsFiniteSet(Changes)
  PROVE  seq \in DOMAIN tmp
<1>1. Counted \subseteq Changes
      BY DEF Counted
<1>2. Cardinality(Counted) \in Nat /\ Cardinality(Changes) \in Nat
      /\ Cardinality(Counted) <= Cardinality(Changes)
      BY <1>1, NoneLess
<1>. QED
      BY <1>2 DEF TeamTypes

\* Open keeps the types, and is what it is of a file that nobody else has.
LEMMA OpenTypes ==
  ASSUME TeamTypes, IsFiniteSet(Changes), NEW c \in Changes, Open(c)
  PROVE  TeamTypes'
<1>1. req[c].pc = "mkdir" /\ req[c].of \in 1 .. Len(projects) /\ seq \in DOMAIN tmp
      BY Requests, SeqNames DEF Open
<1>. DEFINE i == IF tmp[seq] = 0 THEN Len(inodes) + 1 ELSE tmp[seq]
            r == [pc |-> "write", of |-> req[c].of, seq |-> seq, inode |-> i,
                  record |-> projects[req[c].of]]
<1>2. /\ inodes' = IF tmp[seq] = 0 THEN Append(inodes, Torn) ELSE [inodes EXCEPT ![i] = Torn]
      /\ tmp' = [tmp EXCEPT ![seq] = i]
      /\ req' = [req EXCEPT ![c] = r]
      /\ UNCHANGED <<projects, seq, file, starts, acked, recent, calm, reloaded>>
      BY DEF Open
<1>. HIDE DEF i
<1>3. i = IF tmp[seq] = 0 THEN Len(inodes) + 1 ELSE tmp[seq]
      BY DEF i
<1>4. /\ inodes' \in Seq((SUBSET Changes) \cup {Torn})
      /\ Len(inodes') \in Nat /\ Len(inodes) <= Len(inodes')
      /\ i \in 1 .. Len(inodes')
      BY <1>1, <1>2, <1>3, OpenedInodes
<1>5. projects[req[c].of] \in SUBSET Changes
      BY <1>1, ElementOfSeq DEF TeamTypes
<1>6. seq \in Nat /\ i \in Nat /\ req[c].of \in Nat
      BY <1>1, <1>4 DEF TeamTypes
<1>7. r \in Req /\ r.pc = "write" /\ r.seq = seq /\ r.inode = i
      BY <1>5, <1>6 DEF Req
<1>. HIDE DEF r
<1>8. /\ req' \in [Changes -> Req \cup {Idle, Done}]
      /\ req'[c] = r
      /\ \A d \in Changes : d # c => req'[d] = req[d]
      /\ Counted \subseteq Counted'
      BY <1>1, <1>2, <1>7, ReqTypes
<1>9. seq' \in Nat /\ seq' <= Cardinality(Counted')
      BY <1>2, <1>8, CountStays
<1>10. /\ tmp' \in [0 .. Cardinality(Changes) -> Nat] /\ DOMAIN tmp' = DOMAIN tmp
       /\ \A n \in DOMAIN tmp' : tmp'[n] <= Len(inodes')
  <2>1. /\ tmp \in [0 .. Cardinality(Changes) -> Nat]
        /\ \A n \in DOMAIN tmp : tmp[n] <= Len(inodes)
        /\ Len(inodes) \in Nat
      BY DEF TeamTypes
  <2>2. tmp' = [tmp EXCEPT ![seq] = i]
      BY <1>2
  <2>. QED
      BY <1>1, <1>4, <1>6, <2>1, <2>2
<1>11. \A d \in Changes : RefersTo(req[d])'
  <2>. SUFFICES ASSUME NEW d \in Changes PROVE RefersTo(req[d])'
      OBVIOUS
  <2>1. CASE d = c
      BY <1>1, <1>2, <1>4, <1>7, <1>8, <1>10, <2>1 DEF RefersTo
  <2>2. CASE d # c
    <3>1. RefersTo(req[d]) /\ Len(inodes) \in Nat
        BY DEF TeamTypes
    <3>. QED
        BY <1>2, <1>4, <1>8, <1>10, <2>2, <3>1 DEF RefersTo
  <2>. QED
      BY <2>1, <2>2
<1>12. file' \in 0 .. Len(inodes')
      BY <1>2, <1>4 DEF TeamTypes
<1>. QED
      BY <1>2, <1>4, <1>8, <1>9, <1>10, <1>11, <1>12 DEF TeamTypes

\* Write keeps the types.
LEMMA WriteTypes ==
  ASSUME TeamTypes, IsFiniteSet(Changes), NEW c \in Changes, Write(c)
  PROVE  TeamTypes'
<1>1. /\ req[c].pc = "write" /\ req[c].record \in SUBSET Changes
      /\ req[c].seq \in DOMAIN tmp /\ req[c].inode \in 1 .. Len(inodes)
      BY Requests DEF Write
<1>2. PICK content \in (SUBSET Changes) \cup {Torn} :
        inodes' = [inodes EXCEPT ![req[c].inode] = content]
      BY <1>1 DEF Write
<1>3. inodes' \in Seq((SUBSET Changes) \cup {Torn}) /\ Len(inodes') = Len(inodes)
      BY <1>1, <1>2, WrittenInodes
<1>. DEFINE r == [pc |-> "rename", seq |-> req[c].seq]
<1>4. r \in Req /\ r.pc = "rename" /\ r.seq = req[c].seq
      BY <1>1 DEF Req, TeamTypes
<1>5. req' = [req EXCEPT ![c] = r]
      BY DEF Write
<1>. HIDE DEF r
<1>6. /\ req' \in [Changes -> Req \cup {Idle, Done}]
      /\ req'[c] = r
      /\ \A d \in Changes : d # c => req'[d] = req[d]
      /\ Counted \subseteq Counted'
      BY <1>1, <1>4, <1>5, ReqTypes
<1>7. seq' \in Nat /\ seq' <= Cardinality(Counted')
      BY <1>6, CountStays DEF Write
<1>8. \A d \in Changes : RefersTo(req[d])'
      BY <1>1, <1>3, <1>4, <1>6 DEF RefersTo, Write, TeamTypes
<1>. QED
      BY <1>3, <1>6, <1>7, <1>8 DEF TeamTypes, Write

\* Rename keeps the types.
LEMMA RenameTypes ==
  ASSUME TeamTypes, IsFiniteSet(Changes), NEW c \in Changes, Rename(c)
  PROVE  TeamTypes'
<1>1. req[c].pc = "rename" /\ req[c].seq \in DOMAIN tmp
      BY Requests DEF Rename
<1>2. req' = [req EXCEPT ![c] = Done] /\ Done.pc = "done"
      BY DEF Rename, Done
<1>3. /\ req' \in [Changes -> Req \cup {Idle, Done}]
      /\ req'[c] = Done
      /\ \A d \in Changes : d # c => req'[d] = req[d]
      /\ Counted \subseteq Counted'
      BY <1>1, <1>2, ReqTypes
<1>4. seq' \in Nat /\ seq' <= Cardinality(Counted')
      BY <1>3, CountStays DEF Rename
<1>5. /\ tmp' \in [0 .. Cardinality(Changes) -> Nat] /\ DOMAIN tmp' = DOMAIN tmp
      /\ \A n \in DOMAIN tmp' : tmp'[n] <= Len(inodes')
      /\ file' \in 0 .. Len(inodes')
  <2>1. /\ tmp \in [0 .. Cardinality(Changes) -> Nat] /\ file \in 0 .. Len(inodes)
        /\ \A n \in DOMAIN tmp : tmp[n] <= Len(inodes)
        /\ Len(inodes) \in Nat /\ inodes' = inodes
      BY DEF TeamTypes, Rename
  <2>2. CASE tmp[req[c].seq] = 0
      BY <2>1, <2>2 DEF Rename
  <2>3. CASE tmp[req[c].seq] # 0
    <3>1. file' = tmp[req[c].seq] /\ tmp' = [tmp EXCEPT ![req[c].seq] = 0]
        BY <2>3 DEF Rename
    <3>. QED
        BY <1>1, <2>1, <3>1
  <2>. QED
      BY <2>2, <2>3
<1>6. \A d \in Changes : RefersTo(req[d])'
      BY <1>1, <1>2, <1>3, <1>5 DEF RefersTo, Rename, TeamTypes
<1>7. recent' \subseteq acked' /\ acked' \subseteq Changes
      BY DEF Rename, TeamTypes
<1>. QED
      BY <1>3, <1>4, <1>5, <1>6, <1>7 DEF TeamTypes, Rename

\* Restart keeps the types.
LEMMA RestartTypes ==
  ASSUME TeamTypes, IsFiniteSet(Changes), Restart
  PROVE  TeamTypes'
<1>1. req' \in [Changes -> Req \cup {Idle, Done}]
      BY DEF TeamTypes, Restart
<1>2. \A c \in Changes : req'[c] \in {Idle, Done}
      BY DEF Restart, UnderWay
<1>3. \A c \in Changes : RefersTo(req[c])'
      BY <1>2 DEF RefersTo, Idle, Done
<1>4. Cardinality(Counted') \in Nat
  <2>1. Counted' \subseteq Changes
      BY DEF Counted
  <2>. QED
      BY <2>1, FS_Subset, FS_CardinalityType
<1>5. projects' \in Seq(SUBSET Changes)
      BY DEF Restart
<1>6. /\ seq' = 0 /\ recent' = {} /\ reloaded' = FALSE
      /\ UNCHANGED <<inodes, file, tmp, acked, calm>>
      BY DEF Restart, disk
<1>7. seq' \in Nat /\ seq' <= Cardinality(Counted')
      BY <1>4, <1>6
<1>8. /\ tmp' \in [0 .. Cardinality(Changes) -> Nat]
      /\ inodes' \in Seq((SUBSET Changes) \cup {Torn})
      /\ file' \in 0 .. Len(inodes')
      /\ \A n \in DOMAIN tmp' : tmp'[n] <= Len(inodes')
      /\ recent' \subseteq acked' /\ acked' \subseteq Changes
      /\ calm' \in BOOLEAN /\ reloaded' \in BOOLEAN
      BY <1>6 DEF TeamTypes
<1>. QED
      BY <1>1, <1>3, <1>5, <1>7, <1>8 DEF TeamTypes

-----------------------------------------------------------------------------
(* What the steps do *)

\* A change that is made is in the last state, and nothing else is lost from it.
LEMMA MadeFacts ==
  ASSUME TeamTypes, NEW c \in Changes,
         NEW states \in Seq(SUBSET Changes), states # <<>>, Made(c, states)
  PROVE  /\ Len(states) \in Nat \ {0}
         /\ projects' # <<>> /\ Len(projects') = Len(states)
         /\ states[Len(states)] \subseteq projects'[Len(states)]
         /\ \/ req' = [req EXCEPT ![c] = Done]
            \/ /\ req' = [req EXCEPT ![c] = [pc |-> "mkdir", of |-> Len(states)]]
               /\ c \in projects'[Len(states)]
<1>1. Len(states) \in 1 .. Len(states) /\ Len(states) \in Nat \ {0}
      BY EmptySeq
<1>2. CASE projects' = states /\ req' = [req EXCEPT ![c] = Done]
      BY <1>1, <1>2
<1>3. CASE /\ projects' = [states EXCEPT ![Len(states)] = @ \cup {c}]
           /\ req' = [req EXCEPT ![c] = [pc |-> "mkdir", of |-> Len(states)]]
  <2>1. states[Len(states)] \cup {c} \in SUBSET Changes
      BY <1>1, ElementOfSeq
  <2>. DEFINE made == [states EXCEPT ![Len(states)] = @ \cup {c}]
  <2>2. made \in Seq(SUBSET Changes) /\ Len(made) = Len(states)
        /\ made[Len(states)] = states[Len(states)] \cup {c}
      BY <1>1, <2>1, ExceptSeq
  <2>3. projects' = made
      BY <1>3
  <2>. HIDE DEF made
  <2>4. projects' # <<>>
      BY <1>1, <2>2, <2>3, EmptySeq
  <2>. QED
      BY <1>1, <1>3, <2>2, <2>3, <2>4
<1>. QED
      BY <1>2, <1>3 DEF Made

\* The file that a request opens is empty and not the store's own, and the others
\* stay what they are.
LEMMA OpenFacts ==
  ASSUME TeamTypes, NamesApart, IsFiniteSet(Changes), NEW c \in Changes, Open(c)
  PROVE  \E i \in Nat \ {0} :
           /\ i # file
           /\ \A n \in DOMAIN tmp : n # seq => tmp[n] # i
           /\ seq \in DOMAIN tmp /\ tmp' = [tmp EXCEPT ![seq] = i]
           /\ req' = [req EXCEPT ![c] = [pc |-> "write", of |-> req[c].of, seq |-> seq,
                                         inode |-> i, record |-> projects[req[c].of]]]
           /\ inodes'[i] = Torn
           /\ \A j \in 1 .. Len(inodes) : j # i => inodes'[j] = inodes[j]
<1>1. seq \in DOMAIN tmp
      BY SeqNames
<1>. DEFINE i == IF tmp[seq] = 0 THEN Len(inodes) + 1 ELSE tmp[seq]
<1>2. /\ inodes' = IF tmp[seq] = 0 THEN Append(inodes, Torn) ELSE [inodes EXCEPT ![i] = Torn]
      /\ tmp' = [tmp EXCEPT ![seq] = i]
      /\ req' = [req EXCEPT ![c] = [pc |-> "write", of |-> req[c].of, seq |-> seq,
                                    inode |-> i, record |-> projects[req[c].of]]]
      BY DEF Open
<1>3. i \in Nat \ {0} /\ i # file /\ \A n \in DOMAIN tmp : n # seq => tmp[n] # i
  <2>1. /\ file \in Nat /\ file <= Len(inodes) /\ Len(inodes) \in Nat
        /\ \A n \in DOMAIN tmp : tmp[n] \in Nat /\ tmp[n] <= Len(inodes)
      BY DEF TeamTypes
  <2>2. CASE tmp[seq] = 0
      BY <2>1, <2>2
  <2>3. CASE tmp[seq] # 0
      BY <1>1, <2>1, <2>3 DEF NamesApart
  <2>. QED
      BY <2>2, <2>3
<1>. HIDE DEF i
<1>4. i = IF tmp[seq] = 0 THEN Len(inodes) + 1 ELSE tmp[seq]
      BY DEF i
<1>5. inodes'[i] = Torn /\ \A j \in 1 .. Len(inodes) : j # i => inodes'[j] = inodes[j]
      BY <1>1, <1>2, <1>4, OpenedInodes
<1>. i \in Nat \ {0}
      BY <1>3
<1>. WITNESS i \in Nat \ {0}
<1>. QED
      BY <1>1, <1>2, <1>3, <1>5

\* No two names come to be of one inode.
LEMMA NamesStep ==
  ASSUME TeamTypes, NamesApart, IsFiniteSet(Changes), Next
  PROVE  NamesApart'
<1>1. ASSUME NEW c \in Changes, Open(c)
      PROVE  NamesApart'
  <2>1. PICK i \in Nat \ {0} :
          /\ i # file
          /\ \A n \in DOMAIN tmp : n # seq => tmp[n] # i
          /\ seq \in DOMAIN tmp /\ tmp' = [tmp EXCEPT ![seq] = i]
      BY <1>1, OpenFacts
  <2>2. file' = file
      BY <1>1 DEF Open
  <2>. QED
      BY <2>1, <2>2 DEF NamesApart
<1>2. ASSUME NEW c \in Changes, Rename(c)
      PROVE  NamesApart'
  <2>1. req[c].seq \in DOMAIN tmp /\ tmp \in [DOMAIN tmp -> Nat]
      BY <1>2, Requests DEF Rename, TeamTypes
  <2>2. CASE file' = tmp[req[c].seq] /\ tmp' = [tmp EXCEPT ![req[c].seq] = 0] /\ tmp[req[c].seq] # 0
      BY <2>1, <2>2 DEF NamesApart
  <2>3. CASE UNCHANGED <<file, tmp>>
      BY <2>3 DEF NamesApart
  <2>. QED
      BY <1>2, <2>2, <2>3 DEF Rename
<1>3. CASE UNCHANGED <<file, tmp>>
      BY <1>3 DEF NamesApart
<1>4. ASSUME NEW c \in Changes, Begin(c) \/ Read(c) \/ Load(c) \/ Write(c)
      PROVE  UNCHANGED <<file, tmp>>
      BY <1>4 DEF Begin, Read, Load, Write, disk
<1>5. Restart => UNCHANGED <<file, tmp>>
      BY DEF Restart, disk
<1>. QED
      BY <1>1, <1>2, <1>3, <1>4, <1>5 DEF Next

-----------------------------------------------------------------------------
(* The memory of the server *)

\* The memory has what was answered, while one load filled it.
LEMMA MemoryStep ==
  ASSUME TeamTypes, IsFiniteSet(Changes), MemoryHas, Next
  PROVE  MemoryHas'
<1>. USE DEF MemoryHas
<1>. DEFINE Only(c) == \A d \in Changes : d # c => req'[d] = req[d]
<1>0. req \in [Changes -> Req \cup {Idle, Done}] /\ projects \in Seq(SUBSET Changes)
      BY DEF TeamTypes
<1>1. ASSUME NEW c \in Changes, Begin(c)
      PROVE  MemoryHas'
  <2>1. CASE projects = <<>>
    <3>1. req' = [req EXCEPT ![c] = [pc |-> "load"]] /\ projects' = <<>> /\ recent' = recent
        BY <1>1, <2>1 DEF Begin
    <3>. QED
        BY <1>0, <2>1, <3>1 DEF Live
  <2>2. CASE projects # <<>>
    <3>1. Made(c, projects) /\ recent' = recent /\ reloaded' = reloaded
        BY <1>1, <2>2 DEF Begin
    <3>2. /\ Len(projects) \in Nat \ {0}
          /\ projects' # <<>> /\ Len(projects') = Len(projects)
          /\ projects[Len(projects)] \subseteq projects'[Len(projects)]
          /\ \/ req' = [req EXCEPT ![c] = Done]
             \/ /\ req' = [req EXCEPT ![c] = [pc |-> "mkdir", of |-> Len(projects)]]
                /\ c \in projects'[Len(projects)]
        BY <1>0, <2>2, <3>1, MadeFacts
    <3>3. Live' \subseteq Live \cup {c} /\ (c \in Live' => c \in projects'[Len(projects)])
        BY <1>0, <3>2 DEF Live, Done
    <3>. QED
        BY <2>2, <3>1, <3>2, <3>3
  <2>. QED
      BY <2>1, <2>2
<1>2. ASSUME NEW c \in Changes, Load(c)
      PROVE  MemoryHas'
  <2>1. req[c].found \in SUBSET Changes
      BY <1>2, Requests DEF Load
  <2>. DEFINE states == Append(projects, req[c].found)
  <2>2. states \in Seq(SUBSET Changes) /\ Len(states) = Len(projects) + 1 /\ Len(projects) \in Nat
      BY <1>0, <2>1, AppendProperties, LenProperties
  <2>3. states # <<>>
      BY <2>2, EmptySeq
  <2>4. Made(c, states) /\ recent' = recent /\ reloaded' = (projects # <<>>)
      BY <1>2 DEF Load
  <2>. HIDE DEF states
  <2>5. /\ projects' # <<>> /\ Len(projects') = Len(states)
        /\ \/ req' = [req EXCEPT ![c] = Done]
           \/ /\ req' = [req EXCEPT ![c] = [pc |-> "mkdir", of |-> Len(states)]]
              /\ c \in projects'[Len(states)]
      BY <2>2, <2>3, <2>4, MadeFacts
  <2>6. CASE projects # <<>>
      BY <2>4, <2>5, <2>6
  <2>7. CASE projects = <<>>
    <3>1. Len(states) = 1
        BY <2>2, <2>7, EmptySeq
    <3>2. Live' \subseteq Live \cup {c} /\ (c \in Live' => c \in projects'[1])
        BY <1>0, <2>5, <3>1 DEF Live, Done
    <3>. QED
        BY <2>4, <2>5, <2>7, <3>1, <3>2
  <2>. QED
      BY <2>6, <2>7
<1>3. ASSUME NEW c \in Changes, Read(c) \/ Open(c) \/ Write(c) \/ Rename(c),
             Live' \subseteq Live, recent' \subseteq recent \cup {c},
             recent' # recent => c \in Live, UNCHANGED <<projects, reloaded>>
      PROVE  MemoryHas'
      BY <1>3
<1>4. ASSUME NEW c \in Changes, Read(c)
      PROVE  MemoryHas'
  <2>1. PICK found : req' = [req EXCEPT ![c] = [pc |-> "loaded", found |-> found]]
      BY <1>4 DEF Read
  <2>2. Live' \subseteq Live
      BY <1>0, <2>1 DEF Live
  <2>. QED
      BY <1>3, <1>4, <2>2 DEF Read
<1>5. ASSUME NEW c \in Changes, Open(c)
      PROVE  MemoryHas'
  <2>1. PICK r : req' = [req EXCEPT ![c] = r] /\ req[c].pc = "mkdir"
      BY <1>5 DEF Open
  <2>2. Live' \subseteq Live
      BY <1>0, <2>1 DEF Live
  <2>. QED
      BY <1>3, <1>5, <2>2 DEF Open
<1>6. ASSUME NEW c \in Changes, Write(c)
      PROVE  MemoryHas'
  <2>1. PICK r : req' = [req EXCEPT ![c] = r] /\ req[c].pc = "write"
      BY <1>6 DEF Write
  <2>2. Live' \subseteq Live
      BY <1>0, <2>1 DEF Live
  <2>. QED
      BY <1>3, <1>6, <2>2 DEF Write
<1>7. ASSUME NEW c \in Changes, Rename(c)
      PROVE  MemoryHas'
  <2>1. req' = [req EXCEPT ![c] = Done] /\ req[c].pc = "rename" /\ c \in Live
      BY <1>7 DEF Rename, Live
  <2>2. Live' \subseteq Live
      BY <1>0, <2>1 DEF Live, Done
  <2>. QED
      BY <1>3, <1>7, <2>1, <2>2 DEF Rename
<1>8. CASE Restart
  <2>1. \A c \in Changes : req'[c] \in {Idle, Done}
      BY <1>8 DEF Restart, UnderWay
  <2>2. Live' = {}
      BY <2>1 DEF Live, Idle, Done
  <2>. QED
      BY <1>8, <2>2 DEF Restart
<1>. QED
      BY <1>1, <1>2, <1>4, <1>5, <1>6, <1>7, <1>8 DEF Next

-----------------------------------------------------------------------------
(* The file of the store *)

\* A step of the only request under way keeps DiskHas when the file has what was
\* answered, and the request carries it.
LEMMA AloneStep ==
  ASSUME req \in [Changes -> Req \cup {Idle, Done}], NEW c \in Changes, NEW r,
         req' = [req EXCEPT ![c] = r], \A d \in Changes : d # c => req[d] \in {Idle, Done},
         FileHas', Carries(c)'
  PROVE  DiskHas'
<1>1. req'[c] = r /\ \A d \in Changes : d # c => req'[d] \in {Idle, Done}
      OBVIOUS
<1>2. \A d \in Changes : d # c => Carries(d)'
      BY <1>1 DEF Carries, Idle, Done
<1>3. \A d \in Changes : Carries(d)'
      BY <1>2
<1>4. \A d, e \in UnderWay' : d = e
      BY <1>1 DEF UnderWay
<1>. QED
      BY <1>3, <1>4 DEF DiskHas

\* While no two requests were under way at once, the others rest.
LEMMA OthersRest ==
  ASSUME TeamTypes, DiskHas, calm, NEW c \in Changes, req[c].pc \notin {"idle", "done"}
  PROVE  /\ \A d \in Changes : d # c => req[d] \in {Idle, Done}
         /\ FileHas /\ Carries(c)
<1>1. c \in UnderWay
      BY DEF UnderWay, Idle, Done
<1>2. \A d \in Changes : d # c => d \notin UnderWay
      BY <1>1 DEF DiskHas
<1>. QED
      BY <1>2 DEF UnderWay, DiskHas

\* A change that is made on what has all that was answered.
LEMMA MadeStep ==
  ASSUME TeamTypes, NEW c \in Changes, \A d \in Changes : d # c => req[d] \in {Idle, Done},
         NEW states \in Seq(SUBSET Changes), states # <<>>, acked \subseteq states[Len(states)],
         FileHas, Made(c, states), UNCHANGED <<disk, acked>>
  PROVE  DiskHas'
<1>1. /\ Len(states) \in Nat \ {0}
      /\ projects' # <<>> /\ Len(projects') = Len(states)
      /\ states[Len(states)] \subseteq projects'[Len(states)]
      /\ \/ req' = [req EXCEPT ![c] = Done]
         \/ /\ req' = [req EXCEPT ![c] = [pc |-> "mkdir", of |-> Len(states)]]
            /\ c \in projects'[Len(states)]
      BY MadeFacts
<1>2. FileHas'
      BY <1>1 DEF FileHas, disk
<1>3. req \in [Changes -> Req \cup {Idle, Done}]
      BY DEF TeamTypes
<1>4. CASE req' = [req EXCEPT ![c] = Done]
  <2>1. Carries(c)'
      BY <1>3, <1>4 DEF Carries, Done
  <2>. QED
      BY <1>2, <1>3, <1>4, <2>1, AloneStep
<1>5. CASE /\ req' = [req EXCEPT ![c] = [pc |-> "mkdir", of |-> Len(states)]]
           /\ c \in projects'[Len(states)]
  <2>1. Carries(c)'
      BY <1>1, <1>3, <1>5 DEF Carries
  <2>. QED
      BY <1>2, <1>3, <1>5, <2>1, AloneStep
<1>. QED
      BY <1>1, <1>4, <1>5

\* Begin: the change is made on the memory, which has what was answered.
LEMMA BeginDisk ==
  ASSUME TeamTypes, DiskHas, NEW c \in Changes, Begin(c)
  PROVE  DiskHas'
<1>. SUFFICES ASSUME calm' PROVE DiskHas'
      BY DEF DiskHas
<1>1. calm /\ UnderWay = {} /\ UNCHANGED <<disk, acked>>
      BY DEF Begin
<1>2. FileHas /\ \A d \in Changes : req[d] \in {Idle, Done}
      BY <1>1 DEF DiskHas, UnderWay
<1>3. req \in [Changes -> Req \cup {Idle, Done}]
      BY DEF TeamTypes
<1>4. CASE projects # <<>>
  <2>1. Made(c, projects) /\ projects \in Seq(SUBSET Changes) /\ acked \subseteq projects[Len(projects)]
      BY <1>2, <1>4 DEF Begin, TeamTypes, FileHas
  <2>. QED
      BY <1>1, <1>2, <1>4, <2>1, MadeStep
<1>5. CASE projects = <<>>
  <2>1. req' = [req EXCEPT ![c] = [pc |-> "load"]] /\ UNCHANGED projects
      BY <1>5 DEF Begin
  <2>2. FileHas'
      BY <1>1, <1>2, <2>1 DEF FileHas, disk
  <2>3. Carries(c)'
      BY <1>3, <2>1 DEF Carries
  <2>. QED
      BY <1>2, <1>3, <2>1, <2>2, <2>3, AloneStep
<1>. QED
      BY <1>4, <1>5

\* Read: what is read has what was answered.
LEMMA ReadDisk ==
  ASSUME TeamTypes, DiskHas, NEW c \in Changes, Read(c)
  PROVE  DiskHas'
<1>. SUFFICES ASSUME calm' PROVE DiskHas'
      BY DEF DiskHas
<1>1. calm /\ req[c].pc = "load" /\ UNCHANGED <<projects, inodes, file, tmp, acked>>
      BY DEF Read, disk
<1>2. FileHas /\ \A d \in Changes : d # c => req[d] \in {Idle, Done}
      BY <1>1, OthersRest
<1>3. req \in [Changes -> Req \cup {Idle, Done}]
      BY DEF TeamTypes
<1>4. PICK found :
        /\ found = IF file = 0 \/ inodes[file] = Torn THEN {} ELSE inodes[file]
        /\ req' = [req EXCEPT ![c] = [pc |-> "loaded", found |-> found]]
      BY DEF Read
<1>5. acked \subseteq found
      BY <1>2, <1>4 DEF FileHas
<1>6. FileHas'
      BY <1>1, <1>2 DEF FileHas
<1>7. Carries(c)'
  <2>1. req'[c] = [pc |-> "loaded", found |-> found]
      BY <1>3, <1>4
  <2>. QED
      BY <1>1, <1>5, <2>1 DEF Carries
<1>. QED
      BY <1>2, <1>3, <1>4, <1>6, <1>7, AloneStep

\* Load: what was read becomes the memory.
LEMMA LoadDisk ==
  ASSUME TeamTypes, DiskHas, NEW c \in Changes, Load(c)
  PROVE  DiskHas'
<1>. SUFFICES ASSUME calm' PROVE DiskHas'
      BY DEF DiskHas
<1>1. calm /\ req[c].pc = "loaded" /\ UNCHANGED <<disk, acked>>
      BY DEF Load
<1>2. FileHas /\ acked \subseteq req[c].found /\ \A d \in Changes : d # c => req[d] \in {Idle, Done}
      BY <1>1, OthersRest DEF Carries
<1>3. req[c].found \in SUBSET Changes
      BY <1>1, Requests
<1>. DEFINE states == Append(projects, req[c].found)
<1>4. states \in Seq(SUBSET Changes) /\ Len(states) = Len(projects) + 1 /\ Len(projects) \in Nat
      /\ states[Len(states)] = req[c].found
      BY <1>3, AppendProperties, LenProperties DEF TeamTypes
<1>5. states # <<>>
      BY <1>4, EmptySeq
<1>6. Made(c, states)
      BY DEF Load
<1>. HIDE DEF states
<1>. QED
      BY <1>1, <1>2, <1>4, <1>5, <1>6, MadeStep

\* Open: the temporary file is not the store's, and will hold the memory.
LEMMA OpenDisk ==
  ASSUME TeamTypes, NamesApart, IsFiniteSet(Changes), DiskHas, NEW c \in Changes, Open(c)
  PROVE  DiskHas'
<1>. SUFFICES ASSUME calm' PROVE DiskHas'
      BY DEF DiskHas
<1>1. calm /\ req[c].pc = "mkdir" /\ UNCHANGED <<projects, file, acked>>
      BY DEF Open
<1>2. FileHas /\ \A d \in Changes : d # c => req[d] \in {Idle, Done}
      BY <1>1, OthersRest
<1>3. req[c].of = Len(projects) /\ projects # <<>> /\ c \in projects[Len(projects)]
      BY <1>1, OthersRest DEF Carries
<1>4. acked \cup {c} \subseteq projects[req[c].of]
      BY <1>2, <1>3 DEF FileHas
<1>5. req \in [Changes -> Req \cup {Idle, Done}] /\ tmp \in [DOMAIN tmp -> Nat]
      /\ file \in 0 .. Len(inodes) /\ Len(inodes) \in Nat
      BY DEF TeamTypes
<1>6. PICK i \in Nat \ {0} :
        /\ i # file
        /\ seq \in DOMAIN tmp /\ tmp' = [tmp EXCEPT ![seq] = i]
        /\ req' = [req EXCEPT ![c] = [pc |-> "write", of |-> req[c].of, seq |-> seq,
                                      inode |-> i, record |-> projects[req[c].of]]]
        /\ inodes'[i] = Torn
        /\ \A j \in 1 .. Len(inodes) : j # i => inodes'[j] = inodes[j]
      BY OpenFacts
<1>7. FileHas'
  <2>1. file # 0 => inodes'[file] = inodes[file]
      BY <1>5, <1>6
  <2>. QED
      BY <1>1, <1>2, <2>1 DEF FileHas
<1>8. Carries(c)'
  <2>1. req'[c].pc = "write" /\ req'[c].seq = seq /\ req'[c].inode = i
        /\ req'[c].record = projects[req[c].of]
      BY <1>5, <1>6
  <2>2. tmp'[seq] = i
      BY <1>5, <1>6
  <2>3. inodes'[i] = Torn
      BY <1>6
  <2>. QED
      BY <1>1, <1>3, <1>4, <2>1, <2>2, <2>3 DEF Carries
<1>. QED
      BY <1>2, <1>5, <1>6, <1>7, <1>8, AloneStep

\* Write: the temporary file holds the memory.
LEMMA WriteDisk ==
  ASSUME TeamTypes, NamesApart, "torn" \notin Changes, DiskHas, NEW c \in Changes, Write(c)
  PROVE  DiskHas'
<1>. SUFFICES ASSUME calm' PROVE DiskHas'
      BY DEF DiskHas
<1>1. calm /\ req[c].pc = "write" /\ UNCHANGED <<projects, file, tmp, acked>>
      BY DEF Write
<1>2. FileHas /\ \A d \in Changes : d # c => req[d] \in {Idle, Done}
      BY <1>1, OthersRest
<1>. DEFINE i == req[c].inode
            r == [pc |-> "rename", seq |-> req[c].seq]
<1>3. /\ projects # <<>> /\ c \in projects[Len(projects)]
      /\ tmp[req[c].seq] = i /\ inodes[i] = Torn /\ acked \cup {c} \subseteq req[c].record
      BY <1>1, OthersRest DEF Carries
<1>4. /\ i \in 1 .. Len(inodes) /\ req[c].record \in SUBSET Changes /\ req[c].seq \in DOMAIN tmp
      BY <1>1, Requests
<1>5. inodes' = [inodes EXCEPT ![i] = req[c].record]
      BY <1>3 DEF Write
<1>6. inodes'[i] = req[c].record /\ \A j \in 1 .. Len(inodes) : j # i => inodes'[j] = inodes[j]
      BY <1>4, <1>5, WrittenInodes
<1>7. req \in [Changes -> Req \cup {Idle, Done}] /\ file \in 0 .. Len(inodes) /\ Len(inodes) \in Nat
      BY DEF TeamTypes
<1>8. i # file
      BY <1>3, <1>4 DEF NamesApart
<1>9. FileHas'
  <2>1. file # 0 => inodes'[file] = inodes[file]
      BY <1>6, <1>7, <1>8
  <2>. QED
      BY <1>1, <1>2, <2>1 DEF FileHas
<1>10. req' = [req EXCEPT ![c] = r]
      BY DEF Write
<1>11. Carries(c)'
  <2>1. req'[c] = r
      BY <1>7, <1>10
  <2>2. req'[c].pc = "rename" /\ req'[c].seq = req[c].seq
      BY <2>1
  <2>3. req[c].record # Torn
      BY <1>4 DEF Torn
  <2>4. tmp'[req[c].seq] = i /\ i # 0
      BY <1>1, <1>3, <1>4
  <2>. HIDE DEF i, r
  <2>. QED
      BY <1>1, <1>3, <1>6, <2>2, <2>3, <2>4 DEF Carries
<1>. HIDE DEF r
<1>. QED
      BY <1>2, <1>7, <1>9, <1>10, <1>11, AloneStep

\* Rename: the store's file is the one that was written.
LEMMA RenameDisk ==
  ASSUME TeamTypes, DiskHas, NEW c \in Changes, Rename(c)
  PROVE  DiskHas'
<1>. SUFFICES ASSUME calm' PROVE DiskHas'
      BY DEF DiskHas
<1>1. calm /\ req[c].pc = "rename" /\ UNCHANGED <<projects, inodes>>
      /\ req' = [req EXCEPT ![c] = Done]
      BY DEF Rename
<1>2. FileHas /\ \A d \in Changes : d # c => req[d] \in {Idle, Done}
      BY <1>1, OthersRest
<1>3. /\ projects # <<>> /\ c \in projects[Len(projects)]
      /\ tmp[req[c].seq] # 0 /\ inodes[tmp[req[c].seq]] # Torn
      /\ acked \cup {c} \subseteq inodes[tmp[req[c].seq]]
      BY <1>1, OthersRest DEF Carries
<1>4. file' = tmp[req[c].seq] /\ acked' = acked \cup {c}
      BY <1>3 DEF Rename
<1>5. FileHas'
      BY <1>1, <1>2, <1>3, <1>4 DEF FileHas
<1>6. req \in [Changes -> Req \cup {Idle, Done}]
      BY DEF TeamTypes
<1>7. Carries(c)'
      BY <1>1, <1>6 DEF Carries, Done
<1>. QED
      BY <1>1, <1>2, <1>5, <1>6, <1>7, AloneStep

\* Restart: the file is left as it is.
LEMMA RestartDisk ==
  ASSUME DiskHas, Restart
  PROVE  DiskHas'
<1>. SUFFICES ASSUME calm' PROVE DiskHas'
      BY DEF DiskHas
<1>1. calm /\ projects' = <<>> /\ UNCHANGED <<inodes, file, tmp, acked>>
      BY DEF Restart, disk
<1>2. \A c \in Changes : req'[c] \in {Idle, Done}
      BY DEF Restart, UnderWay
<1>3. FileHas'
      BY <1>1 DEF FileHas, DiskHas
<1>4. \A c \in Changes : Carries(c)'
      BY <1>2 DEF Carries, Idle, Done
<1>5. \A c, d \in UnderWay' : c = d
      BY <1>2 DEF UnderWay
<1>. QED
      BY <1>3, <1>4, <1>5 DEF DiskHas

-----------------------------------------------------------------------------
(* The invariant, and the property *)

\* The invariant holds at first.
LEMMA TeamInit ==
  ASSUME IsFiniteSet(Changes), Init
  PROVE  TeamInv
<1>1. \A c \in Changes : req[c] = Idle
      BY DEF Init
<1>2. Cardinality(Counted) = 0
  <2>1. Counted = {}
      BY <1>1 DEF Counted, Idle
  <2>. QED
      BY <2>1, FS_EmptySet
<1>3. Cardinality(Changes) \in Nat
      BY FS_CardinalityType
<1>4. \A c \in Changes : RefersTo(req[c]) /\ Carries(c)
      BY <1>1 DEF RefersTo, Carries, Idle
<1>5. req \in [Changes -> Req \cup {Idle, Done}]
      BY DEF Init
<1>6. TeamTypes
  <2>1. /\ projects \in Seq(SUBSET Changes)
        /\ inodes \in Seq((SUBSET Changes) \cup {Torn}) /\ Len(inodes) = 0
      BY EmptySeq DEF Init
  <2>2. tmp \in [0 .. Cardinality(Changes) -> Nat] /\ \A n \in DOMAIN tmp : tmp[n] = 0
      BY DEF Init
  <2>3. seq = 0 /\ file = 0 /\ acked = {} /\ recent = {} /\ calm = TRUE /\ reloaded = FALSE
      BY DEF Init
  <2>4. file \in 0 .. Len(inodes) /\ seq \in Nat /\ seq <= Cardinality(Counted)
        /\ \A n \in DOMAIN tmp : tmp[n] <= Len(inodes)
      BY <1>2, <2>1, <2>2, <2>3
  <2>5. recent \subseteq acked /\ acked \subseteq Changes /\ calm \in BOOLEAN /\ reloaded \in BOOLEAN
      BY <2>3
  <2>. QED
      BY <1>4, <1>5, <2>1, <2>2, <2>4, <2>5, Zenon DEF TeamTypes
<1>7. NamesApart
  <2>1. \A n \in DOMAIN tmp : tmp[n] = 0
      BY DEF Init
  <2>. QED
      BY <2>1 DEF NamesApart
<1>8. MemoryHas
  <2>1. Live = {} /\ projects = <<>> /\ recent = {}
      BY <1>1 DEF Live, Idle, Init
  <2>. QED
      BY <2>1 DEF MemoryHas
<1>9. DiskHas
  <2>1. UnderWay = {}
      BY <1>1 DEF UnderWay
  <2>2. FileHas
      BY DEF FileHas, Init
  <2>. QED
      BY <1>4, <2>1, <2>2 DEF DiskHas
<1>. QED
      BY <1>6, <1>7, <1>8, <1>9 DEF TeamInv

\* Whatever a request or the server does keeps the types, and the starts in bounds.
LEMMA TypesStep ==
  ASSUME IsFiniteSet(Changes), MaxStarts \in Nat, TeamTypes, starts \in 1 .. MaxStarts,
         [Next]_vars
  PROVE  TeamTypes' /\ starts' \in 1 .. MaxStarts
<1>1. CASE Next
  <2>1. TeamTypes'
      BY <1>1, BeginTypes, ReadTypes, LoadTypes, OpenTypes, WriteTypes, RenameTypes, RestartTypes
      DEF Next
  <2>2. starts' = starts \/ (starts < MaxStarts /\ starts' = starts + 1)
      BY <1>1 DEF Next, Begin, Read, Load, Open, Write, Rename, Restart
  <2>. QED
      BY <2>1, <2>2
<1>2. CASE UNCHANGED vars
  <2>. USE <1>2 DEF vars, server, disk
  <2>1. UNCHANGED Counted
      BY DEF Counted
  <2>. QED
      BY <2>1 DEF TeamTypes, RefersTo
<1>. QED
      BY <1>1, <1>2

\* The variables hold what the code can put there.
LEMMA TypesHold ==
  ASSUME IsFiniteSet(Changes), TeamTypes, starts \in 1 .. MaxStarts
  PROVE  TypeOK
<1>1. seq \in DOMAIN tmp
      BY SeqNames
<1>2. \A n \in DOMAIN tmp : tmp[n] \in 0 .. Len(inodes)
  <2>1. inodes \in Seq((SUBSET Changes) \cup {Torn}) /\ tmp \in [0 .. Cardinality(Changes) -> Nat]
        /\ \A n \in DOMAIN tmp : tmp[n] <= Len(inodes)
      BY DEF TeamTypes
  <2>2. Len(inodes) \in Nat
      BY <2>1
  <2>. QED
      BY <2>1, <2>2
<1>. QED
      BY <1>1, <1>2 DEF TeamTypes, TypeOK

\* Every step keeps the invariant.
LEMMA TeamStep ==
  ASSUME IsFiniteSet(Changes), "torn" \notin Changes, TeamInv, [Next]_vars
  PROVE  TeamInv'
<1>. USE DEF TeamInv
<1>1. CASE Next
  <2>1. TeamTypes'
      BY <1>1, BeginTypes, ReadTypes, LoadTypes, OpenTypes, WriteTypes, RenameTypes, RestartTypes
      DEF Next
  <2>2. NamesApart' /\ MemoryHas'
      BY <1>1, NamesStep, MemoryStep
  <2>3. DiskHas'
      BY <1>1, BeginDisk, ReadDisk, LoadDisk, OpenDisk, WriteDisk, RenameDisk, RestartDisk
      DEF Next
  <2>. QED
      BY <2>1, <2>2, <2>3
<1>2. CASE UNCHANGED vars
  <2>. USE <1>2 DEF vars, server, disk
  <2>1. UNCHANGED Counted /\ UNCHANGED Live /\ UNCHANGED UnderWay
      BY DEF Counted, Live, UnderWay
  <2>2. TeamTypes'
      BY <2>1 DEF TeamTypes, RefersTo
  <2>3. NamesApart' /\ MemoryHas'
      BY <2>1 DEF NamesApart, MemoryHas
  <2>4. DiskHas'
      BY <2>1 DEF DiskHas, FileHas, Carries
  <2>. QED
      BY <2>2, <2>3, <2>4
<1>. QED
      BY <1>1, <1>2

\* The invariant implies what the team store promises.
LEMMA TeamKeeps ==
  ASSUME TeamInv
  PROVE  AckedIsKept
<1>1. projects # <<>> /\ ~reloaded => recent \subseteq Last(projects)
      BY DEF TeamInv, MemoryHas, Last
<1>2. calm /\ acked # {} => file # 0 /\ inodes[file] # Torn /\ acked \subseteq inodes[file]
      BY DEF TeamInv, DiskHas, FileHas
<1>. QED
      BY <1>1, <1>2 DEF AckedIsKept

\* A store whose changes can be counted, and none of which is a file that does not
\* parse, keeps what it answered.
THEOREM AckedCorrect ==
  ASSUME IsFiniteSet(Changes), "torn" \notin Changes
  PROVE  Spec => []AckedIsKept
<1>1. Init => TeamInv
      BY TeamInit
<1>2. TeamInv /\ [Next]_vars => TeamInv'
      BY TeamStep
<1>3. TeamInv => AckedIsKept
      BY TeamKeeps
<1>. QED
      BY <1>1, <1>2, <1>3, PTL DEF Spec
=============================================================================
