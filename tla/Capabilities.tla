---------------------------- MODULE Capabilities ----------------------------
(***************************************************************************)
(* The hands of one agent and the tools that the model sees of them        *)
(* (packages/core/src/hands.ts, agent-helpers/capabilities.ts, agent.ts),  *)
(* changed while the agent runs, with what agent.json keeps of them for    *)
(* the next mount (workspace/initializer.ts, packages/runtime/src/build.ts,*)
(* packages/worker/src/builder.ts, packages/worker-daemon/src/cli.ts).     *)
(*                                                                         *)
(* A tool's name is its capability's, or that with the environment of the  *)
(* hand and perhaps a number behind it.  Hands of the SDK that the         *)
(* operations below never touch are left out.                              *)
(***************************************************************************)
EXTENDS Integers, Sequences, SequencesExt

CONSTANTS
  Order,         \* ids that have a builder, in the order of the builders
  Added,         \* hands that a product adds and removes
  RuntimeTools,  \* those of them that addTool made of one tool
  Capability,    \* names of capabilities
  Offers,        \* the capabilities of each hand
  Env,           \* the environment of each hand
  Refused,       \* what handPolicy denies, as pairs of hand and capability
  Slots,         \* calls of setBuiltinHands that may be in flight
  Denylists,     \* lists of bare names that an operator may set
  MaxMounts,     \* bound: times that the agent is mounted
  MaxChanges     \* bound: changes that are asked for while it runs

Builtin == Range(Order)
Hands == Builtin \cup Added

VARIABLES
  file,       \* agent.json, as far as it is about tools
  state,      \* of the runtime: "down", "up" or "disposed"
  tools,      \* Agent.tools: the hand and capability behind each name
  names,      \* the names of the tools of each hand in the registry
  denylist,   \* Agent._toolDenylist
  calls,      \* calls of setBuiltinHands that await
  mounts,     \* how often the agent was mounted
  changes,    \* how many changes were asked for
  asked,      \* history: the list an operator set last
  taken,      \* history: capabilities that removeTool took from their hand
  agreed      \* history: nobody interfered with the file

vars == <<file, state, tools, names, denylist, calls, mounts, changes, asked, taken, agreed>>

NoFile == [exists |-> FALSE]
Idle == [pc |-> "idle"]

Init ==
  /\ file = NoFile
  /\ state = "down"
  /\ tools = <<>>
  /\ names = <<>>
  /\ denylist = {}
  /\ calls = [c \in Slots |-> Idle]
  /\ mounts = 0
  /\ changes = 0
  /\ asked = {}
  /\ taken = {}
  /\ agreed = TRUE

-----------------------------------------------------------------------------
(* Names *)

Bare(b) == [name |-> b, env |-> "", number |-> 0]

Suffixed(b, e, i) == [name |-> b, env |-> e, number |-> i]

\* disambiguateAgainstRegistry: the environment, then a number as well.
Disambiguated(b, e, used) ==
  CHOOSE n \in {Suffixed(b, e, i) : i \in 1 .. Cardinality(used) + 1} :
    /\ n \notin used
    /\ \A i \in 1 .. n.number - 1 : Suffixed(b, e, i) \in used

\* evaluateHandCapabilityPolicy, reduced to its verdict.
Admitted(h) == {b \in Offers[h] : <<h, b>> \notin Refused}

NameOf(h, b, used) == IF Bare(b) \in used THEN Disambiguated(b, Env[h], used) ELSE Bare(b)

Overridden(f, g) ==
  [x \in DOMAIN f \cup DOMAIN g |-> IF x \in DOMAIN g THEN g[x] ELSE f[x]]

Without(f, S) == [x \in DOMAIN f \ S |-> f[x]]

\* Fault: a tool replaces the one that has its name already.
Registered_Replace(caps, h) ==
  LET fresh == {Bare(b) : b \in Admitted(h)}
  IN  [tools |-> Overridden(caps.tools,
                   [n \in fresh |-> [hand |-> h, capability |-> n.name]]),
       names |-> Overridden(caps.names, [x \in {h} |-> fresh])]

\* registerHandCapabilities, on tools and handToolNames.
Registered(caps, h) ==
  LET used  == DOMAIN caps.tools
      fresh == {NameOf(h, b, used) : b \in Admitted(h)}
  IN  [tools |-> Overridden(caps.tools,
                   [n \in fresh |-> [hand |-> h, capability |-> n.name]]),
       names |-> Overridden(caps.names, [x \in {h} |-> fresh])]

\* Those of the hands hs that are in S, one after the other.
RegisteredAll(caps, hs, S) ==
  FoldLeft(LAMBDA had, h : IF h \in S THEN Registered(had, h) ELSE had, caps, hs)

\* unregisterHandCapabilities.
Unregistered(caps, h) ==
  [tools |-> Without(caps.tools, caps.names[h]), names |-> Without(caps.names, {h})]

Now == [tools |-> tools, names |-> names]

Become(caps) == tools' = caps.tools /\ names' = caps.names

-----------------------------------------------------------------------------
(* Mounting *)

\* bootAgent and the hands of buildHands, then setToolDenylist with the list of
\* the spec.
Mounted(selection, list) ==
  LET found == IF file.exists THEN file ELSE [exists |-> TRUE, denylist |-> {}, builtin |-> selection]
      empty == [tools |-> <<>>, names |-> <<>>]
  IN  /\ state # "up" /\ names = <<>>
      /\ mounts < MaxMounts
      /\ mounts' = mounts + 1
      /\ state' = "up"
      /\ Become(RegisteredAll(empty, Order, selection))
      /\ file' = [found EXCEPT !.denylist = list]
      /\ denylist' = list
      /\ taken' = {}
      /\ calls' = [c \in Slots |-> IF calls[c] = Idle THEN Idle ELSE [calls[c] EXCEPT !.old = TRUE]]
      /\ UNCHANGED changes

\* runAgent with a spec of the plane, over the home that is there if there is
\* one: initWorkspaceSync then keeps the selection of the file.
Create ==
  \E selection \in SUBSET Builtin, list \in Denylists :
    /\ Mounted(selection, list)
    /\ agreed' = (agreed /\ (file.exists => file.builtin = selection))
    /\ asked' = list

\* loadAgentSpecFromDisk, which reads no list: builder.ts makes it an empty one.
Rehydrate ==
  /\ file.exists
  /\ Mounted(file.builtin, {})
  /\ UNCHANGED <<asked, agreed>>

\* Agent.dispose; tools stay as they are for introspection.
Dispose ==
  /\ state = "up"
  /\ state' = "disposed"
  /\ UNCHANGED <<file, tools, names, denylist, calls, mounts, changes, asked, taken, agreed>>

\* disposeAll is over, and the registry empty.
Disposed ==
  /\ state = "disposed" /\ names # <<>>
  /\ names' = <<>>
  /\ UNCHANGED <<file, state, tools, denylist, calls, mounts, changes, asked, taken, agreed>>

\* The process dies.
Crash ==
  /\ state # "down"
  /\ state' = "down"
  /\ tools' = <<>> /\ names' = <<>>
  /\ denylist' = {}
  /\ calls' = [c \in Slots |-> Idle]
  /\ taken' = {}
  /\ UNCHANGED <<file, mounts, changes, asked, agreed>>

-----------------------------------------------------------------------------
(* Changes while the agent runs *)

Changed == changes < MaxChanges /\ changes' = changes + 1

\* addHand, addTool.
AddHand(h) ==
  /\ state = "up"
  /\ Changed
  /\ h \notin DOMAIN names
  /\ Become(Registered(Now, h))
  /\ UNCHANGED <<file, state, denylist, calls, mounts, asked, taken, agreed>>

\* removeHand.
RemoveHand(h) ==
  /\ state = "up"
  /\ Changed
  /\ h \in DOMAIN names
  /\ Become(Unregistered(Now, h))
  /\ taken' = {t \in taken : t[1] # h}
  /\ UNCHANGED <<file, state, denylist, calls, mounts, asked, agreed>>

\* removeTool: a runtime tool takes its hand with it.
RemoveTool(n) ==
  LET h    == tools[n].hand
      left == names[h] \ {n}
      gone == left = {} /\ h \in RuntimeTools
  IN  /\ state = "up"
      /\ Changed
      /\ n \in DOMAIN tools
      /\ tools' = Without(tools, {n})
      /\ names' = IF gone THEN Without(names, {h}) ELSE [names EXCEPT ![h] = left]
      /\ taken' = IF gone THEN taken ELSE taken \cup {<<h, tools[n].capability>>}
      /\ UNCHANGED <<file, state, denylist, calls, mounts, asked, agreed>>

\* setToolDenylist.
SetToolDenylist ==
  /\ state = "up"
  /\ Changed
  /\ \E l \in Denylists :
       /\ denylist' = l
       /\ asked' = l
       /\ file' = [file EXCEPT !.denylist = l]
  /\ UNCHANGED <<state, tools, names, calls, mounts, taken, agreed>>

\* The loop of setBuiltinHands up to its next await, or its end.  A hand that
\* is to be added to or removed from a disposed agent makes it throw; an old
\* call is one of a runtime that another has replaced.
Continue(c, old, desired, todo) ==
  LET mounted == IF old THEN {} ELSE DOMAIN names
      stops   == {i \in DOMAIN todo : todo[i] \in mounted \ desired}
      until   == IF stops = {} THEN Len(todo) + 1
                 ELSE CHOOSE i \in stops : \A j \in stops : i <= j
      adds    == {i \in 1 .. until - 1 : todo[i] \in desired \ mounted}
      added   == RegisteredAll(Now, SubSeq(todo, 1, until - 1), desired \ mounted)
      throws  == (old \/ state # "up") /\ adds \cup stops # {}
  IN  \/ /\ throws
         /\ calls' = [calls EXCEPT ![c] = Idle]
         /\ UNCHANGED <<file, tools, names, taken>>
      \/ /\ ~throws /\ stops # {}
         /\ Become(Unregistered(added, todo[until]))
         /\ taken' = {t \in taken : t[1] # todo[until]}
         /\ calls' = [calls EXCEPT ![c] =
              [pc |-> "removing", old |-> FALSE, desired |-> desired,
               todo |-> SubSeq(todo, until + 1, Len(todo))]]
         /\ UNCHANGED file
      \/ /\ ~throws /\ stops = {}
         /\ Become(added)
         /\ file' = [file EXCEPT !.builtin = desired]
         /\ calls' = [calls EXCEPT ![c] = Idle]
         /\ UNCHANGED taken

\* setBuiltinHands begins.
SetBuiltinHands(c) ==
  /\ state = "up"
  /\ Changed
  /\ calls[c] = Idle
  /\ \E desired \in SUBSET Builtin : Continue(c, FALSE, desired, Order)
  /\ agreed' = (agreed /\ \A d \in Slots : calls[d] = Idle)
  /\ UNCHANGED <<state, denylist, mounts, asked>>

\* The hand it removed is disposed, well or not.
Removed(c) ==
  /\ calls[c].pc = "removing"
  /\ Continue(c, calls[c].old, calls[c].desired, calls[c].todo)
  /\ agreed' = (agreed /\ ~calls[c].old)
  /\ UNCHANGED <<state, denylist, mounts, changes, asked>>

Next ==
  \/ Create
  \/ Rehydrate
  \/ Dispose
  \/ Disposed
  \/ Crash
  \/ \E h \in Added : AddHand(h) \/ RemoveHand(h)
  \/ \E n \in DOMAIN tools : RemoveTool(n)
  \/ SetToolDenylist
  \/ \E c \in Slots : SetBuiltinHands(c) \/ Removed(c)

Spec == Init /\ [][Next]_vars

-----------------------------------------------------------------------------
(* Properties *)

Names == {Bare(b) : b \in Capability} \cup
         {Suffixed(b, e, i) : b \in Capability, e \in Range(Env), i \in 1 .. Cardinality(Hands)}

\* The variables hold what the code can put there.
TypeOK ==
  /\ file = NoFile \/ file \in [exists : {TRUE}, denylist : SUBSET Capability, builtin : SUBSET Builtin]
  /\ state \in {"down", "up", "disposed"}
  /\ DOMAIN tools \subseteq Names
  /\ \A n \in DOMAIN tools : tools[n] \in [hand : Hands, capability : Capability]
  /\ DOMAIN names \subseteq Hands
  /\ \A h \in DOMAIN names : names[h] \subseteq Names
  /\ denylist \subseteq Capability
  /\ \A c \in Slots :
       calls[c] # Idle => calls[c].desired \subseteq Builtin /\ Range(calls[c].todo) \subseteq Builtin
  /\ mounts \in 0 .. MaxMounts /\ changes \in 0 .. MaxChanges
  /\ asked \subseteq Capability
  /\ taken \subseteq Hands \X Capability
  /\ agreed \in BOOLEAN

\* However hands and tools come and go, and whatever names they share, each
\* hand that is registered has all its admitted capabilities among the tools,
\* each under a name of its own, but for those that removeTool took; no tool
\* is left of a hand that is gone.
ToolsAreHands ==
  state = "up" =>
    /\ DOMAIN tools = UNION Range(names)
    /\ \A h \in DOMAIN names :
         /\ \A n \in names[h] : tools[n].hand = h
         /\ {tools[n].capability : n \in names[h]} = {b \in Admitted(h) : <<h, b>> \notin taken}
         /\ Cardinality(names[h]) = Cardinality({tools[n].capability : n \in names[h]})

\* agent.ts:597: agent.json is the source that a restart reads.  While no call
\* is under way, the built-in hands that are mounted are those it names, unless
\* calls overlapped or the agent was created anew over an older home.
SelectionIsKept ==
  state = "up" /\ agreed /\ (\A c \in Slots : calls[c] = Idle)
    => DOMAIN names \cap Builtin = file.builtin

\* agent.ts:575: "a restart keeps the same denylist".
DenylistSurvives == state = "up" => denylist = asked

=============================================================================
