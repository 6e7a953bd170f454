---------------------------- MODULE ConfigProofs ----------------------------
(***************************************************************************)
(* Proofs about the config file, for any files: what the server makes of    *)
(* it, with any tags, circumstances and number of edits (module Server),    *)
(* and what the reader that it goes through makes of it (module Trim).      *)
(***************************************************************************)
EXTENDS Server, Trim, SequenceTheorems, TLAPS

\* Reloads are launched in their order, and a slice is made by its own.
Unmade == {"new", "sleep", "load", "reload", "close", "closeCore", "newCore", "setCore", "startCore", "make"}
Launches ==
    /\ \A g \in Reloads : g > edits => pc[g] = "new"
    /\ \A g \in Reloads : pc[g] \in Unmade => slices[g] = <<>>

Types == TypeOK /\ Launches

Entries == Controllers \cup {NoController}

LEMMA NumbersAre ==
    /\ Reloads \subseteq Cores /\ 0 \in Cores /\ None \notin Cores
    /\ \A g \in Reloads : g # 0
  BY EditsAssumption, NoneAssumption DEF Reloads, Cores

\* The bounds of the indices
Indices ==
    \A g \in Reloads :
      /\ pc[g] = "close" => idx[g] \in 1..Len(Ranged(g)) + 1
      /\ pc[g] \in {"start", "begin", "users"} => idx[g] \in 1..Len(list[g]) + 1
      /\ pc[g] \in {"begin", "users"} => idx[g] <= Len(list[g])
      /\ pc[g] = "users" => starting[g] # NoController

\* A step of a reload to a place where it ranges over nothing
LEMMA WalkTypes ==
    ASSUME Types, NEW g \in Reloads, NEW place \in {"load", "reload", "closeCore", "newCore", "setCore", "startCore", "make", "success"},
           Goto(g, place),
           pc[g] \in Unmade \ {"new"} \/ (place = "success" /\ pc[g] # "new"),
           UNCHANGED <<edits, ranged, list, idx, starting>>, slices' = slices
    PROVE  pc' \in [Reloads -> Places] /\ Launches' /\ Indices'
<1>1. pc' \in [Reloads -> Places] /\ pc'[g] = place /\ \A h \in Reloads : h # g => pc'[h] = pc[h]
  BY DEF Types, TypeOK, Goto, Places
<1>2. Launches'
  BY <1>1 DEF Types, Launches, Unmade
<1>3. Indices'
  BY <1>1 DEF Types, TypeOK, Indices, Ranged
<1> QED BY <1>1, <1>2, <1>3

LEMMA InitTypes == Init => Types
<1> SUFFICES ASSUME Init PROVE Types
  OBVIOUS
<1>1. file \in Seq(Tags) /\ file \in regime.contents
  BY RegimesAssumption DEF Init, Proper
<1>2. \A j \in DOMAIN file : Made(file[j], 0, 0) \in Controllers
  BY <1>1, NumbersAre, ElementOfSeq, LenProperties DEF Made, Controllers
<1>3. [j \in DOMAIN file |-> Made(file[j], 0, 0)] \in Seq(Controllers)
  BY <1>1, <1>2, LenProperties
<1>4. slices \in [Cores -> Seq(Entries)] /\ Range(slices[0]) \subseteq Controllers
  <2>1. Seq(Controllers) \subseteq Seq(Entries)
    BY SeqMonotonic DEF Entries
  <2>2. slices[0] \in Seq(Controllers)
    BY <1>3, NumbersAre DEF Init
  <2>3. slices \in [Cores -> Seq(Entries)]
    BY <1>3, <2>1, EmptySeq DEF Init
  <2> QED BY <2>2, <2>3, LenProperties, ElementOfSeq DEF Range
<1>5. served \in [Cores -> SUBSET Tags] /\ limited \subseteq Tags
  BY <1>1, LenProperties, ElementOfSeq DEF Init, Range
<1>6. list \in [Reloads -> Seq(Tags)]
  BY EmptySeq DEF Init
<1>7. \A g \in Reloads : slices[g] = <<>>
  BY NumbersAre DEF Init
<1>8. Launches
  BY <1>7 DEF Init, Launches
<1>9. TypeOK
  <2>1. pc \in [Reloads -> Places] /\ idx \in [Reloads -> Nat] /\ \A g \in Reloads : pc[g] = "new"
    BY DEF Init, Places
  <2>2. ranged \in [Reloads -> Cores \cup {None}] /\ core \in [Reloads -> Cores \cup {None}]
    BY DEF Init
  <2>3. running \subseteq Controllers /\ controllers \in Cores \cup {None} /\ vc \in Cores \cup {None}
    BY <1>4, NumbersAre DEF Init
  <2>4. regime \in Regimes /\ window \in BOOLEAN /\ panicked \in BOOLEAN
    BY DEF Init
  <2>6. edits \in 0..MaxEdits
    BY EditsAssumption DEF Init
  <2>7. conf \in Seq(Tags)
    BY <1>1 DEF Init
  <2>5. Indices
    BY <2>1 DEF Indices
  <2>8. starting \in [Reloads -> Controllers \cup {NoController}]
    BY DEF Init
  <2> QED BY <1>1, <1>4, <1>5, <1>6, <2>1, <2>2, <2>3, <2>4, <2>5, <2>6, <2>7, <2>8 DEF TypeOK, Entries, Indices
<1> QED BY <1>8, <1>9 DEF Types

LEMMA WatchTypes ==
    ASSUME Types, EditFile \/ WindowEnds
    PROVE  Types'
<1>1. CASE EditFile
  <2>1. edits' \in 0..MaxEdits /\ edits + 1 \in Reloads /\ edits' = edits + 1 /\ edits \in Nat
    BY <1>1, EditsAssumption DEF EditFile, Types, TypeOK, Reloads
  <2>2. UNCHANGED <<regime, conf, vc, nodes, locals, panicked>> /\ file' \in regime.contents /\ window' \in BOOLEAN
    BY <1>1 DEF EditFile, Types, TypeOK
  <2>3. pc' = pc \/ pc' = [pc EXCEPT ![edits + 1] = "sleep"]
    BY <1>1 DEF EditFile
  <2>a. pc[edits + 1] = "new"
    BY <2>1 DEF Types, Launches
  <2>4. /\ pc' \in [Reloads -> Places]
        /\ \A g \in Reloads : pc'[g] = pc[g] \/ (pc'[g] = "sleep" /\ pc[g] = "new" /\ g = edits + 1)
    <3>1. CASE pc' = pc
      BY <3>1 DEF Types, TypeOK
    <3>2. CASE pc' = [pc EXCEPT ![edits + 1] = "sleep"]
      BY <3>2, <2>1, <2>a DEF Types, TypeOK, Places
    <3> QED BY <2>3, <3>1, <3>2
  <2>5. Launches'
    <3>1. ASSUME NEW g \in Reloads, g > edits' PROVE pc'[g] = "new"
      <4>1. g > edits /\ g # edits + 1
        BY <2>1, <3>1 DEF Reloads
      <4> QED BY <4>1, <2>4 DEF Types, Launches
    <3>2. ASSUME NEW g \in Reloads, pc'[g] \in Unmade PROVE slices'[g] = <<>>
      BY <2>2, <2>4, <3>2 DEF Types, Launches, nodes, Unmade
    <3> QED BY <3>1, <3>2 DEF Launches
  <2>6. TypeOK'
    <3>1. Indices'
      BY <2>2, <2>4 DEF Types, TypeOK, nodes, locals, Ranged, Indices
    <3> QED BY <2>1, <2>2, <2>4, <3>1 DEF Types, TypeOK, nodes, locals, Indices
  <2> QED BY <2>5, <2>6 DEF Types
<1>2. CASE WindowEnds
  <2>1. window' \in BOOLEAN /\ UNCHANGED <<regime, file, edits, conf, vc, nodes, pc, locals, panicked>>
    BY <1>2 DEF WindowEnds, outside
  <2> QED BY <2>1 DEF Types, TypeOK, Launches, nodes, locals, Ranged
<1> QED BY <1>1, <1>2

LEMMA LoadTypes ==
    ASSUME Types, NEW g \in Reloads, ResetConf(g) \/ Load(g)
    PROVE  Types'
<1>1. /\ pc[g] \in {"sleep", "load"} /\ (Goto(g, "load") \/ Goto(g, "reload"))
      /\ UNCHANGED <<regime, file, edits, window, vc, nodes, locals, panicked>>
  BY DEF ResetConf, Load, Goto, outside
<1>2. conf' \in Seq(Tags)
  <2>1. file # Broken => file \in Seq(Tags)
    BY RegimesAssumption DEF Types, TypeOK
  <2>2. conf' = <<>> \/ (file # Broken /\ conf' = file)
    BY DEF ResetConf, Load
  <2> QED BY <2>1, <2>2, EmptySeq
<1>3. pc' \in [Reloads -> Places] /\ Launches' /\ Indices'
  BY <1>1, WalkTypes DEF Unmade, nodes, locals
<1> QED BY <1>1, <1>2, <1>3 DEF Types, TypeOK, Indices, nodes, locals

LEMMA RangeTypes ==
    ASSUME Types, NEW g \in Reloads, RangeControllers(g)
    PROVE  Types'
<1>1. /\ pc[g] = "reload" /\ pc' = [pc EXCEPT ![g] = "close"]
      /\ ranged' = [ranged EXCEPT ![g] = controllers] /\ idx' = [idx EXCEPT ![g] = 1]
      /\ UNCHANGED <<regime, file, edits, conf, window, vc, nodes, list, core, starting, panicked>>
  BY DEF RangeControllers, Goto, outside
<1>3. /\ pc' \in [Reloads -> Places] /\ pc'[g] = "close" /\ \A h \in Reloads : h # g => pc'[h] = pc[h]
      /\ ranged' \in [Reloads -> Cores \cup {None}] /\ \A h \in Reloads : h # g => ranged'[h] = ranged[h]
      /\ idx' \in [Reloads -> Nat] /\ idx'[g] = 1 /\ \A h \in Reloads : h # g => idx'[h] = idx[h]
  BY <1>1 DEF Types, TypeOK, Places
<1>4. Launches'
  BY <1>1, <1>3 DEF Types, Launches, nodes, Unmade
<1>5. Len(Ranged(g)') \in Nat
  <2>1. ranged'[g] # None => Ranged(g)' \in Seq(Entries)
    BY <1>1, <1>3 DEF Types, TypeOK, Ranged, nodes, Entries
  <2> QED BY <2>1, LenProperties, EmptySeq DEF Ranged
<1>6. Indices'
  BY <1>1, <1>3, <1>5 DEF Types, TypeOK, Indices, Ranged, nodes
<1> QED BY <1>1, <1>3, <1>4, <1>6 DEF Types, TypeOK, nodes, Indices

\* A step of a reload that leaves the slices, its indices and ranges
LEMMA PanicTypes ==
    ASSUME Types, Panic, UNCHANGED <<outside, conf, window, vc>>
    PROVE  Types'
<1>1. UNCHANGED <<regime, file, edits, conf, window, vc, nodes, pc, locals>> /\ panicked' \in BOOLEAN
  BY DEF Panic, outside
<1> QED BY <1>1 DEF Types, TypeOK, Launches, nodes, locals, Ranged

LEMMA CloseTypes ==
    ASSUME Types, NEW g \in Reloads, CloseController(g)
    PROVE  Types'
<1> DEFINE c == Ranged(g)[idx[g]]
<1>1. CASE c.core = None \/ c.tag \notin served[c.core]
  BY <1>1, PanicTypes DEF CloseController
<1>2. CASE ~(c.core = None \/ c.tag \notin served[c.core])
  <2>1. /\ pc[g] = "close" /\ idx[g] <= Len(Ranged(g))
        /\ limited' = limited \ {c.tag} /\ running' = running \ {c}
        /\ served' = [served EXCEPT ![c.core] = @ \ {c.tag}]
        /\ idx' = [idx EXCEPT ![g] = @ + 1]
        /\ UNCHANGED <<slices, controllers, pc, ranged, list, core, starting, panicked>>
        /\ UNCHANGED <<regime, file, edits, conf, window, vc>>
    BY <1>2 DEF CloseController, outside
  <2>2. idx' \in [Reloads -> Nat] /\ idx'[g] = idx[g] + 1 /\ \A h \in Reloads : h # g => idx'[h] = idx[h]
    BY <2>1 DEF Types, TypeOK
  <2>3. Ranged(g) \in Seq(Entries)
    BY EmptySeq DEF Types, TypeOK, Ranged, Entries
  <2>4. Len(Ranged(g)) \in Nat
    BY <2>3, LenProperties
  <2>5. Indices'
    BY <2>1, <2>2, <2>4 DEF Types, TypeOK, Indices, Ranged
  <2>6. served' \in [Cores -> SUBSET Tags] /\ limited' \subseteq Tags /\ running' \subseteq Controllers
    BY <2>1 DEF Types, TypeOK
  <2>7. Launches'
    BY <2>1 DEF Types, Launches
  <2> QED BY <2>1, <2>2, <2>5, <2>6, <2>7 DEF Types, TypeOK, Indices
<1> QED BY <1>1, <1>2

LEMMA NodesClosedTypes ==
    ASSUME Types, NEW g \in Reloads, NodesClosed(g)
    PROVE  Types'
<1>1. /\ pc[g] = "close" /\ Goto(g, "closeCore") /\ controllers' = None
      /\ UNCHANGED <<regime, file, edits, conf, window, vc, served, slices, running, limited, ranged, list, idx, core,
                     starting, panicked>>
  BY DEF NodesClosed, outside, locals
<1>2. pc' \in [Reloads -> Places] /\ Launches' /\ Indices'
  BY <1>1, WalkTypes DEF Unmade
<1> QED BY <1>1, <1>2 DEF Types, TypeOK, Indices

LEMMA CloseCoreTypes ==
    ASSUME Types, NEW g \in Reloads, CloseCore(g)
    PROVE  Types'
<1>1. CASE vc = None /\ Panic
  BY <1>1, PanicTypes DEF CloseCore
<1>2. CASE ~(vc = None /\ Panic)
  <2>1. /\ pc[g] = "closeCore" /\ vc # None
        /\ UNCHANGED <<regime, file, edits, conf, window, vc, slices, controllers, running, limited, ranged, list, idx,
                       core, starting, panicked>>
        /\ Goto(g, "newCore") \/ Goto(g, "success")
        /\ served' = served \/ served' = [served EXCEPT ![vc] = {}]
    BY <1>2 DEF CloseCore, GoOn, outside, nodes, locals
  <2>2. pc' \in [Reloads -> Places] /\ Launches' /\ Indices'
    BY <2>1, WalkTypes DEF Unmade
  <2>3. served' \in [Cores -> SUBSET Tags]
    BY <2>1 DEF Types, TypeOK
  <2> QED BY <2>1, <2>2, <2>3 DEF Types, TypeOK, Indices
<1> QED BY <1>1, <1>2

LEMMA NewCoreTypes ==
    ASSUME Types, NEW g \in Reloads, NewCore(g) \/ SetCore(g)
    PROVE  Types'
<1>1. /\ pc[g] \in {"newCore", "setCore"}
      /\ UNCHANGED <<regime, file, edits, conf, window, served, slices, controllers, running, limited, ranged, list, idx,
                     starting, panicked>>
      /\ Goto(g, "setCore") \/ Goto(g, "startCore") \/ Goto(g, "success")
  BY DEF NewCore, SetCore, GoOn, outside, nodes, locals
<1>2. pc' \in [Reloads -> Places] /\ Launches' /\ Indices'
  BY <1>1, WalkTypes DEF Unmade
<1>3. vc' \in Cores \cup {None} /\ core' \in [Reloads -> Cores \cup {None}]
  BY NumbersAre DEF NewCore, SetCore, locals, Types, TypeOK
<1> QED BY <1>1, <1>2, <1>3 DEF Types, TypeOK, Indices

LEMMA StartCoreTypes ==
    ASSUME Types, NEW g \in Reloads, StartCore(g)
    PROVE  Types'
<1>1. CASE vc = None /\ Panic
  BY <1>1, PanicTypes DEF StartCore
<1>2. CASE ~(vc = None /\ Panic)
  <2>1. /\ pc[g] = "startCore"
        /\ UNCHANGED <<regime, file, edits, conf, window, vc, nodes, locals, panicked>>
        /\ Goto(g, "make") \/ Goto(g, "success")
    BY <1>2 DEF StartCore, GoOn, outside
  <2>2. pc' \in [Reloads -> Places] /\ Launches' /\ Indices'
    BY <2>1, WalkTypes DEF Unmade, nodes, locals
  <2> QED BY <2>1, <2>2 DEF Types, TypeOK, Indices, nodes, locals
<1> QED BY <1>1, <1>2

LEMMA NodesStartedTypes ==
    ASSUME Types, NEW g \in Reloads, NodesStarted(g)
    PROVE  Types'
<1>1. /\ pc[g] = "start" /\ Goto(g, "success")
      /\ UNCHANGED <<regime, file, edits, conf, window, vc, nodes, locals, panicked>>
  BY DEF NodesStarted, outside
<1>2. pc' \in [Reloads -> Places] /\ Launches' /\ Indices'
  BY <1>1, WalkTypes DEF nodes, locals
<1> QED BY <1>1, <1>2 DEF Types, TypeOK, Indices, nodes, locals

LEMMA MakeTypes ==
    ASSUME Types, NEW g \in Reloads, MakeControllers(g)
    PROVE  Types'
<1>1. /\ pc[g] = "make" /\ pc' = [pc EXCEPT ![g] = "start"] /\ controllers' = g
      /\ slices' = [slices EXCEPT ![g] = [j \in DOMAIN conf |-> NoController]]
      /\ list' = [list EXCEPT ![g] = conf] /\ idx' = [idx EXCEPT ![g] = 1] /\ core' = [core EXCEPT ![g] = vc]
      /\ UNCHANGED <<regime, file, edits, conf, window, vc, served, running, limited, ranged, starting, panicked>>
  BY DEF MakeControllers, outside, Goto
<1>2. [j \in DOMAIN conf |-> NoController] \in Seq(Entries)
  BY LenProperties DEF Types, TypeOK, Entries
<1>3. /\ slices' \in [Cores -> Seq(Entries)] /\ \A h \in Cores : h # g => slices'[h] = slices[h]
      /\ slices'[g] \in Seq(Entries) /\ slices[g] = <<>>
  BY <1>1, <1>2, NumbersAre DEF Types, TypeOK, Entries, Launches, Unmade
<1>4. /\ pc' \in [Reloads -> Places] /\ pc'[g] = "start" /\ \A h \in Reloads : h # g => pc'[h] = pc[h]
      /\ idx' \in [Reloads -> Nat] /\ idx'[g] = 1 /\ \A h \in Reloads : h # g => idx'[h] = idx[h]
      /\ list' \in [Reloads -> Seq(Tags)] /\ list'[g] = conf /\ \A h \in Reloads : h # g => list'[h] = list[h]
      /\ core' \in [Reloads -> Cores \cup {None}]
  BY <1>1 DEF Types, TypeOK, Places
<1>5. Launches'
  BY <1>1, <1>3, <1>4, NumbersAre DEF Types, Launches, Unmade
<1>6. Indices'
  <2>1. ASSUME NEW h \in Reloads, pc'[h] = "close" PROVE idx'[h] \in 1..Len(Ranged(h)') + 1
    <3>1. h # g /\ pc[h] = "close" /\ idx'[h] = idx[h] /\ ranged'[h] = ranged[h] /\ idx[h] \in 1..Len(Ranged(h)) + 1
      BY <1>1, <1>4, <2>1 DEF Types, TypeOK
    <3>2. CASE ranged[h] = g
      <4>1. Ranged(h) = <<>> /\ Ranged(h)' = slices'[g]
        BY <1>3, <3>1, <3>2, NumbersAre DEF Ranged
      <4>2. Len(slices'[g]) \in Nat /\ Len(<<>>) = 0
        BY <1>3, LenProperties, EmptySeq
      <4> QED BY <3>1, <4>1, <4>2
    <3>3. CASE ranged[h] # g
      <4>1. Ranged(h)' = Ranged(h)
        BY <1>1, <1>3, <3>1, <3>3 DEF Ranged, Types, TypeOK
      <4> QED BY <3>1, <4>1
    <3> QED BY <3>2, <3>3
  <2>2. ASSUME NEW h \in Reloads, pc'[h] \in {"start", "begin", "users"}
        PROVE  /\ idx'[h] \in 1..Len(list'[h]) + 1
               /\ pc'[h] \in {"begin", "users"} => idx'[h] <= Len(list'[h])
               /\ pc'[h] = "users" => starting'[h] # NoController
    <3>1. CASE h = g
      BY <1>4, <3>1, LenProperties DEF Types, TypeOK
    <3>2. CASE h # g
      BY <1>1, <1>4, <2>2, <3>2 DEF Types, TypeOK
    <3> QED BY <3>1, <3>2
  <2> QED BY <2>1, <2>2 DEF Indices
<1> QED BY <1>1, <1>3, <1>4, <1>5, <1>6, NumbersAre DEF Types, TypeOK, Indices, Entries

\* An element of a sequence replaced
LEMMA Replaced ==
    ASSUME NEW S, NEW q \in Seq(S), NEW n \in DOMAIN q, NEW e \in S
    PROVE  /\ [q EXCEPT ![n] = e] \in Seq(S) /\ DOMAIN [q EXCEPT ![n] = e] = DOMAIN q
           /\ Len([q EXCEPT ![n] = e]) = Len(q)
<1>1. n \in 1..Len(q)
  BY LenProperties
<1> QED BY <1>1, ExceptSeq

\* A controller is put into its slot
Put(g) ==
    /\ pc[g] = "start" /\ idx[g] <= Len(list[g]) /\ HasSlot(idx[g]) /\ Goto(g, "begin")
    /\ slices' = [slices EXCEPT ![controllers][idx[g]] = Made(list[g][idx[g]], core[g], g)]
    /\ UNCHANGED <<regime, file, edits, conf, window, vc, served, controllers, running, limited, locals, panicked>>
Unput(g) ==
    /\ pc[g] = "start" /\ idx[g] <= Len(list[g]) /\ regime.mayFail # {} /\ Goto(g, "success")
    /\ UNCHANGED <<regime, file, edits, conf, window, vc, nodes, locals, panicked>>

LEMMA MakeCases ==
    ASSUME NEW g \in Reloads, MakeController(g)
    PROVE  Put(g) \/ Unput(g)
           \/ (idx[g] <= Len(list[g]) /\ ~HasSlot(idx[g]) /\ Panic /\ UNCHANGED <<outside, conf, window, vc>>)
  BY DEF MakeController, Put, Unput, outside

LEMMA PutTypes ==
    ASSUME Types, NEW g \in Reloads, Put(g)
    PROVE  /\ slices' \in [Cores -> Seq(Entries)] /\ \A h \in Cores : Len(slices'[h]) = Len(slices[h])
           /\ idx[g] \in 1..Len(list[g]) /\ controllers \in Cores
           /\ Made(list[g][idx[g]], core[g], g) \in Entries
           /\ \A h \in Reloads : slices[h] = <<>> => slices'[h] = <<>>
<1> DEFINE e == Made(list[g][idx[g]], core[g], g)
           q == slices[controllers]
<1>1. idx[g] \in 1..Len(list[g]) /\ core[g] \in Cores \cup {None} /\ controllers \in Cores /\ list[g] \in Seq(Tags)
  BY LenProperties DEF Types, TypeOK, Put, HasSlot
<1>2. list[g][idx[g]] \in Tags
  BY <1>1, ElementOfSeq
<1>3. e \in Controllers
  BY <1>1, <1>2, NumbersAre DEF Made, Controllers
<1>4. q \in Seq(Entries) /\ idx[g] \in DOMAIN q /\ e \in Entries
  BY <1>1, <1>3 DEF Types, TypeOK, Put, HasSlot, Entries
<1>5. [q EXCEPT ![idx[g]] = e] \in Seq(Entries) /\ Len([q EXCEPT ![idx[g]] = e]) = Len(q)
  BY <1>4, Replaced
<1>6. slices' = [slices EXCEPT ![controllers] = [q EXCEPT ![idx[g]] = e]] /\ slices \in [Cores -> Seq(Entries)]
  BY DEF Put, Types, TypeOK, Entries
<1>7. q # <<>>
  BY <1>4, EmptySeq
<1>8. /\ slices' \in [Cores -> Seq(Entries)] /\ \A h \in Cores : Len(slices'[h]) = Len(slices[h])
      /\ \A h \in Cores : slices[h] = <<>> => slices'[h] = <<>>
  BY <1>1, <1>5, <1>6, <1>7
<1> QED BY <1>1, <1>3, <1>4, <1>8, NumbersAre

LEMMA MakeControllerTypes ==
    ASSUME Types, NEW g \in Reloads, MakeController(g)
    PROVE  Types'
<1>1. CASE Put(g)
  <2>1. /\ slices' \in [Cores -> Seq(Entries)] /\ \A h \in Cores : Len(slices'[h]) = Len(slices[h])
        /\ idx[g] \in 1..Len(list[g])
        /\ \A h \in Reloads : slices[h] = <<>> => slices'[h] = <<>>
    BY <1>1, PutTypes
  <2>2. /\ UNCHANGED <<regime, file, edits, conf, window, vc, served, controllers, running, limited, ranged, list, idx,
                       core, starting, panicked>>
        /\ pc[g] = "start" /\ idx[g] <= Len(list[g])
    BY <1>1 DEF Put, locals
  <2>3. pc' \in [Reloads -> Places] /\ pc'[g] = "begin" /\ \A h \in Reloads : h # g => pc'[h] = pc[h]
    BY <1>1 DEF Put, Goto, Places, Types, TypeOK
  <2>4. Launches'
    BY <2>1, <2>2, <2>3 DEF Types, Launches, Unmade
  <2>5. Indices'
    <3>1. ASSUME NEW h \in Reloads, pc'[h] = "close" PROVE idx'[h] \in 1..Len(Ranged(h)') + 1
      <4>1. pc[h] = "close"
        BY <2>3, <3>1
      <4>2. Len(Ranged(h)') = Len(Ranged(h))
        BY <2>1, <2>2 DEF Ranged, Types, TypeOK
      <4> QED BY <2>2, <4>1, <4>2 DEF Types, TypeOK
    <3>2. ASSUME NEW h \in Reloads, pc'[h] \in {"start", "begin", "users"}
          PROVE  /\ idx'[h] \in 1..Len(list'[h]) + 1
                 /\ pc'[h] \in {"begin", "users"} => idx'[h] <= Len(list'[h])
                 /\ pc'[h] = "users" => starting'[h] # NoController
      BY <2>1, <2>2, <2>3, <3>2 DEF Types, TypeOK
    <3> QED BY <3>1, <3>2 DEF Indices
  <2> QED BY <2>1, <2>2, <2>3, <2>4, <2>5 DEF Types, TypeOK, Indices, Entries
<1>2. CASE Unput(g)
  <2>1. pc' \in [Reloads -> Places] /\ Launches' /\ Indices'
    BY <1>2, WalkTypes DEF Unput, nodes, locals
  <2> QED BY <1>2, <2>1 DEF Unput, Types, TypeOK, Indices, nodes, locals
<1>3. CASE Panic /\ UNCHANGED <<outside, conf, window, vc>>
  BY <1>3, PanicTypes
<1> QED BY <1>1, <1>2, <1>3, MakeCases

\* What a controller's start does to the core and the limiters: c is the one
\* that the slot holds.
Begun(g, c) ==
    /\ pc[g] = "begin" /\ HasSlot(idx[g]) /\ c = slices[controllers][idx[g]]
    /\ c.core # None /\ c.tag \notin served[c.core]
    /\ limited' = limited \cup {c.tag}
    /\ served' = [served EXCEPT ![c.core] = @ \cup {c.tag}]
    /\ starting' = [starting EXCEPT ![g] = c] /\ Goto(g, "users")
    /\ UNCHANGED <<regime, file, edits, conf, window, vc, slices, controllers, running, ranged, list, idx, core, panicked>>
Stopped(g, c) ==
    /\ pc[g] = "begin" /\ HasSlot(idx[g]) /\ c = slices[controllers][idx[g]]
    /\ c.core # None /\ (regime.mayFail # {} \/ c.tag \in served[c.core])
    /\ limited' \in {limited, limited \cup {c.tag}}
    /\ Goto(g, "success")
    /\ UNCHANGED <<regime, file, edits, conf, window, vc, served, slices, controllers, running, locals, panicked>>
Unfit(g) ==
    /\ pc[g] = "begin"
    /\ ~HasSlot(idx[g]) \/ slices[controllers][idx[g]].core = None \/ regime.mayFail # {}
    /\ Panic /\ UNCHANGED <<outside, conf, window, vc>>

LEMMA StartCases ==
    ASSUME NEW g \in Reloads, StartController(g)
    PROVE  \/ Begun(g, slices[controllers][idx[g]])
           \/ Stopped(g, slices[controllers][idx[g]])
           \/ Unfit(g)
<1>1. CASE HasSlot(idx[g])
  BY <1>1 DEF StartController, Begun, Stopped, Unfit, outside
<1>2. CASE ~HasSlot(idx[g])
  BY <1>2 DEF StartController, Unfit
<1> QED BY <1>1, <1>2

LEMMA SlotTypes ==
    ASSUME Types, NEW k, HasSlot(k), slices[controllers][k].core # None
    PROVE  /\ slices[controllers][k] \in Controllers /\ slices[controllers][k] # NoController
           /\ slices[controllers][k].tag \in Tags /\ slices[controllers][k].core \in Cores
<1>1. slices[controllers] \in Seq(Entries) /\ k \in DOMAIN slices[controllers]
  BY DEF HasSlot, Types, TypeOK, Entries
<1>2. slices[controllers][k] \in Entries
  BY <1>1, LenProperties, ElementOfSeq
<1>3. slices[controllers][k] # NoController
  BY DEF NoController
<1> QED BY <1>2, <1>3 DEF Entries, Controllers

LEMMA StartTypes ==
    ASSUME Types, NEW g \in Reloads, StartController(g)
    PROVE  Types'
<1> DEFINE c == slices[controllers][idx[g]]
<1>1. CASE Begun(g, c)
  <2>1. c \in Controllers /\ c # NoController /\ c.tag \in Tags /\ c.core \in Cores
    BY <1>1, SlotTypes DEF Begun
  <2>2. UNCHANGED <<regime, file, edits, conf, window, vc, slices, controllers, running, ranged, list, idx, core, panicked>>
    BY <1>1 DEF Begun
  <2>3. /\ pc[g] = "begin" /\ pc' \in [Reloads -> Places] /\ pc'[g] = "users" /\ \A h \in Reloads : h # g => pc'[h] = pc[h]
        /\ starting' \in [Reloads -> Controllers \cup {NoController}] /\ starting'[g] = c
        /\ \A h \in Reloads : h # g => starting'[h] = starting[h]
    BY <1>1, <2>1 DEF Begun, Goto, Places, Types, TypeOK
  <2>4. served' \in [Cores -> SUBSET Tags] /\ limited' \subseteq Tags
    BY <1>1, <2>1 DEF Begun, Types, TypeOK
  <2>5. Launches'
    BY <2>2, <2>3 DEF Types, Launches, Unmade
  <2>6. Indices'
    BY <2>1, <2>2, <2>3 DEF Types, TypeOK, Indices, Ranged
  <2> QED BY <2>2, <2>3, <2>4, <2>5, <2>6 DEF Types, TypeOK, Indices
<1>2. CASE Stopped(g, c)
  <2>1. c.tag \in Tags
    BY <1>2, SlotTypes DEF Stopped
  <2>2. /\ UNCHANGED <<regime, file, edits, conf, window, vc, served, slices, controllers, running, locals, panicked>>
        /\ pc[g] = "begin" /\ Goto(g, "success") /\ limited' \in {limited, limited \cup {c.tag}}
    BY <1>2 DEF Stopped
  <2>3. pc' \in [Reloads -> Places] /\ Launches' /\ Indices'
    BY <2>2, WalkTypes DEF locals
  <2>4. limited' \subseteq Tags
    BY <2>1, <2>2 DEF Types, TypeOK
  <2> QED BY <2>2, <2>3, <2>4 DEF Types, TypeOK, Indices, locals
<1>3. CASE Unfit(g)
  BY <1>3, PanicTypes DEF Unfit
<1> QED BY <1>1, <1>2, <1>3, StartCases

LEMMA TasksTypes ==
    ASSUME Types, NEW g \in Reloads, StartTasks(g)
    PROVE  Types'
<1>1. /\ pc[g] = "users" /\ (Goto(g, "success") \/ Goto(g, "start"))
      /\ UNCHANGED <<regime, file, edits, conf, window, vc, served, slices, controllers, limited, ranged, list, core,
                     starting, panicked>>
      /\ idx' = idx \/ idx' = [idx EXCEPT ![g] = @ + 1]
      /\ running' = running \/ running' = running \cup {starting[g]}
  BY DEF StartTasks, outside
<1>2. running' \subseteq Controllers
  <2>1. starting[g] # NoController /\ starting[g] \in Controllers \cup {NoController} /\ running \subseteq Controllers
    BY <1>1 DEF Types, TypeOK
  <2> QED BY <1>1, <2>1
<1>3. /\ pc' \in [Reloads -> Places] /\ pc'[g] \in {"start", "success"} /\ \A h \in Reloads : h # g => pc'[h] = pc[h]
      /\ idx' \in [Reloads -> Nat] /\ idx'[g] \in {idx[g], idx[g] + 1} /\ \A h \in Reloads : h # g => idx'[h] = idx[h]
  <2>1. pc \in [Reloads -> Places] /\ idx \in [Reloads -> Nat]
    BY DEF Types, TypeOK
  <2>2. /\ pc' \in [Reloads -> Places] /\ pc'[g] \in {"start", "success"}
        /\ \A h \in Reloads : h # g => pc'[h] = pc[h]
    BY <1>1, <2>1 DEF Goto, Places
  <2>3. idx' \in [Reloads -> Nat] /\ idx'[g] \in {idx[g], idx[g] + 1} /\ \A h \in Reloads : h # g => idx'[h] = idx[h]
    BY <1>1, <2>1
  <2> QED BY <2>2, <2>3
<1>4. Launches'
  BY <1>1, <1>3 DEF Types, Launches, Unmade
<1>5. Indices'
  <2>1. idx[g] \in 1..Len(list[g]) + 1 /\ idx[g] <= Len(list[g]) /\ Len(list[g]) \in Nat
    BY <1>1, LenProperties DEF Types, TypeOK
  <2>2. pc'[g] \in {"start", "success"} /\ idx'[g] \in 1..Len(list[g]) + 1
    BY <1>3, <2>1
  <2> QED BY <1>1, <1>3, <2>2 DEF Types, TypeOK, Indices, Ranged
<1> QED BY <1>1, <1>2, <1>3, <1>4, <1>5 DEF Types, TypeOK, Indices

LEMMA NextTypes ==
    ASSUME Types, [Next]_vars
    PROVE  Types'
<1>1. CASE EditFile \/ WindowEnds
  BY <1>1, WatchTypes
<1>2. ASSUME NEW g \in Reloads, Reload(g) PROVE Types'
  BY <1>2, LoadTypes, RangeTypes, CloseTypes, NodesClosedTypes, CloseCoreTypes, NewCoreTypes, StartCoreTypes, MakeTypes,
     MakeControllerTypes, StartTypes, TasksTypes, NodesStartedTypes DEF Reload
<1>3. CASE UNCHANGED vars
  BY <1>3 DEF vars, outside, nodes, locals, Types, TypeOK, Launches, Ranged
<1> QED BY <1>1, <1>2, <1>3 DEF Next

LEMMA AlwaysTypes == Spec => []Types
<1>1. Types /\ [Next]_vars => Types'
  BY NextTypes
<1> QED BY <1>1, InitTypes, PTL DEF Spec

\* Whatever files are written, whatever fails and however reloads overlap, the
\* indices stay in the slices that Node.Close and Node.Start range over, and no
\* slice holds a controller of another shape.
THEOREM TypeCorrect == Spec => []TypeOK
<1>1. Types => TypeOK
  BY DEF Types
<1> QED BY <1>1, AlwaysTypes, PTL

-----------------------------------------------------------------------------
(***************************************************************************)
(* Reloads that do not overlap.  The one that runs holds the window, so     *)
(* none is launched beside it, and where it is says which controllers may   *)
(* still run: those its Close has not reached, none, or those its Start has *)
(* put into the slice.                                                      *)
(***************************************************************************)
Alone ==
    ~regime.overlap => /\ \A g, h \in Active : g = h
                       /\ Active # {} => window

Reading == {"sleep", "load", "reload"}
Building == {"closeCore", "newCore", "setCore", "startCore", "make"}
Starting == {"start", "begin", "users"}
Working == {"close"} \cup Building \cup Starting
Kept == running \subseteq (IF controllers = None THEN {} ELSE Range(slices[controllers]))
Held(g) ==
    /\ pc[g] = "close" => running \subseteq {Ranged(g)[j] : j \in idx[g]..Len(Ranged(g))}
    /\ pc[g] \in Building => running = {}
    /\ pc[g] \in Starting => /\ controllers = g
                             /\ 1..(idx[g] - 1) \subseteq DOMAIN slices[g]
                             /\ running \subseteq {slices[g][j] : j \in 1..(idx[g] - 1)}
    /\ pc[g] = "users" => idx[g] \in DOMAIN slices[g] /\ starting[g] = slices[g][idx[g]]
RunningHeld ==
    ~regime.overlap => /\ (\A g \in Reloads : pc[g] \notin Working) => Kept
                       /\ \A g \in Reloads : Held(g)

\* What every step of a reload leaves alone, and where it may go
LEMMA ReloadSteps ==
    ASSUME Types, NEW g \in Reloads, Reload(g)
    PROVE  /\ UNCHANGED <<regime, window>> /\ pc[g] \in Working \cup Reading
           /\ \A h \in Reloads : h # g => pc'[h] = pc[h]
           /\ pc'[g] \in Working \cup {"load", "reload", "success"} \/ pc'[g] = pc[g]
<1> USE DEF Working, Reading, Building, Starting
<1>1. UNCHANGED <<regime, window>>
  BY DEF Reload, ResetConf, Load, RangeControllers, CloseController, NodesClosed, CloseCore, NewCore, SetCore, StartCore,
         MakeControllers, MakeController, StartController, StartTasks, NodesStarted, outside
<1>2. pc[g] \in Working \cup Reading
  BY DEF Reload, ResetConf, Load, RangeControllers, CloseController, NodesClosed, CloseCore, NewCore, SetCore, StartCore,
         MakeControllers, MakeController, StartController, StartTasks, NodesStarted
<1>3. pc' = pc \/ \E place \in Working \cup {"load", "reload", "success"} : pc' = [pc EXCEPT ![g] = place]
  <2>1. CASE StartController(g)
    <3>1. Begun(g, slices[controllers][idx[g]]) \/ Stopped(g, slices[controllers][idx[g]]) \/ Unfit(g)
      BY <2>1, StartCases
    <3> QED BY <3>1 DEF Begun, Stopped, Unfit, Panic, Goto
  <2>2. CASE CloseController(g)
    BY <2>2 DEF CloseController, Panic
  <2>3. CASE CloseCore(g) \/ StartCore(g)
    BY <2>3 DEF CloseCore, StartCore, GoOn, Panic, Goto
  <2>4. CASE ResetConf(g) \/ Load(g) \/ RangeControllers(g)
    BY <2>4 DEF ResetConf, Load, RangeControllers, Goto
  <2>5. CASE NodesClosed(g) \/ NewCore(g) \/ SetCore(g) \/ MakeControllers(g) \/ StartTasks(g) \/ NodesStarted(g)
    BY <2>5 DEF NodesClosed, NewCore, SetCore, GoOn, MakeControllers, StartTasks, NodesStarted, Goto
  <2>6. CASE MakeController(g)
    BY <2>6, MakeCases DEF Put, Unput, Panic, Goto
  <2> QED BY <2>1, <2>2, <2>3, <2>4, <2>5, <2>6 DEF Reload
<1> QED BY <1>1, <1>2, <1>3 DEF Types, TypeOK

LEMMA NextAlone ==
    ASSUME Types, Alone, [Next]_vars
    PROVE  Alone'
<1>1. CASE EditFile
  <2>1. UNCHANGED regime /\ edits + 1 \in Reloads /\ edits' = edits + 1
    BY <1>1, EditsAssumption DEF EditFile, Types, TypeOK, Reloads
  <2>2. CASE window
    BY <1>1, <2>1, <2>2 DEF EditFile, Alone, Active
  <2>3. CASE ~window
    <3>1. window' = TRUE /\ pc' = [pc EXCEPT ![edits + 1] = "sleep"]
      BY <1>1, <2>3 DEF EditFile
    <3>2. ASSUME ~regime.overlap, NEW g \in Active' PROVE g = edits + 1
      BY <2>1, <2>3, <3>1, <3>2 DEF Alone, Active, Types, TypeOK
    <3> QED BY <2>1, <3>1, <3>2 DEF Alone
  <2> QED BY <2>2, <2>3
<1>2. CASE WindowEnds
  BY <1>2 DEF WindowEnds, Alone, Active, outside
<1>3. ASSUME NEW g \in Reloads, Reload(g) PROVE Alone'
  <2>1. /\ UNCHANGED <<regime, window>> /\ pc[g] \in Working \cup Reading
        /\ \A h \in Reloads : h # g => pc'[h] = pc[h]
    BY <1>3, ReloadSteps
  <2>2. Active' \subseteq Active
    BY <2>1 DEF Active, Working, Reading, Building, Starting
  <2> QED BY <2>1, <2>2 DEF Alone
<1>4. CASE UNCHANGED vars
  BY <1>4 DEF vars, outside, Alone, Active
<1> QED BY <1>1, <1>2, <1>3, <1>4 DEF Next

\* A step of the one reload that runs
LEMMA OnlyReload ==
    ASSUME Types, Alone, NEW g \in Reloads, Reload(g), ~regime.overlap
    PROVE  /\ ~regime.overlap' /\ Active = {g}
           /\ \A h \in Reloads : h # g => pc[h] \in {"new", "success"} /\ pc'[h] = pc[h]
           /\ Held(g)' => \A h \in Reloads : Held(h)'
<1>1. /\ UNCHANGED <<regime, window>> /\ pc[g] \in Working \cup Reading
      /\ \A h \in Reloads : h # g => pc'[h] = pc[h]
  BY ReloadSteps
<1>2. Active = {g}
  BY <1>1 DEF Alone, Active, Working, Reading, Building, Starting
<1>3. \A h \in Reloads : h # g => pc[h] \in {"new", "success"} /\ pc'[h] = pc[h]
  BY <1>1, <1>2 DEF Active
<1>4. ASSUME NEW h \in Reloads, h # g PROVE Held(h)'
  BY <1>3, <1>4 DEF Held, Building, Starting
<1> QED BY <1>1, <1>2, <1>3, <1>4

LEMMA NextHeld ==
    ASSUME Types, Alone, RunningHeld, [Next]_vars, ~regime.overlap
    PROVE  RunningHeld'
<1>1. CASE EditFile
  <2>1. UNCHANGED <<nodes, locals>> /\ edits + 1 \in Reloads /\ (pc' = pc \/ pc' = [pc EXCEPT ![edits + 1] = "sleep"])
    BY <1>1, EditsAssumption DEF EditFile, Types, TypeOK, Reloads
  <2>a. pc[edits + 1] = "new"
    BY <2>1 DEF Types, TypeOK, Launches, Reloads
  <2>2. \A g \in Reloads : pc'[g] = pc[g] \/ (pc[g] = "new" /\ pc'[g] = "sleep")
    BY <2>1, <2>a DEF Types, TypeOK
  <2>3. ASSUME NEW g \in Reloads PROVE Held(g)'
    BY <1>1, <2>1, <2>2 DEF RunningHeld, Held, nodes, locals, Ranged, EditFile, Building, Starting
  <2>4. Kept' <=> Kept
    BY <2>1 DEF Kept, nodes
  <2> QED BY <1>1, <2>2, <2>3, <2>4 DEF RunningHeld, Working, Building, Starting
<1>2. CASE WindowEnds \/ UNCHANGED vars
  <2>1. UNCHANGED <<regime, nodes, locals, pc>>
    BY <1>2 DEF WindowEnds, vars, outside
  <2> QED BY <2>1 DEF RunningHeld, Held, Kept, nodes, locals, Ranged
<1>3. ASSUME NEW g \in Reloads, Reload(g) PROVE RunningHeld'
  <2> USE DEF Working, Building, Starting
  <2>1. /\ ~regime.overlap' /\ \A h \in Reloads : h # g => pc[h] \notin Working /\ pc'[h] \notin Working
        /\ Held(g)' => \A h \in Reloads : Held(h)'
    BY <1>3, OnlyReload
  <2> SUFFICES Held(g)' /\ (pc'[g] \notin Working => Kept')
    BY <2>1 DEF RunningHeld
  <2>2. Held(g) /\ (pc[g] \notin Working => Kept) /\ pc \in [Reloads -> Places]
    BY <2>1 DEF RunningHeld, Types, TypeOK
  <2>3. CASE Panic
    BY <2>2, <2>3 DEF Panic, nodes, locals, Held, Kept, Ranged
  <2>12. CASE ResetConf(g) \/ Load(g)
    <3>1. pc[g] \in {"sleep", "load"} /\ pc'[g] \in {"load", "reload"} /\ UNCHANGED nodes
      BY <2>2, <2>12 DEF ResetConf, Load
    <3>2. Kept'
      BY <2>2, <3>1 DEF Kept, nodes
    <3> QED BY <3>1, <3>2 DEF Held
  <2>4. CASE RangeControllers(g)
    <3>1. /\ pc[g] = "reload" /\ pc'[g] = "close" /\ ranged'[g] = controllers /\ idx'[g] = 1 /\ UNCHANGED nodes
      BY <2>4 DEF RangeControllers, Goto, Types, TypeOK
    <3>2. Kept
      BY <2>2, <3>1
    <3>3. Ranged(g)' = (IF controllers = None THEN <<>> ELSE slices[controllers])
      BY <3>1 DEF Ranged, nodes
    <3>4. Ranged(g)' \in Seq(Entries)
      BY <3>3, EmptySeq DEF Types, TypeOK, Entries
    <3>5. running \subseteq Range(Ranged(g)')
      BY <3>2, <3>3 DEF Kept
    <3>6. running' \subseteq {Ranged(g)'[j] : j \in idx'[g]..Len(Ranged(g)')}
      BY <3>1, <3>4, <3>5, LenProperties DEF Range, nodes
    <3> QED BY <3>1, <3>6 DEF Held
  <2>5. CASE CloseController(g) /\ ~Panic
    <3>1. /\ pc[g] = "close" /\ pc'[g] = "close" /\ idx' = [idx EXCEPT ![g] = @ + 1]
          /\ running' = running \ {Ranged(g)[idx[g]]} /\ Ranged(g)' = Ranged(g)
      BY <2>5 DEF CloseController, Ranged
    <3>2. idx[g] \in Nat /\ idx'[g] = idx[g] + 1 /\ Len(Ranged(g)) \in Nat
      BY <3>1, LenProperties, EmptySeq DEF Types, TypeOK, Ranged
    <3>3. running \subseteq {Ranged(g)[j] : j \in idx[g]..Len(Ranged(g))}
      BY <2>2, <3>1 DEF Held
    <3>4. running' \subseteq {Ranged(g)[j] : j \in idx'[g]..Len(Ranged(g))}
      BY <3>1, <3>2, <3>3
    <3> QED BY <3>1, <3>4 DEF Held
  <2>6. CASE NodesClosed(g)
    <3>1. pc[g] = "close" /\ pc'[g] = "closeCore" /\ idx[g] > Len(Ranged(g)) /\ running' = running
      BY <2>6 DEF NodesClosed, Goto, Types, TypeOK
    <3>2. idx[g] \in Nat /\ Len(Ranged(g)) \in Nat
      BY LenProperties, EmptySeq DEF Types, TypeOK, Ranged
    <3>3. running' = {}
      BY <2>2, <3>1, <3>2 DEF Held
    <3> QED BY <3>1, <3>3 DEF Held
  <2>7. CASE (CloseCore(g) /\ ~Panic) \/ NewCore(g) \/ SetCore(g) \/ (StartCore(g) /\ ~Panic)
    <3>1. pc[g] \in Building /\ running' = running
      BY <2>7 DEF CloseCore, NewCore, SetCore, StartCore, nodes
    <3>2. pc'[g] \in Building \cup {"success"}
      BY <2>2, <2>7 DEF CloseCore, NewCore, SetCore, StartCore, GoOn, Goto
    <3>3. running' = {}
      BY <2>2, <3>1 DEF Held
    <3> QED BY <3>2, <3>3 DEF Held, Kept
  <2>8. CASE MakeControllers(g)
    <3>1. pc[g] = "make" /\ running' = running /\ pc'[g] = "start" /\ controllers' = g /\ idx'[g] = 1
      BY <2>8 DEF MakeControllers, Goto, Types, TypeOK
    <3>2. running' = {}
      BY <2>2, <3>1 DEF Held
    <3> QED BY <3>1, <3>2 DEF Held
  <2>9. CASE Put(g)
    <3> DEFINE e == Made(list[g][idx[g]], core[g], g)
    <3>1. /\ controllers = g /\ controllers' = g /\ idx' = idx /\ running' = running
          /\ slices' = [slices EXCEPT ![g][idx[g]] = e] /\ pc[g] = "start" /\ pc'[g] = "begin"
      BY <2>2, <2>9 DEF Held, Put, Goto, locals
    <3>2. slices[g] \in Seq(Entries) /\ g \in DOMAIN slices /\ idx[g] \in Nat
      BY NumbersAre DEF Types, TypeOK, Entries
    <3>3. slices'[g] = [slices[g] EXCEPT ![idx[g]] = e]
      BY <3>1, <3>2
    <3>4. /\ DOMAIN slices'[g] = DOMAIN slices[g]
          /\ \A j \in 1..(idx[g] - 1) : slices'[g][j] = slices[g][j]
      BY <3>2, <3>3
    <3>5. 1..(idx[g] - 1) \subseteq DOMAIN slices[g] /\ running \subseteq {slices[g][j] : j \in 1..(idx[g] - 1)}
      BY <2>2, <3>1 DEF Held
    <3>6. running' \subseteq {slices'[g][j] : j \in 1..(idx[g] - 1)}
      BY <3>1, <3>4, <3>5
    <3> QED BY <3>1, <3>4, <3>5, <3>6 DEF Held
  <2>10. CASE Begun(g, slices[controllers][idx[g]])
    <3>1. /\ controllers = g /\ pc[g] = "begin" /\ pc'[g] = "users" /\ starting'[g] = slices[g][idx[g]]
          /\ idx[g] \in DOMAIN slices[g] /\ UNCHANGED <<slices, controllers, running, idx>>
      BY <2>2, <2>10 DEF Held, Begun, HasSlot, Goto, Types, TypeOK
    <3> QED BY <2>2, <3>1 DEF Held
  <2>13. CASE StartTasks(g)
    <3>1. /\ pc[g] = "users" /\ UNCHANGED <<slices, controllers>> /\ controllers = g
          /\ idx[g] \in DOMAIN slices[g] /\ starting[g] = slices[g][idx[g]]
          /\ running \subseteq {slices[g][j] : j \in 1..(idx[g] - 1)}
          /\ 1..(idx[g] - 1) \subseteq DOMAIN slices[g]
      BY <2>2, <2>13 DEF StartTasks, Held
    <3>2. idx[g] \in Nat /\ idx[g] >= 1
      BY <3>1 DEF Types, TypeOK
    <3>3. CASE running' = running \cup {starting[g]} /\ idx' = [idx EXCEPT ![g] = @ + 1] /\ Goto(g, "start")
      <4>1. pc'[g] = "start" /\ idx'[g] = idx[g] + 1
        BY <2>2, <3>3 DEF Goto, Types, TypeOK
      <4>2. 1..(idx'[g] - 1) = 1..(idx[g] - 1) \cup {idx[g]}
        BY <3>2, <4>1
      <4>3. running' \subseteq {slices[g][j] : j \in 1..(idx'[g] - 1)}
        BY <3>1, <3>3, <4>2
      <4>4. 1..(idx'[g] - 1) \subseteq DOMAIN slices[g]
        BY <3>1, <4>2
      <4> QED BY <3>1, <4>1, <4>3, <4>4 DEF Held
    <3>4. CASE running' = running /\ Goto(g, "success")
      <4>1. pc'[g] = "success"
        BY <2>2, <3>4 DEF Goto
      <4>2. running' \subseteq Range(slices[g])
        BY <3>1, <3>4 DEF Range
      <4>3. Kept'
        BY <3>1, <4>2, NumbersAre DEF Kept
      <4> QED BY <4>1, <4>3 DEF Held
    <3> QED BY <2>13, <3>3, <3>4 DEF StartTasks
  <2>14. CASE NodesStarted(g) \/ Unput(g) \/ Stopped(g, slices[controllers][idx[g]])
    <3>1. pc[g] \in {"start", "begin"} /\ pc'[g] = "success" /\ UNCHANGED <<running, slices, controllers>>
      BY <2>2, <2>14 DEF NodesStarted, Unput, Stopped, Goto, nodes
    <3>2. running \subseteq Range(slices[g]) /\ controllers = g
      BY <2>2, <3>1 DEF Held, Range
    <3>3. Kept'
      BY <3>1, <3>2, NumbersAre DEF Kept
    <3> QED BY <3>1, <3>3 DEF Held
  <2>11. StartController(g) => Begun(g, slices[controllers][idx[g]]) \/ Stopped(g, slices[controllers][idx[g]]) \/ Panic
    BY StartCases DEF Unfit
  <2>15. MakeController(g) => Put(g) \/ Unput(g) \/ Panic
    BY MakeCases
  <2> QED BY <1>3, <2>3, <2>4, <2>5, <2>6, <2>7, <2>8, <2>9, <2>10, <2>11, <2>12, <2>13, <2>14, <2>15 DEF Reload
<1> QED BY <1>1, <1>2, <1>3 DEF Next

Orphans == Alone /\ RunningHeld

LEMMA AlwaysHeld == Spec => []Orphans
<1>1. Init => Orphans
  <2>1. Init => Active = {} /\ Kept
    BY NumbersAre DEF Init, Active, Kept
  <2>2. Init => \A g \in Reloads : Held(g)
    BY DEF Init, Held, Building, Starting
  <2> QED BY <2>1, <2>2 DEF Orphans, Alone, RunningHeld
<1>2. ASSUME Types, Orphans, [Next]_vars PROVE Orphans'
  <2>1. regime' = regime
    <3>1. ASSUME NEW g \in Reloads, Reload(g) PROVE regime' = regime
      BY <1>2, <3>1, ReloadSteps
    <3> QED BY <1>2, <3>1 DEF Next, EditFile, WindowEnds, outside, vars
  <2>2. Alone'
    BY <1>2, NextAlone DEF Orphans
  <2>3. RunningHeld'
    BY <1>2, <2>1, NextHeld DEF Orphans, RunningHeld
  <2> QED BY <2>2, <2>3 DEF Orphans
<1>3. Types /\ Orphans /\ [Next]_vars => Orphans'
  BY <1>2
<1> QED BY <1>1, <1>3, AlwaysTypes, PTL DEF Spec

\* Whatever a reload that was interrupted or failed has left, the controllers
\* whose tasks run are among those that the next Node.Close goes through:
\* Node.Start has put them in the slice that it gave to the node group.
THEOREM NoOrphanAlways == Spec => []NoOrphan
<1>1. ASSUME Types, Orphans PROVE NoOrphan
  <2> SUFFICES ASSUME ~regime.overlap, NEW c \in running PROVE c \in Tracked
    BY DEF NoOrphan
  <2>1. c \in Controllers /\ RunningHeld
    BY <1>1 DEF Types, TypeOK, Orphans
  <2>2. CASE \A g \in Reloads : pc[g] \notin Working
    <3>1. Kept
      BY <2>1, <2>2 DEF RunningHeld
    <3> QED BY <2>1, <3>1 DEF Kept, Tracked
  <2>3. ASSUME NEW g \in Reloads, pc[g] \in Working PROVE c \in Tracked
    <3>1. Held(g) /\ Len(Ranged(g)) \in Nat
      BY <1>1, <2>1, LenProperties, EmptySeq DEF RunningHeld, Types, TypeOK, Ranged
    <3>2. CASE pc[g] = "close"
      BY <2>1, <3>1, <3>2 DEF Held, Tracked
    <3>3. CASE pc[g] \in Building
      BY <3>1, <3>3 DEF Held
    <3>4. CASE pc[g] \in Starting
      <4>1. controllers = g /\ c \in Range(slices[g])
        BY <3>1, <3>4 DEF Held, Range
      <4> QED BY <2>1, <4>1, NumbersAre DEF Tracked
    <3> QED BY <2>3, <3>2, <3>3, <3>4 DEF Working
  <2> QED BY <2>2, <2>3
<1>2. Types /\ Orphans => NoOrphan
  BY <1>1
<1> QED BY <1>2, AlwaysTypes, AlwaysHeld, PTL


-----------------------------------------------------------------------------
(***************************************************************************)
(* When nothing fails and reloads do not overlap.  At every place of a      *)
(* reload, one set T of tags is served by the held core, by controllers     *)
(* that run: those its Close has not reached, none, or those its Start has  *)
(* come to.  U is what the core and the registry have, one tag more than T  *)
(* while the tasks of a node are still to start.                            *)
(***************************************************************************)
Hosts(T, U) ==
    /\ running = {Made(t, vc, vc) : t \in T}
    /\ served = [k \in Cores |-> IF k = vc THEN U ELSE {}]
    /\ limited = U

\* A slice whose controllers serve the tags of T, each once
Serves(q, T) ==
    /\ T = {q[j].tag : j \in DOMAIN q}
    /\ \A j \in DOMAIN q : q[j] = Made(q[j].tag, vc, vc)
    /\ \A j, h \in DOMAIN q : q[j].tag = q[h].tag => j = h

Resting(T) == controllers \in Cores /\ Serves(slices[controllers], T)

Closing(g, T) ==
    /\ T = {Ranged(g)[j].tag : j \in idx[g]..Len(Ranged(g))}
    /\ \A j \in DOMAIN Ranged(g) : Ranged(g)[j] = Made(Ranged(g)[j].tag, vc, vc)
    /\ \A j, h \in DOMAIN Ranged(g) : Ranged(g)[j].tag = Ranged(g)[h].tag => j = h

Filling(g, T) ==
    /\ list[g] = conf /\ core[g] = vc /\ controllers = g
    /\ DOMAIN slices[g] = DOMAIN conf
    /\ \A j \in 1..(idx[g] - 1) : slices[g][j] = Made(conf[j], vc, vc)
    /\ T = {conf[j] : j \in 1..(idx[g] - 1)}

Busy(g, T, U) ==
    /\ pc[g] \in Working \cup {"reload"} => Proper(conf)
    /\ pc[g] = "close" => Closing(g, T)
    /\ pc[g] \in Building => T = {}
    /\ pc[g] = "setCore" => core[g] = g
    /\ pc[g] \in {"startCore", "make"} \cup Starting => vc = g
    /\ pc[g] \in Starting => Filling(g, T)
    /\ pc[g] \in {"begin", "users"} => slices[g][idx[g]] = Made(conf[idx[g]], vc, vc)
    /\ pc[g] = "users" => starting[g] = Made(conf[idx[g]], vc, vc) /\ U = T \cup {conf[idx[g]]}
    /\ pc[g] # "users" => U = T

Stage(T, U) ==
    /\ Hosts(T, U)
    /\ (\A g \in Reloads : pc[g] \notin Working) => Resting(T)
    /\ (\A g \in Reloads : pc[g] \notin Working \cup {"load", "reload"}) => T = Range(conf)
    /\ (\A g \in Reloads : pc[g] # "users") => U = T
    /\ \A g \in Reloads : pc[g] \in Working \cup Reading => Busy(g, T, U)

CalmServes ==
    Calm => /\ ~panicked /\ vc \in Cores
            /\ \E T, U \in SUBSET Tags : Stage(T, U)

LEMMA MadeIs ==
    ASSUME NEW t, NEW u, NEW k
    PROVE  /\ Made(t, k, k) = Made(u, k, k) <=> t = u
           /\ Made(t, k, k).tag = t /\ Made(t, k, k).core = k
  BY DEF Made

LEMMA HostsLess ==
    ASSUME NEW T, NEW u \in T, Hosts(T, T), vc \in Cores, vc' = vc, limited' = limited \ {u},
           running' = running \ {Made(u, vc, vc)}, served' = [served EXCEPT ![vc] = @ \ {u}]
    PROVE  Hosts(T \ {u}, T \ {u})'
<1> DEFINE W == T \ {u}
<1>1. running' = {Made(t, vc', vc') : t \in W}
  BY MadeIs DEF Hosts
<1>2. served' = [k \in Cores |-> IF k = vc' THEN W ELSE {}]
  BY DEF Hosts
<1>3. limited' = W
  BY DEF Hosts
<1> HIDE DEF W
<1>4. Hosts(W, W)'
  BY <1>1, <1>2, <1>3 DEF Hosts
<1> QED BY <1>4 DEF W

\* The core and the limiters get a tag; the tasks of its controller start.
LEMMA HostsBegin ==
    ASSUME NEW T, NEW u, Hosts(T, T), vc \in Cores, vc' = vc, limited' = limited \cup {u},
           running' = running, served' = [served EXCEPT ![vc] = @ \cup {u}]
    PROVE  Hosts(T, T \cup {u})'
<1> DEFINE W == T \cup {u}
<1>1. running' = {Made(t, vc', vc') : t \in T}
  BY DEF Hosts
<1>2. served' = [k \in Cores |-> IF k = vc' THEN W ELSE {}]
  BY DEF Hosts
<1>3. limited' = W
  BY DEF Hosts
<1> HIDE DEF W
<1>4. Hosts(T, W)'
  BY <1>1, <1>2, <1>3 DEF Hosts
<1> QED BY <1>4 DEF W

LEMMA HostsRun ==
    ASSUME NEW T, NEW u, Hosts(T, T \cup {u}), vc \in Cores, vc' = vc, limited' = limited,
           running' = running \cup {Made(u, vc, vc)}, served' = served
    PROVE  Hosts(T \cup {u}, T \cup {u})'
<1> DEFINE W == T \cup {u}
<1>1. running' = {Made(t, vc', vc') : t \in W}
  BY DEF Hosts
<1>2. served' = [k \in Cores |-> IF k = vc' THEN W ELSE {}]
  BY DEF Hosts
<1>3. limited' = W
  BY DEF Hosts
<1> HIDE DEF W
<1>4. Hosts(W, W)'
  BY <1>1, <1>2, <1>3 DEF Hosts
<1> QED BY <1>4 DEF W

\* The other reloads do nothing.
LEMMA StageOf ==
    ASSUME Types, Alone, NEW g \in Reloads, Reload(g), ~regime.overlap, NEW T, NEW U, Hosts(T, U)',
           pc'[g] \in Working \cup Reading => Busy(g, T, U)',
           pc'[g] \notin Working => Resting(T)',
           pc'[g] \notin Working \cup {"load", "reload"} => T = Range(conf'),
           pc'[g] # "users" => U = T
    PROVE  Stage(T, U)'
<1>1. \A h \in Reloads : h # g => pc'[h] \in {"new", "success"}
  BY OnlyReload
<1>2. \A h \in Reloads : h # g => pc'[h] \notin Working \cup Reading /\ pc'[h] # "users"
  BY <1>1 DEF Working, Reading, Building, Starting
<1>3. ASSUME NEW h \in Reloads, pc'[h] \in Working \cup Reading PROVE Busy(h, T, U)'
  BY <1>2, <1>3
<1> QED BY <1>2, <1>3 DEF Stage, Reading

\* What there is at a step of the one reload that runs
LEMMA StageAt ==
    ASSUME Types, Alone, NEW g \in Reloads, Reload(g), ~regime.overlap, NEW T, NEW U, Stage(T, U)
    PROVE  /\ Hosts(T, U) /\ Busy(g, T, U) /\ Active = {g}
           /\ pc[g] \notin Working => Resting(T)
<1>1. pc[g] \in Working \cup Reading
  BY ReloadSteps
<1>2. \A h \in Reloads : h # g => pc[h] \notin Working
  BY OnlyReload DEF Working, Building, Starting
<1> QED BY <1>1, <1>2, OnlyReload DEF Stage

LEMMA CalmSteps ==
    ASSUME Types, Alone, RunningHeld, NEW g \in Reloads, Reload(g), Calm, ~panicked, vc \in Cores,
           NEW T \in SUBSET Tags, NEW U \in SUBSET Tags, Stage(T, U)
    PROVE  /\ ~panicked' /\ vc' \in Cores
           /\ \E S, W \in SUBSET Tags : Stage(S, W)'
<1> USE DEF Working, Reading, Building, Starting
<1>0. ~regime.overlap /\ regime.mayFail = {} /\ \A f \in regime.contents : Proper(f)
  BY DEF Calm
<1>1. Hosts(T, U) /\ Busy(g, T, U) /\ (pc[g] \notin Working => Resting(T)) /\ Active = {g}
  BY <1>0, StageAt
<1>2. pc \in [Reloads -> Places] /\ idx \in [Reloads -> Nat] /\ conf \in Seq(Tags) /\ vc # None
  BY NumbersAre DEF Types, TypeOK
<1>3. Ranged(g) \in Seq(Entries) /\ Len(Ranged(g)) \in Nat /\ DOMAIN Ranged(g) = 1..Len(Ranged(g))
  BY EmptySeq, LenProperties DEF Types, TypeOK, Ranged, Entries
<1>4. CASE ResetConf(g) \/ Load(g)
  <2>1. /\ pc[g] \in {"sleep", "load"} /\ pc'[g] \in {"load", "reload"}
        /\ UNCHANGED <<vc, nodes, panicked>>
    BY <1>2, <1>4 DEF ResetConf, Load
  <2>2. Resting(T)' /\ Hosts(T, U)'
    BY <1>1, <2>1 DEF Resting, Serves, Hosts, nodes
  <2>3. pc'[g] = "reload" => Proper(conf')
    <3>1. pc'[g] = "reload" => Load(g)
      BY <1>2, <1>4 DEF ResetConf
    <3>2. Load(g) => conf' = file
      BY <1>0 DEF Load, Proper, Types, TypeOK
    <3> QED BY <1>0, <3>1, <3>2 DEF Types, TypeOK
  <2>4. U = T /\ Busy(g, T, U)'
    BY <1>1, <2>1, <2>3 DEF Busy
  <2>5. Stage(T, U)'
    BY <1>0, <2>1, <2>2, <2>4, StageOf
  <2> QED BY <2>1, <2>5
<1>5. CASE RangeControllers(g)
  <2>1. /\ pc[g] = "reload" /\ pc'[g] = "close" /\ ranged'[g] = controllers /\ idx'[g] = 1
        /\ UNCHANGED <<conf, vc, nodes, panicked>>
    BY <1>5 DEF RangeControllers, Goto, Types, TypeOK
  <2>2. Resting(T) /\ Proper(conf) /\ U = T
    BY <1>1, <2>1 DEF Busy
  <2>3. Ranged(g)' = slices[controllers] /\ slices[controllers] \in Seq(Entries)
    BY <2>1, <2>2, NumbersAre DEF Ranged, Resting, nodes, Types, TypeOK, Entries
  <2>4. DOMAIN slices[controllers] = 1..Len(slices[controllers])
    BY <2>3, LenProperties
  <2>5. Closing(g, T)'
    BY <2>1, <2>2, <2>3, <2>4 DEF Closing, Resting, Serves
  <2>6. Hosts(T, T)' /\ Busy(g, T, T)'
    BY <1>1, <2>1, <2>2, <2>5 DEF Hosts, nodes, Busy
  <2>7. Stage(T, T)'
    BY <1>0, <2>1, <2>6, StageOf
  <2> QED BY <2>1, <2>7
<1>6. CASE CloseController(g)
  <2> DEFINE c == Ranged(g)[idx[g]]
  <2>1. pc[g] = "close" /\ idx[g] \in 1..Len(Ranged(g))
    BY <1>6, <1>2, <1>3 DEF CloseController, Types, TypeOK
  <2>2. Closing(g, T) /\ Proper(conf) /\ U = T
    BY <1>1, <2>1 DEF Busy
  <2>3. PICK u : u = c.tag
    OBVIOUS
  <2>4. c = Made(u, vc, vc) /\ u \in T
    BY <1>2, <1>3, <2>1, <2>2, <2>3 DEF Closing
  <2>5. c.core # None /\ c.tag \in served[c.core] /\ c.core = vc
    BY <1>1, <1>2, <2>2, <2>3, <2>4, MadeIs DEF Hosts
  <2>6. /\ limited' = limited \ {u} /\ running' = running \ {Made(u, vc, vc)}
        /\ served' = [served EXCEPT ![vc] = @ \ {u}]
        /\ idx' = [idx EXCEPT ![g] = @ + 1]
        /\ UNCHANGED <<slices, controllers, pc, ranged, list, core, panicked, conf, vc>>
    BY <1>6, <2>3, <2>4, <2>5 DEF CloseController
  <2>7. Hosts(T \ {u}, T \ {u})'
    BY <1>1, <2>2, <2>4, <2>6, HostsLess
  <2>8. Ranged(g)' = Ranged(g) /\ idx'[g] = idx[g] + 1 /\ pc'[g] = "close"
    BY <1>2, <2>1, <2>6 DEF Ranged
  <2>9. T \ {u} = {Ranged(g)[j].tag : j \in idx'[g]..Len(Ranged(g))}
    <3>1. idx[g] \in Nat /\ \A j \in idx[g]..Len(Ranged(g)) : j = idx[g] \/ j \in idx'[g]..Len(Ranged(g))
      BY <1>2, <1>3, <2>8
    <3>3. \A j, h \in 1..Len(Ranged(g)) : Ranged(g)[j].tag = Ranged(g)[h].tag => j = h
      BY <1>3, <2>2 DEF Closing
    <3>4. idx[g] \in Nat /\ idx'[g] = idx[g] + 1
      BY <1>2, <2>8
    <3>5. \A j \in idx'[g]..Len(Ranged(g)) : j \in idx[g]..Len(Ranged(g)) /\ j \in 1..Len(Ranged(g)) /\ j # idx[g]
      BY <1>3, <2>1, <3>4
    <3>2. \A j \in idx'[g]..Len(Ranged(g)) : Ranged(g)[j].tag # u /\ j \in idx[g]..Len(Ranged(g))
      BY <2>1, <2>3, <3>3, <3>5
    <3> QED BY <2>2, <2>3, <3>1, <3>2 DEF Closing
  <2>10. Closing(g, T \ {u})'
    <3>1. /\ (T \ {u})' = {Ranged(g)[j].tag : j \in idx'[g]..Len(Ranged(g))}
          /\ \A j \in DOMAIN Ranged(g) : Ranged(g)[j] = Made(Ranged(g)[j].tag, vc', vc')
          /\ \A j, h \in DOMAIN Ranged(g) : Ranged(g)[j].tag = Ranged(g)[h].tag => j = h
      BY <2>2, <2>6, <2>9 DEF Closing
    <3> QED BY <2>8, <3>1 DEF Closing
  <2>11. Busy(g, T \ {u}, T \ {u})'
    BY <2>2, <2>6, <2>8, <2>10 DEF Busy
  <2>12. Stage(T \ {u}, T \ {u})'
    BY <1>0, <2>7, <2>8, <2>11, StageOf
  <2> QED BY <2>6, <2>12
<1>7. CASE NodesClosed(g)
  <2>1. /\ pc[g] = "close" /\ pc'[g] = "closeCore" /\ idx[g] > Len(Ranged(g))
        /\ UNCHANGED <<vc, conf, panicked, running, served, limited>>
    BY <1>2, <1>7 DEF NodesClosed, Goto
  <2>2. T = {} /\ U = {} /\ Proper(conf)
    BY <1>1, <1>2, <1>3, <2>1 DEF Busy, Closing
  <2>3. Hosts({}, {})' /\ Busy(g, {}, {})'
    BY <1>1, <2>1, <2>2 DEF Hosts, Busy
  <2>4. Stage({}, {})'
    BY <1>0, <2>1, <2>3, StageOf
  <2> QED BY <2>1, <2>4
<1>8. CASE CloseCore(g) \/ NewCore(g) \/ SetCore(g) \/ StartCore(g)
  <2>1. pc[g] \in Building \ {"make"}
    BY <1>8 DEF CloseCore, NewCore, SetCore, StartCore
  <2>2. T = {} /\ U = {} /\ Proper(conf) /\ running = {} /\ limited = {} /\ served = [k \in Cores |-> {}]
    BY <1>1, <2>1 DEF Busy, Hosts
  <2>3. /\ UNCHANGED <<conf, panicked, running, limited>>
        /\ served' = served \/ served' = [served EXCEPT ![vc] = {}]
    BY <1>2, <1>8 DEF CloseCore, NewCore, SetCore, StartCore, nodes, locals
  <2>4. running' = {} /\ limited' = {} /\ served' = [k \in Cores |-> {}]
    BY <2>2, <2>3
  <2>5. Hosts({}, {})'
    BY <2>4 DEF Hosts
  <2>6. /\ vc' \in Cores /\ pc'[g] \in Building
        /\ pc'[g] = "setCore" => core'[g] = g
        /\ pc'[g] \in {"startCore", "make"} => vc' = g
    <3>1. CASE CloseCore(g)
      BY <1>0, <1>1, <1>2, <3>1 DEF CloseCore, GoOn, Goto
    <3>2. CASE NewCore(g)
      BY <1>0, <1>2, <2>2, <3>2 DEF NewCore, Goto, Proper, Types, TypeOK
    <3>3. CASE SetCore(g)
      <4>1. core[g] = g /\ vc' = g /\ g # None /\ g \in Cores
        BY <1>1, <3>3, NumbersAre DEF SetCore, Busy
      <4> QED BY <1>1, <1>2, <3>3, <4>1 DEF SetCore, GoOn, Goto
    <3>4. CASE StartCore(g)
      <4>1. vc = g /\ vc' = vc
        BY <1>1, <3>4 DEF StartCore, Busy
      <4> QED BY <1>0, <1>1, <1>2, <3>4, <4>1 DEF StartCore, GoOn, Goto
    <3> QED BY <1>8, <3>1, <3>2, <3>3, <3>4
  <2>7. Busy(g, {}, {})'
    BY <2>2, <2>3, <2>6 DEF Busy
  <2>8. Stage({}, {})'
    BY <1>0, <2>5, <2>6, <2>7, StageOf
  <2> QED BY <2>3, <2>6, <2>8
<1>9. CASE MakeControllers(g)
  <2>1. /\ pc[g] = "make" /\ pc'[g] = "start" /\ controllers' = g /\ idx'[g] = 1 /\ list'[g] = conf /\ core'[g] = vc
        /\ slices'[g] = [j \in DOMAIN conf |-> NoController]
        /\ UNCHANGED <<vc, conf, panicked, running, served, limited>>
    BY <1>2, <1>9, NumbersAre DEF MakeControllers, Goto, Types, TypeOK
  <2>2. T = {} /\ U = {} /\ Proper(conf) /\ vc = g
    BY <1>1, <2>1 DEF Busy
  <2>3. Filling(g, {})'
    BY <2>1 DEF Filling
  <2>4. Hosts({}, {})' /\ Busy(g, {}, {})'
    BY <1>1, <2>1, <2>2, <2>3 DEF Hosts, Busy
  <2>5. Stage({}, {})'
    BY <1>0, <2>1, <2>4, StageOf
  <2> QED BY <2>1, <2>5
<1>10. CASE MakeController(g)
  <2>1. /\ pc[g] = "start" /\ idx[g] \in 1..Len(conf) /\ DOMAIN conf = 1..Len(conf) /\ idx[g] <= Len(list[g])
        /\ Filling(g, T) /\ Proper(conf) /\ U = T /\ vc = g
    BY <1>1, <1>2, <1>10, LenProperties DEF MakeController, Types, TypeOK, Busy, Filling
  <2>2. HasSlot(idx[g])
    BY <2>1, NumbersAre DEF HasSlot, Filling
  <2>3. Put(g)
    BY <1>0, <1>10, <2>2, MakeCases DEF Unput
  <2>4. /\ pc'[g] = "begin" /\ UNCHANGED <<conf, vc, controllers, list, core, idx, panicked, running, served, limited>>
        /\ slices' = [slices EXCEPT ![g][idx[g]] = Made(conf[idx[g]], vc, vc)]
    BY <1>2, <2>1, <2>3 DEF Put, Goto, locals, Filling
  <2>5. /\ DOMAIN slices'[g] = DOMAIN slices[g] /\ slices'[g][idx[g]] = Made(conf[idx[g]], vc, vc)
        /\ \A j \in 1..(idx[g] - 1) : slices'[g][j] = slices[g][j]
    <3>1. slices[g] \in Seq(Entries) /\ g \in DOMAIN slices
      BY NumbersAre DEF Types, TypeOK, Entries
    <3>2. slices'[g] = [slices[g] EXCEPT ![idx[g]] = Made(conf[idx[g]], vc, vc)]
      BY <2>4, <3>1
    <3> QED BY <1>2, <2>1, <3>1, <3>2 DEF Filling
  <2>6. Filling(g, T)'
    BY <2>1, <2>4, <2>5 DEF Filling
  <2>7. Hosts(T, T)' /\ Busy(g, T, T)'
    BY <1>1, <2>1, <2>4, <2>5, <2>6 DEF Hosts, Busy
  <2>8. Stage(T, T)'
    BY <1>0, <2>4, <2>7, StageOf
  <2> QED BY <2>4, <2>8
<1>11. CASE StartController(g)
  <2> DEFINE c == slices[controllers][idx[g]]
  <2>1. /\ pc[g] = "begin" /\ idx[g] \in 1..Len(conf) /\ DOMAIN conf = 1..Len(conf)
        /\ Filling(g, T) /\ Proper(conf) /\ U = T /\ vc = g /\ slices[g][idx[g]] = Made(conf[idx[g]], vc, vc)
    BY <1>1, <1>2, <1>11, LenProperties DEF StartController, Types, TypeOK, Busy, Filling
  <2>2. HasSlot(idx[g]) /\ controllers = g
    BY <2>1, NumbersAre DEF HasSlot, Filling
  <2>3. PICK u : u = conf[idx[g]]
    OBVIOUS
  <2>4. u \notin T /\ u \in Tags
    <3>1. \A j \in 1..(idx[g] - 1) : conf[j] # conf[idx[g]]
      BY <1>2, <2>1 DEF Proper, IsInjective
    <3> QED BY <1>2, <2>1, <2>3, <3>1, ElementOfSeq DEF Filling
  <2>5. c = Made(u, vc, vc) /\ c.tag = u /\ c.core = vc
    BY <2>1, <2>2, <2>3, MadeIs
  <2>6. c.core # None /\ c.tag \notin served[c.core]
    BY <1>1, <1>2, <2>1, <2>4, <2>5 DEF Hosts
  <2>7. Begun(g, c)
    BY <1>0, <1>11, <2>2, <2>6, StartCases DEF Stopped, Unfit
  <2>8. /\ limited' = limited \cup {u} /\ served' = [served EXCEPT ![vc] = @ \cup {u}]
        /\ starting'[g] = Made(u, vc, vc) /\ pc'[g] = "users"
        /\ UNCHANGED <<conf, vc, slices, controllers, running, list, idx, core, panicked>>
    BY <1>2, <2>5, <2>7 DEF Begun, Goto, Types, TypeOK
  <2>9. Hosts(T, T \cup {u})'
    BY <1>1, <2>1, <2>8, HostsBegin
  <2>10. Filling(g, T)'
    BY <2>1, <2>8 DEF Filling
  <2>11. Busy(g, T, T \cup {u})'
    BY <2>1, <2>3, <2>8, <2>10 DEF Busy
  <2>12. Stage(T, T \cup {u})'
    BY <1>0, <2>8, <2>9, <2>11, StageOf
  <2>13. T \cup {u} \in SUBSET Tags
    BY <2>4
  <2> QED BY <2>8, <2>12, <2>13
<1>12. CASE StartTasks(g)
  <2>1. /\ pc[g] = "users" /\ idx[g] \in 1..Len(conf) /\ DOMAIN conf = 1..Len(conf)
        /\ Filling(g, T) /\ Proper(conf) /\ vc = g /\ slices[g][idx[g]] = Made(conf[idx[g]], vc, vc)
        /\ starting[g] = Made(conf[idx[g]], vc, vc) /\ U = T \cup {conf[idx[g]]}
    BY <1>1, <1>2, <1>12, LenProperties DEF StartTasks, Types, TypeOK, Busy, Filling
  <2>2. PICK u : u = conf[idx[g]]
    OBVIOUS
  <2>3. /\ running' = running \cup {Made(u, vc, vc)} /\ idx'[g] = idx[g] + 1 /\ pc'[g] = "start"
        /\ UNCHANGED <<conf, vc, slices, controllers, served, limited, list, core, panicked>>
    BY <1>0, <1>2, <1>12, <2>1, <2>2 DEF StartTasks, Goto
  <2>4. Hosts(U, U)'
    BY <1>1, <2>1, <2>2, <2>3, HostsRun
  <2>5. 1..(idx'[g] - 1) = 1..(idx[g] - 1) \cup {idx[g]}
    BY <1>2, <2>1, <2>3
  <2>6. U = {conf[j] : j \in 1..(idx'[g] - 1)}
    BY <2>1, <2>5 DEF Filling
  <2>7. Filling(g, U)'
    BY <2>1, <2>3, <2>5, <2>6 DEF Filling
  <2>8. Busy(g, U, U)'
    BY <2>1, <2>3, <2>7 DEF Busy
  <2>9. Stage(U, U)'
    BY <1>0, <2>3, <2>4, <2>8, StageOf
  <2> QED BY <2>3, <2>9
<1>13. CASE NodesStarted(g)
  <2>1. /\ pc[g] = "start" /\ pc'[g] = "success" /\ idx[g] > Len(list[g])
        /\ UNCHANGED <<vc, conf, panicked, nodes>>
    BY <1>2, <1>13 DEF NodesStarted, Goto
  <2>2. Filling(g, T) /\ Proper(conf) /\ U = T /\ vc = g
    BY <1>1, <2>1 DEF Busy
  <2>3. DOMAIN conf = 1..(idx[g] - 1)
    BY <1>2, <2>1, <2>2, LenProperties DEF Types, TypeOK, Filling
  <2>4. \A j \in DOMAIN conf : slices[g][j] = Made(conf[j], vc, vc) /\ slices[g][j].tag = conf[j]
    BY <2>2, <2>3, MadeIs DEF Filling
  <2>5. T = Range(conf) /\ T = {slices[g][j].tag : j \in DOMAIN slices[g]}
    BY <2>2, <2>3, <2>4 DEF Filling, Range
  <2>6. Serves(slices[g], T)
    BY <2>2, <2>4, <2>5 DEF Serves, Filling, Proper, IsInjective
  <2>7. Resting(T)' /\ Hosts(T, T)'
    <3>1. UNCHANGED <<controllers, slices, running, served, limited>> /\ controllers = g /\ g \in Cores
      BY <2>1, <2>2, NumbersAre DEF nodes, Filling
    <3>2. Hosts(T, T)'
      BY <1>1, <2>1, <2>2, <3>1 DEF Hosts
    <3>3. Serves(slices[g], T)'
      BY <2>1, <2>6, <3>1 DEF Serves
    <3> QED BY <3>1, <3>2, <3>3 DEF Resting
  <2>8. Stage(T, T)'
    BY <1>0, <2>1, <2>5, <2>7, StageOf
  <2> QED BY <2>1, <2>8
<1> QED BY <1>4, <1>5, <1>6, <1>7, <1>8, <1>9, <1>10, <1>11, <1>12, <1>13 DEF Reload

LEMMA NextCalm ==
    ASSUME Types, Orphans, CalmServes, [Next]_vars
    PROVE  CalmServes'
<1>1. ASSUME NEW g \in Reloads, Reload(g), ~panicked PROVE CalmServes'
  <2> SUFFICES ASSUME Calm' PROVE CalmServes'
    BY DEF CalmServes
  <2>1. regime' = regime
    BY <1>1, ReloadSteps
  <2>2. Calm
    BY <2>1 DEF Calm
  <2>3. PICK T \in SUBSET Tags, U \in SUBSET Tags : Stage(T, U)
    BY <2>2 DEF CalmServes
  <2>4. vc \in Cores
    BY <2>2 DEF CalmServes
  <2>5. ~panicked' /\ vc' \in Cores /\ \E S, W \in SUBSET Tags : Stage(S, W)'
    BY <1>1, <2>2, <2>3, <2>4, CalmSteps DEF Orphans
  <2> QED BY <2>5 DEF CalmServes
<1>2. CASE EditFile
  <2>1. /\ UNCHANGED <<regime, conf, vc, nodes, locals, panicked>> /\ edits + 1 \in Reloads
        /\ (pc' = pc \/ pc' = [pc EXCEPT ![edits + 1] = "sleep"])
    BY <1>2, EditsAssumption DEF EditFile, Types, TypeOK, Reloads
  <2>2. pc[edits + 1] = "new"
    BY <2>1 DEF Types, TypeOK, Launches, Reloads
  <2>3. \A g \in Reloads : pc'[g] = pc[g] \/ (pc[g] = "new" /\ pc'[g] = "sleep")
    BY <2>1, <2>2 DEF Types, TypeOK
  <2>4. Calm' => Calm
    BY <2>1 DEF Calm
  <2>5. ASSUME Calm, NEW T, NEW U, Stage(T, U) PROVE Stage(T, U)'
    <3>1. Hosts(T, U)' /\ (Resting(T) => Resting(T)')
      BY <2>1, <2>5 DEF Stage, Hosts, Resting, Serves, nodes
    <3>2. \A g \in Reloads : (pc[g] \in Working <=> pc'[g] \in Working)
                             /\ (pc[g] \in Working \cup {"load", "reload"} <=> pc'[g] \in Working \cup {"load", "reload"})
                             /\ (pc[g] = "users" <=> pc'[g] = "users")
      BY <2>3 DEF Working, Building, Starting
    <3>3. ASSUME NEW g \in Reloads, pc'[g] \in Working \cup Reading PROVE Busy(g, T, U)'
      <4>1. Ranged(g)' = Ranged(g) /\ UNCHANGED <<conf, vc, slices, controllers, list, idx, core, starting>>
        BY <2>1 DEF Ranged, nodes, locals
      <4>2. CASE pc'[g] = pc[g]
        <5>1. Busy(g, T, U)
          BY <2>5, <3>3, <4>2 DEF Stage
        <5> QED BY <4>1, <4>2, <5>1 DEF Busy, Closing, Filling
      <4>3. CASE pc'[g] # pc[g]
        <5>1. ~window /\ Active = {}
          BY <1>2, <2>3, <2>5, <4>3 DEF EditFile, Orphans, Alone, Calm
        <5>2. U = T
          BY <2>5, <5>1 DEF Stage, Active
        <5> QED BY <2>3, <4>3, <5>2 DEF Busy, Working, Building, Starting
      <4> QED BY <4>2, <4>3
    <3> QED BY <2>1, <2>5, <3>1, <3>2, <3>3 DEF Stage
  <2>6. SUFFICES ASSUME Calm' PROVE CalmServes'
    BY DEF CalmServes
  <2>7. ~panicked' /\ vc' \in Cores
    BY <2>1, <2>4, <2>6 DEF CalmServes
  <2>8. PICK T \in SUBSET Tags, U \in SUBSET Tags : Stage(T, U)
    BY <2>4, <2>6 DEF CalmServes
  <2>9. Stage(T, U)'
    BY <2>4, <2>5, <2>6, <2>8
  <2> QED BY <2>7, <2>9 DEF CalmServes
<1>3. CASE WindowEnds \/ UNCHANGED vars
  <2>1. UNCHANGED <<regime, conf, vc, nodes, locals, pc, panicked>>
    BY <1>3 DEF WindowEnds, vars, outside
  <2>2. ASSUME NEW T, NEW U, Stage(T, U) PROVE Stage(T, U)'
    <3>1. UNCHANGED <<conf, vc, served, slices, controllers, running, limited, ranged, list, idx, core, starting, pc>>
      BY <2>1 DEF nodes, locals
    <3>2. Hosts(T, U)' /\ (Resting(T) => Resting(T)')
      BY <2>2, <3>1 DEF Stage, Hosts, Resting, Serves
    <3>3. ASSUME NEW g \in Reloads, Busy(g, T, U) PROVE Busy(g, T, U)'
      <4>1. Ranged(g)' = Ranged(g)
        BY <3>1 DEF Ranged
      <4>2. (Closing(g, T) => Closing(g, T)') /\ (Filling(g, T) => Filling(g, T)')
        BY <3>1, <4>1 DEF Closing, Filling
      <4> QED BY <3>1, <3>3, <4>2 DEF Busy
    <3> QED BY <2>2, <3>1, <3>2, <3>3 DEF Stage
  <2> QED BY <2>1, <2>2 DEF CalmServes, Calm
<1> QED BY <1>1, <1>2, <1>3 DEF Next

LEMMA AlwaysCalm == Spec => []CalmServes
<1>1. ASSUME Init PROVE CalmServes
  <2>1. Types
    BY <1>1, InitTypes
  <2>2. slices[0] = [j \in DOMAIN conf |-> Made(conf[j], 0, 0)] /\ vc = 0 /\ controllers = 0
    BY <1>1, NumbersAre DEF Init
  <2>3. Hosts(Range(conf), Range(conf))
    <3>1. Range(slices[0]) = {Made(t, 0, 0) : t \in Range(conf)}
      BY <2>2 DEF Range
    <3> QED BY <1>1, <2>2, <3>1 DEF Init, Hosts
  <2>4. Resting(Range(conf))
    <3>1. \A j \in DOMAIN conf : slices[0][j] = Made(conf[j], 0, 0) /\ slices[0][j].tag = conf[j]
      BY <2>2, MadeIs
    <3>2. DOMAIN slices[0] = DOMAIN conf
      BY <2>2
    <3> QED BY <1>1, <2>2, <3>1, <3>2, NumbersAre DEF Init, Resting, Serves, Range, Proper, IsInjective
  <2>5. \A g \in Reloads : pc[g] \notin Working \cup Reading
    BY <1>1 DEF Init, Working, Reading, Building, Starting
  <2>6. Range(conf) \in SUBSET Tags
    BY <1>1, <2>1 DEF Init, Types, TypeOK
  <2>7. Stage(Range(conf), Range(conf))
    BY <2>3, <2>4, <2>5 DEF Stage
  <2> QED BY <1>1, <2>2, <2>6, <2>7, NumbersAre DEF Init, CalmServes
<1>2. Types /\ Orphans /\ CalmServes /\ [Next]_vars => CalmServes'
  BY NextCalm
<1> QED BY <1>1, <1>2, AlwaysTypes, AlwaysHeld, PTL DEF Spec

\* For any tags, any files with nodes that can be started, and any number of
\* edits, also when two come within the ten seconds: while nothing fails and no
\* reload is launched beside another, the process lives, and between reloads the
\* nodes of the config, and no others, run and are limited, on the core held.
THEOREM ReloadServesConfAlways == Spec => []ReloadServesConf
<1>1. ASSUME CalmServes PROVE ReloadServesConf
  <2> SUFFICES ASSUME Calm
               PROVE  /\ ~panicked
                      /\ Active = {} =>
                          /\ vc # None /\ running = {Made(t, vc, vc) : t \in Range(conf)}
                          /\ \A k \in Cores : served[k] = IF k = vc THEN Range(conf) ELSE {}
                          /\ limited = Range(conf)
    BY DEF ReloadServesConf
  <2>1. ~panicked /\ vc \in Cores /\ vc # None
    BY <1>1, NumbersAre DEF CalmServes
  <2>2. PICK T, U : Stage(T, U)
    BY <1>1 DEF CalmServes
  <2>3. Active = {} => T = Range(conf) /\ U = T /\ Hosts(T, U)
    BY <2>2 DEF Stage, Active, Working, Building, Starting
  <2> QED BY <2>1, <2>3 DEF Hosts
<1> QED BY <1>1, AlwaysCalm, PTL

-----------------------------------------------------------------------------
(***************************************************************************)
(* TrimNodeReader (module Trim).  That the kinds of the characters exist,   *)
(* they being defined by recursion, is itself shown along the pass: a       *)
(* labelling that is right up to the index becomes right up to the next.    *)
(***************************************************************************)
LabelledTo(k, n) ==
    /\ k = [p \in 0..Len(input) |-> k[p]] /\ k[0] = "plain"
    /\ \A p \in 1..Len(input) : p <= n => k[p] = Kind(k[p - 1], input[p], Following(input, p))

Labelled(k) == LabelledTo(k, Len(input))

Pass ==
    /\ input \in Seq(Classes) /\ s \in Seq(Classes \cup {Blank}) /\ Len(s) = Len(input)
    /\ i \in Nat /\ i >= 1 /\ comma \in Nat
    /\ mode = "done" => i > Len(input)
    /\ \E k : LabelledTo(k, i - 1)

LEMMA LabelNext ==
    ASSUME NEW n \in Nat, Len(input) \in Nat, \E k : LabelledTo(k, n)
    PROVE  \E k : LabelledTo(k, n + 1)
<1>1. PICK k : LabelledTo(k, n)
  OBVIOUS
<1>2. CASE n >= Len(input)
  BY <1>1, <1>2 DEF LabelledTo
<1>3. CASE n < Len(input)
  <2> DEFINE l == [p \in 0..Len(input) |-> IF p = n + 1 THEN Kind(k[n], input[n + 1], Following(input, n + 1)) ELSE k[p]]
  <2>1. l[0] = "plain" /\ l = [p \in 0..Len(input) |-> l[p]]
    BY <1>1, <1>3 DEF LabelledTo
  <2>2. ASSUME NEW p \in 1..Len(input), p <= n + 1 PROVE l[p] = Kind(l[p - 1], input[p], Following(input, p))
    <3>1. CASE p = n + 1
      <4>1. l[p - 1] = k[n] /\ l[p] = Kind(k[n], input[n + 1], Following(input, n + 1))
        BY <1>3, <3>1
      <4> QED BY <3>1, <4>1
    <3>2. CASE p # n + 1
      <4>1. l[p - 1] = k[p - 1] /\ l[p] = k[p] /\ p <= n
        BY <1>3, <2>2, <3>2
      <4> QED BY <1>1, <4>1 DEF LabelledTo
    <3> QED BY <3>1, <3>2
  <2>3. LabelledTo(l, n + 1)
    BY <2>1, <2>2 DEF LabelledTo
  <2> QED BY <2>3
<1> QED BY <1>2, <1>3

LEMMA KindsLabel ==
    ASSUME NEW k, Labelled(k)
    PROVE  Labelled(Kinds(input))
<1> DEFINE Body(f) == [p \in 0..Len(input) |-> IF p = 0 THEN "plain" ELSE Kind(f[p - 1], input[p], Following(input, p))]
<1>1. k = Body(k)
  BY DEF Labelled, LabelledTo
<1>2. Kinds(input) = CHOOSE f : f = Body(f)
  BY DEF Kinds
<1>3. Kinds(input) = Body(Kinds(input))
  BY <1>1, <1>2
<1> QED BY <1>3 DEF Labelled, LabelledTo

LEMMA PassInit == PrepInit => Pass
<1> SUFFICES ASSUME PrepInit PROVE Pass
  OBVIOUS
<1>1. input \in Seq(Classes) /\ s = input /\ i = 1 /\ comma = 0 /\ mode = "text"
  BY InputsAssumption DEF PrepInit
<1>2. Seq(Classes) \subseteq Seq(Classes \cup {Blank})
  BY SeqMonotonic
<1>3. LabelledTo([p \in 0..Len(input) |-> "plain"], i - 1)
  BY <1>1, LenProperties DEF LabelledTo
<1> QED BY <1>1, <1>2, <1>3 DEF Pass

LEMMA Blanked ==
    ASSUME NEW q \in Seq(Classes \cup {Blank}), NEW n \in 1..Len(q)
    PROVE  /\ [q EXCEPT ![n] = Blank] \in Seq(Classes \cup {Blank}) /\ Len([q EXCEPT ![n] = Blank]) = Len(q)
           /\ \A p \in 1..Len(q) : [q EXCEPT ![n] = Blank][p] = IF p = n THEN Blank ELSE q[p]
<1> DEFINE S == Classes \cup {Blank}
<1>1. Blank \in S /\ q \in Seq(S)
  OBVIOUS
<1> HIDE DEF S
<1>2. [q EXCEPT ![n] = Blank] \in Seq(S) /\ Len([q EXCEPT ![n] = Blank]) = Len(q)
  BY <1>1, ExceptSeq
<1>3. \A p \in 1..Len(q) : [q EXCEPT ![n] = Blank][p] = IF p = n THEN Blank ELSE q[p]
  BY <1>1, LenProperties
<1> QED BY <1>2, <1>3 DEF S

Cleaned(f, p) == IF f[p] \in Commented \/ Trailing(input, f, p) THEN Blank ELSE input[p]
White(f, p) == f[p] \in Commented \/ (f[p] = "plain" /\ input[p] = "newline")
Outside == {"plain", "close2"}
Inside == {"open", "within", "escaped"}

TameFor(f) ==
    \A p \in 1..Len(input) : /\ f[p] = "block" /\ f[p - 1] # "begin" => input[p] # "star"
                             /\ f[p] = "plain" => input[p] # "slash"

\* What precedes Cut is as it will be, except a comma that is not decided on;
\* what follows is as it was, except the slash that ends a comment.
Cut == IF mode = "slash" THEN i - 1 ELSE i
Behind(f) == \A p \in 1..Len(input) : p < Cut /\ p # comma => s[p] = Cleaned(f, p)
Before(f) ==
    \A p \in 1..Len(input) : p >= Cut => s[p] = input[p] \/ (mode = "text" /\ p = i /\ f[p] = "close2" /\ s[p] = Blank)
Pending(f) ==
    comma # 0 => /\ comma \in 1..Len(input) /\ comma < Cut
                 /\ s[comma] = "comma" /\ input[comma] = "comma" /\ f[comma] = "plain"
                 /\ \A p \in 1..Len(input) : comma < p /\ p < Cut => White(f, p)
Where(f) ==
    /\ mode = "text" =>
        /\ comma = 0 /\ i <= Len(input) + 1
        /\ i <= Len(input) => \/ f[i - 1] \in Outside
                              \/ f[i] = "close2" /\ s[i] = Blank
                              \/ f[i] = "plain" /\ input[i] = "newline"
    /\ mode = "string" => comma = 0 /\ (i <= Len(input) => f[i - 1] \in Inside)
    /\ mode = "comma" => comma # 0 /\ (i <= Len(input) => f[i - 1] \in Outside)
    /\ mode = "slash" =>
        /\ i \in 2..Len(input) /\ input[i - 1] = "slash"
        /\ \/ f[i - 1] = "line" /\ input[i] = "slash"
           \/ f[i - 1] = "begin" /\ input[i] = "star"
    /\ mode \in {"line", "block"} => i \in 2..(Len(input) + 1) /\ f[i - 1] = mode

Shape(f) == Behind(f) /\ Before(f) /\ Pending(f) /\ Where(f)

Right(f) == IF mode = "done" THEN \A p \in 1..Len(input) : s[p] = Cleaned(f, p) ELSE Shape(f)

\* A comma behind which nothing but white space and comments came so far, and
\* now something else, or the end, is not trailing.
LEMMA NotTrailing ==
    ASSUME Pass, NEW f, Pending(f), comma # 0, mode \in {"comma", "block"},
           i <= Len(input) => ~White(f, i) /\ input[i] # "close"
    PROVE  ~Trailing(input, f, comma)
<1> SUFFICES ASSUME Trailing(input, f, comma) PROVE FALSE
  OBVIOUS
<1>1. Len(input) \in Nat /\ i \in Nat /\ comma \in Nat /\ comma < i
  BY LenProperties DEF Pass, Pending, Cut
<1>2. PICK q \in (comma + 1)..Len(input) :
        /\ input[q] = "close" /\ f[q] = "plain"
        /\ \A r \in (comma + 1)..(q - 1) : f[r] \in Commented \/ (f[r] = "plain" /\ input[r] = "newline")
  BY DEF Trailing
<1>3. CASE q < i
  <2>1. White(f, q)
    BY <1>1, <1>2, <1>3 DEF Pending, Cut
  <2> QED BY <1>2, <2>1 DEF White, Commented
<1>4. CASE q = i
  BY <1>1, <1>2, <1>4
<1>5. CASE q > i
  <2>1. i \in (comma + 1)..(q - 1) /\ i <= Len(input)
    BY <1>1, <1>2, <1>5
  <2> QED BY <1>2, <2>1 DEF White
<1> QED BY <1>1, <1>2, <1>3, <1>4, <1>5

\* The character at the index is a comma's only if it is one outside strings
LEMMA Stays ==
    ASSUME NEW f, NEW p, f[p] \notin Commented, f[p] # "plain" \/ input[p] # "comma"
    PROVE  Cleaned(f, p) = input[p]
  BY DEF Cleaned, Trailing

LEMMA GoesBlank ==
    ASSUME NEW f, NEW p, f[p] \in Commented
    PROVE  Cleaned(f, p) = Blank /\ White(f, p)
  BY DEF Cleaned, White

\* The file does not change, and with it what it is to become.
LEMMA SameFile ==
    ASSUME NEW f, input' = input
    PROVE  \A p : Cleaned(f, p)' = Cleaned(f, p) /\ White(f, p)' = White(f, p)
  BY DEF Cleaned, Trailing, White

\* What a labelling says of the character at the index
LEMMA LabelHere ==
    ASSUME Pass, NEW f, Labelled(f), i <= Len(input)
    PROVE  i \in 1..Len(input) /\ f[i] = Kind(f[i - 1], input[i], Following(input, i)) /\ Len(input) \in Nat
<1>1. i \in 1..Len(input) /\ Len(input) \in Nat
  BY LenProperties DEF Pass
<1> QED BY <1>1 DEF Labelled, LabelledTo

LEMMA OutsideHere ==
    ASSUME Pass, NEW f, Labelled(f), TameFor(f), i <= Len(input), f[i - 1] \in Outside
    PROVE  /\ input[i] = Quote => f[i] = "open"
           /\ input[i] = "slash" => i + 1 \in 2..Len(input) /\ \/ f[i] = "line" /\ input[i + 1] = "slash"
                                                               \/ f[i] = "begin" /\ input[i + 1] = "star"
           /\ input[i] \notin {Quote, "slash"} => f[i] = "plain"
<1> DEFINE n == Following(input, i)
<1>1. i \in 1..Len(input) /\ f[i] = Kind(f[i - 1], input[i], n) /\ Len(input) \in Nat
  BY LabelHere
<1>2. Kind(f[i - 1], input[i], n) = IF input[i] = Quote THEN "open" ELSE IF input[i] = "slash" /\ n = "slash" THEN "line"
                                    ELSE IF input[i] = "slash" /\ n = "star" THEN "begin" ELSE "plain"
  <2>1. CASE f[i - 1] = "plain"
    BY <2>1 DEF Kind
  <2>2. CASE f[i - 1] = "close2"
    BY <2>2 DEF Kind
  <2> QED BY <2>1, <2>2 DEF Outside
<1>3. input[i] = "slash" => f[i] # "plain"
  BY <1>1 DEF TameFor
<1>4. n \in {"slash", "star"} => i + 1 \in 2..Len(input) /\ n = input[i + 1]
  BY <1>1 DEF Following
<1> QED BY <1>1, <1>2, <1>3, <1>4 DEF Quote

LEMMA InsideHere ==
    ASSUME Pass, NEW f, Labelled(f), i <= Len(input), f[i - 1] \in Inside
    PROVE  f[i] = IF input[i] = Quote THEN "plain" ELSE IF input[i] = "backslash" THEN "escape" ELSE "within"
<1>1. f[i] = Kind(f[i - 1], input[i], Following(input, i))
  BY LabelHere
<1>2. CASE f[i - 1] = "open"
  BY <1>1, <1>2 DEF Kind
<1>3. CASE f[i - 1] = "within"
  BY <1>1, <1>3 DEF Kind
<1>4. CASE f[i - 1] = "escaped"
  BY <1>1, <1>4 DEF Kind
<1> QED BY <1>2, <1>3, <1>4 DEF Inside

LEMMA TextRight ==
    ASSUME Pass, NEW f, Labelled(f), TameFor(f), Right(f), Text
    PROVE  Right(f)'
<1>1. /\ mode = "text" /\ i <= Len(input) /\ comma = 0 /\ input' = input /\ s' = s /\ i' = i + 1
      /\ Behind(f) /\ Before(f) /\ Where(f)
  BY DEF Text, Left, Right, Shape, Pending, Where, Go, Pass
<1>2. i \in 1..Len(input) /\ f[i] = Kind(f[i - 1], input[i], Following(input, i)) /\ Len(input) \in Nat
  BY <1>1, LabelHere
<1>3. /\ \A p \in 1..Len(input) : p < i => s[p] = Cleaned(f, p)
      /\ \A p \in 1..Len(input) : p > i => s[p] = input[p]
  BY <1>1, <1>2 DEF Behind, Before, Cut
<1>4. CASE f[i] = "close2" /\ s[i] = Blank
  <2>1. mode' = "text" /\ comma' = 0
    BY <1>1, <1>4 DEF Text, Go, Blank, Quote
  <2>2. s[i] = Cleaned(f, i)
    BY <1>4, GoesBlank DEF Commented
  <2>3. Behind(f)' /\ Before(f)' /\ Pending(f)' /\ Where(f)'
    <3>1. Behind(f)'
      BY <1>1, <1>2, <1>3, <1>4, <2>1, <2>2, SameFile DEF Behind, Cut
    <3>2. Before(f)'
      BY <1>1, <1>2, <1>3, <1>4, <2>1, <2>2 DEF Before, Cut
    <3>3. Pending(f)'
      BY <1>1, <1>2, <1>3, <1>4, <2>1, <2>2, SameFile DEF Pending, Cut
    <3>4. Where(f)'
      BY <1>1, <1>2, <1>3, <1>4, <2>1, <2>2 DEF Where, Outside
    <3> QED BY <3>1, <3>2, <3>3, <3>4
  <2> QED BY <2>1, <2>3 DEF Right, Shape
<1>5. CASE ~(f[i] = "close2" /\ s[i] = Blank)
  <2>1. s[i] = input[i] /\ (f[i - 1] \in Outside \/ (f[i] = "plain" /\ input[i] = "newline"))
    BY <1>1, <1>2, <1>5 DEF Before, Where, Cut
  <2>2. CASE input[i] = Quote
    <3>1. mode' = "string" /\ comma' = 0 /\ f[i] = "open"
      <4>1. f[i - 1] \in Outside
        BY <2>1, <2>2 DEF Quote
      <4>2. f[i] = "open"
        BY <1>1, <2>2, <4>1, OutsideHere
      <4> QED BY <1>1, <2>1, <2>2, <4>2 DEF Text, Go, Quote
    <3>2. s[i] = Cleaned(f, i)
      BY <2>1, <3>1, Stays DEF Commented
    <3>3. Behind(f)' /\ Before(f)' /\ Pending(f)' /\ Where(f)'
      <4>1. Behind(f)'
        BY <1>1, <1>2, <1>3, <3>1, <3>2, SameFile DEF Behind, Cut
      <4>2. Before(f)'
        BY <1>1, <1>2, <1>3, <3>1, <3>2 DEF Before, Cut
      <4>3. Pending(f)'
        BY <1>1, <1>2, <1>3, <3>1, <3>2, SameFile DEF Pending, Cut
      <4>4. Where(f)'
        BY <1>1, <1>2, <1>3, <3>1, <3>2 DEF Where, Inside
      <4> QED BY <4>1, <4>2, <4>3, <4>4
    <3> QED BY <3>1, <3>3 DEF Right, Shape
  <2>3. CASE input[i] = "slash"
    <3>1. mode' = "slash" /\ comma' = 0 /\ f[i] # "plain"
      BY <1>1, <1>2, <2>1, <2>3 DEF Text, Go, Quote, TameFor
    <3>2. f[i - 1] \in Outside
      BY <2>1, <2>3
    <3>3. i + 1 \in 2..Len(input) /\ \/ f[i] = "line" /\ input[i + 1] = "slash"
                                     \/ f[i] = "begin" /\ input[i + 1] = "star"
      BY <1>1, <2>3, <3>2, OutsideHere
    <3>4. Behind(f)' /\ Before(f)' /\ Pending(f)' /\ Where(f)'
      <4>1. Behind(f)'
        BY <1>1, <1>2, <1>3, <2>1, <2>3, <3>1, <3>2, <3>3, SameFile DEF Behind, Cut
      <4>2. Before(f)'
        BY <1>1, <1>2, <1>3, <2>1, <2>3, <3>1, <3>2, <3>3 DEF Before, Cut
      <4>3. Pending(f)'
        BY <1>1, <1>2, <1>3, <2>1, <2>3, <3>1, <3>2, <3>3, SameFile DEF Pending, Cut
      <4>4. Where(f)'
        BY <1>1, <1>2, <1>3, <2>1, <2>3, <3>1, <3>2, <3>3 DEF Where
      <4> QED BY <4>1, <4>2, <4>3, <4>4
    <3> QED BY <3>1, <3>4 DEF Right, Shape
  <2>4. CASE input[i] = "comma"
    <3>1. mode' = "comma" /\ comma' = i /\ f[i] = "plain"
      <4>1. f[i] = "plain"
        BY <1>1, <2>1, <2>4, OutsideHere DEF Quote
      <4> QED BY <1>1, <2>1, <2>4, <4>1 DEF Text, Go, Quote
    <3>2. Behind(f)' /\ Before(f)' /\ Pending(f)' /\ Where(f)'
      <4>1. Behind(f)'
        BY <1>1, <1>2, <1>3, <2>1, <2>4, <3>1, SameFile DEF Behind, Cut
      <4>2. Before(f)'
        BY <1>1, <1>2, <1>3, <2>1, <2>4, <3>1 DEF Before, Cut
      <4>3. Pending(f)'
        BY <1>1, <1>2, <1>3, <2>1, <2>4, <3>1, SameFile DEF Pending, Cut
      <4>4. Where(f)'
        BY <1>1, <1>2, <1>3, <2>1, <2>4, <3>1 DEF Where, Outside
      <4> QED BY <4>1, <4>2, <4>3, <4>4
    <3> QED BY <3>1, <3>2 DEF Right, Shape
  <2>5. CASE input[i] \notin {Quote, "slash", "comma"}
    <3>1. mode' = "text" /\ comma' = 0 /\ f[i] = "plain"
      <4>1. f[i] = "plain"
        BY <1>1, <2>1, <2>5, OutsideHere
      <4> QED BY <1>1, <2>1, <2>5, <4>1 DEF Text, Go
    <3>2. s[i] = Cleaned(f, i)
      BY <2>1, <2>5, <3>1, Stays DEF Commented
    <3>3. Behind(f)' /\ Before(f)' /\ Pending(f)' /\ Where(f)'
      <4>1. Behind(f)'
        BY <1>1, <1>2, <1>3, <3>1, <3>2, SameFile DEF Behind, Cut
      <4>2. Before(f)'
        BY <1>1, <1>2, <1>3, <3>1, <3>2 DEF Before, Cut
      <4>3. Pending(f)'
        BY <1>1, <1>2, <1>3, <3>1, <3>2, SameFile DEF Pending, Cut
      <4>4. Where(f)'
        BY <1>1, <1>2, <1>3, <3>1, <3>2 DEF Where, Outside
      <4> QED BY <4>1, <4>2, <4>3, <4>4
    <3> QED BY <3>1, <3>3 DEF Right, Shape
  <2> QED BY <2>2, <2>3, <2>4, <2>5
<1> QED BY <1>4, <1>5

LEMMA StringRight ==
    ASSUME Pass, NEW f, Labelled(f), TameFor(f), Right(f), InString
    PROVE  Right(f)'
<1>1. /\ mode = "string" /\ i <= Len(input) /\ comma = 0 /\ input' = input /\ s' = s /\ comma' = 0
      /\ Behind(f) /\ Before(f) /\ f[i - 1] \in Inside
  BY DEF InString, Keep, Left, Right, Shape, Pending, Where, Go, Pass
<1>2. i \in 1..Len(input) /\ f[i] = Kind(f[i - 1], input[i], Following(input, i)) /\ Len(input) \in Nat
  BY <1>1, LabelHere
<1>3. /\ \A p \in 1..Len(input) : p < i => s[p] = Cleaned(f, p)
      /\ \A p \in 1..Len(input) : p >= i => s[p] = input[p]
  BY <1>1, <1>2 DEF Behind, Before, Cut
<1>4. f[i] = IF input[i] = Quote THEN "plain" ELSE IF input[i] = "backslash" THEN "escape" ELSE "within"
  BY <1>1, InsideHere
<1>5. s[i] = Cleaned(f, i)
  BY <1>2, <1>3, <1>4, Stays DEF Commented, Quote
<1>6. CASE input[i] = "backslash"
  <2>1. mode' = "string" /\ i' = i + 2 /\ f[i] = "escape"
    BY <1>1, <1>2, <1>3, <1>4, <1>6 DEF InString, Go, Quote
  <2>2. ASSUME i + 1 <= Len(input) PROVE f[i + 1] = "escaped"
    <3>1. f[i + 1] = Kind(f[i], input[i + 1], Following(input, i + 1))
      BY <1>2, <2>2 DEF Labelled, LabelledTo
    <3> QED BY <2>1, <3>1 DEF Kind
  <2>3. ASSUME i + 1 <= Len(input) PROVE s[i + 1] = Cleaned(f, i + 1)
    BY <1>2, <1>3, <2>2, <2>3, Stays DEF Commented
  <2>4. Behind(f)' /\ Before(f)' /\ Pending(f)' /\ Where(f)'
    <3>1. Behind(f)'
      BY <1>1, <1>2, <1>3, <1>5, <2>1, <2>2, <2>3, SameFile DEF Behind, Cut
    <3>2. Before(f)'
      BY <1>1, <1>2, <1>3, <1>5, <2>1, <2>2, <2>3 DEF Before, Cut
    <3>3. Pending(f)'
      BY <1>1, <1>2, <1>3, <1>5, <2>1, <2>2, <2>3, SameFile DEF Pending, Cut
    <3>4. Where(f)'
      BY <1>1, <1>2, <1>3, <1>5, <2>1, <2>2, <2>3 DEF Where, Inside
    <3> QED BY <3>1, <3>2, <3>3, <3>4
  <2> QED BY <2>1, <2>4 DEF Right, Shape
<1>7. CASE input[i] # "backslash"
  <2>1. \/ mode' = "string" /\ i' = i + 1 /\ f[i] = "within"
        \/ mode' = "text" /\ i' = i + 1 /\ f[i] = "plain"
    BY <1>1, <1>2, <1>3, <1>4, <1>7 DEF InString, Go
  <2>2. Behind(f)' /\ Before(f)' /\ Pending(f)' /\ Where(f)'
    <3>1. Behind(f)'
      BY <1>1, <1>2, <1>3, <1>5, <2>1, SameFile DEF Behind, Cut
    <3>2. Before(f)'
      BY <1>1, <1>2, <1>3, <1>5, <2>1 DEF Before, Cut
    <3>3. Pending(f)'
      BY <1>1, <1>2, <1>3, <1>5, <2>1, SameFile DEF Pending, Cut
    <3>4. Where(f)'
      BY <1>1, <1>2, <1>3, <1>5, <2>1 DEF Where, Inside, Outside
    <3> QED BY <3>1, <3>2, <3>3, <3>4
  <2> QED BY <2>1, <2>2 DEF Right, Shape
<1> QED BY <1>6, <1>7

LEMMA CommaRight ==
    ASSUME Pass, NEW f, Labelled(f), TameFor(f), Right(f), InComma
    PROVE  Right(f)'
<1>1. /\ mode = "comma" /\ i <= Len(input) /\ comma # 0 /\ input' = input
      /\ Behind(f) /\ Before(f) /\ Pending(f) /\ f[i - 1] \in Outside
  BY DEF InComma, Left, Right, Shape, Where, Go, Pass
<1>2. i \in 1..Len(input) /\ f[i] = Kind(f[i - 1], input[i], Following(input, i)) /\ Len(input) \in Nat
  BY <1>1, LabelHere
<1>3. /\ \A p \in 1..Len(input) : p < i /\ p # comma => s[p] = Cleaned(f, p)
      /\ \A p \in 1..Len(input) : p >= i => s[p] = input[p]
      /\ comma \in 1..Len(input) /\ comma < i /\ s[comma] = "comma" /\ input[comma] = "comma" /\ f[comma] = "plain"
      /\ \A p \in 1..Len(input) : comma < p /\ p < i => White(f, p)
  BY <1>1, <1>2 DEF Behind, Before, Pending, Cut
<1>4. s[i] = input[i] /\ input[i] \in Classes
  BY <1>2, <1>3, ElementOfSeq DEF Pass
<1>5. CASE input[i] = "close"
  <2>1. mode' = "text" /\ i' = i /\ comma' = 0 /\ s' = [s EXCEPT ![comma] = Blank] /\ f[i] = "plain"
    <3>1. f[i] = "plain"
      BY <1>1, <1>5, OutsideHere DEF Quote
    <3>2. i' = i + 0 /\ mode' = "text" /\ comma' = 0 /\ s' = [s EXCEPT ![comma] = Blank]
      BY <1>4, <1>5 DEF InComma, Go, Blank
    <3> QED BY <1>2, <3>1, <3>2
  <2>2. \A p \in 1..Len(input) : s'[p] = IF p = comma THEN Blank ELSE s[p]
    BY <1>3, <2>1, Blanked DEF Pass
  <2>3. Trailing(input, f, comma)
    BY <1>2, <1>3, <1>5, <2>1 DEF Trailing, White
  <2>4. Cleaned(f, comma) = Blank
    BY <2>3 DEF Cleaned
  <2>5. Behind(f)' /\ Before(f)' /\ Pending(f)' /\ Where(f)'
    <3>1. Behind(f)'
      BY <1>1, <1>2, <1>3, <2>1, <2>2, <2>4, SameFile DEF Behind, Cut
    <3>2. Before(f)'
      BY <1>1, <1>2, <1>3, <2>1, <2>2, <2>4 DEF Before, Cut
    <3>3. Pending(f)'
      BY <1>1, <1>2, <1>3, <2>1, <2>2, <2>4, SameFile DEF Pending, Cut
    <3>4. Where(f)'
      BY <1>1, <1>2, <1>3, <2>1, <2>2, <2>4 DEF Where
    <3> QED BY <3>1, <3>2, <3>3, <3>4
  <2> QED BY <2>1, <2>5 DEF Right, Shape
<1>6. CASE input[i] = "slash"
  <2>1. mode' = "slash" /\ comma' = comma /\ i' = i + 1 /\ s' = s /\ f[i] # "plain"
    <3>1. f[i] # "plain"
      BY <1>2, <1>6 DEF TameFor
    <3>2. s[i] # "close"
      BY <1>4, <1>6
    <3> QED BY <1>4, <1>6, <3>1, <3>2 DEF InComma, Go, Blank
  <2>3. i + 1 \in 2..Len(input) /\ \/ f[i] = "line" /\ input[i + 1] = "slash"
                                   \/ f[i] = "begin" /\ input[i + 1] = "star"
    BY <1>1, <1>6, OutsideHere
  <2>4. Behind(f)' /\ Before(f)' /\ Pending(f)' /\ Where(f)'
    <3>1. Behind(f)'
      BY <1>1, <1>2, <1>3, <1>6, <2>1, <2>3, SameFile DEF Behind, Cut
    <3>2. Before(f)'
      BY <1>1, <1>2, <1>3, <1>6, <2>1, <2>3 DEF Before, Cut
    <3>3. Pending(f)'
      BY <1>1, <1>2, <1>3, <1>6, <2>1, <2>3, SameFile DEF Pending, Cut
    <3>4. Where(f)'
      BY <1>1, <1>2, <1>3, <1>6, <2>1, <2>3 DEF Where
    <3> QED BY <3>1, <3>2, <3>3, <3>4
  <2> QED BY <2>1, <2>4 DEF Right, Shape
<1>7. CASE input[i] = "newline"
  <2>1. mode' = "comma" /\ comma' = comma /\ i' = i + 1 /\ s' = s /\ f[i] = "plain"
    <3>1. f[i] = "plain"
      BY <1>1, <1>7, OutsideHere DEF Quote
    <3> QED BY <1>1, <1>2, <1>4, <1>7, <3>1 DEF InComma, Go
  <2>2. s[i] = Cleaned(f, i) /\ White(f, i)
    BY <1>4, <1>7, <2>1, Stays DEF Commented, White
  <2>3. Behind(f)' /\ Before(f)' /\ Pending(f)' /\ Where(f)'
    <3>1. Behind(f)'
      BY <1>1, <1>2, <1>3, <2>1, <2>2, SameFile DEF Behind, Cut
    <3>2. Before(f)'
      BY <1>1, <1>2, <1>3, <2>1, <2>2 DEF Before, Cut
    <3>3. Pending(f)'
      BY <1>1, <1>2, <1>3, <2>1, <2>2, SameFile DEF Pending, Cut
    <3>4. Where(f)'
      BY <1>1, <1>2, <1>3, <2>1, <2>2 DEF Where, Outside
    <3> QED BY <3>1, <3>2, <3>3, <3>4
  <2> QED BY <2>1, <2>3 DEF Right, Shape
<1>8. CASE input[i] \notin {"close", "slash", "newline"}
  <2>1. mode' = "text" /\ comma' = 0 /\ i' = i /\ s' = s
    BY <1>1, <1>2, <1>4, <1>8 DEF InComma, Go, Pass, Classes, Quote, Blank
  <2>2. ~White(f, i)
    <3>1. f[i] \in {"open", "plain"}
      BY <1>1, <1>8, OutsideHere
    <3> QED BY <1>8, <3>1 DEF White, Commented
  <2>3. ~Trailing(input, f, comma)
    BY <1>1, <1>8, <2>2, NotTrailing
  <2>4. s[comma] = Cleaned(f, comma)
    BY <1>3, <2>3 DEF Cleaned, Commented
  <2>5. Behind(f)' /\ Before(f)' /\ Pending(f)' /\ Where(f)'
    <3>1. Behind(f)'
      BY <1>1, <1>2, <1>3, <2>1, <2>4, SameFile DEF Behind, Cut
    <3>2. Before(f)'
      BY <1>1, <1>2, <1>3, <2>1, <2>4 DEF Before, Cut
    <3>3. Pending(f)'
      BY <1>1, <1>2, <1>3, <2>1, <2>4, SameFile DEF Pending, Cut
    <3>4. Where(f)'
      BY <1>1, <1>2, <1>3, <2>1, <2>4 DEF Where
    <3> QED BY <3>1, <3>2, <3>3, <3>4
  <2> QED BY <2>1, <2>5 DEF Right, Shape
<1> QED BY <1>5, <1>6, <1>7, <1>8

\* In a comment: everything before the index is as it will be, or the comma
LEMMA CommentHere ==
    ASSUME Pass, NEW f, Right(f), mode \in {"slash", "line", "block"}
    PROVE  /\ Len(input) \in Nat /\ i \in Nat /\ comma \in Nat /\ Behind(f) /\ Before(f) /\ Pending(f) /\ Where(f)
           /\ \A p \in 1..Len(input) : p < Cut /\ p # comma => s[p] = Cleaned(f, p)
           /\ \A p \in 1..Len(input) : p >= Cut => s[p] = input[p]
           /\ comma # 0 => /\ comma \in 1..Len(input) /\ comma < Cut
                           /\ s[comma] = "comma" /\ input[comma] = "comma" /\ f[comma] = "plain"
                           /\ \A p \in 1..Len(input) : comma < p /\ p < Cut => White(f, p)
  BY LenProperties DEF Right, Shape, Behind, Before, Pending, Pass

LEMMA SlashRight ==
    ASSUME Pass, NEW f, Labelled(f), TameFor(f), Right(f), AfterSlash
    PROVE  Right(f)'
<1>1. mode = "slash" /\ input' = input /\ comma' = comma
  BY DEF AfterSlash
<1>2. /\ Len(input) \in Nat /\ i \in Nat /\ comma \in Nat
      /\ \A p \in 1..Len(input) : p < i - 1 /\ p # comma => s[p] = Cleaned(f, p)
      /\ \A p \in 1..Len(input) : p >= i - 1 => s[p] = input[p]
      /\ comma # 0 => /\ comma \in 1..Len(input) /\ comma < i - 1
                      /\ s[comma] = "comma" /\ input[comma] = "comma" /\ f[comma] = "plain"
                      /\ \A p \in 1..Len(input) : comma < p /\ p < i - 1 => White(f, p)
  BY <1>1, CommentHere DEF Cut
<1>3. /\ i \in 2..Len(input) /\ input[i - 1] = "slash"
      /\ \/ f[i - 1] = "line" /\ input[i] = "slash"
         \/ f[i - 1] = "begin" /\ input[i] = "star"
  BY <1>1, CommentHere DEF Where
<1>4. s[i] = input[i] /\ Left /\ i - 1 \in 1..Len(s) /\ i \in 1..Len(s)
  BY <1>2, <1>3 DEF Left, Pass
<1>5. Cleaned(f, i - 1) = Blank /\ White(f, i - 1)
  BY <1>3, GoesBlank DEF Commented
<1>6. CASE input[i] = "slash"
  <2>1. mode' = "line" /\ i' = i /\ f[i - 1] = "line" /\ s' = [s EXCEPT ![i - 1] = Blank]
    BY <1>2, <1>3, <1>4, <1>6 DEF AfterSlash, Here, Go
  <2>2. \A p \in 1..Len(input) : s'[p] = IF p = i - 1 THEN Blank ELSE s[p]
    BY <1>4, <2>1, Blanked DEF Pass
  <2>a. mode' = "line" /\ i' = i /\ i \in 2..Len(input) /\ f[i - 1] = "line"
    BY <1>3, <2>1
  <2>3. Behind(f)' /\ Before(f)' /\ Pending(f)' /\ Where(f)'
    <3>1. Behind(f)'
      BY <1>1, <1>2, <1>5, <2>a, <2>2, SameFile DEF Behind, Cut
    <3>2. Before(f)'
      BY <1>1, <1>2, <1>5, <2>a, <2>2 DEF Before, Cut
    <3>3. Pending(f)'
      BY <1>1, <1>2, <1>5, <2>a, <2>2, SameFile DEF Pending, Cut
    <3>4. Where(f)'
      BY <1>1, <1>2, <1>5, <2>a, <2>2 DEF Where
    <3> QED BY <3>1, <3>2, <3>3, <3>4
  <2> QED BY <2>1, <2>3 DEF Right, Shape
<1>7. CASE input[i] = "star"
  <2>1. mode' = "block" /\ i' = i + 1 /\ f[i - 1] = "begin" /\ s' = [s EXCEPT ![i - 1] = Blank, ![i] = Blank]
    BY <1>2, <1>3, <1>4, <1>7 DEF AfterSlash, Here, Go
  <2>2. \A p \in 1..Len(input) : s'[p] = IF p = i - 1 \/ p = i THEN Blank ELSE s[p]
    <3> DEFINE b == [s EXCEPT ![i - 1] = Blank]
    <3>1. b \in Seq(Classes \cup {Blank}) /\ Len(b) = Len(s) /\ \A p \in 1..Len(s) : b[p] = IF p = i - 1 THEN Blank ELSE s[p]
      BY <1>4, Blanked DEF Pass
    <3>2. s' = [b EXCEPT ![i] = Blank]
      BY <2>1
    <3> HIDE DEF b
    <3>3. \A p \in 1..Len(b) : s'[p] = IF p = i THEN Blank ELSE b[p]
      BY <1>4, <3>1, <3>2, Blanked
    <3> QED BY <1>4, <3>1, <3>3 DEF Pass
  <2>3. f[i] = "block"
    <3>1. f[i] = Kind(f[i - 1], input[i], Following(input, i))
      BY <1>3, LabelHere
    <3> QED BY <2>1, <3>1 DEF Kind
  <2>4. Cleaned(f, i) = Blank /\ White(f, i)
    BY <2>3, GoesBlank DEF Commented
  <2>a. mode' = "block" /\ i' = i + 1 /\ i \in 2..Len(input)
    BY <1>3, <2>1
  <2>5. Behind(f)' /\ Before(f)' /\ Pending(f)' /\ Where(f)'
    <3>1. Behind(f)'
      BY <1>1, <1>2, <1>5, <2>a, <2>2, <2>3, <2>4, SameFile DEF Behind, Cut
    <3>2. Before(f)'
      BY <1>1, <1>2, <1>5, <2>a, <2>2, <2>3, <2>4 DEF Before, Cut
    <3>3. Pending(f)'
      BY <1>1, <1>2, <1>5, <2>a, <2>2, <2>3, <2>4, SameFile DEF Pending, Cut
    <3>4. Where(f)'
      BY <1>1, <1>2, <1>5, <2>a, <2>2, <2>3, <2>4 DEF Where
    <3> QED BY <3>1, <3>2, <3>3, <3>4
  <2> QED BY <2>1, <2>5 DEF Right, Shape
<1> QED BY <1>3, <1>6, <1>7

LEMMA LineRight ==
    ASSUME Pass, NEW f, Labelled(f), TameFor(f), Right(f), InLine
    PROVE  Right(f)'
<1>1. mode = "line" /\ input' = input /\ comma' = comma
  BY DEF InLine
<1>2. /\ Len(input) \in Nat /\ i \in Nat /\ comma \in Nat
      /\ \A p \in 1..Len(input) : p < i /\ p # comma => s[p] = Cleaned(f, p)
      /\ \A p \in 1..Len(input) : p >= i => s[p] = input[p]
      /\ comma # 0 => /\ comma \in 1..Len(input) /\ comma < i
                      /\ s[comma] = "comma" /\ input[comma] = "comma" /\ f[comma] = "plain"
                      /\ \A p \in 1..Len(input) : comma < p /\ p < i => White(f, p)
  BY <1>1, CommentHere DEF Cut
<1>3. i \in 2..(Len(input) + 1) /\ f[i - 1] = "line" /\ Len(s) = Len(input)
  BY <1>1, CommentHere DEF Where, Pass
<1>4. ASSUME i <= Len(input) PROVE f[i] = IF input[i] = "newline" THEN "plain" ELSE "line"
  <2>1. f[i] = Kind(f[i - 1], input[i], Following(input, i))
    BY <1>4, LabelHere
  <2> QED BY <1>3, <2>1 DEF Kind
<1>5. CASE Left /\ s[i] # "newline"
  <2>1. mode' = "line" /\ i' = i + 1 /\ i \in 1..Len(input) /\ f[i] = "line" /\ s' = [s EXCEPT ![i] = Blank]
    BY <1>2, <1>3, <1>4, <1>5 DEF InLine, Left, Here, Go
  <2>2. \A p \in 1..Len(input) : s'[p] = IF p = i THEN Blank ELSE s[p]
    BY <1>3, <2>1, Blanked DEF Pass
  <2>3. Cleaned(f, i) = Blank /\ White(f, i)
    BY <2>1, GoesBlank DEF Commented
  <2>a. mode' = "line" /\ i' = i + 1 /\ i \in 1..Len(input) /\ f[i] = "line"
    BY <2>1
  <2>4. Behind(f)' /\ Before(f)' /\ Pending(f)' /\ Where(f)'
    <3>1. Behind(f)'
      BY <1>1, <1>2, <2>a, <2>2, <2>3, SameFile DEF Behind, Cut
    <3>2. Before(f)'
      BY <1>1, <1>2, <2>a, <2>2, <2>3 DEF Before, Cut
    <3>3. Pending(f)'
      BY <1>1, <1>2, <2>a, <2>2, <2>3, SameFile DEF Pending, Cut
    <3>4. Where(f)'
      BY <1>1, <1>2, <2>a, <2>2, <2>3 DEF Where
    <3> QED BY <3>1, <3>2, <3>3, <3>4
  <2> QED BY <2>1, <2>4 DEF Right, Shape
<1>6. CASE ~(Left /\ s[i] # "newline")
  <2>1. s' = s /\ Return(0)
    BY <1>5, <1>6 DEF InLine
  <2>2. i <= Len(input) => s[i] = input[i] /\ input[i] = "newline" /\ f[i] = "plain"
    BY <1>2, <1>3, <1>4, <1>6 DEF Left
  <2>3. CASE comma = 0
    <3>1. mode' = "text" /\ i' = i
      BY <1>2, <2>1, <2>3 DEF Return, Go
    <3>2. Behind(f)' /\ Before(f)' /\ Pending(f)' /\ Where(f)'
      <4>1. Behind(f)'
        BY <1>1, <1>2, <1>3, <2>1, <2>2, <2>3, <3>1, SameFile DEF Behind, Cut
      <4>2. Before(f)'
        BY <1>1, <1>2, <1>3, <2>1, <2>2, <2>3, <3>1 DEF Before, Cut
      <4>3. Pending(f)'
        BY <1>1, <1>2, <1>3, <2>1, <2>2, <2>3, <3>1, SameFile DEF Pending, Cut
      <4>4. Where(f)'
        BY <1>1, <1>2, <1>3, <2>1, <2>2, <2>3, <3>1 DEF Where
      <4> QED BY <4>1, <4>2, <4>3, <4>4
    <3> QED BY <3>1, <3>2 DEF Right, Shape
  <2>4. CASE comma # 0
    <3>1. mode' = "comma" /\ i' = i + 1
      BY <1>2, <2>1, <2>4 DEF Return, Go
    <3>2. i <= Len(input) => s[i] = Cleaned(f, i) /\ White(f, i)
      BY <2>2, Stays DEF Commented, White
    <3>3. Behind(f)' /\ Before(f)' /\ Pending(f)' /\ Where(f)'
      <4>1. Behind(f)'
        BY <1>1, <1>2, <1>3, <2>1, <2>2, <2>4, <3>1, <3>2, SameFile DEF Behind, Cut
      <4>2. Before(f)'
        BY <1>1, <1>2, <1>3, <2>1, <2>2, <2>4, <3>1, <3>2 DEF Before, Cut
      <4>3. Pending(f)'
        BY <1>1, <1>2, <1>3, <2>1, <2>2, <2>4, <3>1, <3>2, SameFile DEF Pending, Cut
      <4>4. Where(f)'
        BY <1>1, <1>2, <1>3, <2>1, <2>2, <2>4, <3>1, <3>2 DEF Where, Outside
      <4> QED BY <4>1, <4>2, <4>3, <4>4
    <3> QED BY <3>1, <3>3 DEF Right, Shape
  <2> QED BY <2>3, <2>4
<1> QED BY <1>5, <1>6

LEMMA BlockRight ==
    ASSUME Pass, NEW f, Labelled(f), TameFor(f), Right(f), InBlock
    PROVE  Right(f)'
<1>1. mode = "block" /\ input' = input /\ comma' = comma /\ i <= Len(s)
  BY DEF InBlock, Left
<1>2. /\ Len(input) \in Nat /\ i \in Nat /\ comma \in Nat
      /\ \A p \in 1..Len(input) : p < i /\ p # comma => s[p] = Cleaned(f, p)
      /\ \A p \in 1..Len(input) : p >= i => s[p] = input[p]
      /\ comma # 0 => /\ comma \in 1..Len(input) /\ comma < i
                      /\ s[comma] = "comma" /\ input[comma] = "comma" /\ f[comma] = "plain"
                      /\ \A p \in 1..Len(input) : comma < p /\ p < i => White(f, p)
  BY <1>1, CommentHere DEF Cut
<1>3. i \in 2..Len(input) /\ f[i - 1] = "block" /\ Len(s) = Len(input)
  BY <1>1, <1>2, CommentHere DEF Where, Pass
<1>4. f[i] = IF input[i] = "star" /\ Following(input, i) = "slash" THEN "close1" ELSE "block"
  <2>1. f[i] = Kind(f[i - 1], input[i], Following(input, i))
    BY <1>3, LabelHere
  <2> QED BY <1>3, <2>1 DEF Kind
<1>5. input[i] = "star" => f[i] = "close1" /\ Following(input, i) = "slash"
  BY <1>3, <1>4 DEF TameFor
<1>6. s[i] = input[i] /\ White(f, i) /\ Cleaned(f, i) = Blank
  BY <1>2, <1>3, <1>4, GoesBlank DEF Commented
<1>7. CASE input[i] = "star"
  <2>1. i + 1 \in 2..Len(input) /\ input[i + 1] = "slash" /\ s[i + 1] = "slash"
    BY <1>2, <1>3, <1>5, <1>7 DEF Following
  <2>2. s' = [s EXCEPT ![i] = Blank, ![i + 1] = Blank] /\ Return(1)
    BY <1>2, <1>3, <1>6, <1>7, <2>1 DEF InBlock
  <2>3. \A p \in 1..Len(input) : s'[p] = IF p = i \/ p = i + 1 THEN Blank ELSE s[p]
    <3> DEFINE b == [s EXCEPT ![i] = Blank]
    <3>1. b \in Seq(Classes \cup {Blank}) /\ Len(b) = Len(s) /\ \A p \in 1..Len(s) : b[p] = IF p = i THEN Blank ELSE s[p]
      BY <1>3, Blanked DEF Pass
    <3>2. s' = [b EXCEPT ![i + 1] = Blank]
      BY <2>2
    <3> HIDE DEF b
    <3>3. \A p \in 1..Len(b) : s'[p] = IF p = i + 1 THEN Blank ELSE b[p]
      BY <1>3, <2>1, <3>1, <3>2, Blanked
    <3> QED BY <1>3, <3>1, <3>3
  <2>4. f[i + 1] = "close2"
    <3>1. f[i + 1] = Kind(f[i], input[i + 1], Following(input, i + 1))
      BY <1>2, <2>1 DEF Labelled, LabelledTo
    <3> QED BY <1>5, <1>7, <3>1 DEF Kind
  <2>5. White(f, i + 1) /\ Cleaned(f, i + 1) = Blank
    BY <2>4, GoesBlank DEF Commented
  <2>6. CASE comma = 0
    <3>1. mode' = "text" /\ i' = i + 1
      BY <1>2, <2>2, <2>6 DEF Return, Go
    <3>2. Behind(f)' /\ Before(f)' /\ Pending(f)' /\ Where(f)'
      <4>1. Behind(f)'
        BY <1>1, <1>2, <1>3, <1>6, <2>1, <2>3, <2>4, <2>5, <2>6, <3>1, SameFile DEF Behind, Cut
      <4>2. Before(f)'
        BY <1>1, <1>2, <1>3, <1>6, <2>1, <2>3, <2>4, <2>5, <2>6, <3>1 DEF Before, Cut
      <4>3. Pending(f)'
        BY <1>1, <1>2, <1>3, <1>6, <2>1, <2>3, <2>4, <2>5, <2>6, <3>1, SameFile DEF Pending, Cut
      <4>4. Where(f)'
        BY <1>1, <1>2, <1>3, <1>6, <2>1, <2>3, <2>4, <2>5, <2>6, <3>1 DEF Where
      <4> QED BY <4>1, <4>2, <4>3, <4>4
    <3> QED BY <3>1, <3>2 DEF Right, Shape
  <2>7. CASE comma # 0
    <3>1. mode' = "comma" /\ i' = i + 2
      BY <1>2, <2>2, <2>7 DEF Return, Go
    <3>2. Behind(f)' /\ Before(f)' /\ Pending(f)' /\ Where(f)'
      <4>1. Behind(f)'
        BY <1>1, <1>2, <1>3, <1>6, <2>1, <2>3, <2>4, <2>5, <2>7, <3>1, SameFile DEF Behind, Cut
      <4>2. Before(f)'
        BY <1>1, <1>2, <1>3, <1>6, <2>1, <2>3, <2>4, <2>5, <2>7, <3>1 DEF Before, Cut
      <4>3. Pending(f)'
        BY <1>1, <1>2, <1>3, <1>6, <2>1, <2>3, <2>4, <2>5, <2>7, <3>1, SameFile DEF Pending, Cut
      <4>4. Where(f)'
        BY <1>1, <1>2, <1>3, <1>6, <2>1, <2>3, <2>4, <2>5, <2>7, <3>1 DEF Where, Outside
      <4> QED BY <4>1, <4>2, <4>3, <4>4
    <3> QED BY <3>1, <3>2 DEF Right, Shape
  <2> QED BY <2>6, <2>7
<1>8. CASE input[i] # "star"
  <2>1. mode' = "block" /\ i' = i + 1 /\ s' = [s EXCEPT ![i] = Blank] /\ f[i] = "block"
    BY <1>2, <1>3, <1>4, <1>6, <1>8 DEF InBlock, Go
  <2>2. \A p \in 1..Len(input) : s'[p] = IF p = i THEN Blank ELSE s[p]
    BY <1>3, <2>1, Blanked DEF Pass
  <2>a. mode' = "block" /\ i' = i + 1 /\ i \in 2..Len(input) /\ f[i] = "block"
    BY <1>3, <2>1
  <2>3. Behind(f)' /\ Before(f)' /\ Pending(f)' /\ Where(f)'
    <3>1. Behind(f)'
      BY <1>1, <1>2, <1>6, <2>a, <2>2, SameFile DEF Behind, Cut
    <3>2. Before(f)'
      BY <1>1, <1>2, <1>6, <2>a, <2>2 DEF Before, Cut
    <3>3. Pending(f)'
      BY <1>1, <1>2, <1>6, <2>a, <2>2, SameFile DEF Pending, Cut
    <3>4. Where(f)'
      BY <1>1, <1>2, <1>6, <2>a, <2>2 DEF Where
    <3> QED BY <3>1, <3>2, <3>3, <3>4
  <2> QED BY <2>1, <2>3 DEF Right, Shape
<1> QED BY <1>7, <1>8

LEMMA EndRight ==
    ASSUME Pass, NEW f, Labelled(f), TameFor(f), Right(f), End
    PROVE  Right(f)'
<1>1. mode \in {"text", "string", "comma", "block"} /\ i > Len(input) /\ mode' = "done" /\ UNCHANGED <<input, s, i, comma>>
      /\ Shape(f) /\ Len(input) \in Nat /\ i \in Nat /\ comma \in Nat
  BY LenProperties DEF End, Left, Pass, Right
<1>2. \A p \in 1..Len(input) : p # comma => s[p] = Cleaned(f, p)
  BY <1>1 DEF Shape, Behind, Cut
<1>3. ASSUME comma # 0 PROVE s[comma] = Cleaned(f, comma)
  <2>1. mode \in {"comma", "block"} /\ Pending(f)
    BY <1>1, <1>3 DEF Shape, Where
  <2>2. ~Trailing(input, f, comma)
    BY <1>1, <1>3, <2>1, NotTrailing
  <2> QED BY <1>3, <2>1, <2>2 DEF Cleaned, Commented, Pending
<1>4. \A p \in 1..Len(input) : s[p] = Cleaned(f, p)
  BY <1>1, <1>2, <1>3
<1> QED BY <1>1, <1>4, SameFile DEF Right

\* One pass, over a buffer that keeps its length
LEMMA PassSteps ==
    ASSUME Pass, PrepNext
    PROVE  Pass'
<1>1. Len(input) \in Nat /\ Len(s) = Len(input) /\ i \in Nat /\ i >= 1 /\ comma \in Nat /\ s \in Seq(Classes \cup {Blank})
  BY LenProperties DEF Pass
<1> DEFINE Buffers == {q \in Seq(Classes \cup {Blank}) : Len(q) = Len(input)}
<1>2. ASSUME NEW q \in Buffers, NEW n PROVE [q EXCEPT ![n] = Blank] \in Buffers
  <2>1. CASE n \in 1..Len(q)
    BY <2>1, Blanked
  <2>2. CASE n \notin 1..Len(q)
    <3>1. n \notin DOMAIN q /\ q = [p \in DOMAIN q |-> q[p]]
      BY <2>2, LenProperties
    <3>2. [q EXCEPT ![n] = Blank] = q
      BY <3>1
    <3> QED BY <3>2
  <2> QED BY <2>1, <2>2
<1>3. input' = input
  BY DEF PrepNext, Text, InString, InComma, AfterSlash, InLine, InBlock, End, Done, Keep, prepVars
<1>4. i' \in {i, i + 1, i + 2} /\ comma' \in Nat /\ (mode' = "done" => mode = "done" \/ (i > Len(input) /\ i' = i))
  <2>1. CASE Text
    BY <1>1, <2>1 DEF Text, Go
  <2>2. CASE InString \/ InComma
    BY <1>1, <2>2 DEF InString, InComma, Go, Keep
  <2>3. CASE AfterSlash \/ InLine \/ InBlock
    BY <1>1, <2>3 DEF AfterSlash, InLine, InBlock, Go, Return
  <2>4. CASE End \/ Done
    BY <1>1, <2>4 DEF End, Done, Left, prepVars
  <2> QED BY <2>1, <2>2, <2>3, <2>4 DEF PrepNext
<1>5. s' \in Buffers
  <2>1. s \in Buffers
    BY <1>1
  <2>2. ASSUME NEW n, NEW m PROVE [s EXCEPT ![n] = Blank, ![m] = Blank] \in Buffers
    <3>1. PICK b : b = [s EXCEPT ![n] = Blank]
      OBVIOUS
    <3>2. b \in Buffers
      BY <1>2, <2>1, <3>1
    <3>3. [b EXCEPT ![m] = Blank] \in Buffers
      BY <1>2, <3>2
    <3> QED BY <3>1, <3>3
  <2> HIDE DEF Buffers
  <2>3. CASE Text \/ InString \/ End \/ Done
    BY <2>1, <2>3 DEF Text, InString, End, Done, Keep, prepVars
  <2>4. CASE InComma
    BY <1>2, <2>1, <2>4 DEF InComma
  <2>5. CASE AfterSlash
    BY <1>2, <2>1, <2>2, <2>5 DEF AfterSlash
  <2>6. CASE InLine \/ InBlock
    <3>1. s' \in {s, [s EXCEPT ![i] = Blank], [s EXCEPT ![i] = Blank, ![i + 1] = Blank]}
      BY <2>6 DEF InLine, InBlock
    <3>2. [s EXCEPT ![i] = Blank] \in Buffers /\ [s EXCEPT ![i] = Blank, ![i + 1] = Blank] \in Buffers
      BY <1>2, <2>1, <2>2
    <3> QED BY <2>1, <3>1, <3>2
  <2> QED BY <2>3, <2>4, <2>5, <2>6 DEF PrepNext
<1>6. \E k : LabelledTo(k, i' - 1)
  <2>1. \E k : LabelledTo(k, i - 1)
    BY DEF Pass
  <2>2. \E k : LabelledTo(k, i)
    <3>1. i - 1 \in Nat /\ (i - 1) + 1 = i
      BY <1>1
    <3> QED BY <1>1, <2>1, <3>1, LabelNext
  <2>3. \E k : LabelledTo(k, i + 1)
    BY <1>1, <2>2, LabelNext
  <2> QED BY <1>1, <1>4, <2>1, <2>2, <2>3
<1>7. \E k : LabelledTo(k, i - 1)'
  BY <1>3, <1>6 DEF LabelledTo
<1>8. mode' = "done" => i' > Len(input')
  BY <1>1, <1>3, <1>4 DEF Pass
<1> QED BY <1>1, <1>3, <1>4, <1>5, <1>7, <1>8 DEF Pass

LEMMA RightSteps ==
    ASSUME Pass, NEW f, Labelled(f), TameFor(f), Right(f), [PrepNext]_prepVars
    PROVE  Right(f)'
<1>1. CASE UNCHANGED prepVars \/ Done
  <2>1. UNCHANGED <<input, s, i, mode, comma>>
    BY <1>1 DEF Done, prepVars
  <2>2. Cut' = Cut /\ \A p : Cleaned(f, p)' = Cleaned(f, p) /\ White(f, p)' = White(f, p)
    BY <2>1, SameFile DEF Cut
  <2> QED BY <2>1, <2>2 DEF Right, Shape, Behind, Before, Pending, Where
<1> QED BY <1>1, TextRight, StringRight, CommaRight, SlashRight, LineRight, BlockRight, EndRight DEF PrepNext

\* Along the pass, whatever labels the file, once it labels it and finds it tame
Cleaning == \A f : Labelled(f) /\ TameFor(f) => Right(f)

LEMMA CleaningSteps ==
    ASSUME Pass, Cleaning, [PrepNext]_prepVars
    PROVE  Pass' /\ Cleaning'
<1>1. input' = input
  BY DEF PrepNext, Text, InString, InComma, AfterSlash, InLine, InBlock, End, Done, Keep, prepVars
<1>2. Pass'
  BY PassSteps DEF Pass, prepVars, LabelledTo
<1>3. ASSUME NEW f, Labelled(f)', TameFor(f)' PROVE Right(f)'
  <2>1. Labelled(f) /\ TameFor(f)
    BY <1>1, <1>3 DEF Labelled, LabelledTo, TameFor
  <2>2. Right(f)
    BY <2>1 DEF Cleaning
  <2> QED BY <2>1, <2>2, RightSteps
<1>4. Cleaning'
  BY <1>3 DEF Cleaning
<1> QED BY <1>2, <1>4

LEMMA CleaningInit ==
    ASSUME PrepInit
    PROVE  Cleaning
<1>1. s = input /\ i = 1 /\ mode = "text" /\ comma = 0 /\ Len(input) \in Nat
  BY InputsAssumption, LenProperties DEF PrepInit
<1>2. ASSUME NEW f, Labelled(f) PROVE Right(f)
  <2>1. f[i - 1] \in Outside
    BY <1>1, <1>2 DEF Labelled, LabelledTo, Outside
  <2>2. Behind(f) /\ Before(f) /\ Pending(f) /\ Where(f)
    BY <1>1, <2>1 DEF Behind, Before, Pending, Where, Cut
  <2> QED BY <1>1, <2>2 DEF Right, Shape
<1> QED BY <1>2 DEF Cleaning

\* For files of any length: prep goes once from left to right, looks ahead by a
\* character and turns back for a comma only, and what it leaves is the file
\* with the comments and the trailing commas blanked, and nothing else.
THEOREM CleansAlways == PrepSpec => []Cleans
<1>1. ASSUME Pass, Cleaning PROVE Cleans
  <2> SUFFICES ASSUME mode = "done", Tame(input) PROVE s = Clean(input)
    BY DEF Cleans
  <2>1. Len(input) \in Nat /\ Len(s) = Len(input) /\ i > Len(input) /\ i \in Nat /\ s \in Seq(Classes \cup {Blank})
    BY <1>1, LenProperties DEF Pass
  <2>2. PICK k : LabelledTo(k, i - 1)
    BY <1>1 DEF Pass
  <2>3. Labelled(k)
    BY <2>1, <2>2 DEF Labelled, LabelledTo
  <2> DEFINE f == Kinds(input)
  <2>4. Labelled(f)
    BY <2>3, KindsLabel
  <2>5. TameFor(f)
    BY DEF Tame, TameFor
  <2>6. Right(f)
    BY <1>1, <2>4, <2>5 DEF Cleaning
  <2>7. s = [p \in 1..Len(input) |-> s[p]]
    BY <2>1, LenProperties
  <2>8. \A p \in 1..Len(input) : s[p] = Cleaned(f, p)
    BY <2>6 DEF Right
  <2> HIDE DEF f
  <2>9. s = [p \in 1..Len(input) |-> Cleaned(f, p)]
    BY <2>7, <2>8
  <2> QED BY <2>9 DEF Clean, Cleaned, f
<1>2. PrepInit => Pass /\ Cleaning
  BY PassInit, CleaningInit
<1>3. Pass /\ Cleaning /\ [PrepNext]_prepVars => Pass' /\ Cleaning'
  BY CleaningSteps
<1>4. Pass /\ Cleaning => Cleans
  BY <1>1
<1> QED BY <1>2, <1>3, <1>4, PTL DEF PrepSpec
=============================================================================
