--------------------------- MODULE SelectorProofs ---------------------------
(***************************************************************************)
(* Proofs about module Selector, for any nodes and any cores, with a Close  *)
(* at any moment and cores that fail (CoreMayFail unconstrained).           *)
(***************************************************************************)
EXTENDS Selector, TLAPS

\* A goroutine that is about to call a core has one in hand.
InHand ==
    \A n \in Nodes, a \in Actors :
        pc[n][a] \in {"host", "store", "unhost", "unroute", "users"} => picked[n][a] \in Cores

\* Type correctness holds of every step, context which core is in hand.
Typed == TypeOK /\ InHand

LEMMA DecodeType ==
    ASSUME NEW o \in Options, NEW w \in Types \cup {None, Other}
    PROVE  Decode(o, w) \in Options
  <1>1. CASE (IF w = None THEN o.core ELSE w) \in Types
    BY <1>1 DEF Decode, Options
  <1>2. CASE (IF w = None THEN o.core ELSE w) \notin Types
    BY <1>2 DEF Decode, Options
  <1> QED BY <1>1, <1>2

LEMMA TypedInductive ==
    /\ Init => Typed
    /\ Typed /\ [Next]_vars => Typed'
  <1> USE CoresHaveTypes, NoneIsNew
  <1>1. ASSUME Init PROVE Typed
    <2>1. Blank \in Options
      BY DEF Blank, Options
    <2>2. \A n \in Nodes : file[n].core \in Types \cup {None, Other}
      BY <1>1 DEF Init
    <2>3. option \in [Nodes -> Options]
      BY <1>1, <2>1, <2>2, DecodeType DEF Init
    <2> QED BY <1>1, <2>3 DEF Init, Typed, TypeOK, InHand, Actors, Places
  <1>2. ASSUME Typed, UNCHANGED vars PROVE Typed'
    BY <1>2 DEF context, Typed, TypeOK, InHand, vars, actors
  <1>3. ASSUME Typed, NEW n \in Nodes,
               \/ Monitor(n) \/ Closer(n)
        PROVE  Typed'
    <2>1. /\ UNCHANGED <<file, option, hosted, route, picked, served, refused, missed>>
          /\ raced' \in SUBSET Nodes
      BY <1>3 DEF Monitor, Closer, Typed, TypeOK
    <2>2. PICK a \in Actors, place \in {"add", "delete", "call"} : Goto(n, a, place)
      BY <1>3 DEF Monitor, Closer, Actors
    <2> QED BY <1>3, <2>1, <2>2 DEF Typed, TypeOK, InHand, Goto, Actors, Places
  <1>4. ASSUME Typed, NEW n \in Nodes, ChooseCore(n)
        PROVE  Typed'
    <2>1. PICK c \in Matching(n) : picked' = [picked EXCEPT ![n]["monitor"] = c]
                                   /\ option' = IF option[n].core # None THEN option
                                       ELSE LET o == Decode([option[n] EXCEPT !.core = CoreType[c]], file[n].core)
                                            IN  [option EXCEPT ![n] = [o EXCEPT !.raw = FALSE]]
      BY <1>4 DEF ChooseCore
    <2>2. c \in Cores
      BY <1>4 DEF Matching, Typed, TypeOK
    <2>3. option' \in [Nodes -> Options]
      <3>1. option[n] \in Options /\ file[n].core \in Types \cup {None, Other} /\ CoreType[c] \in Types
        BY <1>4, <2>2 DEF Typed, TypeOK
      <3>2. [option[n] EXCEPT !.core = CoreType[c]] \in Options
        BY <3>1 DEF Options
      <3>3. Decode([option[n] EXCEPT !.core = CoreType[c]], file[n].core) \in Options
        BY <3>1, <3>2, DecodeType
      <3> DEFINE o == Decode([option[n] EXCEPT !.core = CoreType[c]], file[n].core)
      <3>4. [o EXCEPT !.raw = FALSE] \in Options
        BY <3>3 DEF Options
      <3> HIDE DEF o
      <3> QED BY <1>4, <2>1, <3>4 DEF Typed, TypeOK, o
    <2> QED BY <1>4, <2>1, <2>2, <2>3 DEF context, Typed, TypeOK, InHand, ChooseCore, Goto, Actors, Places
  <1>5. ASSUME Typed, NEW n \in Nodes,
               RefuseNode(n) \/ StoreRoute(n) \/ LoadCall(n) \/ CallCore(n)
        PROVE  Typed'
    <2>1. CASE RefuseNode(n)
      BY <1>5, <2>1 DEF context, Typed, TypeOK, InHand, RefuseNode, Goto, Actors, Places
    <2>2. CASE StoreRoute(n)
      BY <1>5, <2>2 DEF context, Typed, TypeOK, InHand, StoreRoute, Goto, Actors, Places
    <2>3. CASE LoadCall(n)
      BY <1>5, <2>3 DEF context, Typed, TypeOK, InHand, LoadCall, Goto, Actors, Places
    <2>4. CASE CallCore(n)
      BY <1>5, <2>4 DEF context, Typed, TypeOK, InHand, CallCore, Goto, Actors, Places
    <2> QED BY <1>5, <2>1, <2>2, <2>3, <2>4
  <1>6. ASSUME Typed, NEW n \in Nodes, HostNode(n)
        PROVE  Typed'
    <2>1. hosted' \in [Cores -> SUBSET Nodes]
      <3> DEFINE more == [hosted EXCEPT ![picked[n]["monitor"]] = @ \cup {n}]
      <3>1. more \in [Cores -> SUBSET Nodes]
        BY <1>6 DEF Typed, TypeOK
      <3>2. hosted' = more \/ hosted' = hosted
        BY <1>6 DEF HostNode
      <3> HIDE DEF more
      <3> QED BY <1>6, <3>1, <3>2 DEF Typed, TypeOK
    <2>2. PICK place \in {"store", "failed"} : Goto(n, "monitor", place)
      BY <1>6 DEF context, HostNode
    <2> QED BY <1>6, <2>1, <2>2 DEF context, Typed, TypeOK, InHand, HostNode, Goto, Actors, Places
  <1>7. ASSUME Typed, NEW n \in Nodes, NEW a \in Actors,
               LoadDel(n, a) \/ UnhostNode(n, a) \/ DropRoute(n, a)
        PROVE  Typed'
    <2>1. CASE LoadDel(n, a)
      BY <1>7, <2>1 DEF context, Typed, TypeOK, InHand, LoadDel, Goto, Actors, Places
    <2>2. CASE UnhostNode(n, a)
      BY <1>7, <2>2 DEF context, Typed, TypeOK, InHand, UnhostNode, Goto, Actors, Places
    <2>3. CASE DropRoute(n, a)
      BY <1>7, <2>3 DEF context, Typed, TypeOK, InHand, DropRoute, Goto, Actors, Places
    <2> QED BY <1>7, <2>1, <2>2, <2>3
  <1> QED BY <1>1, <1>2, <1>3, <1>4, <1>5, <1>6, <1>7 DEF Next

\* Whatever the callers do, the state of the selector has its types.
THEOREM TypeCorrect == Spec => []TypeOK
  <1>1. Typed => TypeOK
    BY DEF Typed
  <1> QED BY TypedInductive, <1>1, PTL DEF Spec

-----------------------------------------------------------------------------
\* One home.  Only the monitor adds, and until it does there is nothing of the
\* node on any core; the closer, whatever it has in hand, only removes.

Unhosted == {"off", "add", "host", "unroute"}

HomeInv ==
    /\ OneHome
    /\ \A n \in Nodes : pc[n]["monitor"] \in Unhosted => \A c \in Cores : n \notin hosted[c]

LEMMA HomeInductive ==
    /\ Init => HomeInv
    /\ Typed /\ HomeInv /\ [Next]_vars => HomeInv'
  <1>1. Init => HomeInv
    BY DEF Init, HomeInv, OneHome, Actors
  <1>2. ASSUME Typed, HomeInv, UNCHANGED vars PROVE HomeInv'
    BY <1>2 DEF HomeInv, OneHome, vars, actors
  <1>3. ASSUME Typed, HomeInv, NEW n \in Nodes, UNCHANGED hosted,
               \E a \in Actors, place \in Places :
                  /\ Goto(n, a, place)
                  /\ a = "monitor" /\ place \in Unhosted => pc[n]["monitor"] \in Unhosted
        PROVE  HomeInv'
    BY <1>3 DEF Typed, TypeOK, HomeInv, OneHome, Goto, Actors
  <1>4. ASSUME Typed, HomeInv, NEW n \in Nodes, HostNode(n)
        PROVE  HomeInv'
    <2>1. picked[n]["monitor"] \in Cores /\ \A c \in Cores : n \notin hosted[c]
      BY <1>4 DEF Typed, InHand, HomeInv, HostNode, Actors, Unhosted
    <2>2. PICK home \in Cores : \A c \in Cores :
             hosted'[c] = hosted[c] \/ (c = home /\ hosted'[c] = hosted[c] \cup {n})
      BY <1>4, <2>1 DEF HostNode, Typed, TypeOK
    <2>3. \A m \in Nodes, c \in Cores : m # n => (m \in hosted'[c] <=> m \in hosted[c])
      BY <2>2
    <2>4. \A c \in Cores : n \in hosted'[c] => c = home
      BY <2>1, <2>2
    <2>5. OneHome'
      BY <1>4, <2>3, <2>4 DEF HomeInv, OneHome
    <2>6. \A m \in Nodes : pc'[m]["monitor"] \in Unhosted =>
             m # n /\ pc[m]["monitor"] \in Unhosted
      BY <1>4 DEF Typed, TypeOK, HostNode, Goto, Actors, Unhosted
    <2> QED BY <1>4, <2>3, <2>5, <2>6 DEF HomeInv
  <1>5. ASSUME Typed, HomeInv, NEW n \in Nodes, NEW a \in Actors, UnhostNode(n, a)
        PROVE  HomeInv'
    <2> DEFINE c == picked[n][a]
    <2>1. c \in Cores /\ hosted' = [hosted EXCEPT ![c] = @ \ {n}]
      BY <1>5 DEF Typed, InHand, UnhostNode
    <2>2. OneHome'
      BY <1>5, <2>1 DEF Typed, TypeOK, HomeInv, OneHome
    <2>3. ASSUME NEW m \in Nodes, pc'[m]["monitor"] \in Unhosted, NEW d \in Cores
          PROVE  m \notin hosted'[d]
      <3>1. CASE pc[m]["monitor"] \in Unhosted
        BY <1>5, <2>1, <2>3, <3>1 DEF Typed, TypeOK, HomeInv
      <3>2. CASE pc[m]["monitor"] \notin Unhosted
        <4>1. m = n /\ a = "monitor" /\ n \in hosted[c]
          BY <1>5, <2>3, <3>2 DEF Typed, TypeOK, UnhostNode, Goto, Actors, Unhosted
        <4> QED BY <1>5, <2>1, <4>1 DEF Typed, TypeOK, HomeInv, OneHome
      <3> QED BY <3>1, <3>2
    <2> QED BY <2>2, <2>3 DEF HomeInv
  <1>6. ASSUME Typed, HomeInv, NEW n \in Nodes, Monitor(n) \/ Closer(n)
        PROVE  HomeInv'
    <2>1. UNCHANGED hosted /\ \E a \in Actors, place \in Places :
                  /\ Goto(n, a, place)
                  /\ a = "monitor" /\ place \in Unhosted => pc[n]["monitor"] \in Unhosted
      BY <1>6 DEF Monitor, Closer, Actors, Places, Unhosted
    <2> QED BY <1>3, <1>6, <2>1
  <1>7. ASSUME Typed, HomeInv, NEW n \in Nodes,
               \/ ChooseCore(n) \/ RefuseNode(n) \/ StoreRoute(n) \/ LoadCall(n) \/ CallCore(n)
               \/ \E a \in Actors : LoadDel(n, a) \/ DropRoute(n, a)
        PROVE  HomeInv'
    <2>1. UNCHANGED hosted /\ \E a \in Actors, place \in Places :
                  /\ Goto(n, a, place)
                  /\ a = "monitor" /\ place \in Unhosted => pc[n]["monitor"] \in Unhosted
      <3>1. CASE ChooseCore(n) \/ RefuseNode(n)
        BY <3>1 DEF ChooseCore, RefuseNode, Actors, Places, Unhosted
      <3>2. CASE StoreRoute(n) \/ LoadCall(n) \/ CallCore(n)
        BY <3>2 DEF StoreRoute, LoadCall, CallCore, Actors, Places, Unhosted
      <3>3. ASSUME NEW a \in Actors, LoadDel(n, a) \/ DropRoute(n, a)
            PROVE  UNCHANGED hosted /\ \E b \in Actors, place \in Places :
                      /\ Goto(n, b, place)
                      /\ b = "monitor" /\ place \in Unhosted => pc[n]["monitor"] \in Unhosted
        BY <3>3 DEF LoadDel, DropRoute, Actors, Places, Unhosted
      <3> QED BY <1>7, <3>1, <3>2, <3>3
    <2> QED BY <1>3, <1>7, <2>1
  <1> QED BY <1>1, <1>2, <1>4, <1>5, <1>6, <1>7 DEF Next

\* A node is never on two cores, however the monitor's reloads, a Close at any
\* moment and failing cores overlap.
THEOREM OneHomeAlways == Spec => []OneHome
  <1>1. HomeInv => OneHome
    BY DEF HomeInv
  <1> QED BY TypedInductive, HomeInductive, <1>1, PTL DEF Spec

-----------------------------------------------------------------------------
\* Options.  Once a core has been chosen its type is in the options, decoded,
\* and every later choice is among the cores of that type.

Agrees(n) ==
    /\ option[n].core = None => option[n].raw
    /\ option[n].core # None => option[n].core \in option[n].decoded
    /\ file[n].core # None => option[n].core = file[n].core
    /\ option[n].core # None /\ file[n].name # None => option[n].core = CoreType[file[n].name]

Chosen(n) == option[n].core # None /\ Matching(n) # {}

ChoiceInv ==
    /\ \A n \in Nodes : Clear(n) =>
        /\ Agrees(n)
        /\ pc[n]["monitor"] \in {"host", "store"} \/ n \in served => Chosen(n)
        /\ n \in served => n \notin refused
    /\ \A n \in refused : pc[n]["monitor"] = "failed"
    /\ OptionsFitCore

\* The core taken for a node with clear options, and what is then decoded.
LEMMA ChoiceAgrees ==
    ASSUME Typed, NEW n \in Nodes, Clear(n), Agrees(n), ChooseCore(n)
    PROVE  Agrees(n)' /\ Chosen(n)' /\ CoreType[picked'[n]["monitor"]] \in option'[n].decoded
  <1> USE CoresHaveTypes, NoneIsNew
  <1> DEFINE t == [option[n] EXCEPT !.core = CoreType[picked'[n]["monitor"]]]
             o == Decode(t, file[n].core)
  <1>1. PICK c \in Matching(n) : /\ picked' = [picked EXCEPT ![n]["monitor"] = c]
                                 /\ option' = IF option[n].core # None THEN option
                                       ELSE LET d == Decode([option[n] EXCEPT !.core = CoreType[c]], file[n].core)
                                            IN  [option EXCEPT ![n] = [d EXCEPT !.raw = FALSE]]
    BY DEF ChooseCore
  <1>2. picked'[n]["monitor"] = c /\ c \in Cores /\ CoreType[c] \in Types
    BY <1>1 DEF Matching, Typed, TypeOK, Actors
  <1>3. /\ option[n] \in Options /\ file[n].core \in Types \cup {None} /\ file' = file
        /\ file[n].name \in Cores \cup {None}
    BY DEF context, Typed, TypeOK, Clear, ChooseCore
  <1>4. CASE option[n].core # None
    <2>1. option' = option /\ Matching(n)' = Matching(n)
      BY <1>1, <1>3, <1>4 DEF Matching
    <2>2. CoreType[c] = option[n].core
      BY <1>1, <1>3, <1>4 DEF Agrees, Matching
    <2> QED BY <1>1, <1>2, <1>3, <1>4, <2>1, <2>2 DEF Agrees, Chosen
  <1>5. CASE option[n].core = None
    <2>1. file[n].core = None
      BY <1>3, <1>5 DEF Agrees
    <2>2. t \in Options /\ t.core = CoreType[c] /\ t.core \in Types
      BY <1>2, <1>3 DEF Options
    <2>3. o \in Options /\ o.core = CoreType[c] /\ CoreType[c] \in o.decoded
      BY <2>1, <2>2 DEF Decode, Options
    <2>4. option'[n] = [o EXCEPT !.raw = FALSE]
      BY <1>1, <1>2, <1>5 DEF Typed, TypeOK
    <2>5. option'[n].core = CoreType[c] /\ CoreType[c] \in option'[n].decoded
      <3> HIDE DEF o
      <3> QED BY <2>3, <2>4 DEF Options
    <2>6. file[n].name # None => file[n].name = c
      BY <1>1 DEF Matching
    <2>7. c \in Matching(n)'
      BY <1>2, <1>3, <2>5, <2>6 DEF Matching
    <2> HIDE DEF o, t
    <2> QED BY <1>2, <1>3, <2>1, <2>5, <2>6, <2>7 DEF Agrees, Chosen
  <1> QED BY <1>4, <1>5

LEMMA ChoiceInductive ==
    /\ Init => ChoiceInv
    /\ Typed /\ ChoiceInv /\ [Next]_vars => ChoiceInv'
  <1> USE CoresHaveTypes, NoneIsNew
  <1>1. ASSUME Init PROVE ChoiceInv
    <2>1. ASSUME NEW n \in Nodes, Clear(n) PROVE Agrees(n)
      <3>1. option[n] = Decode(Blank, file[n].core) /\ file[n].core \in Types \cup {None}
            /\ file[n].name \in Cores \cup {None}
        BY <1>1, <2>1 DEF Init, Clear
      <3> QED BY <2>1, <3>1 DEF Decode, Blank, Agrees, Clear
    <2> QED BY <1>1, <2>1 DEF Init, ChoiceInv, OptionsFitCore, Actors
  <1>2. ASSUME Typed, ChoiceInv, UNCHANGED vars PROVE ChoiceInv'
    BY <1>2 DEF context, ChoiceInv, Agrees, Chosen, Matching, Clear, OptionsFitCore, vars, actors
  <1>3. ASSUME Typed, ChoiceInv, NEW n \in Nodes, ChooseCore(n)
        PROVE  ChoiceInv'
    <2>1. \A m \in Nodes : /\ m # n => option'[m] = option[m] /\ picked'[m] = picked[m] /\ pc'[m] = pc[m]
                           /\ file'[m] = file[m] /\ (Clear(m)' <=> Clear(m))
      BY <1>3 DEF context, Typed, TypeOK, ChooseCore, Goto, Clear
    <2>2. ASSUME NEW m \in Nodes, m # n
          PROVE  (Agrees(m)' <=> Agrees(m)) /\ (Chosen(m)' <=> Chosen(m))
      BY <2>1, <2>2 DEF Agrees, Chosen, Matching
    <2>3. Clear(n) => Agrees(n)' /\ Chosen(n)' /\ CoreType[picked'[n]["monitor"]] \in option'[n].decoded
      BY <1>3, ChoiceAgrees DEF ChoiceInv
    <2>4. served' = served /\ refused' = refused /\ n \notin refused
      BY <1>3 DEF ChoiceInv, ChooseCore
    <2>5. OptionsFitCore'
      BY <1>3, <2>1, <2>3 DEF ChoiceInv, OptionsFitCore
    <2>6. \A m \in Nodes : Clear(m)' =>
        /\ Agrees(m)'
        /\ pc'[m]["monitor"] \in {"host", "store"} \/ m \in served' => Chosen(m)'
        /\ m \in served' => m \notin refused'
      BY <1>3, <2>1, <2>2, <2>3, <2>4 DEF ChoiceInv
    <2>7. \A m \in refused' : pc'[m]["monitor"] = "failed"
      BY <1>3, <2>1, <2>4 DEF ChoiceInv, Typed, TypeOK
    <2> QED BY <2>5, <2>6, <2>7 DEF ChoiceInv
  <1>4. ASSUME Typed, ChoiceInv, NEW n \in Nodes, RefuseNode(n)
        PROVE  ChoiceInv'
    <2>1. Clear(n) => n \notin served
      BY <1>4 DEF context, ChoiceInv, Chosen, RefuseNode
    <2> QED BY <1>4, <2>1 DEF context, Typed, TypeOK, ChoiceInv, Agrees, Chosen, Matching, Clear, OptionsFitCore,
               RefuseNode, Goto, Actors
  <1>5. ASSUME Typed, ChoiceInv, NEW n \in Nodes, StoreRoute(n)
        PROVE  ChoiceInv'
    BY <1>5 DEF context, Typed, TypeOK, ChoiceInv, Agrees, Chosen, Matching, Clear, OptionsFitCore,
               StoreRoute, Goto, Actors
  \* The other steps leave the options alone; what they have in hand changes
  \* only at a place that is not "host".
  <1>6. ASSUME Typed, ChoiceInv, NEW n \in Nodes, NEW a \in Actors, NEW place \in Places,
               pc[n][a] # "failed", Goto(n, a, place),
               place \in {"host", "store"} => pc[n]["monitor"] \in {"host", "store"} /\ place # "host",
               UNCHANGED <<file, option, served, refused>>,
               picked' = picked \/ (picked' = [picked EXCEPT ![n][a] = route[n]] /\ pc[n][a] # "host")
        PROVE  ChoiceInv'
    <2>1. \A m \in Nodes : Clear(m)' = Clear(m) /\ Agrees(m)' = Agrees(m) /\ Chosen(m)' = Chosen(m)
      BY <1>6 DEF Agrees, Chosen, Matching, Clear
    <2>2. \A m \in Nodes : pc'[m]["monitor"] \in {"host", "store"} => pc[m]["monitor"] \in {"host", "store"}
      BY <1>6 DEF Typed, TypeOK, Goto, Actors
    <2>3. \A m \in Nodes : pc'[m]["monitor"] = "host" =>
             pc[m]["monitor"] = "host" /\ picked'[m]["monitor"] = picked[m]["monitor"]
      BY <1>6 DEF Typed, TypeOK, Goto, Actors
    <2>4. \A m \in Nodes : pc[m]["monitor"] = "failed" => pc'[m]["monitor"] = "failed"
      BY <1>6 DEF Typed, TypeOK, Goto, Actors
    <2>5. refused \subseteq Nodes
      BY <1>6 DEF Typed, TypeOK
    <2> QED BY <1>6, <2>1, <2>2, <2>3, <2>4, <2>5 DEF ChoiceInv, OptionsFitCore
  <1>7. ASSUME Typed, ChoiceInv, NEW n \in Nodes, HostNode(n) \/ LoadCall(n) \/ CallCore(n)
        PROVE  ChoiceInv'
    <2>1. CASE HostNode(n)
      BY <1>6, <1>7, <2>1 DEF context, HostNode, Actors, Places
    <2>2. CASE LoadCall(n) \/ CallCore(n)
      BY <1>6, <1>7, <2>2 DEF context, LoadCall, CallCore, Actors, Places
    <2> QED BY <1>7, <2>1, <2>2
  <1>8. ASSUME Typed, ChoiceInv, NEW n \in Nodes, NEW a \in Actors,
               LoadDel(n, a) \/ UnhostNode(n, a) \/ DropRoute(n, a)
        PROVE  ChoiceInv'
    BY <1>6, <1>8 DEF context, LoadDel, UnhostNode, DropRoute, Places
  <1>9. ASSUME Typed, ChoiceInv, NEW n \in Nodes, Monitor(n) \/ Closer(n)
        PROVE  ChoiceInv'
    BY <1>6, <1>9 DEF Monitor, Closer, Actors, Places
  <1> QED BY <1>1, <1>2, <1>3, <1>4, <1>5, <1>7, <1>8, <1>9 DEF Next

\* Whatever core the order of the map yields, at the first AddNode or at a
\* reload, it is one that the node's options have been decoded for.
THEOREM OptionsFitCoreAlways == Spec => []OptionsFitCore
  <1>1. ChoiceInv => OptionsFitCore
    BY DEF ChoiceInv
  <1> QED BY TypedInductive, ChoiceInductive, <1>1, PTL DEF Spec

\* A reload does not panic for want of a core or of options: AddNode found
\* them the first time, and finds them again.
THEOREM ReloadFindsCoreAlways == Spec => []ReloadFindsCore
  <1>1. Typed /\ ChoiceInv => ReloadFindsCore
    BY DEF ChoiceInv, ReloadFindsCore, Typed, TypeOK
  <1> QED BY TypedInductive, ChoiceInductive, <1>1, PTL DEF Spec

\* Both: every reload of a node that was served finds it a core it fits.
THEOREM NodeFindsCoreAlways == Spec => []NodeFindsCore
<1> QED BY OptionsFitCoreAlways, ReloadFindsCoreAlways, PTL DEF NodeFindsCore
-----------------------------------------------------------------------------
\* The route of a node whose Close has not met its monitor at work: while one
\* of the two acts, the other rests.

Routed(n) == route[n] # None /\ n \in hosted[route[n]]
Nowhere(n) == \A c \in Cores : n \notin hosted[c]

MonitorAt(n) ==
    /\ pc[n]["monitor"] \in {"idle", "call", "users", "delete", "unhost"} /\ pc[n]["closer"] = "off" => Routed(n)
    /\ pc[n]["monitor"] \in {"users", "unhost"} => picked[n]["monitor"] = route[n]
    /\ pc[n]["monitor"] = "store" => n \in hosted[picked[n]["monitor"]]

CloserAt(n) ==
    /\ pc[n]["closer"] # "off" => pc[n]["monitor"] = "idle"
    /\ pc[n]["closer"] \in {"delete", "unhost"} => Routed(n)
    /\ pc[n]["closer"] = "unhost" => picked[n]["closer"] = route[n]
    /\ pc[n]["closer"] \in {"unroute", "closed"} => Nowhere(n)
    /\ pc[n]["closer"] = "closed" => route[n] = None
    /\ pc[n]["closer"] # "failed"

RouteAt(n) == MonitorAt(n) /\ CloserAt(n)

RouteInv == missed \subseteq raced /\ \A n \in Nodes \ raced : RouteAt(n)

\* What a step does for one node it does for no other.
LEMMA OthersStay ==
    ASSUME Typed, NEW n \in Nodes, NEW m \in Nodes, m # n,
           \/ Monitor(n) \/ Closer(n)
           \/ ChooseCore(n) \/ RefuseNode(n) \/ HostNode(n) \/ StoreRoute(n)
           \/ \E a \in Actors : LoadDel(n, a) \/ UnhostNode(n, a) \/ DropRoute(n, a)
           \/ LoadCall(n) \/ CallCore(n),
           RouteAt(m)
    PROVE  RouteAt(m)'
<1>1. pc'[m] = pc[m] /\ picked'[m] = picked[m] /\ route'[m] = route[m]
  <2>1. pc' = pc \/ \E a \in Actors, place \in Places : pc' = [pc EXCEPT ![n][a] = place]
    BY DEF Monitor, Closer, ChooseCore, RefuseNode, HostNode, StoreRoute, LoadDel, UnhostNode, DropRoute,
           LoadCall, CallCore, Goto, Actors, Places
  <2>2. picked' = picked \/ \E a \in Actors, c \in Cores \cup {None} : picked' = [picked EXCEPT ![n][a] = c]
    BY DEF Monitor, Closer, ChooseCore, RefuseNode, HostNode, StoreRoute, LoadDel, UnhostNode, DropRoute,
           LoadCall, CallCore, Actors, Matching, Typed, TypeOK
  <2>3. route' = route \/ \E c \in Cores \cup {None} : route' = [route EXCEPT ![n] = c]
    BY DEF Monitor, Closer, ChooseCore, RefuseNode, HostNode, StoreRoute, LoadDel, UnhostNode, DropRoute,
           LoadCall, CallCore, Actors, Typed, TypeOK
  <2> QED BY <2>1, <2>2, <2>3 DEF Typed, TypeOK
<1>2. \A c \in Cores : m \in hosted'[c] <=> m \in hosted[c]
  <2>1. \/ hosted' = hosted
        \/ \E c \in Cores : hosted' = [hosted EXCEPT ![c] = @ \cup {n}] \/ hosted' = [hosted EXCEPT ![c] = @ \ {n}]
    BY DEF Monitor, Closer, ChooseCore, RefuseNode, HostNode, StoreRoute, LoadDel, UnhostNode, DropRoute,
           LoadCall, CallCore, Typed, InHand, Actors
  <2> QED BY <2>1 DEF Typed, TypeOK
<1>3. \A a \in Actors : picked[m][a] \in Cores \cup {None}
  BY DEF Typed, TypeOK
<1>4. route[m] \in Cores \cup {None} /\ (pc[m]["monitor"] = "store" => picked[m]["monitor"] \in Cores)
  BY DEF Typed, TypeOK, InHand, Actors
<1> QED BY <1>1, <1>2, <1>4 DEF RouteAt, MonitorAt, CloserAt, Routed, Nowhere

\* The monitor's steps; while it is not idle the closer is off.
LEMMA MonitorRoutes ==
    ASSUME Typed, HomeInv, NEW n \in Nodes, RouteAt(n), n \notin raced',
           \/ Monitor(n) \/ ChooseCore(n) \/ RefuseNode(n) \/ HostNode(n) \/ StoreRoute(n)
           \/ LoadDel(n, "monitor") \/ UnhostNode(n, "monitor") \/ DropRoute(n, "monitor")
           \/ LoadCall(n)
    PROVE  RouteAt(n)'
<1>1. pc[n]["closer"] = "off" /\ pc'[n]["closer"] = "off"
  <2>1. pc[n]["monitor"] # "idle" \/ pc[n]["closer"] = "off"
    BY DEF Monitor, ChooseCore, RefuseNode, HostNode, StoreRoute, LoadDel, UnhostNode, DropRoute, LoadCall,
           Typed, TypeOK
  <2>2. \E place \in Places : pc' = [pc EXCEPT ![n]["monitor"] = place]
    BY DEF Monitor, ChooseCore, RefuseNode, HostNode, StoreRoute, LoadDel, UnhostNode, DropRoute, LoadCall, Goto, Places
  <2> QED BY <2>1, <2>2 DEF RouteAt, CloserAt, Typed, TypeOK, Actors
<1>2. CloserAt(n)'
  BY <1>1 DEF CloserAt
<1>3. /\ pc \in [Nodes -> [Actors -> Places]] /\ picked \in [Nodes -> [Actors -> Cores \cup {None}]]
      /\ route \in [Nodes -> Cores \cup {None}] /\ hosted \in [Cores -> SUBSET Nodes] /\ "monitor" \in Actors
  BY DEF Typed, TypeOK, Actors
<1>4. MonitorAt(n)
  BY DEF RouteAt
<1>5. CASE Monitor(n) \/ ChooseCore(n) \/ RefuseNode(n)
  <2>1. UNCHANGED <<hosted, route>> /\ pc'[n]["monitor"] \in {"add", "delete", "call", "host", "failed"}
        /\ (pc'[n]["monitor"] \in {"delete", "call"} => pc[n]["monitor"] = "idle")
    BY <1>3, <1>5 DEF Monitor, ChooseCore, RefuseNode, Goto
  <2>2. MonitorAt(n)'
    BY <1>1, <1>4, <2>1 DEF MonitorAt, Routed
  <2> QED BY <1>2, <2>2 DEF RouteAt
<1>6. CASE HostNode(n)
  <2>1. picked[n]["monitor"] \in Cores /\ picked' = picked
    BY <1>3, <1>6 DEF HostNode, Typed, InHand
  <2>2. pc'[n]["monitor"] \in {"store", "failed"}
        /\ (pc'[n]["monitor"] = "store" => hosted' = [hosted EXCEPT ![picked[n]["monitor"]] = @ \cup {n}])
    BY <1>3, <1>6 DEF HostNode, Goto
  <2>3. MonitorAt(n)'
    BY <1>3, <2>1, <2>2 DEF MonitorAt
  <2> QED BY <1>2, <2>3 DEF RouteAt
<1>7. CASE StoreRoute(n)
  <2>1. picked[n]["monitor"] \in Cores /\ pc'[n]["monitor"] = "idle" /\ route'[n] = picked[n]["monitor"]
        /\ n \in hosted'[picked[n]["monitor"]]
    BY <1>3, <1>4, <1>7 DEF StoreRoute, Goto, Typed, InHand, MonitorAt
  <2>2. MonitorAt(n)'
    BY <2>1, NoneIsNew DEF MonitorAt, Routed
  <2> QED BY <1>2, <2>2 DEF RouteAt
<1>8. CASE LoadDel(n, "monitor") \/ LoadCall(n)
  <2>1. /\ UNCHANGED <<hosted, route>> /\ Routed(n) /\ picked'[n]["monitor"] = route[n]
        /\ pc'[n]["monitor"] \in {"unhost", "users"}
    BY <1>1, <1>3, <1>4, <1>8 DEF LoadDel, LoadCall, Goto, MonitorAt, Routed
  <2>2. MonitorAt(n)'
    BY <2>1 DEF MonitorAt, Routed
  <2> QED BY <1>2, <2>2 DEF RouteAt
<1>9. CASE UnhostNode(n, "monitor") \/ DropRoute(n, "monitor")
  <2>1. pc'[n]["monitor"] \in {"unroute", "failed", "add"}
    BY <1>3, <1>9 DEF UnhostNode, DropRoute, Goto
  <2>2. MonitorAt(n)'
    BY <2>1 DEF MonitorAt
  <2> QED BY <1>2, <2>2 DEF RouteAt
<1> QED BY <1>5, <1>6, <1>7, <1>8, <1>9

\* A call for the node's users meets the core that has it.
LEMMA CallRoutes ==
    ASSUME Typed, NEW n \in Nodes, RouteAt(n), CallCore(n)
    PROVE  RouteAt(n)' /\ missed' = missed
<1>1. pc[n]["monitor"] = "users" /\ pc[n]["closer"] = "off"
  BY DEF CallCore, RouteAt, CloserAt
<1>2. Routed(n) /\ picked[n]["monitor"] = route[n]
  BY <1>1 DEF RouteAt, MonitorAt
<1>3. missed' = missed
  BY <1>2 DEF CallCore, Routed
<1>4. UNCHANGED <<hosted, route, picked>> /\ pc'[n]["monitor"] = "idle" /\ pc'[n]["closer"] = "off"
  BY <1>1 DEF CallCore, Goto, Typed, TypeOK, Actors
<1>5. RouteAt(n)'
  BY <1>2, <1>4 DEF RouteAt, MonitorAt, CloserAt, Routed
<1> QED BY <1>3, <1>5

\* The closer's steps, while the monitor rests
LEMMA CloserRoutes ==
    ASSUME Typed, HomeInv, NEW n \in Nodes, RouteAt(n), n \notin raced',
           Closer(n) \/ LoadDel(n, "closer") \/ UnhostNode(n, "closer") \/ DropRoute(n, "closer")
    PROVE  RouteAt(n)'
<1>1. pc[n]["monitor"] = "idle"
  BY DEF Closer, LoadDel, UnhostNode, DropRoute, RouteAt, CloserAt, Typed, TypeOK
<1>2. /\ pc \in [Nodes -> [Actors -> Places]] /\ picked \in [Nodes -> [Actors -> Cores \cup {None}]]
      /\ route \in [Nodes -> Cores \cup {None}] /\ hosted \in [Cores -> SUBSET Nodes]
      /\ "closer" \in Actors /\ "monitor" \in Actors
  BY DEF Typed, TypeOK, Actors
<1>3. pc'[n]["monitor"] = "idle" /\ pc'[n]["closer"] # "off"
  BY <1>1, <1>2 DEF Closer, LoadDel, UnhostNode, DropRoute, Goto
<1>4. MonitorAt(n)'
  BY <1>3 DEF MonitorAt
<1>5. CASE Closer(n) \/ LoadDel(n, "closer")
  <2>1. Routed(n) /\ UNCHANGED <<hosted, route>>
    BY <1>1, <1>5 DEF Closer, LoadDel, RouteAt, MonitorAt, CloserAt
  <2>2. pc'[n]["closer"] = "delete" \/ (pc'[n]["closer"] = "unhost" /\ picked'[n]["closer"] = route[n])
    BY <1>2, <1>5, <2>1 DEF Closer, LoadDel, Goto, Routed
  <2>3. CloserAt(n)'
    BY <1>3, <2>1, <2>2 DEF CloserAt, Routed
  <2> QED BY <1>4, <2>3 DEF RouteAt
<1>6. CASE UnhostNode(n, "closer")
  <2>1. Routed(n) /\ picked[n]["closer"] = route[n] /\ route[n] \in Cores
    BY <1>2, <1>6 DEF UnhostNode, RouteAt, CloserAt, Routed
  <2>2. hosted' = [hosted EXCEPT ![route[n]] = @ \ {n}] /\ pc'[n]["closer"] = "unroute"
    BY <1>2, <1>6, <2>1 DEF UnhostNode, Goto, Routed
  <2>3. Nowhere(n)'
    BY <1>2, <2>1, <2>2 DEF HomeInv, OneHome, Nowhere, Routed
  <2>4. CloserAt(n)'
    BY <1>3, <2>2, <2>3 DEF CloserAt
  <2> QED BY <1>4, <2>4 DEF RouteAt
<1>7. CASE DropRoute(n, "closer")
  <2>1. pc'[n]["closer"] = "closed" /\ route'[n] = None /\ hosted' = hosted /\ Nowhere(n)
    BY <1>2, <1>7 DEF DropRoute, Goto, RouteAt, CloserAt
  <2>2. CloserAt(n)'
    BY <1>3, <2>1 DEF CloserAt, Nowhere
  <2> QED BY <1>4, <2>2 DEF RouteAt
<1> QED BY <1>5, <1>6, <1>7

\* A node whose Close has not met its monitor at work is found by its route
\* while it is served, is gone from selector and cores once closed, and no call
\* for it has missed its core, whatever the Close of any other node has met.
THEOREM RouteFindsNodeAlways == Spec => []RouteFindsNode
<1>1. Init => RouteInv
  BY DEF Init, RouteInv, RouteAt, MonitorAt, CloserAt, Actors
<1>2. Typed /\ HomeInv /\ RouteInv /\ [Next]_vars => RouteInv'
  <2> SUFFICES ASSUME Typed, HomeInv, RouteInv, [Next]_vars PROVE RouteInv'
    OBVIOUS
  <2>1. CASE UNCHANGED vars
    BY <2>1 DEF vars, context, actors, RouteInv, RouteAt, MonitorAt, CloserAt, Routed, Nowhere
  <2>2. ASSUME NEW n \in Nodes,
               \/ Monitor(n) \/ Closer(n)
               \/ ChooseCore(n) \/ RefuseNode(n) \/ HostNode(n) \/ StoreRoute(n)
               \/ \E a \in Actors : LoadDel(n, a) \/ UnhostNode(n, a) \/ DropRoute(n, a)
               \/ LoadCall(n) \/ CallCore(n)
        PROVE  RouteInv'
    <3>1. raced \subseteq raced'
      BY <2>2 DEF Monitor, Closer, ChooseCore, RefuseNode, HostNode, StoreRoute, LoadDel, UnhostNode, DropRoute,
                  LoadCall, CallCore, context
    <3>2. missed \subseteq raced /\ \A m \in Nodes \ raced : RouteAt(m)
      BY DEF RouteInv
    <3>3. \A m \in Nodes \ raced' : m # n => RouteAt(m)'
      BY <2>2, <3>1, <3>2, OthersStay
    <3>4. n \notin raced' => RouteAt(n)'
      <4> SUFFICES ASSUME n \notin raced' PROVE RouteAt(n)'
        OBVIOUS
      <4>1. RouteAt(n)
        BY <3>1, <3>2
      <4> QED BY <2>2, <4>1, MonitorRoutes, CallRoutes, CloserRoutes DEF Actors
    <3>5. missed' \subseteq raced'
      <4>1. CASE CallCore(n) /\ n \notin raced
        BY <3>1, <3>2, <4>1, CallRoutes
      <4>2. CASE CallCore(n) /\ n \in raced
        BY <3>1, <3>2, <4>2 DEF CallCore
      <4>3. CASE ~CallCore(n)
        <5>1. missed' = missed
          BY <2>2, <4>3 DEF Monitor, Closer, ChooseCore, RefuseNode, HostNode, StoreRoute, LoadDel, UnhostNode,
                            DropRoute, LoadCall
        <5> QED BY <3>1, <3>2, <5>1
      <4> QED BY <4>1, <4>2, <4>3
    <3> QED BY <3>3, <3>4, <3>5 DEF RouteInv
  <2> QED BY <2>1, <2>2 DEF Next
<1>3. Typed /\ RouteInv => RouteFindsNode
  BY DEF RouteInv, RouteAt, MonitorAt, CloserAt, Routed, Nowhere, RouteFindsNode
<1> QED BY <1>1, <1>2, <1>3, TypedInductive, HomeInductive, PTL DEF Spec
=============================================================================
