------------------------------ MODULE Selector ------------------------------
(***************************************************************************)
(* core.Selector: several cores behind the interface of one.  AddNode picks *)
(* a core, by name or by what it supports, and remembers the route of the   *)
(* tag; all other calls follow the route.  What AddNode picks it writes     *)
(* back into the node's options, whose core-specific part is decoded only   *)
(* then, and a reload of the node calls AddNode with these options again.   *)
(*                                                                          *)
(* A node is one controller: its monitor adds, reloads and edits it, its    *)
(* closer is the config watcher's call of Controller.Close.  Tags differ.   *)
(* Starting and closing the cores is module Server's.                       *)
(***************************************************************************)
EXTENDS Naturals

CONSTANTS
    Nodes, Cores,
    CoreType,     \* the type of each core
    None, Other,  \* an option that is not given; a name or type that no core has
    CoreMayFail   \* whether a core's AddNode may fail

Types == {"xray", "sing", "hysteria2"}
ASSUME CoresHaveTypes == CoreType \in [Cores -> Types]
ASSUME NoneIsNew == None \notin Cores \cup Types \cup {Other} /\ Other \notin Cores \cup Types

\* A protocol of each kind: served by xray and sing, by sing and hysteria2
Kinds == {"vless", "hysteria2"}
Protocols(t) == CASE t = "xray" -> {"vless"} [] t = "sing" -> Kinds [] t = "hysteria2" -> {"hysteria2"}

VARIABLES
    file,       \* of each node: its protocol, and Core and CoreName as written
    option,     \* Options: Core, whether RawOptions is kept, what has been decoded
    hosted,     \* the nodes each core has
    route,      \* Selector.nodes
    pc, picked, \* of each node's two goroutines: place, and the core in hand
    served,     \* nodes that have been served
    refused,    \* nodes for which AddNode found no core or no options
    missed,     \* nodes for which a core without the node was called
    raced       \* nodes whose Close and monitor have been at work at once

context == <<file, raced>>
actors == <<pc, picked>>
vars == <<context, option, hosted, route, actors, served, refused, missed>>

Actors == {"monitor", "closer"}
Options == [core : Types \cup {None}, raw : BOOLEAN, decoded : SUBSET Types]

\* Mutant: an unknown Core stays in the options.
Decode_KeepsUnknown(o, written) ==
    LET c == IF written = None THEN o.core ELSE written
    IN  IF c \in Types THEN [o EXCEPT !.core = c, !.decoded = @ \cup {c}]
        ELSE [o EXCEPT !.core = c, !.raw = TRUE]

\* Options.UnmarshalJSON: `written` replaces Core if it is there.  An unknown
\* Core counts as none, and the text is kept for AddNode.
Decode(o, written) ==
    LET c == IF written = None THEN o.core ELSE written
    IN  IF c \in Types THEN [o EXCEPT !.core = c, !.decoded = @ \cup {c}]
        ELSE [o EXCEPT !.core = None, !.raw = TRUE]

Blank == [core |-> None, raw |-> FALSE, decoded |-> {}]

Init ==
    /\ file \in [Nodes -> [kind : Kinds, core : Types \cup {None, Other}, name : Cores \cup {None, Other}]]
    /\ option = [n \in Nodes |-> Decode(Blank, file[n].core)]
    /\ hosted = [c \in Cores |-> {}] /\ route = [n \in Nodes |-> None]
    /\ pc = [n \in Nodes |-> [a \in Actors |-> "off"]]
    /\ picked = [n \in Nodes |-> [a \in Actors |-> None]]
    /\ served = {} /\ refused = {} /\ missed = {} /\ raced = {}

Goto(n, a, place) == pc' = [pc EXCEPT ![n][a] = place]

-----------------------------------------------------------------------------
\* AddNode

\* The loop over the map takes the last core that matches: any of them.
Matching(n) ==
    LET f == file[n] IN
    IF f.name # None THEN {f.name} \cap Cores
    ELSE IF option[n].core = None THEN {c \in Cores : f.kind \in Protocols(CoreType[c])}
    ELSE {c \in Cores : CoreType[c] = option[n].core}

\* Mutant: the choice is not written back although the text is dropped.
ChooseCore_DropsText(n) ==
    /\ pc[n]["monitor"] = "add"
    /\ option[n].core # None \/ option[n].raw
    /\ \E c \in Matching(n) :
        /\ picked' = [picked EXCEPT ![n]["monitor"] = c]
        /\ option' = [option EXCEPT ![n].raw = FALSE, ![n].decoded = @ \cup {CoreType[c]}]
    /\ Goto(n, "monitor", "host")
    /\ UNCHANGED <<context, hosted, route, served, refused, missed>>

\* Without Core the type picked becomes the option, and the text is decoded
\* for it, once.
ChooseCore(n) ==
    /\ pc[n]["monitor"] = "add"
    /\ option[n].core # None \/ option[n].raw
    /\ \E c \in Matching(n) :
        /\ picked' = [picked EXCEPT ![n]["monitor"] = c]
        /\ option' = IF option[n].core # None THEN option
                     ELSE LET o == Decode([option[n] EXCEPT !.core = CoreType[c]], file[n].core)
                          IN  [option EXCEPT ![n] = [o EXCEPT !.raw = FALSE]]
    /\ Goto(n, "monitor", "host")
    /\ UNCHANGED <<context, hosted, route, served, refused, missed>>

\* No core matches, or there is no text to decode: the controller does not
\* start, or its reload panics.
RefuseNode(n) ==
    /\ pc[n]["monitor"] = "add"
    /\ Matching(n) = {} \/ (option[n].core = None /\ ~option[n].raw)
    /\ refused' = refused \cup {n}
    /\ Goto(n, "monitor", "failed")
    /\ UNCHANGED <<context, option, hosted, route, picked, served, missed>>

\* The core's AddNode; a failing one may have left the inbound behind.
HostNode(n) ==
    /\ pc[n]["monitor"] = "host"
    /\ \/ Goto(n, "monitor", "store") /\ hosted' = [hosted EXCEPT ![picked[n]["monitor"]] = @ \cup {n}]
       \/ /\ CoreMayFail /\ Goto(n, "monitor", "failed")
          /\ hosted' \in {hosted, [hosted EXCEPT ![picked[n]["monitor"]] = @ \cup {n}]}
    /\ UNCHANGED <<context, option, route, picked, served, refused, missed>>

\* Mutant: what is stored is the last core of the loop, not the one chosen.
StoreRoute_LoopVariable(n) ==
    /\ pc[n]["monitor"] = "store"
    /\ \E c \in Matching(n) : route' = [route EXCEPT ![n] = c]
    /\ served' = served \cup {n}
    /\ Goto(n, "monitor", "idle")
    /\ UNCHANGED <<context, option, hosted, picked, refused, missed>>

StoreRoute(n) ==
    /\ pc[n]["monitor"] = "store"
    /\ route' = [route EXCEPT ![n] = picked[n]["monitor"]]
    /\ served' = served \cup {n}
    /\ Goto(n, "monitor", "idle")
    /\ UNCHANGED <<context, option, hosted, picked, refused, missed>>

-----------------------------------------------------------------------------
\* DelNode, by either goroutine

\* nodes.Load; without a route the call fails and the caller panics.
LoadDel(n, a) ==
    /\ pc[n][a] = "delete"
    /\ picked' = [picked EXCEPT ![n][a] = route[n]]
    /\ Goto(n, a, IF route[n] = None THEN "failed" ELSE "unhost")
    /\ UNCHANGED <<context, option, hosted, route, served, refused, missed>>

\* Mutant: the core is not told.
UnhostNode_Skipped(n, a) ==
    /\ pc[n][a] = "unhost" /\ Goto(n, a, "unroute")
    /\ UNCHANGED <<context, option, hosted, route, picked, served, refused, missed>>

UnhostNode(n, a) ==
    /\ pc[n][a] = "unhost"
    /\ LET c == picked[n][a]
       IN  /\ Goto(n, a, IF n \in hosted[c] THEN "unroute" ELSE "failed")
           /\ hosted' = [hosted EXCEPT ![c] = @ \ {n}]
    /\ UNCHANGED <<context, option, route, picked, served, refused, missed>>

\* nodes.Delete; the monitor goes on to add the node, the closer is done.
DropRoute(n, a) ==
    /\ pc[n][a] = "unroute"
    /\ route' = [route EXCEPT ![n] = None]
    /\ Goto(n, a, IF a = "monitor" THEN "add" ELSE "closed")
    /\ UNCHANGED <<context, option, hosted, picked, served, refused, missed>>

-----------------------------------------------------------------------------
\* AddUsers and DelUsers: nodes.Load, then the core's method

LoadCall(n) ==
    /\ pc[n]["monitor"] = "call"
    /\ picked' = [picked EXCEPT ![n]["monitor"] = route[n]]
    /\ Goto(n, "monitor", IF route[n] = None THEN "idle" ELSE "users")
    /\ UNCHANGED <<context, option, hosted, route, served, refused, missed>>

CallCore(n) ==
    /\ pc[n]["monitor"] = "users"
    /\ LET c == picked[n]["monitor"]
       IN  missed' = IF n \in hosted[c] THEN missed ELSE missed \cup {n}
    /\ Goto(n, "monitor", "idle")
    /\ UNCHANGED <<context, option, hosted, route, picked, served, refused>>

-----------------------------------------------------------------------------
\* The callers

\* Controller.Start; then, at each poll, a reload or a change of users.  Close
\* does not wait for a poll, and does not keep the next from starting.
Monitor(n) ==
    /\ \/ pc[n]["monitor"] = "off" /\ Goto(n, "monitor", "add")
       \/ pc[n]["monitor"] = "idle" /\ \E step \in {"delete", "call"} : Goto(n, "monitor", step)
    /\ raced' = IF pc[n]["closer"] = "off" THEN raced ELSE raced \cup {n}
    /\ UNCHANGED <<file, option, hosted, route, picked, served, refused, missed>>

\* Node.Close, for a controller that has started; a monitor that has failed
\* since then has panicked.
Closer(n) ==
    /\ n \in served /\ pc[n]["closer"] = "off" /\ pc[n]["monitor"] # "failed"
    /\ Goto(n, "closer", "delete")
    /\ raced' = IF pc[n]["monitor"] = "idle" THEN raced ELSE raced \cup {n}
    /\ UNCHANGED <<file, option, hosted, route, picked, served, refused, missed>>

Next ==
    \E n \in Nodes :
        \/ Monitor(n) \/ Closer(n)
        \/ ChooseCore(n) \/ RefuseNode(n) \/ HostNode(n) \/ StoreRoute(n)
        \/ \E a \in Actors : LoadDel(n, a) \/ UnhostNode(n, a) \/ DropRoute(n, a)
        \/ LoadCall(n) \/ CallCore(n)

Spec == Init /\ [][Next]_vars

-----------------------------------------------------------------------------
\* Properties

Places == {"off", "add", "host", "store", "idle", "delete", "unhost", "unroute",
           "call", "users", "closed", "failed"}

TypeOK ==
    /\ file \in [Nodes -> [kind : Kinds, core : Types \cup {None, Other}, name : Cores \cup {None, Other}]]
    /\ option \in [Nodes -> Options]
    /\ hosted \in [Cores -> SUBSET Nodes] /\ route \in [Nodes -> Cores \cup {None}]
    /\ pc \in [Nodes -> [Actors -> Places]] /\ picked \in [Nodes -> [Actors -> Cores \cup {None}]]
    /\ served \in SUBSET Nodes /\ refused \in SUBSET Nodes /\ missed \in SUBSET Nodes
    /\ raced \in SUBSET Nodes

\* A node is on one core at most: whatever core a reload picks, the node has
\* left the one before, and DelNode on the route removes all there is of it.
OneHome == \A n \in Nodes : \A c, d \in Cores : n \in hosted[c] /\ n \in hosted[d] => c = d

\* Options that a careful operator writes: Core is a type or absent, and does
\* not contradict CoreName.
Clear(n) ==
    /\ Other \notin {file[n].core, file[n].name}
    /\ file[n].core # None /\ file[n].name # None => file[n].core = CoreType[file[n].name]

\* The core that is given a node finds the options of its type decoded (xray
\* and sing dereference them), though which core that is may depend on the
\* order of a map, anew at each reload.
OptionsFitCore ==
    \A n \in Nodes : pc[n]["monitor"] = "host" /\ Clear(n) =>
        CoreType[picked[n]["monitor"]] \in option[n].decoded

\* A node that could be served once can be reloaded: AddNode, which panics in
\* a reload, finds a core and options again.
ReloadFindsCore == \A n \in served : Clear(n) => n \notin refused

\* However often a node is reloaded, it finds a core whose options it has.
NodeFindsCore == OptionsFitCore /\ ReloadFindsCore

\* Only a Close that meets the node's own monitor at work, which nothing keeps
\* it from, does harm.  For any other node, whatever is going on at the rest:
\* the route of a node that is served leads to the core that has it, Close
\* finds it there and leaves nothing routed or hosted, and no call for its
\* users meets a core without it (hysteria2 dereferences the node's logger:
\* core/hy2/user.go:48).
RouteFindsNode ==
    /\ missed \subseteq raced
    /\ \A n \in Nodes \ raced :
        /\ pc[n]["monitor"] \in {"idle", "call", "users"} /\ pc[n]["closer"] = "off" =>
              route[n] # None /\ n \in hosted[route[n]]
        /\ pc[n]["closer"] # "failed"
        /\ pc[n]["closer"] = "closed" => route[n] = None /\ \A c \in Cores : n \notin hosted[c]
=============================================================================
