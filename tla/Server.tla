------------------------------- MODULE Server -------------------------------
(***************************************************************************)
(* cmd/server.go with the config watcher: an edit of the config file makes  *)
(* the watcher launch a goroutine that sleeps, reads the file, closes all   *)
(* nodes and the core, and builds them again from what it has read.         *)
(*                                                                          *)
(* A core is named by the reload that made it, 0 being the first; so is the *)
(* slice of controllers that a Node.Start makes.  A controller is its tag,  *)
(* the core it was given and the reload that made it (module Controller has *)
(* the rest).  The module starts when the server waits for its exit signal. *)
(***************************************************************************)
EXTENDS Naturals, Sequences, FiniteSets, Functions

CONSTANTS
    Tags,
    Broken,     \* a file that cannot be decoded
    Regimes,    \* the circumstances considered; each is a record of
                \*   contents: what the config file may hold: sequences of tags, or Broken
                \*   mayFail: what may fail in a reload: "close", "core", "panel", "users"
                \*   paced: whether edits are more than ten seconds apart
                \*   overlap: whether a reload may still run when the next is launched
                \*   edits: bound
    None,
    MaxEdits    \* bound

ASSUME RegimesAssumption ==
    \A r \in Regimes : \A f \in r.contents \ {Broken} : f \in Seq(Tags)
ASSUME NoneAssumption == None \notin Nat
ASSUME EditsAssumption == MaxEdits \in Nat

VARIABLES
    regime,        \* the circumstances of this behaviour, which do not change
    file, edits,   \* the config file
    conf,          \* *p: what was decoded last; <<>> is conf.New()
    window,        \* less than ten seconds since pre
    vc,            \* the core that the server holds, or None (nil)
    served,        \* of each core: the tags it serves
    slices,        \* the slice of each Node.Start that has made one
    controllers,   \* n.controllers: whose slice, or None (nil)
    running,       \* the controllers whose tasks run
    limited,       \* tags in the limiter registry
    pc, ranged, list, idx, core, \* of each reload: place, the slice that its Close ranges over,
                   \* the nodes that its Start ranges over, index, its core
    starting,      \* ... and the controller whose Start it is in
    panicked

nodes == <<served, slices, controllers, running, limited>>
outside == <<regime, file, edits>>
locals == <<ranged, list, idx, core, starting>>
vars == <<outside, conf, window, vc, nodes, pc, locals, panicked>>

Reloads == 1..MaxEdits
Cores == 0..MaxEdits
NoController == [tag |-> None, core |-> None, by |-> None]
Made(t, k, g) == [tag |-> t, core |-> k, by |-> g]

\* A file with nodes, and so with a core, that can all be started
Proper(f) == f # Broken /\ f # <<>> /\ IsInjective(f)

\* Without such a file serverHandle returns.
Init ==
    /\ regime \in Regimes
    /\ file \in regime.contents /\ Proper(file) /\ edits = 0
    /\ conf = file /\ window = FALSE
    /\ vc = 0
    /\ served = [k \in Cores |-> IF k = 0 THEN Range(conf) ELSE {}]
    /\ slices = [k \in Cores |-> IF k = 0 THEN [i \in DOMAIN conf |-> Made(conf[i], 0, 0)] ELSE <<>>]
    /\ controllers = 0 /\ running = Range(slices[0])
    /\ limited = Range(conf)
    /\ pc = [g \in Reloads |-> "new"]
    /\ ranged = [g \in Reloads |-> None] /\ list = [g \in Reloads |-> <<>>] /\ idx = [g \in Reloads |-> 1]
    /\ core = [g \in Reloads |-> None] /\ starting = [g \in Reloads |-> NoController]
    /\ panicked = FALSE

Active == {g \in Reloads : pc[g] \notin {"new", "success"}}

-----------------------------------------------------------------------------
\* Watch

\* The file changes and the watcher gets the event: within ten seconds of
\* the event it took last, it ignores this one.
EditFile ==
    /\ edits < MaxEdits /\ edits < regime.edits /\ edits' = edits + 1
    /\ regime.paced => ~window
    /\ file' \in regime.contents \ {file}
    /\ IF window THEN UNCHANGED <<window, pc>>
       ELSE window' = TRUE /\ pc' = [pc EXCEPT ![edits + 1] = "sleep"]
    /\ UNCHANGED <<regime, conf, vc, nodes, locals, panicked>>

\* The reload sleeps five seconds, the window is ten.
WindowEnds ==
    /\ window /\ \A g \in Reloads : pc[g] # "sleep"
    /\ regime.overlap \/ Active = {}
    /\ window' = FALSE
    /\ UNCHANGED <<outside, conf, vc, nodes, pc, locals, panicked>>

\* *p = *New() comes first,
ResetConf(g) ==
    /\ pc[g] = "sleep" /\ pc' = [pc EXCEPT ![g] = "load"]
    /\ conf' = <<>>
    /\ UNCHANGED <<outside, window, vc, nodes, locals, panicked>>

\* Mutant: the file is decoded before the reset.
Load_BeforeReset(g) ==
    /\ pc[g] = "load" /\ pc' = [pc EXCEPT ![g] = "reload"]
    /\ conf' = <<>>
    /\ UNCHANGED <<outside, window, vc, nodes, locals, panicked>>

\* then the file is decoded into it.  One that cannot be decoded leaves it empty
\* (what precedes the error is abstracted), and the reload goes on.
Load(g) ==
    /\ pc[g] = "load" /\ pc' = [pc EXCEPT ![g] = "reload"]
    /\ conf' = IF file = Broken THEN <<>> ELSE file
    /\ UNCHANGED <<outside, window, vc, nodes, locals, panicked>>

-----------------------------------------------------------------------------
\* The reload function of serverHandle, in goroutine g

\* A range over a slice takes the slice first, and reads an element when it comes to it.
Ranged(g) == IF ranged[g] = None THEN <<>> ELSE slices[ranged[g]]

Goto(g, place) == pc' = [pc EXCEPT ![g] = place]
Panic == panicked' = TRUE /\ UNCHANGED <<nodes, pc, locals>>

\* if err != nil { return }: err is one variable of all reloads, so that one of
\* several under way may see another's error, or not see its own.
GoOn(g, failed, place) ==
    \/ (~failed \/ Active # {g}) /\ Goto(g, place)
    \/ (failed \/ Active # {g}) /\ Goto(g, "success")

RangeControllers(g) ==
    /\ pc[g] = "reload" /\ Goto(g, "close")
    /\ ranged' = [ranged EXCEPT ![g] = controllers] /\ idx' = [idx EXCEPT ![g] = 1]
    /\ UNCHANGED <<outside, conf, window, vc, nodes, list, core, starting, panicked>>

\* Mutants: a closed controller keeps its limiter; the next one is skipped.
CloseController_KeepsLimiter(g) ==
    /\ pc[g] = "close" /\ idx[g] <= Len(Ranged(g))
    /\ LET c == Ranged(g)[idx[g]]
       IN  /\ running' = running \ {c}
           /\ served' = [served EXCEPT ![c.core] = @ \ {c.tag}]
           /\ idx' = [idx EXCEPT ![g] = @ + 1]
    /\ UNCHANGED <<limited, slices, controllers, pc, ranged, list, core, starting, panicked, outside, conf, window, vc>>
CloseController_SkipsNext(g) ==
    /\ pc[g] = "close" /\ idx[g] <= Len(Ranged(g))
    /\ LET c == Ranged(g)[idx[g]]
       IN  IF c.core = None \/ c.tag \notin served[c.core] THEN Panic
           ELSE /\ limited' = limited \ {c.tag}
                /\ running' = running \ {c}
                /\ served' = [served EXCEPT ![c.core] = @ \ {c.tag}]
                /\ idx' = [idx EXCEPT ![g] = @ + 2]
                /\ UNCHANGED <<slices, controllers, pc, ranged, list, core, starting, panicked>>
    /\ UNCHANGED <<outside, conf, window, vc>>

\* Node.Close, controller by controller.  A nil controller or core, or a node
\* that the core does not have, panics.
CloseController(g) ==
    /\ pc[g] = "close" /\ idx[g] <= Len(Ranged(g))
    /\ LET c == Ranged(g)[idx[g]]
       IN  IF c.core = None \/ c.tag \notin served[c.core] THEN Panic
           ELSE /\ limited' = limited \ {c.tag}
                /\ running' = running \ {c}
                /\ served' = [served EXCEPT ![c.core] = @ \ {c.tag}]
                /\ idx' = [idx EXCEPT ![g] = @ + 1]
                /\ UNCHANGED <<slices, controllers, pc, ranged, list, core, starting, panicked>>
    /\ UNCHANGED <<outside, conf, window, vc>>

NodesClosed(g) ==
    /\ pc[g] = "close" /\ idx[g] > Len(Ranged(g))
    /\ controllers' = None
    /\ Goto(g, "closeCore")
    /\ UNCHANGED <<outside, conf, window, vc, served, slices, running, limited, locals, panicked>>

\* vc.Close, of whatever vc is now: a nil one panics.
CloseCore(g) ==
    /\ pc[g] = "closeCore"
    /\ \/ vc = None /\ Panic
       \/ /\ vc # None
          /\ \/ served' = [served EXCEPT ![vc] = {}] /\ GoOn(g, FALSE, "newCore")
             \/ "close" \in regime.mayFail /\ GoOn(g, TRUE, "newCore") /\ UNCHANGED served
          /\ UNCHANGED <<slices, controllers, running, limited, locals, panicked>>
    /\ UNCHANGED <<outside, conf, window, vc>>

\* NewCore, which fails without a core in the config
NewCore(g) ==
    /\ pc[g] = "newCore" /\ Goto(g, "setCore")
    /\ \/ conf # <<>> /\ core' = [core EXCEPT ![g] = g]
       \/ (conf = <<>> \/ "core" \in regime.mayFail) /\ core' = [core EXCEPT ![g] = None]
    /\ UNCHANGED <<outside, conf, window, vc, nodes, ranged, list, idx, starting, panicked>>

\* vc, err = what NewCore has returned
SetCore(g) ==
    /\ pc[g] = "setCore" /\ vc' = core[g]
    /\ GoOn(g, core[g] = None, "startCore")
    /\ UNCHANGED <<outside, conf, window, nodes, locals, panicked>>

StartCore(g) ==
    /\ pc[g] = "startCore"
    /\ \/ vc = None /\ Panic
       \/ /\ vc # None
          /\ \E failed \in {FALSE, "core" \in regime.mayFail} : GoOn(g, failed, "make")
          /\ UNCHANGED <<nodes, locals, panicked>>
    /\ UNCHANGED <<outside, conf, window, vc>>

\* Node.Start makes its slice first, then a controller at a time
MakeControllers(g) ==
    /\ pc[g] = "make"
    /\ slices' = [slices EXCEPT ![g] = [i \in DOMAIN conf |-> NoController]] /\ controllers' = g
    /\ list' = [list EXCEPT ![g] = conf] /\ idx' = [idx EXCEPT ![g] = 1]
    /\ core' = [core EXCEPT ![g] = vc]
    /\ Goto(g, "start")
    /\ UNCHANGED <<outside, conf, window, vc, served, running, limited, ranged, starting, panicked>>

\* n.controllers[i], of whatever n.controllers is now
HasSlot(i) == controllers # None /\ i \in DOMAIN slices[controllers]

\* panel.New, which may fail, and NewController into the slot
MakeController(g) ==
    /\ pc[g] = "start" /\ idx[g] <= Len(list[g])
    /\ \/ "panel" \in regime.mayFail /\ Goto(g, "success") /\ UNCHANGED <<nodes, locals, panicked>>
       \/ ~HasSlot(idx[g]) /\ Panic
       \/ /\ HasSlot(idx[g]) /\ Goto(g, "begin")
          /\ slices' = [slices EXCEPT ![controllers][idx[g]] = Made(list[g][idx[g]], core[g], g)]
          /\ UNCHANGED <<served, controllers, running, limited, locals, panicked>>
    /\ UNCHANGED <<outside, conf, window, vc>>

\* Start of the controller that the slot holds now.  It may fail before the core
\* has the node, with or without a limiter, as it does when the core has the tag;
\* a rule that does not compile panics, and so does a nil controller or core.
StartController(g) ==
    /\ pc[g] = "begin"
    /\ IF ~HasSlot(idx[g]) THEN Panic
       ELSE LET c == slices[controllers][idx[g]]
            IN  \/ (c.core = None \/ "panel" \in regime.mayFail) /\ Panic
                \/ /\ c.core # None /\ c.tag \notin served[c.core]
                   /\ limited' = limited \cup {c.tag}
                   /\ served' = [served EXCEPT ![c.core] = @ \cup {c.tag}]
                   /\ starting' = [starting EXCEPT ![g] = c] /\ Goto(g, "users")
                   /\ UNCHANGED <<slices, controllers, running, ranged, list, idx, core, panicked>>
                \/ /\ c.core # None /\ ("panel" \in regime.mayFail \/ c.tag \in served[c.core])
                   /\ limited' \in {limited, limited \cup {c.tag}}
                   /\ Goto(g, "success")
                   /\ UNCHANGED <<served, slices, controllers, running, locals, panicked>>
    /\ UNCHANGED <<outside, conf, window, vc>>

\* AddUsers, which may fail, and the tasks
StartTasks(g) ==
    /\ pc[g] = "users"
    /\ \/ running' = running \cup {starting[g]} /\ idx' = [idx EXCEPT ![g] = @ + 1] /\ Goto(g, "start")
       \/ "users" \in regime.mayFail /\ Goto(g, "success") /\ UNCHANGED <<running, idx>>
    /\ UNCHANGED <<outside, conf, window, vc, served, slices, controllers, limited, ranged, list, core, starting,
                   panicked>>

\* "reload config success" is logged however the reload function returns.
NodesStarted(g) ==
    /\ pc[g] = "start" /\ idx[g] > Len(list[g])
    /\ Goto(g, "success")
    /\ UNCHANGED <<outside, conf, window, vc, nodes, locals, panicked>>

Reload(g) ==
    \/ ResetConf(g) \/ Load(g) \/ RangeControllers(g) \/ CloseController(g) \/ NodesClosed(g) \/ CloseCore(g)
    \/ NewCore(g) \/ SetCore(g) \/ StartCore(g)
    \/ MakeControllers(g) \/ MakeController(g) \/ StartController(g) \/ StartTasks(g) \/ NodesStarted(g)

Next == ~panicked /\ (EditFile \/ WindowEnds \/ \E g \in Reloads : Reload(g))

Spec == Init /\ [][Next]_vars
\* The window passes, and the scheduler runs every goroutine.
FairSpec ==
    /\ Spec
    /\ WF_vars(~panicked /\ WindowEnds)
    /\ \A g \in Reloads : WF_vars(~panicked /\ Reload(g))

-----------------------------------------------------------------------------
\* Properties

Places == {"new", "sleep", "load", "reload", "close", "closeCore", "newCore", "setCore", "startCore", "make",
           "start", "begin", "users", "success"}
Controllers == [tag : Tags, core : Cores \cup {None}, by : Cores]
TypeOK ==
    /\ regime \in Regimes /\ file \in regime.contents /\ edits \in 0..MaxEdits
    /\ conf \in Seq(Tags) /\ window \in BOOLEAN
    /\ vc \in Cores \cup {None}
    /\ served \in [Cores -> SUBSET Tags] /\ limited \subseteq Tags /\ running \subseteq Controllers
    /\ slices \in [Cores -> Seq(Controllers \cup {NoController})] /\ controllers \in Cores \cup {None}
    /\ pc \in [Reloads -> Places] /\ ranged \in [Reloads -> Cores \cup {None}]
    /\ list \in [Reloads -> Seq(Tags)] /\ core \in [Reloads -> Cores \cup {None}]
    /\ idx \in [Reloads -> Nat] /\ starting \in [Reloads -> Controllers \cup {NoController}]
    /\ \A g \in Reloads :
         /\ pc[g] = "close" => idx[g] \in 1..Len(Ranged(g)) + 1
         /\ pc[g] \in {"start", "begin", "users"} => idx[g] \in 1..Len(list[g]) + 1
         /\ pc[g] \in {"begin", "users"} => idx[g] <= Len(list[g])
         /\ pc[g] = "users" => starting[g] # NoController
    /\ panicked \in BOOLEAN

\* Nothing fails, every file is one that can be started, and the reload is
\* over before the next is launched.
Calm ==
    /\ regime.mayFail = {} /\ ~regime.overlap
    /\ \A f \in regime.contents : Proper(f)

\* Changing the config restarts the instance (README.md:20): it does not end
\* the process, even when two edits come within the ten seconds, and between
\* reloads the nodes of the config run, each once, on the core that the server
\* holds; no earlier core serves any, and the registry has the limiters of just
\* these nodes.
ReloadServesConf ==
    Calm =>
        /\ ~panicked
        /\ Active = {} =>
            /\ vc # None /\ running = {Made(t, vc, vc) : t \in Range(conf)}
            /\ \A k \in Cores : served[k] = IF k = vc THEN Range(conf) ELSE {}
            /\ limited = Range(conf)

\* The controllers that a reload, this one or the next, closes.
Tracked ==
    {c \in Controllers : \/ controllers # None /\ c \in Range(slices[controllers])
                        \/ \E g \in Reloads : pc[g] = "close" /\ \E i \in idx[g]..Len(Ranged(g)) : Ranged(g)[i] = c}

\* Whatever has failed, a controller whose tasks run is one that the next
\* reload will close, as long as reloads do not overlap.
NoOrphan == ~regime.overlap => running \subseteq Tracked

\* In the end what was loaded is what the file holds, also when reloads overlap
\* and reset and load the config for each other, unless that ends the process.
FileIsLoaded == regime.paced => <>[](panicked \/ conf = IF file = Broken THEN <<>> ELSE file)
=============================================================================
