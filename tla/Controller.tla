----------------------------- MODULE Controller -----------------------------
(***************************************************************************)
(* node.Controller over time: Start, the reload that nodeInfoMonitor does   *)
(* when the panel sends a new node, and Close, which the config watcher     *)
(* calls from a goroutine of its own while the periodic tasks run.          *)
(*                                                                          *)
(* The two tasks are the objects "monitor" and "report" of module Task, so  *)
(* a reload that changes an interval closes and starts the very task whose  *)
(* goroutine it runs on.  What users and rules the node has is NodeSync's   *)
(* subject; here the node is in the core or not, and its limiter is in the  *)
(* registry or not.                                                         *)
(***************************************************************************)
EXTENDS Task

CONSTANTS
    Intervals,    \* the <<pull, push>> intervals a node info may carry, 0 = unset
    MaxReloads,   \* bound: node changes the panel sends
    MayFail       \* what may fail: "boot" (Start, after it has registered the limiter),
                  \*   and in a reload "rules", "cert", "addNode", "addUsers"

ASSUME TwoTasks == Tasks = {"monitor", "report"}
ASSUME MaxReloadsAssumption == MaxReloads \in Nat

VARIABLES
    ctl,       \* where Start or Close is: new, open, failed, closing steps, closed
    node,      \* the core serves the tag
    limited,   \* the limiter registry has the tag
    step,      \* where each nodeInfoMonitor call is, by the goroutine it runs on
    got,       \* the intervals of newN, local to each nodeInfoMonitor call
    interval,  \* each task's Interval field
    reloads,   \* node changes received
    crashed,   \* the process panicked: DelNode or AddNode failed, or a rule did not compile
    faulty,    \* Start or one of "rules", "cert", "addNode" has failed (history)
    met        \* a reload was under way while Close was (history)

past == <<faulty, met>>
ctlVars == <<ctl, node, limited, step, got, interval, reloads, crashed, past>>
vars == <<taskVars, ctlVars>>

Pull(i) == i[1]
Push(i) == i[2]

Steps == {"poll", "delNode", "limiter", "addNode", "pull", "startSelf", "push", "startReport", "return"}
Closing == {"closeMonitor", "closeReport", "delNode"}

\* The calls that have begun a reload, and those that have deleted the node and
\* not yet added it
Reloading == {g \in Gens : step[g] \notin {"poll", "return"}}
Between == {g \in Gens : step[g] \in {"limiter", "addNode"}}

ControllerInit ==
    /\ Init
    /\ ctl = "new" /\ node = FALSE /\ limited = FALSE
    /\ step = [g \in Gens |-> "poll"]
    /\ got = [g \in Gens |-> <<0, 0>>]
    /\ interval = [t \in Tasks |-> 0]
    /\ reloads = 0 /\ crashed = FALSE /\ faulty = FALSE /\ met = FALSE

-----------------------------------------------------------------------------
\* Start: limiter, node and users, then startTasks

\* Mutant: the intervals are converted to a Duration twice.
Boot_TwiceConverted ==
    /\ ctl = "new" /\ ctl' = "startMonitor"
    /\ limited' = TRUE /\ node' = TRUE
    /\ \E new \in {i \in Intervals : Pull(i) # 0 /\ Push(i) # 0} :
          interval' = [t \in Tasks |-> 60 * (IF t = "monitor" THEN Pull(new) ELSE Push(new))]
    /\ UNCHANGED <<taskVars, step, got, reloads, crashed, past>>

\* The panel's first node info has both intervals (with 0 a loop would spin).
\* A Start that fails at AddUsers leaves the node in the core.
Boot ==
    /\ ctl = "new"
    /\ limited' = TRUE
    /\ \/ node' = TRUE /\ ctl' = "startMonitor" /\ UNCHANGED faulty
       \/ "boot" \in MayFail /\ node' \in BOOLEAN /\ ctl' = "failed" /\ faulty' = TRUE
    /\ \E new \in {i \in Intervals : Pull(i) # 0 /\ Push(i) # 0} :
          interval' = [t \in Tasks |-> IF t = "monitor" THEN Pull(new) ELSE Push(new)]
    /\ UNCHANGED <<taskVars, step, got, reloads, crashed, met>>

StartTask(t, from, to) ==
    /\ ctl = from
    /\ Start(t, FALSE)
    /\ ctl' = to
    /\ UNCHANGED <<node, limited, step, got, interval, reloads, crashed, past>>

StartTasks ==
    \/ StartTask("monitor", "startMonitor", "startReport")
    \/ StartTask("report", "startReport", "open")

-----------------------------------------------------------------------------
\* nodeInfoMonitor, on goroutine g of the monitor task

At(g, s) == pc["monitor"][g] = "exec" /\ step[g] = s
Goto(g, s) == step' = [step EXCEPT ![g] = s]

\* Nothing new, an error, or a user-only change: the call returns.
PollUnchanged(g) ==
    /\ At(g, "poll")
    /\ Goto(g, "return")
    /\ UNCHANGED <<taskVars, ctl, node, limited, got, interval, reloads, crashed, past>>

PollChanged(g) ==
    /\ At(g, "poll")
    /\ reloads < MaxReloads
    /\ reloads' = reloads + 1
    /\ \E new \in Intervals : got' = [got EXCEPT ![g] = new]
    /\ Goto(g, "delNode")
    /\ met' = (met \/ ctl \in Closing)
    /\ UNCHANGED <<taskVars, ctl, node, limited, interval, crashed, faulty>>

\* log.Panic when the core does not have the node.
ReloadDelNode(g) ==
    /\ At(g, "delNode")
    /\ \/ node /\ node' = FALSE /\ Goto(g, "limiter") /\ UNCHANGED crashed
       \/ ~node /\ crashed' = TRUE /\ UNCHANGED <<node, step>>
    /\ UNCHANGED <<taskVars, ctl, limited, got, interval, reloads, past>>

\* A node without a configured name gets a new limiter under its tag.  A rule that
\* does not compile panics; a failed certificate request ends the reload with
\* the node deleted.
ReloadLimiter(g) ==
    /\ At(g, "limiter")
    /\ limited' \in {limited, TRUE}
    /\ \/ Goto(g, "addNode") /\ UNCHANGED <<crashed, faulty>>
       \/ "cert" \in MayFail /\ Goto(g, "return") /\ faulty' = TRUE /\ UNCHANGED crashed
       \/ "rules" \in MayFail /\ crashed' = TRUE /\ faulty' = TRUE /\ UNCHANGED step
    /\ UNCHANGED <<taskVars, ctl, node, got, interval, reloads, met>>

\* log.Panic when the core has the tag already, or does not take the node for
\* another reason.  A failing AddUsers ends the reload before the intervals.
ReloadAddNode(g) ==
    /\ At(g, "addNode")
    /\ \/ /\ ~node /\ node' = TRUE
          /\ Goto(g, "pull") \/ ("addUsers" \in MayFail /\ Goto(g, "return"))
          /\ UNCHANGED <<crashed, faulty>>
       \/ node /\ crashed' = TRUE /\ UNCHANGED <<node, step, faulty>>
       \/ "addNode" \in MayFail /\ crashed' = TRUE /\ faulty' = TRUE /\ UNCHANGED <<node, step>>
    /\ UNCHANGED <<taskVars, ctl, limited, got, interval, reloads, met>>

\* An interval that differs is stored, and its task closed and started.  The
\* push interval's branch stores the pull interval.
CheckInterval(g, t, at, wanted, next, other) ==
    /\ At(g, at)
    /\ \/ /\ interval[t] # wanted /\ wanted # 0
          /\ interval' = [interval EXCEPT ![t] = Pull(got[g])]
          /\ Close(t)
          /\ Goto(g, next)
       \/ /\ interval[t] = wanted \/ wanted = 0
          /\ Goto(g, other)
          /\ UNCHANGED <<taskVars, interval>>
    /\ UNCHANGED <<ctl, node, limited, got, reloads, crashed, past>>

Restart(g, t, at, next) ==
    /\ At(g, at)
    /\ Start(t, FALSE)
    /\ Goto(g, next)
    /\ UNCHANGED <<ctl, node, limited, got, interval, reloads, crashed, past>>

CheckIntervals(g) ==
    \/ CheckInterval(g, "monitor", "pull", Pull(got[g]), "startSelf", "push")
    \/ Restart(g, "monitor", "startSelf", "push")
    \/ CheckInterval(g, "report", "push", Push(got[g]), "startReport", "return")
    \/ Restart(g, "report", "startReport", "return")

MonitorReturns(g) ==
    /\ At(g, "return")
    /\ ExecuteReturns("monitor", g)
    /\ Goto(g, "poll")
    /\ got' = [got EXCEPT ![g] = <<0, 0>>]
    /\ UNCHANGED <<ctl, node, limited, interval, reloads, crashed, past>>

Monitor(g) ==
    \/ PollUnchanged(g) \/ PollChanged(g)
    \/ ReloadDelNode(g) \/ ReloadLimiter(g) \/ ReloadAddNode(g)
    \/ CheckIntervals(g)
    \/ MonitorReturns(g)

-----------------------------------------------------------------------------
\* reportUserTrafficTask changes nothing here (module Traffic has it)

\* Mutant: a failed report is returned as an error, which ends the task.
ReportReturns_Error(g) ==
    /\ pc["report"][g] = "exec"
    /\ pc' = [pc EXCEPT !["report"][g] = "done"]
    /\ running' = [running EXCEPT !["report"] = FALSE]
    /\ CloseStop("report")
    /\ UNCHANGED <<made, waitsOn, ctlVars>>

ReportReturns(g) == ExecuteReturns("report", g) /\ UNCHANGED ctlVars

Tick(t, g) == Waiting(t, g) /\ UNCHANGED ctlVars

-----------------------------------------------------------------------------
\* Close: the limiter first, then the tasks, then the node.  It waits for no
\* Execute: a poll may be anywhere in a reload.

CloseBegins ==
    /\ ctl \in {"open", "failed"}
    /\ limited' = FALSE
    /\ ctl' = IF ctl = "failed" THEN "delNode" ELSE "closeMonitor"
    /\ met' = (Reloading # {})
    /\ UNCHANGED <<taskVars, node, step, got, interval, reloads, crashed, faulty>>

CloseTask(t, from, to) ==
    /\ ctl = from
    /\ Close(t)
    /\ ctl' = to
    /\ UNCHANGED <<node, limited, step, got, interval, reloads, crashed, past>>

\* Mutant: only the monitor is closed.
CloseTasks_MonitorOnly == CloseTask("monitor", "closeMonitor", "delNode")

CloseTasks ==
    \/ CloseTask("monitor", "closeMonitor", "closeReport")
    \/ CloseTask("report", "closeReport", "delNode")

\* Node.Close panics when DelNode fails.
CloseDelNode ==
    /\ ctl = "delNode"
    /\ \/ node /\ node' = FALSE /\ ctl' = "closed" /\ UNCHANGED crashed
       \/ ~node /\ crashed' = TRUE /\ UNCHANGED <<node, ctl>>
    /\ UNCHANGED <<taskVars, limited, step, got, interval, reloads, past>>

Lifecycle == Boot \/ StartTasks \/ CloseBegins \/ CloseTasks \/ CloseDelNode

ControllerNext ==
    /\ ~panicked /\ ~crashed
    /\ \/ Lifecycle
       \/ \E g \in Gens : Monitor(g) \/ ReportReturns(g)
       \/ \E t \in Tasks, g \in Gens : Tick(t, g)

\* The scheduler runs every goroutine.  Nobody has to close a controller, but
\* a Close that has begun goes on.
ControllerFairness ==
    /\ \A t \in Tasks, g \in Gens : WF_vars(~panicked /\ ~crashed /\ Tick(t, g))
    /\ \A g \in Gens : WF_vars(~panicked /\ ~crashed /\ (Monitor(g) \/ ReportReturns(g)))
    /\ WF_vars(~panicked /\ ~crashed /\ (Boot \/ StartTasks \/ CloseTasks \/ CloseDelNode))

ControllerSpec == ControllerInit /\ [][ControllerNext]_vars
ControllerFairSpec == ControllerSpec /\ ControllerFairness

-----------------------------------------------------------------------------
\* Properties

ControllerTypeOK ==
    /\ TypeOK
    /\ ctl \in {"new", "startMonitor", "startReport", "open", "failed", "closed"} \cup Closing
    /\ {node, limited, crashed, faulty, met} \subseteq BOOLEAN
    /\ step \in [Gens -> Steps]
    /\ got \in [Gens -> Intervals \cup {<<0, 0>>}]
    /\ \A t \in Tasks : \E i \in Intervals \cup {<<0, 0>>} : interval[t] \in {Pull(i), Push(i)}
    /\ reloads \in 0..MaxReloads

\* When nothing has failed, the panics after DelNode and AddNode (node/task.go:94,138,
\* node/node.go:44) need two who delete the node to meet: a reload is still between
\* its DelNode and its AddNode, or the controller has been closed under a poll.
\* AddNode never finds the tag taken.  No task's channel is closed twice.
NoCrash ==
    /\ crashed => faulty \/ Between # {} \/ ctl = "closed"
    /\ panicked => Failing

\* Close undoes Start: when it has returned, the core does not serve the node, and
\* no reload that is still running will have it do so again.  The limiter is gone
\* and no task has been left running or started again, unless a reload was under
\* way while Close was: that one may do both.
CloseIsFinal ==
    ctl = "closed" => ~node /\ (met \/ (~limited /\ \A t \in Tasks : ~running[t]))

\* The core serves a node without limiter only while Close, which deletes the
\* limiter first, is under way: no reload leaves it so.
NodeIsLimited == node => limited \/ ctl \in Closing

\* Reloads, restarts and a Close, in any order and overlap.
LifecycleIsSound == NoCrash /\ CloseIsFinal /\ NodeIsLimited

\* While the controller is open, traffic goes on being reported and the panel
\* goes on being polled, through every restart of either task.
TasksKeepExecuting == \A t \in Tasks : []<>(Executing(t) # {} \/ ctl # "open" \/ crashed)
=============================================================================
