-------------------------- MODULE ControllerProofs --------------------------
(***************************************************************************)
(* Proofs about what runs for one node: modules Task, Controller and        *)
(* Traffic.  First about Task alone, for any tasks, bounds and failures.  A *)
(* controller treats its two tasks only through Start, Close and what their *)
(* goroutines do, so that Task's theorems hold of it, for every number of   *)
(* reloads and restarts, every pair of intervals, and whatever Close        *)
(* interrupts.  Then about the lifecycle of the controller itself, whose    *)
(* Close waits for no poll.  Last, about the bytes of the node's            *)
(* users: what counts them, what the report task takes, what is billed.     *)
(***************************************************************************)
EXTENDS Controller, Traffic, TLAPS

\* Goroutines and closed channels belong to Starts that have happened.  Without it
\* the invariant is not inductive: the error path closes made[t], which is a channel
\* only because a goroutine that executes belongs to some Start, and a new channel is
\* open only because no channel is closed before it is made.
MadeByStart ==
    \A t \in Tasks :
        /\ \A g \in Gens : pc[t][g] # "none" => g <= made[t]
        /\ \A c \in closed[t] : c <= made[t]

\* Only a failing Execute can close a channel that Close has closed.
OnlyFailuresPanic == panicked => Failing

IInv == TypeOK /\ MadeByStart /\ FlagTracksStop /\ RunningHasLoop /\ OnlyFailuresPanic

\* No task runs initially, and no channel or goroutine exists.
LEMMA InitEstablishes == Init => IInv
<1> SUFFICES ASSUME Init PROVE IInv
  OBVIOUS
<1> USE DEF Init
<1>1. TypeOK
  <2>1. running \in [Tasks -> BOOLEAN] /\ panicked \in BOOLEAN
    OBVIOUS
  <2>2. made \in [Tasks -> 0..MaxStarts] /\ closed \in [Tasks -> SUBSET Gens]
    BY MaxStartsAssumption
  <2>3. pc \in [Tasks -> [Gens -> Places]]
    BY DEF Places
  <2>4. waitsOn \in [Tasks -> [Gens -> 0..MaxStarts]]
    BY MaxStartsAssumption
  <2> QED BY <2>1, <2>2, <2>3, <2>4 DEF TypeOK
<1>2. MadeByStart
  BY DEF MadeByStart
<1>3. FlagTracksStop /\ RunningHasLoop /\ OnlyFailuresPanic
  BY DEF FlagTracksStop, RunningHasLoop, OnlyFailuresPanic
<1> QED BY <1>1, <1>2, <1>3 DEF IInv

\* An effective Start keeps the invariant: the new channel is open, the old
\* one is closed, and the new goroutine has yet to look at its channel.
LEMMA SpawnPreserves ==
    ASSUME NEW t \in Tasks, NEW first \in BOOLEAN,
           IInv, ~panicked, ~running[t], Spawn(t, first)
    PROVE  IInv'
<1> USE MaxStartsAssumption DEF IInv, Spawn, Gens
<1> DEFINE n == made[t] + 1
<1>1. n \in Gens /\ made[t] \in 0..MaxStarts
  BY DEF TypeOK
<1>2. TypeOK'
  BY <1>1 DEF TypeOK, Places
<1>3. MadeByStart'
  BY <1>1 DEF TypeOK, MadeByStart
<1>4. FlagTracksStop'
  <2>1. n \notin closed[t]
    BY <1>1 DEF TypeOK, MadeByStart
  <2>2. \A c \in 1..made[t] : c \in closed[t]
    BY <1>1 DEF TypeOK, FlagTracksStop
  <2> QED BY <1>1, <2>1, <2>2 DEF TypeOK, FlagTracksStop
<1>5. RunningHasLoop'
  <2> SUFFICES ASSUME NEW u \in Tasks, running'[u]
               PROVE  \E g \in Gens : \/ pc'[u][g] \in {"select", "exec"}
                                      \/ pc'[u][g] = "wait" /\ waitsOn'[u][g] = made'[u]
    BY DEF RunningHasLoop
  <2>1. CASE u = t
    <3>1. pc'[t][n] \in {"select", "exec"}
      BY <1>1 DEF TypeOK
    <3> QED BY <1>1, <2>1, <3>1
  <2>2. CASE u # t
    <3>1. running[u] /\ made'[u] = made[u] /\ pc'[u] = pc[u] /\ waitsOn'[u] = waitsOn[u]
      BY <2>2 DEF TypeOK
    <3> QED BY <3>1 DEF RunningHasLoop
  <2> QED BY <2>1, <2>2
<1>6. OnlyFailuresPanic'
  BY DEF OnlyFailuresPanic
<1> QED BY <1>2, <1>3, <1>4, <1>5, <1>6

\* Close keeps the invariant: the flag says the channel is open, so closing
\* it does not panic.
LEMMA ClosePreserves ==
    ASSUME NEW t \in Tasks, IInv, ~panicked, Close(t)
    PROVE  IInv'
<1> USE MaxStartsAssumption DEF IInv, Gens
<1>1. CASE ~running[t] /\ UNCHANGED taskVars
  BY <1>1 DEF taskVars, TypeOK, MadeByStart, FlagTracksStop, RunningHasLoop, OnlyFailuresPanic
<1>2. CASE running[t]
  <2>1. /\ running' = [running EXCEPT ![t] = FALSE]
        /\ closed' = [closed EXCEPT ![t] = @ \cup {made[t]}]
        /\ panicked' = (made[t] \in closed[t])
        /\ UNCHANGED <<made, pc, waitsOn>>
    BY <1>2 DEF Close, CloseStop
  <2>2. made[t] \in 1..MaxStarts /\ made[t] \notin closed[t]
    BY <1>2 DEF TypeOK, FlagTracksStop
  <2>3. TypeOK'
    BY <2>1, <2>2 DEF TypeOK
  <2>4. MadeByStart'
    BY <2>1, <2>2 DEF TypeOK, MadeByStart
  <2>5. FlagTracksStop'
    BY <2>1, <2>2 DEF TypeOK, FlagTracksStop
  <2>6. RunningHasLoop'
    BY <2>1 DEF TypeOK, RunningHasLoop
  <2>7. OnlyFailuresPanic'
    BY <2>1, <2>2 DEF OnlyFailuresPanic
  <2> QED BY <2>3, <2>4, <2>5, <2>6, <2>7
<1> QED BY <1>1, <1>2 DEF Close

\* A goroutine that only moves disturbs nothing but RunningHasLoop.
LEMMA MoveKeepsRest ==
    ASSUME NEW t \in Tasks, NEW g \in Gens, NEW p \in Places, IInv,
           pc[t][g] # "none", pc' = [pc EXCEPT ![t][g] = p],
           waitsOn' \in [Tasks -> [Gens -> 0..MaxStarts]],
           UNCHANGED <<running, made, closed, panicked>>
    PROVE  TypeOK' /\ MadeByStart' /\ FlagTracksStop' /\ OnlyFailuresPanic'
<1> USE DEF IInv
<1>1. TypeOK'
  <2>1. pc' \in [Tasks -> [Gens -> Places]]
    BY DEF TypeOK
  <2> QED BY <2>1 DEF TypeOK
<1>2. MadeByStart'
  BY DEF TypeOK, MadeByStart
<1>3. FlagTracksStop' /\ OnlyFailuresPanic'
  BY DEF FlagTracksStop, OnlyFailuresPanic
<1> QED BY <1>1, <1>2, <1>3

\* A goroutine that enters the select keeps the invariant: if the task runs,
\* the channel it evaluates is the open one, so it waits on that.
LEMMA EnterSelectPreserves ==
    ASSUME NEW t \in Tasks, NEW g \in Gens, IInv, ~panicked, EnterSelect(t, g)
    PROVE  IInv'
<1> USE DEF IInv, EnterSelect
<1>1. waitsOn' \in [Tasks -> [Gens -> 0..MaxStarts]]
  <2>1. waitsOn \in [Tasks -> [Gens -> 0..MaxStarts]] /\ made[t] \in 0..MaxStarts
    BY DEF TypeOK
  <2>2. waitsOn' = waitsOn \/ waitsOn' = [waitsOn EXCEPT ![t][g] = made[t]]
    OBVIOUS
  <2>3. [waitsOn EXCEPT ![t][g] = made[t]] \in [Tasks -> [Gens -> 0..MaxStarts]]
    BY <2>1
  <2> QED BY <2>1, <2>2, <2>3
<1>2. PICK p \in Places : pc' = [pc EXCEPT ![t][g] = p]
  BY DEF Places
<1>3. TypeOK' /\ MadeByStart' /\ FlagTracksStop' /\ OnlyFailuresPanic'
  BY <1>1, <1>2, MoveKeepsRest
<1>4. RunningHasLoop'
  <2> SUFFICES ASSUME NEW u \in Tasks, running[u]
               PROVE  \E h \in Gens : \/ pc'[u][h] \in {"select", "exec"}
                                      \/ pc'[u][h] = "wait" /\ waitsOn'[u][h] = made[u]
    BY DEF RunningHasLoop
  <2>1. CASE u = t
    <3>1. made[t] \notin closed[t]
      BY <2>1 DEF FlagTracksStop
    <3>2. pc'[t][g] = "wait" /\ waitsOn'[t][g] = made[t]
      BY <3>1 DEF TypeOK
    <3> QED BY <2>1, <3>2
  <2>2. CASE u # t
    <3>1. pc'[u] = pc[u] /\ waitsOn'[u] = waitsOn[u]
      BY <2>2 DEF TypeOK
    <3> QED BY <3>1 DEF RunningHasLoop
  <2> QED BY <2>1, <2>2
<1> QED BY <1>3, <1>4

\* A goroutine that leaves on its stop channel waited on a closed one, so it
\* is not the one that keeps a running task alive.
LEMMA StopFiresPreserves ==
    ASSUME NEW t \in Tasks, NEW g \in Gens, IInv, ~panicked, StopFires(t, g)
    PROVE  IInv'
<1> USE DEF IInv, StopFires
<1>1. waitsOn' \in [Tasks -> [Gens -> 0..MaxStarts]]
  BY MaxStartsAssumption DEF TypeOK
<1>2. "done" \in Places
  BY DEF Places
<1>3. TypeOK' /\ MadeByStart' /\ FlagTracksStop' /\ OnlyFailuresPanic'
  BY <1>1, <1>2, MoveKeepsRest
<1>4. RunningHasLoop'
  <2> SUFFICES ASSUME NEW u \in Tasks, running[u]
               PROVE  \E h \in Gens : \/ pc'[u][h] \in {"select", "exec"}
                                      \/ pc'[u][h] = "wait" /\ waitsOn'[u][h] = made[u]
    BY DEF RunningHasLoop
  <2>1. PICK h \in Gens : \/ pc[u][h] \in {"select", "exec"}
                          \/ pc[u][h] = "wait" /\ waitsOn[u][h] = made[u]
    BY DEF RunningHasLoop
  <2>2. ~(u = t /\ h = g)
    BY <2>1 DEF FlagTracksStop
  <2>3. pc'[u][h] = pc[u][h] /\ waitsOn'[u][h] = waitsOn[u][h]
    BY <2>2 DEF TypeOK
  <2> QED BY <2>1, <2>3
<1> QED BY <1>3, <1>4

\* Moving between waiting, executing and the next select keeps the invariant.
LEMMA ExecutePreserves ==
    ASSUME NEW t \in Tasks, NEW g \in Gens, IInv, ~panicked,
           TimerFires(t, g) \/ ExecuteReturns(t, g)
    PROVE  IInv'
<1> USE DEF IInv
<1>1. UNCHANGED <<running, made, closed, panicked>> /\ pc[t][g] # "none"
  BY DEF TimerFires, ExecuteReturns
<1>2. PICK p \in {"exec", "select"} : pc' = [pc EXCEPT ![t][g] = p]
  BY DEF TimerFires, ExecuteReturns
<1>3. /\ waitsOn' \in [Tasks -> [Gens -> 0..MaxStarts]]
      /\ \A u \in Tasks, h \in Gens : ~(u = t /\ h = g) => waitsOn'[u][h] = waitsOn[u][h]
  <2>1. waitsOn \in [Tasks -> [Gens -> 0..MaxStarts]] /\ 0 \in 0..MaxStarts
    BY MaxStartsAssumption DEF TypeOK
  <2>2. CASE waitsOn' = waitsOn
    BY <2>1, <2>2
  <2>3. CASE waitsOn' = [waitsOn EXCEPT ![t][g] = 0]
    BY <2>1, <2>3
  <2> QED BY <2>2, <2>3 DEF TimerFires, ExecuteReturns
<1>4. TypeOK' /\ MadeByStart' /\ FlagTracksStop' /\ OnlyFailuresPanic'
  BY <1>1, <1>2, <1>3, MoveKeepsRest DEF Places
<1>5. RunningHasLoop'
  <2> SUFFICES ASSUME NEW u \in Tasks, running[u]
               PROVE  \E h \in Gens : \/ pc'[u][h] \in {"select", "exec"}
                                      \/ pc'[u][h] = "wait" /\ waitsOn'[u][h] = made[u]
    BY <1>1 DEF RunningHasLoop
  <2>1. PICK h \in Gens : \/ pc[u][h] \in {"select", "exec"}
                          \/ pc[u][h] = "wait" /\ waitsOn[u][h] = made[u]
    BY DEF RunningHasLoop
  <2>2. CASE u = t /\ h = g
    <3>1. pc'[u][h] \in {"select", "exec"}
      BY <1>2, <2>2 DEF TypeOK
    <3> QED BY <3>1
  <2>3. CASE ~(u = t /\ h = g)
    <3>1. pc'[u][h] = pc[u][h] /\ waitsOn'[u][h] = waitsOn[u][h]
      BY <1>2, <1>3, <2>3 DEF TypeOK
    <3> QED BY <2>1, <3>1
  <2> QED BY <2>2, <2>3
<1> QED BY <1>4, <1>5

\* The error path keeps the invariant: the process panics if t.stop was
\* closed already, and otherwise flag and channel change together.
LEMMA ExecuteFailsPreserves ==
    ASSUME NEW t \in Tasks, NEW g \in Gens, IInv, ~panicked, ExecuteFails(t, g)
    PROVE  IInv'
<1> USE MaxStartsAssumption DEF IInv, ExecuteFails, CloseStop, Gens
<1>1. made[t] \in 1..MaxStarts
  BY DEF TypeOK, MadeByStart
<1>2. TypeOK'
  BY <1>1 DEF TypeOK, Places
<1>3. MadeByStart'
  BY <1>1 DEF TypeOK, MadeByStart
<1>4. FlagTracksStop'
  BY <1>1 DEF TypeOK, FlagTracksStop
<1>5. RunningHasLoop'
  <2> SUFFICES ASSUME NEW u \in Tasks, running'[u]
               PROVE  \E h \in Gens : \/ pc'[u][h] \in {"select", "exec"}
                                      \/ pc'[u][h] = "wait" /\ waitsOn'[u][h] = made[u]
    BY DEF RunningHasLoop
  <2>1. u # t /\ running[u] /\ pc'[u] = pc[u]
    BY DEF TypeOK
  <2> QED BY <2>1 DEF RunningHasLoop
<1>6. OnlyFailuresPanic'
  BY DEF OnlyFailuresPanic
<1> QED BY <1>2, <1>3, <1>4, <1>5, <1>6

\* Every step keeps the invariant.
LEMMA StepPreserves == IInv /\ [Next]_taskVars => IInv'
<1> SUFFICES ASSUME IInv, [Next]_taskVars PROVE IInv'
  OBVIOUS
<1>1. CASE UNCHANGED taskVars
  BY <1>1 DEF taskVars, IInv, TypeOK, MadeByStart, FlagTracksStop, RunningHasLoop, OnlyFailuresPanic
<1>2. CASE Next /\ ~UNCHANGED taskVars
  <2> USE <1>2
  <2>1. ~panicked
    BY DEF Next
  <2>2. PICK t \in Tasks : \/ \E first \in BOOLEAN : Start(t, first)
                           \/ Close(t)
                           \/ \E g \in Gens : LoopStep(t, g)
    BY DEF Next
  <2>3. ASSUME NEW first \in BOOLEAN, Start(t, first) PROVE IInv'
    BY <2>1, <2>3, SpawnPreserves DEF Start
  <2>4. CASE Close(t)
    BY <2>1, <2>4, ClosePreserves
  <2>5. ASSUME NEW g \in Gens, LoopStep(t, g) PROVE IInv'
    BY <2>1, <2>5, EnterSelectPreserves, StopFiresPreserves, ExecutePreserves,
       ExecuteFailsPreserves DEF LoopStep, Waiting
  <2> QED BY <2>2, <2>3, <2>4, <2>5
<1> QED BY <1>1, <1>2

\* The inductive invariant holds in every reachable state.
THEOREM Inductive == Spec => []IInv
  BY InitEstablishes, StepPreserves, PTL DEF Spec

\* Types: generations, places and channels stay in their ranges.
THEOREM TypeCorrect == Spec => []TypeOK
<1>1. IInv => TypeOK
  BY DEF IInv
<1> QED BY <1>1, Inductive, PTL

\* t.running and t.stop never disagree (common/task Start, Close and the error path).
THEOREM FlagTracksStopAlways == Spec => []FlagTracksStop
<1>1. IInv => FlagTracksStop
  BY DEF IInv
<1> QED BY <1>1, Inductive, PTL

\* A running task always has a goroutine that no closed channel can stop, so
\* Start's early return on t.running loses nothing.
THEOREM RunningHasLoopAlways == Spec => []RunningHasLoop
<1>1. IInv => RunningHasLoop
  BY DEF IInv
<1> QED BY <1>1, Inductive, PTL

\* No channel is closed twice as long as no Execute returns an error, which
\* is so for every Execute of package node.
THEOREM NoDoubleCloseAlways == ASSUME ~Failing PROVE Spec => []NoDoubleClose
<1>1. IInv => NoDoubleClose
  BY DEF IInv, OnlyFailuresPanic, NoDoubleClose
<1> QED BY <1>1, Inductive, PTL

-----------------------------------------------------------------------------
\* The controller is a user of its tasks


\* Starting or closing a task, wherever it is done, is a step of Task.
LEMMA CallIsTaskStep ==
    ASSUME NEW t \in Tasks, ~panicked, Start(t, FALSE) \/ Close(t)
    PROVE  Next
  BY DEF Next

\* A poll restarts tasks, and otherwise leaves them alone or returns.
LEMMA MonitorIsTaskStep ==
    ASSUME NEW g \in Gens, ~panicked, Monitor(g)
    PROVE  [Next]_taskVars
<1>1. "monitor" \in Tasks /\ "report" \in Tasks
  BY TwoTasks
<1>2. ASSUME NEW t \in Tasks, NEW at, NEW wanted, NEW next, NEW other,
             CheckInterval(g, t, at, wanted, next, other)
      PROVE  [Next]_taskVars
  <2>1. CASE Close(t)
    BY <2>1, CallIsTaskStep
  <2>2. CASE UNCHANGED taskVars
    BY <2>2
  <2> QED BY <1>2, <2>1, <2>2 DEF CheckInterval
<1>3. ASSUME NEW t \in Tasks, NEW at, NEW next, Restart(g, t, at, next)
      PROVE  [Next]_taskVars
  BY <1>3, CallIsTaskStep DEF Restart
<1>4. CASE CheckIntervals(g)
  BY <1>1, <1>2, <1>3, <1>4 DEF CheckIntervals
<1>5. CASE MonitorReturns(g)
  BY <1>1, <1>5 DEF MonitorReturns, Next, LoopStep
<1>6. CASE \/ PollUnchanged(g) \/ PollChanged(g)
           \/ ReloadDelNode(g) \/ ReloadLimiter(g) \/ ReloadAddNode(g)
  BY <1>6 DEF PollUnchanged, PollChanged, ReloadDelNode, ReloadLimiter, ReloadAddNode
<1> QED BY <1>4, <1>5, <1>6 DEF Monitor

\* Start and Close of the controller start and close tasks.
LEMMA LifecycleIsTaskStep ==
    ASSUME ~panicked, Lifecycle
    PROVE  [Next]_taskVars
<1>1. "monitor" \in Tasks /\ "report" \in Tasks
  BY TwoTasks
<1>2. CASE StartTasks
  BY <1>1, <1>2, CallIsTaskStep DEF StartTasks, StartTask
<1>3. CASE CloseTasks
  BY <1>1, <1>3, CallIsTaskStep DEF CloseTasks, CloseTask
<1>4. CASE Boot \/ CloseBegins \/ CloseDelNode
  BY <1>4 DEF Boot, CloseBegins, CloseDelNode
<1> QED BY <1>2, <1>3, <1>4 DEF Lifecycle

\* Every step of a controller is a step of its tasks or leaves them alone.
LEMMA StepIsTaskStep == [ControllerNext]_vars => [Next]_taskVars
<1> SUFFICES ASSUME [ControllerNext]_vars PROVE [Next]_taskVars
  OBVIOUS
<1>1. CASE UNCHANGED vars
  BY <1>1 DEF vars
<1>2. CASE ControllerNext
  <2>1. ~panicked
    BY <1>2 DEF ControllerNext
  <2>2. CASE Lifecycle
    BY <2>1, <2>2, LifecycleIsTaskStep
  <2>3. ASSUME NEW g \in Gens, Monitor(g) PROVE [Next]_taskVars
    BY <2>1, <2>3, MonitorIsTaskStep
  <2>4. ASSUME NEW g \in Gens, ReportReturns(g) PROVE [Next]_taskVars
    BY <2>1, <2>4, TwoTasks DEF ReportReturns, Next, LoopStep
  <2>5. ASSUME NEW t \in Tasks, NEW g \in Gens, Tick(t, g) PROVE [Next]_taskVars
    BY <2>1, <2>5 DEF Tick, Next, LoopStep
  <2> QED BY <1>2, <2>2, <2>3, <2>4, <2>5 DEF ControllerNext
<1> QED BY <1>1, <1>2

\* What holds of every use of two tasks holds of the controller's.
LEMMA ControllerUsesTasks == ControllerSpec => Spec
<1>1. ControllerInit => Init
  BY DEF ControllerInit
<1> QED BY <1>1, StepIsTaskStep, PTL DEF ControllerSpec, Spec

\* Through every restart by a reload and every Close, a task that claims to
\* run has a goroutine that no closed channel can stop.
THEOREM ControllerRunningHasLoop == ControllerSpec => []RunningHasLoop
  BY ControllerUsesTasks, RunningHasLoopAlways, PTL

\* No reload and no Close closes a stop channel twice: none of the Executes
\* of package node returns an error.
THEOREM ControllerNoDoubleClose == ASSUME ~Failing PROVE ControllerSpec => []NoDoubleClose
  BY ControllerUsesTasks, NoDoubleCloseAlways, PTL
-----------------------------------------------------------------------------
\* Types

\* What the controller adds to its tasks
OwnTypes ==
    /\ ctl \in {"new", "startMonitor", "startReport", "open", "failed", "closed"} \cup Closing
    /\ node \in BOOLEAN /\ limited \in BOOLEAN /\ crashed \in BOOLEAN /\ faulty \in BOOLEAN /\ met \in BOOLEAN
    /\ step \in [Gens -> Steps]
    /\ got \in [Gens -> Intervals \cup {<<0, 0>>}]
    /\ \A t \in Tasks : \E i \in Intervals \cup {<<0, 0>>} : interval[t] \in {Pull(i), Push(i)}
    /\ DOMAIN interval = Tasks
    /\ reloads \in 0..MaxReloads

LEMMA TasksAreSound == ControllerSpec => []IInv
  BY ControllerUsesTasks, Inductive, PTL

\* An interval that is stored is one of the last node info's.
LEMMA CheckTypes ==
    ASSUME OwnTypes, NEW g \in Gens, CheckIntervals(g)
    PROVE  OwnTypes'
<1>1. "monitor" \in Tasks /\ "report" \in Tasks
  BY TwoTasks
<1>2. /\ UNCHANGED <<ctl, node, limited, got, reloads, crashed, faulty, met>>
      /\ step' \in [Gens -> Steps]
  BY DEF CheckIntervals, CheckInterval, Restart, Goto, OwnTypes, Steps, past
<1>3. interval' = interval \/ \E t \in Tasks : interval' = [interval EXCEPT ![t] = Pull(got[g])]
  BY <1>1 DEF CheckIntervals, CheckInterval, Restart
<1>4. DOMAIN interval' = Tasks /\ \A t \in Tasks : \E i \in Intervals \cup {<<0, 0>>} : interval'[t] \in {Pull(i), Push(i)}
  <2>1. got[g] \in Intervals \cup {<<0, 0>>}
    BY DEF OwnTypes
  <2> QED BY <1>3, <2>1 DEF OwnTypes
<1> QED BY <1>2, <1>4 DEF OwnTypes

LEMMA StepOwnTypes == OwnTypes /\ [ControllerNext]_vars => OwnTypes'
<1> SUFFICES ASSUME OwnTypes, [ControllerNext]_vars PROVE OwnTypes'
  OBVIOUS
<1>1. CASE UNCHANGED vars
  BY <1>1 DEF vars, ctlVars, past, OwnTypes
<1>2. CASE Boot
  <2>1. PICK new \in Intervals : interval' = [t \in Tasks |-> IF t = "monitor" THEN Pull(new) ELSE Push(new)]
    BY <1>2 DEF Boot
  <2>2. DOMAIN interval' = Tasks /\ \A t \in Tasks : \E i \in Intervals \cup {<<0, 0>>} : interval'[t] \in {Pull(i), Push(i)}
    BY <2>1
  <2> QED BY <1>2, <2>2 DEF Boot, OwnTypes, past
<1>3. CASE StartTasks \/ CloseBegins \/ CloseTasks \/ CloseDelNode
  BY <1>3 DEF StartTasks, StartTask, CloseBegins, CloseTasks, CloseTask, CloseDelNode, OwnTypes, Closing, past
<1>4. ASSUME NEW g \in Gens, Monitor(g) PROVE OwnTypes'
  <2>1. CASE PollUnchanged(g) \/ ReloadDelNode(g) \/ ReloadLimiter(g) \/ ReloadAddNode(g)
    BY <2>1 DEF PollUnchanged, ReloadDelNode, ReloadLimiter, ReloadAddNode, Goto, OwnTypes, Steps, past
  <2>2. CASE PollChanged(g)
    <3>1. reloads' \in 0..MaxReloads
      BY <2>2, MaxReloadsAssumption DEF PollChanged, OwnTypes
    <3> QED BY <2>2, <3>1 DEF PollChanged, Goto, OwnTypes, Steps, Closing, past
  <2>3. CASE MonitorReturns(g)
    BY <2>3 DEF MonitorReturns, Goto, OwnTypes, Steps, past
  <2> QED BY <1>4, <2>1, <2>2, <2>3, CheckTypes DEF Monitor
<1>5. ASSUME NEW t \in Tasks, NEW g \in Gens, ReportReturns(g) \/ Tick(t, g) PROVE OwnTypes'
  BY <1>5 DEF ReportReturns, Tick, ctlVars, past, OwnTypes
<1> QED BY <1>1, <1>2, <1>3, <1>4, <1>5, TwoTasks DEF ControllerNext, Lifecycle

LEMMA InitOwnTypes == ControllerInit => OwnTypes
<1> SUFFICES ASSUME ControllerInit PROVE OwnTypes
  OBVIOUS
<1>1. interval = [t \in Tasks |-> 0] /\ 0 = Pull(<<0, 0>>)
  BY DEF ControllerInit, Pull
<1>2. \A t \in Tasks : \E i \in Intervals \cup {<<0, 0>>} : interval[t] \in {Pull(i), Push(i)}
  BY <1>1
<1>3. /\ ctl = "new" /\ node = FALSE /\ limited = FALSE /\ crashed = FALSE /\ faulty = FALSE /\ met = FALSE
      /\ step \in [Gens -> Steps] /\ got \in [Gens -> Intervals \cup {<<0, 0>>}]
  BY DEF ControllerInit, Steps
<1>4. reloads \in 0..MaxReloads
  BY MaxReloadsAssumption DEF ControllerInit
<1> QED BY <1>1, <1>2, <1>3, <1>4 DEF OwnTypes

\* Types: where the controller and its polls are, and what intervals they keep.
THEOREM ControllerTypeCorrect == ControllerSpec => []ControllerTypeOK
<1>1. IInv /\ OwnTypes => ControllerTypeOK
  BY DEF IInv, OwnTypes, ControllerTypeOK
<1> QED BY <1>1, InitOwnTypes, StepOwnTypes, TasksAreSound, PTL DEF ControllerSpec
-----------------------------------------------------------------------------
\* The life of a controller whose polls overlap each other and its Close

\* A call that has begun is on a goroutine that executes.
CallsInv == \A g \in Gens : step[g] # "poll" => pc["monitor"][g] = "exec"

Ending == Closing \cup {"closed"}

\* Before Start has come to the tasks there are none.
EarlyInv == ctl \in {"new", "startMonitor", "failed"} => \A t \in Tasks : made[t] = 0

\* One call at a time is between its DelNode and its AddNode.  While one is, and
\* before Start and after Close, the core does not have the node; otherwise
\* it has, but for a failure.
NodeInv ==
    /\ node => Between = {} /\ ctl \notin {"new", "closed"}
    /\ \A g, h \in Between : g = h
    /\ ctl = "closed" => Between = {}
    /\ ctl = "failed" => faulty
    /\ ~node /\ Between = {} => faulty \/ ctl \in {"new", "closed"}

LimiterInv == limited \/ ctl \in {"new"} \cup Ending

\* A Close that met no reload: the tasks that it has come to stay stopped, as no
\* call is where it could start one, and none gets there without a node.
EndInv ==
    ctl \in Ending /\ ~met =>
        /\ ~limited
        /\ \A g \in Gens : step[g] \in {"poll", "return"} \/ (ctl = "closed" /\ step[g] = "delNode")
        /\ ctl # "closeMonitor" => ~running["monitor"]
        /\ ctl \in {"delNode", "closed"} => ~running["report"]

CrashInv == crashed => faulty \/ Between # {} \/ ctl = "closed"

LifeInv == CallsInv /\ EarlyInv /\ NodeInv /\ LimiterInv /\ EndInv /\ CrashInv

\* Start and Close of a task leave alone what its goroutines execute.
LEMMA CallKeepsLoops ==
    ASSUME IInv, NEW t \in Tasks, Start(t, FALSE) \/ Close(t)
    PROVE  /\ \A u \in Tasks, g \in Gens : pc'[u][g] = "exec" <=> pc[u][g] = "exec"
           /\ \A u \in Tasks \ {t} : running'[u] = running[u]
           /\ Close(t) => ~running'[t] /\ made' = made
<1>1. \A u \in Tasks : made[u] \in Nat /\ made[u] \in 0..MaxStarts
  BY MaxStartsAssumption DEF IInv, TypeOK
<1>2. CASE UNCHANGED taskVars
  <2>1. Close(t) => ~running'[t]
    <3>1. t \in DOMAIN running
      BY DEF IInv, TypeOK
    <3> QED BY <1>2, <3>1 DEF taskVars, Close
  <2> QED BY <1>2, <2>1 DEF taskVars
<1>3. CASE Spawn(t, FALSE)
  <2>1. made[t] + 1 \in Gens /\ pc[t][made[t] + 1] = "none"
    <3>1. made[t] + 1 \in Gens
      BY <1>1, <1>3, MaxStartsAssumption DEF Spawn, Gens
    <3> QED BY <1>1, <3>1 DEF IInv, MadeByStart
  <2>2. /\ pc' = [pc EXCEPT ![t][made[t] + 1] = "select"]
        /\ made' = [made EXCEPT ![t] = @ + 1] /\ running' = [running EXCEPT ![t] = TRUE]
    BY <1>3 DEF Spawn
  <2>3. pc \in [Tasks -> [Gens -> Places]] /\ made \in [Tasks -> 0..MaxStarts] /\ running \in [Tasks -> BOOLEAN]
    BY DEF IInv, TypeOK
  <2>4. \A u \in Tasks, g \in Gens : pc'[u][g] = IF u = t /\ g = made[t] + 1 THEN "select" ELSE pc[u][g]
    BY <2>2, <2>3
  <2>5. made'[t] = made[t] + 1
    BY <2>2, <2>3
  <2>6. \A u \in Tasks \ {t} : running'[u] = running[u]
    BY <2>2, <2>3
  <2>7. ~Close(t)
    BY <1>1, <2>5 DEF Close, taskVars
  <2> QED BY <2>1, <2>4, <2>6, <2>7
<1>4. CASE Close(t) /\ running[t]
  <2>1. running' = [running EXCEPT ![t] = FALSE] /\ made' = made /\ pc' = pc
    BY <1>4 DEF Close
  <2>2. running \in [Tasks -> BOOLEAN]
    BY DEF IInv, TypeOK
  <2> QED BY <2>1, <2>2
<1> QED BY <1>2, <1>3, <1>4 DEF Start, Close

\* A poll runs only after Start has started the monitor.
LEMMA CallsAreLate ==
    ASSUME IInv, LifeInv, NEW g \in Gens, pc["monitor"][g] = "exec"
    PROVE  ctl \notin {"new", "startMonitor", "failed"}
<1>1. made["monitor"] # 0
  BY TwoTasks DEF IInv, MadeByStart, Gens
<1> QED BY <1>1, TwoTasks DEF LifeInv, EarlyInv

\* Start of the controller
LEMMA StartKeepsLife ==
    ASSUME IInv, OwnTypes, LifeInv, ~crashed, Boot \/ StartTasks
    PROVE  LifeInv'
<1>1. "monitor" \in Tasks /\ "report" \in Tasks
  BY TwoTasks
<1>2. UNCHANGED <<step, crashed, met>> /\ Between' = Between
  BY DEF Boot, StartTasks, StartTask, past, Between
<1>3. CASE Boot
  <2>1. /\ UNCHANGED taskVars /\ ctl = "new" /\ limited' /\ ctl' \in {"startMonitor", "failed"}
        /\ (ctl' = "failed" /\ faulty') \/ (ctl' = "startMonitor" /\ node' /\ faulty' = faulty)
    BY <1>3 DEF Boot
  <2>2. \A g \in Gens : step[g] = "poll"
    <3>1. \A g \in Gens : pc["monitor"][g] # "exec"
      BY <2>1, CallsAreLate
    <3> QED BY <3>1 DEF LifeInv, CallsInv
  <2>3. Between = {}
    BY <2>2 DEF Between
  <2>4. CallsInv' /\ EarlyInv'
    BY <1>2, <2>1 DEF LifeInv, CallsInv, EarlyInv, taskVars
  <2>5. NodeInv' /\ LimiterInv' /\ EndInv'
    <3>1. Between' = {}
      BY <1>2, <2>3
    <3>2. NodeInv'
      BY <2>1, <3>1 DEF NodeInv
    <3> QED BY <2>1, <3>2 DEF LimiterInv, EndInv, Ending, Closing
  <2>6. CrashInv'
    BY <1>2 DEF CrashInv
  <2> QED BY <2>4, <2>5, <2>6 DEF LifeInv
<1>4. ASSUME NEW t \in Tasks, NEW from \in {"startMonitor", "startReport"}, NEW to \in {"startReport", "open"},
             StartTask(t, from, to)
      PROVE  LifeInv'
  <2>1. ctl = from /\ ctl' = to /\ UNCHANGED <<node, limited, faulty>>
    BY <1>4 DEF StartTask, past
  <2>2. CallsInv'
    <3>1. \A g \in Gens : pc'["monitor"][g] = "exec" <=> pc["monitor"][g] = "exec"
      BY <1>1, <1>4, CallKeepsLoops DEF StartTask
    <3> QED BY <1>2, <3>1 DEF LifeInv, CallsInv
  <2>3. EarlyInv' /\ NodeInv' /\ LimiterInv' /\ EndInv' /\ CrashInv'
    BY <1>2, <2>1 DEF LifeInv, EarlyInv, NodeInv, LimiterInv, EndInv, CrashInv, Ending, Closing
  <2> QED BY <2>2, <2>3 DEF LifeInv
<1> QED BY <1>1, <1>3, <1>4 DEF StartTasks

\* Close of the controller
LEMMA CloseKeepsLife ==
    ASSUME IInv, OwnTypes, LifeInv, ~panicked, ~crashed, CloseBegins \/ CloseTasks \/ CloseDelNode
    PROVE  LifeInv'
<1>1. "monitor" \in Tasks /\ "report" \in Tasks
  BY TwoTasks
<1>2. UNCHANGED <<step, faulty>> /\ Between' = Between
  BY DEF CloseBegins, CloseTasks, CloseTask, CloseDelNode, past, Between
<1>3. CASE CloseBegins
  <2>1. /\ UNCHANGED <<taskVars, node, crashed>> /\ ~limited' /\ met' = (Reloading # {})
        /\ (ctl = "failed" /\ ctl' = "delNode") \/ (ctl = "open" /\ ctl' = "closeMonitor")
    BY <1>3 DEF CloseBegins
  <2>2. CallsInv' /\ EarlyInv' /\ NodeInv' /\ LimiterInv' /\ CrashInv'
    BY <1>2, <2>1 DEF LifeInv, CallsInv, EarlyInv, NodeInv, LimiterInv, CrashInv, Ending, Closing, taskVars
  <2>3. ctl' = "delNode" => \A t \in Tasks : ~running[t]
    BY <2>1 DEF LifeInv, EarlyInv, IInv, FlagTracksStop
  <2>4. ~met' => \A g \in Gens : step[g] \in {"poll", "return"}
    BY <2>1 DEF Reloading
  <2>5. EndInv'
    BY <1>1, <1>2, <2>1, <2>3, <2>4 DEF EndInv, taskVars
  <2> QED BY <2>2, <2>5 DEF LifeInv
<1>4. ASSUME NEW t \in Tasks, NEW from \in {"closeMonitor", "closeReport"}, NEW to \in {"closeReport", "delNode"},
             CloseTask(t, from, to)
      PROVE  /\ CallsInv' /\ EarlyInv' /\ NodeInv' /\ LimiterInv' /\ CrashInv'
             /\ ~running'[t] /\ \A u \in Tasks \ {t} : running'[u] = running[u]
  <2>1. ctl = from /\ ctl' = to /\ UNCHANGED <<node, limited, crashed>>
    BY <1>4 DEF CloseTask
  <2>2. /\ \A g \in Gens : pc'["monitor"][g] = "exec" <=> pc["monitor"][g] = "exec"
        /\ ~running'[t] /\ \A u \in Tasks \ {t} : running'[u] = running[u]
    BY <1>1, <1>4, CallKeepsLoops DEF CloseTask
  <2>3. CallsInv'
    BY <1>2, <2>2 DEF LifeInv, CallsInv
  <2>4. EarlyInv' /\ NodeInv' /\ LimiterInv' /\ CrashInv'
    BY <1>2, <2>1 DEF LifeInv, EarlyInv, NodeInv, LimiterInv, CrashInv, Ending, Closing
  <2> QED BY <2>2, <2>3, <2>4
<1>5. CASE CloseTask("monitor", "closeMonitor", "closeReport")
  <2>1. ctl = "closeMonitor" /\ ctl' = "closeReport" /\ UNCHANGED <<limited, met>>
    BY <1>5 DEF CloseTask, past
  <2>2. EndInv'
    BY <1>1, <1>2, <1>4, <1>5, <2>1 DEF LifeInv, EndInv, Ending, Closing
  <2> QED BY <1>1, <1>4, <1>5, <2>2 DEF LifeInv
<1>6. CASE CloseTask("report", "closeReport", "delNode")
  <2>1. ctl = "closeReport" /\ ctl' = "delNode" /\ UNCHANGED <<limited, met>>
    BY <1>6 DEF CloseTask, past
  <2>2. EndInv'
    BY <1>1, <1>2, <1>4, <1>6, <2>1 DEF LifeInv, EndInv, Ending, Closing
  <2> QED BY <1>1, <1>4, <1>6, <2>2 DEF LifeInv
<1>7. CASE CloseDelNode
  <2>1. /\ UNCHANGED <<taskVars, limited, met>> /\ ctl = "delNode"
        /\ \/ node /\ ~node' /\ ctl' = "closed" /\ crashed' = crashed
           \/ ~node /\ crashed' /\ UNCHANGED <<node, ctl>>
    BY <1>7 DEF CloseDelNode, past
  <2>2. CallsInv' /\ EarlyInv' /\ LimiterInv'
    BY <1>2, <2>1 DEF LifeInv, CallsInv, EarlyInv, LimiterInv, Ending, Closing, taskVars
  <2>3. NodeInv' /\ CrashInv'
    BY <1>2, <2>1 DEF LifeInv, NodeInv, CrashInv
  <2>4. EndInv'
    BY <1>2, <2>1 DEF LifeInv, EndInv, Ending, Closing, taskVars
  <2> QED BY <2>2, <2>3, <2>4 DEF LifeInv
<1> QED BY <1>3, <1>5, <1>6, <1>7 DEF CloseTasks

\* A poll, wherever other polls, Start and Close are
LEMMA MonitorKeepsLife ==
    ASSUME IInv, OwnTypes, LifeInv, ~crashed, NEW g \in Gens, Monitor(g)
    PROVE  LifeInv'
<1>1. "monitor" \in Tasks /\ "report" \in Tasks
  BY TwoTasks
<1>2. pc["monitor"][g] = "exec" /\ ctl' = ctl
  BY DEF Monitor, PollUnchanged, PollChanged, ReloadDelNode, ReloadLimiter, ReloadAddNode, CheckIntervals,
         CheckInterval, Restart, MonitorReturns, At
<1>3. ctl \notin {"new", "startMonitor", "failed"}
  BY <1>2, CallsAreLate
<1>4. EarlyInv'
  BY <1>2, <1>3 DEF EarlyInv
<1>5. step \in [Gens -> Steps]
  BY DEF OwnTypes
<1>6. CASE PollUnchanged(g) \/ PollChanged(g)
  <2>1. /\ UNCHANGED <<taskVars, node, limited, crashed, faulty>>
        /\ step[g] = "poll" /\ step'[g] \in {"return", "delNode"} /\ \A h \in Gens \ {g} : step'[h] = step[h]
        /\ (step'[g] = "return" /\ met' = met) \/ met' = (met \/ ctl \in Closing)
    BY <1>5, <1>6 DEF PollUnchanged, PollChanged, Goto, At, past
  <2>2. Between' = Between
    BY <2>1 DEF Between
  <2>3. CallsInv' /\ NodeInv' /\ LimiterInv' /\ CrashInv'
    BY <1>2, <2>1, <2>2 DEF LifeInv, CallsInv, NodeInv, LimiterInv, CrashInv, taskVars
  <2>4. ~met' => ~met /\ (step'[g] = "delNode" => ctl \notin Closing)
    BY <2>1
  <2>5. EndInv'
    BY <1>2, <2>1, <2>4 DEF LifeInv, EndInv, Ending, taskVars
  <2> QED BY <1>4, <2>3, <2>5 DEF LifeInv
<1>7. CASE ReloadDelNode(g)
  <2>1. /\ UNCHANGED <<taskVars, limited, faulty, met>> /\ step[g] = "delNode"
        /\ \A h \in Gens \ {g} : step'[h] = step[h]
        /\ \/ node /\ ~node' /\ step'[g] = "limiter" /\ crashed' = crashed
           \/ ~node /\ crashed' /\ UNCHANGED <<node, step>>
    BY <1>5, <1>7 DEF ReloadDelNode, Goto, At, past
  <2>2. CallsInv' /\ LimiterInv'
    BY <1>2, <2>1 DEF LifeInv, CallsInv, LimiterInv, taskVars
  <2>3. CASE node
    <3>1. Between = {} /\ ctl # "closed"
      BY <2>3 DEF LifeInv, NodeInv
    <3>2. Between' = {g}
      BY <2>1, <2>3, <3>1 DEF Between
    <3>3. NodeInv' /\ CrashInv'
      BY <1>2, <1>3, <2>1, <2>3, <3>1, <3>2 DEF NodeInv, CrashInv
    <3>4. EndInv'
      BY <1>2, <2>1, <3>1 DEF LifeInv, EndInv
    <3> QED BY <1>4, <2>2, <3>3, <3>4 DEF LifeInv
  <2>4. CASE ~node
    <3>1. UNCHANGED <<node, step>> /\ Between' = Between
      BY <2>1, <2>4 DEF Between
    <3>2. NodeInv' /\ CrashInv' /\ EndInv'
      BY <1>2, <1>3, <2>1, <2>4, <3>1 DEF LifeInv, NodeInv, CrashInv, EndInv, taskVars
    <3> QED BY <1>4, <2>2, <3>2 DEF LifeInv
  <2> QED BY <2>3, <2>4
<1>8. CASE ReloadLimiter(g)
  <2>1. /\ UNCHANGED <<taskVars, node, met>> /\ step[g] = "limiter" /\ limited' \in {limited, TRUE}
        /\ \A h \in Gens \ {g} : step'[h] = step[h]
        /\ \/ step'[g] = "addNode" /\ UNCHANGED <<crashed, faulty>>
           \/ step'[g] \in {"return", "limiter"} /\ faulty'
    BY <1>5, <1>8 DEF ReloadLimiter, Goto, At, OwnTypes
  <2>2. g \in Between /\ ctl # "closed" /\ Between' \subseteq Between /\ (faulty' \/ Between' = Between)
    BY <2>1 DEF LifeInv, NodeInv, Between
  <2>3. CallsInv' /\ LimiterInv'
    <3>1. limited => limited'
      BY <2>1
    <3> QED BY <1>2, <2>1, <3>1 DEF LifeInv, CallsInv, LimiterInv, taskVars
  <2>4. NodeInv' /\ CrashInv'
    BY <1>2, <1>3, <2>1, <2>2 DEF LifeInv, NodeInv, CrashInv
  <2>5. EndInv'
    BY <1>2, <2>1, <2>2 DEF LifeInv, EndInv
  <2> QED BY <1>4, <2>3, <2>4, <2>5 DEF LifeInv
<1>9. CASE ReloadAddNode(g)
  <2>1. /\ UNCHANGED <<taskVars, limited, met>> /\ step[g] = "addNode"
        /\ \A h \in Gens \ {g} : step'[h] = step[h]
        /\ \/ ~node /\ node' /\ step'[g] \in {"pull", "return"} /\ UNCHANGED <<crashed, faulty>>
           \/ crashed' /\ UNCHANGED <<node, step>> /\ faulty' \in {faulty, TRUE}
    BY <1>5, <1>9 DEF ReloadAddNode, Goto, At
  <2>2. Between = {g} /\ ctl # "closed"
    BY <2>1 DEF LifeInv, NodeInv, Between
  <2>3. CallsInv' /\ LimiterInv'
    BY <1>2, <2>1 DEF LifeInv, CallsInv, LimiterInv, taskVars
  <2>4. EndInv'
    BY <1>2, <2>1, <2>2 DEF LifeInv, EndInv
  <2>5. CASE node' /\ step'[g] \in {"pull", "return"} /\ UNCHANGED <<crashed, faulty>>
    <3>1. Between' = {}
      BY <2>1, <2>2, <2>5 DEF Between
    <3>2. NodeInv'
      BY <1>2, <1>3, <2>2, <2>5, <3>1 DEF NodeInv
    <3>3. CrashInv'
      BY <2>5 DEF CrashInv
    <3> QED BY <1>4, <2>3, <2>4, <3>2, <3>3 DEF LifeInv
  <2>6. CASE crashed' /\ UNCHANGED <<node, step>> /\ faulty' \in {faulty, TRUE}
    <3>1. Between' = Between
      BY <2>6 DEF Between
    <3>2. faulty => faulty'
      BY <2>6
    <3>3. NodeInv' /\ CrashInv'
      BY <1>2, <2>2, <2>6, <3>1, <3>2 DEF LifeInv, NodeInv, CrashInv
    <3> QED BY <1>4, <2>3, <2>4, <3>3 DEF LifeInv
  <2> QED BY <2>1, <2>5, <2>6
<1>10. CASE CheckIntervals(g)
  <2>1. /\ UNCHANGED <<node, limited, faulty, met, crashed>> /\ \A h \in Gens \ {g} : step'[h] = step[h]
        /\ step[g] \in {"pull", "startSelf", "push", "startReport"}
        /\ step'[g] \in {"startSelf", "push", "startReport", "return"}
    BY <1>5, <1>10 DEF CheckIntervals, CheckInterval, Restart, Goto, At, past
  <2>2. UNCHANGED taskVars \/ \E t \in Tasks : Start(t, FALSE) \/ Close(t)
    BY <1>1, <1>10 DEF CheckIntervals, CheckInterval, Restart
  <2>3. \A h \in Gens : pc'["monitor"][h] = "exec" <=> pc["monitor"][h] = "exec"
    BY <1>1, <2>2, CallKeepsLoops DEF taskVars
  <2>4. Between' = Between
    BY <2>1 DEF Between
  <2>5. CallsInv'
    BY <1>2, <2>1, <2>3 DEF LifeInv, CallsInv
  <2>6. NodeInv' /\ LimiterInv' /\ CrashInv'
    BY <1>2, <2>1, <2>4 DEF LifeInv, NodeInv, LimiterInv, CrashInv
  <2>7. EndInv'
    BY <1>2, <2>1 DEF LifeInv, EndInv
  <2> QED BY <1>4, <2>5, <2>6, <2>7 DEF LifeInv
<1>11. CASE MonitorReturns(g)
  <2>1. /\ UNCHANGED <<node, limited, faulty, met, crashed, running>> /\ \A h \in Gens \ {g} : step'[h] = step[h]
        /\ step[g] = "return" /\ step'[g] = "poll" /\ pc' = [pc EXCEPT !["monitor"][g] = "select"]
    BY <1>5, <1>11 DEF MonitorReturns, ExecuteReturns, Goto, At, past
  <2>2. \A h \in Gens \ {g} : pc'["monitor"][h] = pc["monitor"][h]
    BY <1>1, <2>1 DEF IInv, TypeOK
  <2>3. Between' = Between
    BY <2>1 DEF Between
  <2>4. CallsInv'
    BY <2>1, <2>2 DEF LifeInv, CallsInv
  <2>5. NodeInv' /\ LimiterInv' /\ CrashInv' /\ EndInv'
    BY <1>2, <2>1, <2>3 DEF LifeInv, NodeInv, LimiterInv, CrashInv, EndInv
  <2> QED BY <1>4, <2>4, <2>5 DEF LifeInv
<1> QED BY <1>6, <1>7, <1>8, <1>9, <1>10, <1>11 DEF Monitor

\* The other steps of the tasks' goroutines: none leaves an Execute of the monitor.
LEMMA LoopKeepsLife ==
    ASSUME IInv, LifeInv, NEW t \in Tasks, NEW g \in Gens, Tick(t, g) \/ ReportReturns(g)
    PROVE  LifeInv'
<1>1. UNCHANGED <<ctlVars, running, made>> /\ Between' = Between
  BY DEF Tick, Waiting, EnterSelect, TimerFires, StopFires, ReportReturns, ExecuteReturns, ctlVars, Between
<1>2. pc \in [Tasks -> [Gens -> Places]] /\ "monitor" \in Tasks /\ "report" \in Tasks
  BY TwoTasks DEF IInv, TypeOK
<1>3. \A h \in Gens : pc["monitor"][h] = "exec" => pc'["monitor"][h] = "exec"
  <2>1. CASE ReportReturns(g)
    BY <1>2, <2>1 DEF ReportReturns, ExecuteReturns
  <2>2. CASE Tick(t, g)
    <3>1. pc[t][g] # "exec" /\ \E p \in Places : pc' = [pc EXCEPT ![t][g] = p]
      BY <2>2 DEF Tick, Waiting, EnterSelect, TimerFires, StopFires, Places
    <3> QED BY <1>2, <3>1
  <2> QED BY <2>1, <2>2
<1>4. CallsInv'
  BY <1>1, <1>3 DEF LifeInv, CallsInv, ctlVars
<1>5. EarlyInv' /\ NodeInv' /\ LimiterInv' /\ EndInv' /\ CrashInv'
  BY <1>1 DEF LifeInv, EarlyInv, NodeInv, LimiterInv, EndInv, CrashInv, ctlVars, past
<1> QED BY <1>4, <1>5 DEF LifeInv

\* Reloads, restarts and a Close, in any order and overlap: nobody dies of DelNode
\* or AddNode but where two delete the node, or after a failure; what Close
\* leaves stays gone, but for a reload that was under way; and a node has its limiter.
THEOREM LifecycleIsSoundAlways == ControllerSpec => []LifecycleIsSound
<1>1. ControllerInit => LifeInv
  <2> SUFFICES ASSUME ControllerInit PROVE LifeInv
    OBVIOUS
  <2>1. Between = {} /\ ctl = "new"
    BY DEF ControllerInit, Between
  <2> QED BY <2>1 DEF ControllerInit, Init, LifeInv, CallsInv, EarlyInv, NodeInv, LimiterInv, EndInv, CrashInv, Ending, Closing
<1>2. IInv /\ OwnTypes /\ LifeInv /\ [ControllerNext]_vars => LifeInv'
  <2> SUFFICES ASSUME IInv, OwnTypes, LifeInv, [ControllerNext]_vars PROVE LifeInv'
    OBVIOUS
  <2>1. CASE UNCHANGED vars
    BY <2>1 DEF vars, taskVars, ctlVars, past, LifeInv, CallsInv, EarlyInv, NodeInv, LimiterInv, EndInv, CrashInv, Between
  <2>2. CASE ControllerNext
    BY <2>2, StartKeepsLife, CloseKeepsLife, MonitorKeepsLife, LoopKeepsLife, TwoTasks DEF ControllerNext, Lifecycle
  <2> QED BY <2>1, <2>2
<1>3. IInv /\ LifeInv => LifecycleIsSound
  <2> SUFFICES ASSUME IInv, LifeInv PROVE LifecycleIsSound
    OBVIOUS
  <2>1. NoCrash
    BY DEF LifeInv, CrashInv, NoCrash, IInv, OnlyFailuresPanic
  <2>2. CloseIsFinal
    BY TwoTasks DEF LifeInv, NodeInv, EndInv, CloseIsFinal, Ending, Closing
  <2>3. NodeIsLimited
    BY DEF LifeInv, NodeInv, LimiterInv, NodeIsLimited, Ending, Closing
  <2> QED BY <2>1, <2>2, <2>3 DEF LifecycleIsSound
<1> QED BY <1>1, <1>2, <1>3, InitOwnTypes, StepOwnTypes, TasksAreSound, PTL DEF ControllerSpec

-----------------------------------------------------------------------------
\* A node's bytes (module Traffic)

\* Where a connection may be, by kind, and what it has found by then; whether
\* the report has a storage in hand.
Anywhere == Resting \cup Finding \cup {"manager", "newManager", "link", "counter", "newCounter"}
Ranging == {"range", "down", "resetUp", "resetDown"}
Handling == {"down", "resetUp", "resetDown"}

MapTypes ==
    /\ kind \in Kinds /\ serial \in BOOLEAN
    /\ known \subseteq Users /\ listed \subseteq known
    /\ forgetting \in Users \cup {None} /\ (forgetting # None => kind = "hy2")
    /\ managers \in [Users -> Conns \cup {None}] /\ links \in [Conns -> SUBSET Conns]
    /\ cut \subseteq Conns /\ raced \subseteq Users /\ edits \in 0..MaxEdits

CounterTypes ==
    /\ counter \in Conns \cup {None} /\ entry \in [Conns -> [Users -> Stores \cup {None}]]
    /\ up \in [Stores -> Nat] /\ down \in [Stores -> Nat]

ConnTypes ==
    /\ stage \in [Conns -> Anywhere] /\ user \in [Conns -> Users]
    /\ mgr \in [Conns -> Conns \cup {None}] /\ ctr \in [Conns -> Conns \cup {None}]
    /\ store \in [Conns -> Stores \cup {None}]
    /\ \A c \in Conns :
        /\ stage[c] = "link" => mgr[c] # None
        /\ stage[c] \in Finding => ctr[c] # None
        /\ stage[c] = "add" => store[c] # None /\ kind = "hy2"
        /\ kind # "hy2" /\ stage[c] = "open" => store[c] # None
        /\ kind # "xray" => stage[c] \notin {"manager", "newManager", "link"}

Reports == [at : {"idle", "range", "down", "resetUp", "resetDown", "push", "online"},
            left : SUBSET Users, ctr : Conns \cup {None}, user : Users \cup {None},
            store : Stores \cup {None}, up : Nat]
RepTypes ==
    /\ rep \in Reports
    /\ rep.at \in Ranging => rep.ctr # None
    /\ rep.at \in Handling => rep.user # None /\ rep.store # None

HistoryTypes ==
    /\ slice \in [Users -> Nat] /\ produced \in [Users -> 0..MaxBytes]
    /\ dropped \in [Users -> Nat] /\ billed \in [Users -> Nat]

Shape == MapTypes /\ CounterTypes /\ ConnTypes /\ RepTypes /\ HistoryTypes

\* Storage s is found under u in some counter, or a connection of u or the
\* report holds it for u.
Holds(u, s) ==
    \/ \E c \in Conns : entry[c][u] = s
    \/ \E c \in Conns : store[c] = s /\ user[c] = u
    \/ rep.store = s /\ rep.user = u

\* No storage serves two users.
OneOwner == \A u, v \in Users : \A s \in Stores : Holds(u, s) /\ Holds(v, s) => u = v

\* What the report has read, and what its slice holds, before it has passed u
Pending ==
    /\ rep.at = "idle" => slice = Zero
    /\ rep.at \in Ranging => \A u \in rep.left : slice[u] = 0
    /\ rep.at \in Handling => rep.user \notin rep.left
    /\ rep.at \in {"down", "resetUp"} => rep.up <= up[rep.store]
    /\ rep.at = "down" => slice[rep.user] = 0
    /\ rep.at \in {"resetUp", "resetDown"} =>
        rep.up <= slice[rep.user] /\ slice[rep.user] <= rep.up + down[rep.store]

\* Of the bytes in s, those that the slice has too, until they are cleared
Debt(u, s) ==
    IF rep.store = s /\ rep.user = u /\ rep.at = "resetUp" THEN slice[u]
    ELSE IF rep.store = s /\ rep.user = u /\ rep.at = "resetDown" THEN slice[u] - rep.up
    ELSE 0

Taken(u) == IF rep.at = "online" THEN 0 ELSE slice[u]

\* total[s] is a part of what u has produced that is enough for what its
\* storages up to s hold and is neither billed nor taken.
Totals == [0..MaxStores -> Nat]
Covers(total, u) ==
    /\ \A m, n \in 0..MaxStores : m <= n => total[m] <= total[n]
    /\ \A s \in Stores : Holds(u, s) => up[s] + down[s] + total[s - 1] <= total[s] + Debt(u, s)
    /\ billed[u] + Taken(u) + total[MaxStores] <= produced[u]
Budget == \A u \in Users : \E total \in Totals : Covers(total, u)

\* A connection of xray, from Admit until its link is closed: it adds its link to
\* the manager that the maps hold, and is in it from then on.
Managed(c) == /\ user[c] \in known /\ managers[user[c]] # None
              /\ c \in links[managers[user[c]]]
Carries(c) == stage[c] = "open" /\ c \notin cut
Linked(c) ==
    /\ stage[c] \in {"manager", "newManager", "link"} => user[c] \in known
    /\ stage[c] = "link" => mgr[c] = managers[user[c]]
    /\ stage[c] \in {"counter", "newCounter", "storage", "open"} => c \in cut \/ Managed(c)
LinkInv ==
    /\ \A u \in Users : managers[u] # None => user[managers[u]] = u
    /\ \A c \in Conns : user[c] \notin raced => Linked(c)
    /\ serial => raced = {} /\ \A c \in Conns : stage[c] = "newManager" => managers[user[c]] = None

\* When nothing overlaps: one connection at a time, or the report, or a deletion.
Turns ==
    /\ \A c, d \in Connecting : c = d
    /\ Connecting # {} => rep.at = "idle" /\ forgetting = None
    /\ rep.at # "idle" => forgetting = None

\* ... a connection's counter and its storage are those the maps hold, and the report's,
CounterTurn ==
    /\ \A c \in Conns :
        /\ stage[c] = "newCounter" => counter = None
        /\ stage[c] = "storage" => ctr[c] = counter
        /\ stage[c] = "add" \/ (kind = "xray" /\ Carries(c)) => store[c] = StorageOf(user[c])
    /\ rep.at \in Ranging => rep.ctr = counter
    /\ rep.at \in Handling => rep.store = StorageOf(rep.user)

\* ... and u's bytes are where the report's place says they are.
Reading(u) == rep.at \in Handling /\ rep.user = u
Accounted(u) ==
    /\ rep.at # "online" /\ ~Reading(u) => produced[u] = billed[u] + dropped[u] + slice[u] + Unreported(u)
    /\ rep.at = "online" => produced[u] = billed[u] + dropped[u] + Unreported(u)
    /\ Reading(u) /\ rep.at = "down" =>
        produced[u] = billed[u] + dropped[u] + Unreported(u) /\ rep.up = up[rep.store]
    /\ Reading(u) /\ rep.at = "resetUp" =>
        produced[u] = billed[u] + dropped[u] + slice[u] /\ slice[u] = Unreported(u) /\ rep.up = up[rep.store]
    /\ Reading(u) /\ rep.at = "resetDown" =>
        produced[u] = billed[u] + dropped[u] + slice[u] /\ up[rep.store] = 0
AccountTurn == \A u \in Users : Accounted(u)

\* Nothing has happened yet.
LEMMA ShapeInit == TrafficInit => Shape
<1> SUFFICES ASSUME TrafficInit PROVE Shape
  OBVIOUS
<1> USE TrafficBounds DEF TrafficInit
<1>1. MapTypes /\ HistoryTypes
  BY DEF MapTypes, HistoryTypes, Zero
<1>2. CounterTypes
  BY DEF CounterTypes
<1>3. ConnTypes
  BY DEF ConnTypes, Anywhere, Resting, Finding
<1>4. RepTypes
  BY DEF RepTypes, Reports, Idle, Ranging, Handling
<1> QED BY <1>1, <1>2, <1>3, <1>4 DEF Shape

\* A connection finds a manager, a counter and a storage before it uses them.
LEMMA ConnectionShape ==
    ASSUME Shape, NEW c \in Conns, Connection(c)
    PROVE  Shape'
<1> USE DEF Shape, fixed, userMaps, linkMaps, counters, conns, report, history
<1>1. RepTypes'
  <2>1. UNCHANGED rep
    BY DEF Connection, Admit, LoadManager, StoreManager, AddLink, LogTraffic, LoadCounter, StoreCounter,
           GetCounter, Transfer, Disconnect
  <2> QED BY <2>1 DEF RepTypes
<1>2. MapTypes'
  <2>1. UNCHANGED <<kind, serial, listed, known, forgetting, cut, edits>>
    BY DEF Connection, Admit, LoadManager, StoreManager, AddLink, LogTraffic, LoadCounter, StoreCounter,
           GetCounter, Transfer, Disconnect
  <2>2. managers' \in [Users -> Conns \cup {None}]
    <3>1. CASE StoreManager(c)
      BY <3>1 DEF StoreManager, MapTypes, ConnTypes
    <3>2. CASE UNCHANGED managers
      BY <3>2 DEF MapTypes
    <3> QED BY <3>1, <3>2 DEF Connection, Admit, LoadManager, AddLink, LogTraffic, LoadCounter, StoreCounter,
              GetCounter, Transfer, Disconnect
  <2>3. links' \in [Conns -> SUBSET Conns]
    <3>1. CASE AddLink(c)
      BY <3>1 DEF AddLink, MapTypes, ConnTypes
    <3>2. CASE Disconnect(c)
      BY <3>2 DEF Disconnect, MapTypes, ConnTypes
    <3>3. CASE UNCHANGED links
      BY <3>3 DEF MapTypes
    <3> QED BY <3>1, <3>2, <3>3 DEF Connection, Admit, LoadManager, StoreManager, LogTraffic, LoadCounter,
              StoreCounter, GetCounter, Transfer
  <2>4. raced' \subseteq Users
    BY DEF Connection, Admit, LoadManager, StoreManager, AddLink, LogTraffic, LoadCounter, StoreCounter,
           GetCounter, Transfer, Disconnect, MapTypes, ConnTypes
  <2> QED BY <2>1, <2>2, <2>3, <2>4 DEF MapTypes
<1>3. CounterTypes'
  <2>1. CASE StoreCounter(c)
    BY <2>1 DEF StoreCounter, CounterTypes
  <2>2. CASE GetCounter(c)
    <3>1. CASE UNCHANGED <<entry, up, down>>
      BY <2>2, <3>1 DEF GetCounter, CounterTypes
    <3>2. CASE Free # {} /\ LET new == CHOOSE n \in Free : TRUE
                            IN  /\ entry' = [entry EXCEPT ![ctr[c]][user[c]] = new]
                                /\ up' = [up EXCEPT ![new] = 0] /\ down' = [down EXCEPT ![new] = 0]
      <4> DEFINE new == CHOOSE n \in Free : TRUE
      <4>1. new \in Stores
        BY <3>2 DEF Free
      <4>2. entry' \in [Conns -> [Users -> Stores \cup {None}]]
        BY <3>2, <4>1 DEF CounterTypes
      <4> HIDE DEF new
      <4>3. up' \in [Stores -> Nat] /\ down' \in [Stores -> Nat]
        BY <3>2, <4>1 DEF CounterTypes, new
      <4> QED BY <2>2, <4>2, <4>3 DEF CounterTypes, GetCounter
    <3> QED BY <2>2, <3>1, <3>2 DEF GetCounter
  <2>3. CASE Transfer(c)
    <3>1. up' \in [Stores -> Nat]
      BY <2>3 DEF Transfer, Add, CounterTypes
    <3>2. down' \in [Stores -> Nat]
      BY <2>3 DEF Transfer, Add, CounterTypes
    <3>3. UNCHANGED <<counter, entry>>
      BY <2>3 DEF Transfer
    <3> QED BY <3>1, <3>2, <3>3 DEF CounterTypes
  <2>4. CASE UNCHANGED counters
    BY <2>4 DEF CounterTypes
  <2> QED BY <2>1, <2>2, <2>3, <2>4 DEF Connection, Admit, LoadManager, StoreManager, AddLink, LogTraffic,
            LoadCounter, Disconnect
<1>4. ConnTypes'
  <2> USE DEF ConnTypes, Enter, Anywhere, Resting, Finding
  <2>1. CASE Admit(c)
    <3>1. CASE kind = "xray"
      BY <2>1, <3>1 DEF Admit
    <3>2. CASE kind = "sing"
      BY <2>1, <3>2 DEF Admit
    <3>3. CASE kind = "hy2"
      BY <2>1, <3>3 DEF Admit
    <3> QED BY <3>1, <3>2, <3>3, KindsAssumption DEF MapTypes
  <2>2. CASE LoadManager(c)
    BY <2>2 DEF LoadManager, MapTypes
  <2>3. CASE StoreManager(c)
    BY <2>3, NoneIsNew DEF StoreManager
  <2>4. CASE AddLink(c)
    BY <2>4 DEF AddLink
  <2>5. CASE LogTraffic(c)
    BY <2>5 DEF LogTraffic
  <2>6. CASE LoadCounter(c)
    BY <2>6 DEF LoadCounter, CounterTypes
  <2>7. CASE StoreCounter(c)
    BY <2>7, NoneIsNew DEF StoreCounter
  <2>8. CASE GetCounter(c)
    <3>1. PICK n \in Stores : store' = [store EXCEPT ![c] = n]
      BY <2>8 DEF GetCounter, CounterTypes, Free
    <3>2. n # None
      BY NoneIsNew DEF Stores
    <3> QED BY <2>8, <3>1, <3>2 DEF GetCounter
  <2>9. CASE Transfer(c)
    <3>1. CASE UNCHANGED <<stage, store>>
      BY <2>9, <3>1 DEF Transfer
    <3>2. CASE stage[c] = "add" /\ Enter(c, "open") /\ store' = [store EXCEPT ![c] = None]
      BY <2>9, <3>2 DEF Transfer
    <3> QED BY <2>9, <3>1, <3>2 DEF Transfer
  <2>10. CASE Disconnect(c)
    BY <2>10 DEF Disconnect
  <2> QED BY <2>1, <2>2, <2>3, <2>4, <2>5, <2>6, <2>7, <2>8, <2>9, <2>10 DEF Connection
<1>5. HistoryTypes'
  <2>1. CASE Transfer(c)
    BY <2>1, TrafficBounds DEF Transfer, Add, HistoryTypes, ConnTypes
  <2>2. CASE UNCHANGED <<slice, produced, dropped, billed>>
    BY <2>2 DEF HistoryTypes
  <2> QED BY <2>1, <2>2 DEF Connection, Admit, LoadManager, StoreManager, AddLink, LogTraffic, LoadCounter,
            StoreCounter, GetCounter, Disconnect
<1> QED BY <1>1, <1>2, <1>3, <1>4, <1>5

\* Between two places of the report its record is Idle's but for the place.
LEMMA IdleReport ==
    ASSUME NEW p \in {"idle", "push", "online"}
    PROVE  LET r == [Idle EXCEPT !.at = p]
           IN  r \in Reports /\ r.at = p /\ r.left = {}
BY DEF Idle, Reports

\* The report holds a counter while it ranges, a storage while it handles one.
LEMMA ReportShape ==
    ASSUME Shape, Report
    PROVE  Shape'
<1> USE DEF Shape, fixed, userMaps, linkMaps, counters, conns, report, history
<1> USE DEF Report, BeginReport, LoadUp, LoadDown, ResetUp, ResetDown, EndRange, ReportUserTraffic, ReportOnline
<1>1. UNCHANGED <<fixed, userMaps, linkMaps, counter, conns, edits>>
  OBVIOUS
<1>2. MapTypes'
  BY <1>1 DEF MapTypes
<1>3. ConnTypes'
  BY <1>1 DEF ConnTypes
<1>4. CounterTypes'
  <2>1. CASE ResetUp
    BY <2>1 DEF CounterTypes
  <2>2. CASE ResetDown
    <3>1. entry' \in [Conns -> [Users -> Stores \cup {None}]]
      BY <2>2 DEF CounterTypes
    <3>2. down' \in [Stores -> Nat]
      BY <2>2 DEF CounterTypes
    <3> QED BY <2>2, <3>1, <3>2 DEF CounterTypes
  <2>3. CASE UNCHANGED counters
    BY <2>3 DEF CounterTypes
  <2> QED BY <2>1, <2>2, <2>3
<1>5. HistoryTypes'
  <2>1. CASE LoadDown
    <3>1. rep.up + down[rep.store] \in Nat
      BY <2>1 DEF RepTypes, Reports, CounterTypes, Handling
    <3> QED BY <2>1, <3>1 DEF HistoryTypes
  <2>2. CASE ResetDown
    BY <2>2 DEF HistoryTypes, RepTypes, Reports, Handling
  <2>3. CASE ReportUserTraffic
    BY <2>3 DEF HistoryTypes
  <2>4. CASE ReportOnline
    BY <2>4 DEF HistoryTypes, Zero
  <2>5. CASE UNCHANGED <<slice, history>>
    BY <2>5 DEF HistoryTypes
  <2> QED BY <2>1, <2>2, <2>3, <2>4, <2>5
<1>6. RepTypes'
  <2> USE DEF RepTypes, Ranging, Handling
  <2>1. CASE BeginReport
    <3>1. CASE counter = None
      BY <2>1, <3>1, IdleReport
    <3>2. CASE counter # None
      BY <2>1, <3>2 DEF CounterTypes, Idle, Reports
    <3> QED BY <3>1, <3>2
  <2>2. ASSUME NEW u \in Users, LoadUp(u) PROVE RepTypes'
    <3>0. rep.ctr \in Conns
      BY <2>2 DEF Reports
    <3>1. entry[rep.ctr][u] \in Stores \cup {None}
      BY <3>0 DEF CounterTypes
    <3>2. CASE entry[rep.ctr][u] = None
      BY <2>2, <3>2 DEF Reports
    <3>3. CASE entry[rep.ctr][u] # None
      <4>1. up[entry[rep.ctr][u]] \in Nat
        BY <3>1, <3>3 DEF CounterTypes
      <4>2. u # None
        BY NoneIsNew
      <4> QED BY <2>2, <3>1, <3>3, <4>1, <4>2 DEF Reports
    <3> QED BY <3>2, <3>3
  <2>3. CASE LoadDown
    BY <2>3 DEF Reports
  <2>4. CASE ResetUp
    BY <2>4 DEF Reports
  <2>5. CASE ResetDown
    BY <2>5 DEF Reports
  <2>6. CASE EndRange \/ ReportUserTraffic
    BY <2>6, IdleReport
  <2>7. CASE ReportOnline
    BY <2>7 DEF Idle, Reports
  <2> QED BY <2>1, <2>2, <2>3, <2>4, <2>5, <2>6, <2>7
<1> QED BY <1>2, <1>3, <1>4, <1>5, <1>6

LEMMA UnreportedType ==
    ASSUME CounterTypes, NEW u \in Users
    PROVE  Unreported(u) \in Nat /\ StorageOf(u) \in Stores \cup {None}
BY DEF CounterTypes, Unreported, StorageOf

\* Edits of the users and of the node touch no storage and no report.
LEMMA ChangesShape ==
    ASSUME Shape, Changes
    PROVE  Shape'
<1> USE DEF Shape, fixed, userMaps, linkMaps, counters, conns, report, history
<1>1. UNCHANGED <<fixed, rep, slice, produced, billed, up, down, user, mgr, ctr>>
  BY DEF Changes, XrayDelUsers, SingDelUsers, Hy2DelCounter, Hy2DelAuth, AddUsers, Reload
<1>2. RepTypes'
  BY <1>1 DEF RepTypes
<1>3. MapTypes'
  <2> USE TrafficBounds DEF MapTypes, Edit
  <2>1. ASSUME NEW u \in Users, XrayDelUsers(u) PROVE MapTypes'
    <3>1. /\ UNCHANGED fixed /\ edits' \in 0..MaxEdits
          /\ known' \subseteq Users /\ listed' \subseteq known' /\ UNCHANGED forgetting
      BY <2>1 DEF XrayDelUsers
    <3>2. managers' \in [Users -> Conns \cup {None}] /\ links' \in [Conns -> SUBSET Conns] /\ cut' \subseteq Conns
      BY <2>1 DEF XrayDelUsers
    <3>3. raced' \subseteq Users
      BY <2>1 DEF XrayDelUsers, MeetsLinking
    <3> QED BY <3>1, <3>2, <3>3
  <2>2. ASSUME NEW u \in Users, SingDelUsers(u) \/ Hy2DelCounter(u) \/ AddUsers(u) PROVE MapTypes'
    <3>1. CASE SingDelUsers(u)
      BY <3>1 DEF SingDelUsers
    <3>2. CASE Hy2DelCounter(u)
      BY <3>2 DEF Hy2DelCounter
    <3>3. CASE AddUsers(u)
      BY <3>3 DEF AddUsers
    <3> QED BY <2>2, <3>1, <3>2, <3>3
  <2>3. CASE Hy2DelAuth
    BY <2>3 DEF Hy2DelAuth
  <2>4. CASE Reload
    BY <2>4 DEF Reload
  <2> QED BY <2>1, <2>2, <2>3, <2>4 DEF Changes
<1>4. ASSUME NEW u \in Users, DropCounter(u) PROVE entry' \in [Conns -> [Users -> Stores \cup {None}]] /\ dropped' \in [Users -> Nat]
  <2>1. entry' \in [Conns -> [Users -> Stores \cup {None}]]
    BY <1>4 DEF DropCounter, CounterTypes
  <2>2. Unreported(u) \in Nat
    BY UnreportedType
  <2> QED BY <1>4, <2>1, <2>2 DEF DropCounter, HistoryTypes
<1>5. CASE Reload
  <2>1. CounterTypes'
    BY <1>5 DEF Reload, CounterTypes
  <2>2. HistoryTypes'
    <3>1. \A u \in Users : Unreported(u) \in Nat
      BY UnreportedType
    <3> QED BY <1>1, <1>5, <3>1 DEF Reload, HistoryTypes
  <2>3. ConnTypes'
    <3>1. CASE kind # "hy2"
      BY <1>5, <3>1 DEF Reload, ConnTypes
    <3>2. CASE kind = "hy2"
      <4>1. kind = "hy2"
        BY <3>2
      <4>2. stage' = [d \in Conns |-> IF d \in Connecting THEN "open" ELSE stage[d]]
        BY <1>5, <3>2 DEF Reload
      <4>3. store' = [d \in Conns |-> None]
        BY <1>5, <3>2 DEF Reload
      <4>4. \A d \in Conns : stage'[d] \in Resting
        BY <4>2 DEF Connecting, ConnTypes, Resting
      <4> HIDE DEF Connecting
      <4> QED BY <1>1, <4>1, <4>2, <4>3, <4>4 DEF ConnTypes, Anywhere, Resting, Finding
    <3> QED BY <3>1, <3>2
  <2> QED BY <1>2, <1>3, <2>1, <2>2, <2>3
<1>6. CASE ~Reload
  <2>1. UNCHANGED <<stage, store, counter>>
    BY <1>6 DEF Changes, XrayDelUsers, SingDelUsers, Hy2DelCounter, Hy2DelAuth, AddUsers
  <2>2. ConnTypes'
    BY <1>1, <2>1 DEF ConnTypes
  <2>3. (\E u \in Users : DropCounter(u)) \/ UNCHANGED <<entry, dropped>>
    BY <1>6 DEF Changes, XrayDelUsers, SingDelUsers, Hy2DelCounter, Hy2DelAuth, AddUsers
  <2>4. entry' \in [Conns -> [Users -> Stores \cup {None}]] /\ dropped' \in [Users -> Nat]
    BY <1>4, <2>3 DEF CounterTypes, HistoryTypes
  <2>5. CounterTypes' /\ HistoryTypes'
    BY <1>1, <2>1, <2>4 DEF CounterTypes, HistoryTypes
  <2> QED BY <1>2, <1>3, <2>2, <2>5
<1> QED BY <1>5, <1>6

LEMMA ShapeStep == Shape /\ [TrafficNext]_trafficVars => Shape'
<1> SUFFICES ASSUME Shape, [TrafficNext]_trafficVars PROVE Shape'
  OBVIOUS
<1>1. CASE UNCHANGED trafficVars
  BY <1>1 DEF trafficVars, fixed, userMaps, linkMaps, counters, conns, report, history,
     Shape, MapTypes, CounterTypes, ConnTypes, RepTypes, HistoryTypes
<1> QED BY <1>1, ConnectionShape, ReportShape, ChangesShape DEF TrafficNext

\* A counter's entries only go away,
LEMMA EntriesGo ==
    ASSUME Shape, TrafficNext, \A d \in Conns : ~GetCounter(d),
           NEW d \in Conns, NEW u \in Users, NEW s \in Stores, entry'[d][u] = s
    PROVE  entry[d][u] = s
<1> USE DEF Shape, counters
<1>0. s # None
  BY NoneIsNew DEF Stores
<1>1. entry \in [Conns -> [Users -> Stores \cup {None}]]
  BY DEF CounterTypes
<1>2. ASSUME NEW e \in Conns, StoreCounter(e) PROVE entry[d][u] = s
  BY <1>0, <1>1, <1>2 DEF StoreCounter
<1>3. CASE ResetDown
  BY <1>0, <1>1, <1>3 DEF ResetDown
<1>4. ASSUME NEW v \in Users, DropCounter(v) PROVE entry[d][u] = s
  BY <1>0, <1>1, <1>4 DEF DropCounter
<1>5. CASE UNCHANGED entry
  BY <1>5
<1>6. ASSUME NEW e \in Conns, Connection(e) PROVE entry[d][u] = s
  BY <1>2, <1>5, <1>6 DEF Connection, Admit, LoadManager, StoreManager, AddLink, LogTraffic, LoadCounter, Transfer, Disconnect
<1>7. CASE Report
  BY <1>3, <1>5, <1>7 DEF Report, BeginReport, LoadUp, LoadDown, ResetUp, EndRange, ReportUserTraffic, ReportOnline
<1>8. CASE Changes
  BY <1>4, <1>5, <1>8 DEF Changes, XrayDelUsers, SingDelUsers, Hy2DelCounter, Hy2DelAuth, AddUsers, Reload
<1> QED BY <1>6, <1>7, <1>8 DEF TrafficNext

\* ... so do connections' storages,
LEMMA StoresGo ==
    ASSUME Shape, TrafficNext, \A d \in Conns : ~GetCounter(d),
           NEW d \in Conns, NEW s \in Stores, store'[d] = s
    PROVE  store[d] = s
<1> USE DEF Shape
<1>0. s # None
  BY NoneIsNew DEF Stores
<1>1. store \in [Conns -> Stores \cup {None}]
  BY DEF ConnTypes
<1>2. ASSUME NEW e \in Conns, Transfer(e) PROVE store[d] = s
  BY <1>0, <1>1, <1>2 DEF Transfer
<1>3. ASSUME NEW e \in Conns, Disconnect(e) PROVE store[d] = s
  BY <1>0, <1>1, <1>3 DEF Disconnect
<1>4. CASE Reload
  BY <1>0, <1>1, <1>4 DEF Reload
<1>5. CASE UNCHANGED store
  BY <1>5
<1>6. ASSUME NEW e \in Conns, Connection(e) PROVE store[d] = s
  BY <1>2, <1>3, <1>5, <1>6 DEF Connection, Admit, LoadManager, StoreManager, AddLink, LogTraffic, LoadCounter, StoreCounter
<1>7. CASE Report
  BY <1>5, <1>7 DEF Report, BeginReport, LoadUp, LoadDown, ResetUp, ResetDown, EndRange, ReportUserTraffic, ReportOnline, conns
<1>8. CASE Changes
  BY <1>4, <1>5, <1>8 DEF Changes, XrayDelUsers, SingDelUsers, Hy2DelCounter, Hy2DelAuth, AddUsers, conns
<1> QED BY <1>6, <1>7, <1>8 DEF TrafficNext

\* ... and the report takes storages from a counter.
LEMMA ReportsStore ==
    ASSUME Shape, TrafficNext, NEW u \in Users, NEW s \in Stores, rep'.store = s, rep'.user = u
    PROVE  Holds(u, s)
<1> USE DEF Shape, RepTypes
<1>0. s # None
  BY NoneIsNew DEF Stores
<1>1. CASE rep'.store = rep.store /\ rep'.user = rep.user
  BY <1>1 DEF Holds
<1>2. CASE UNCHANGED rep
  BY <1>1, <1>2
<1>3. ASSUME NEW v \in Users, LoadUp(v) PROVE Holds(u, s)
  <2>1. rep.ctr \in Conns
    BY <1>3 DEF LoadUp, Reports, Ranging
  <2>2. CASE entry[rep.ctr][v] = None
    BY <1>1, <1>3, <2>2 DEF LoadUp, Reports
  <2>3. CASE entry[rep.ctr][v] # None
    <3>1. rep'.user = v /\ rep'.store = entry[rep.ctr][v]
      BY <1>3, <2>3 DEF LoadUp, Reports
    <3> QED BY <2>1, <3>1 DEF Holds
  <2> QED BY <2>2, <2>3
<1>4. CASE BeginReport
  BY <1>0, <1>4 DEF BeginReport, Idle
<1>5. CASE LoadDown \/ ResetUp \/ ResetDown
  BY <1>1, <1>5 DEF LoadDown, ResetUp, ResetDown, Reports
<1>6. CASE EndRange \/ ReportUserTraffic \/ ReportOnline
  BY <1>0, <1>6 DEF EndRange, ReportUserTraffic, ReportOnline, Idle
<1>7. ASSUME NEW e \in Conns, Connection(e) PROVE Holds(u, s)
  BY <1>2, <1>7 DEF Connection, Admit, LoadManager, StoreManager, AddLink, LogTraffic, LoadCounter, StoreCounter, GetCounter, Transfer, Disconnect, report
<1>8. CASE Report
  BY <1>3, <1>4, <1>5, <1>6, <1>8 DEF Report
<1>9. CASE Changes
  BY <1>2, <1>9 DEF Changes, XrayDelUsers, SingDelUsers, Hy2DelCounter, Hy2DelAuth, AddUsers, Reload, report
<1> QED BY <1>7, <1>8, <1>9 DEF TrafficNext

\* Users of connections are fixed.
LEMMA UsersStay == TrafficNext => UNCHANGED <<kind, serial, user>>
BY DEF TrafficNext, Connection, Admit, LoadManager, StoreManager, AddLink, LogTraffic, LoadCounter, StoreCounter,
       GetCounter, Transfer, Disconnect,
       Report, BeginReport, LoadUp, LoadDown, ResetUp, ResetDown, EndRange, ReportUserTraffic, ReportOnline,
       Changes, XrayDelUsers, SingDelUsers, Hy2DelCounter, Hy2DelAuth, AddUsers, Reload, conns, fixed

\* No step but GetCounter gives a user a storage that it did not have;
LEMMA HoldsLess ==
    ASSUME Shape, TrafficNext, \A d \in Conns : ~GetCounter(d),
           NEW u \in Users, NEW s \in Stores, Holds(u, s)'
    PROVE  Holds(u, s)
<1>1. ASSUME NEW c \in Conns, entry'[c][u] = s PROVE Holds(u, s)
  BY <1>1, EntriesGo DEF Holds
<1>2. ASSUME NEW c \in Conns, store'[c] = s, user'[c] = u PROVE Holds(u, s)
  BY <1>2, StoresGo, UsersStay DEF Holds
<1>3. ASSUME rep'.store = s, rep'.user = u PROVE Holds(u, s)
  BY <1>3, ReportsStore
<1> QED BY <1>1, <1>2, <1>3 DEF Holds

\* and GetCounter gives one that nobody has, with no bytes in it.
LEMMA HoldsMore ==
    ASSUME Shape, NEW c \in Conns, GetCounter(c), NEW u \in Users, NEW s \in Stores, Holds(u, s)'
    PROVE  \/ Holds(u, s) /\ up'[s] = up[s] /\ down'[s] = down[s]
           \/ u = user[c] /\ (\A v \in Users : ~Holds(v, s)) /\ up'[s] = 0 /\ down'[s] = 0
<1> USE DEF Shape
<1>1. user[c] \in Users /\ ctr[c] \in Conns /\ stage[c] = "storage" /\ UNCHANGED <<rep, user>>
  BY DEF GetCounter, ConnTypes, Finding, report
<1>2. entry \in [Conns -> [Users -> Stores \cup {None}]]
  BY DEF CounterTypes
<1>3. CASE UNCHANGED <<entry, up, down>> /\ store' = [store EXCEPT ![c] = entry[ctr[c]][user[c]]]
  <2>1. Holds(u, s)
    BY <1>1, <1>3 DEF Holds, ConnTypes
  <2> QED BY <1>3, <2>1
<1>4. CASE /\ Free # {}
           /\ LET new == CHOOSE n \in Free : TRUE
              IN  /\ store' = [store EXCEPT ![c] = new]
                  /\ entry' = [entry EXCEPT ![ctr[c]][user[c]] = new]
                  /\ up' = [up EXCEPT ![new] = 0] /\ down' = [down EXCEPT ![new] = 0]
  <2>1. PICK new \in Free : /\ store' = [store EXCEPT ![c] = new]
                            /\ entry' = [entry EXCEPT ![ctr[c]][user[c]] = new]
                            /\ up' = [up EXCEPT ![new] = 0] /\ down' = [down EXCEPT ![new] = 0]
    BY <1>4
  <2>2. CASE s = new
    <3>1. \A v \in Users : ~Holds(v, new)
      BY <2>1 DEF Holds, Free, Referred
    <3>2. u = user[c]
      BY <1>1, <1>2, <2>1, <2>2, <3>1 DEF Holds, ConnTypes
    <3>3. up'[s] = 0 /\ down'[s] = 0
      BY <2>1, <2>2 DEF CounterTypes
    <3> QED BY <2>2, <3>1, <3>2, <3>3
  <2>3. CASE s # new
    <3>1. \A d \in Conns : entry'[d][u] = s => entry[d][u] = s
      BY <1>2, <2>1, <2>3
    <3>2. \A d \in Conns : store'[d] = s => store[d] = s
      BY <2>1, <2>3 DEF ConnTypes
    <3>3. Holds(u, s)
      BY <1>1, <3>1, <3>2 DEF Holds
    <3>4. up'[s] = up[s] /\ down'[s] = down[s]
      BY <2>1, <2>3 DEF CounterTypes
    <3> QED BY <3>3, <3>4
  <2> QED BY <2>2, <2>3
<1> QED BY <1>3, <1>4 DEF GetCounter

LEMMA OneOwnerStep == Shape /\ OneOwner /\ [TrafficNext]_trafficVars => OneOwner'
<1> SUFFICES ASSUME Shape, OneOwner, [TrafficNext]_trafficVars,
                    NEW u \in Users, NEW v \in Users, NEW s \in Stores, Holds(u, s)', Holds(v, s)'
             PROVE  u = v
  BY DEF OneOwner
<1>1. CASE UNCHANGED trafficVars
  <2>1. Holds(u, s) /\ Holds(v, s)
    BY <1>1 DEF Holds, trafficVars, counters, conns, report
  <2> QED BY <2>1 DEF OneOwner
<1>2. CASE TrafficNext /\ \A d \in Conns : ~GetCounter(d)
  BY <1>2, HoldsLess DEF OneOwner
<1>3. ASSUME NEW c \in Conns, GetCounter(c) PROVE u = v
  BY <1>3, HoldsMore DEF OneOwner
<1> QED BY <1>1, <1>2, <1>3

LEMMA OneOwnerInit == TrafficInit => OneOwner
<1>1. ASSUME TrafficInit, NEW s \in Stores, NEW u \in Users PROVE ~Holds(u, s)
  <2>1. s # None
    BY NoneIsNew DEF Stores
  <2> QED BY <1>1, <2>1 DEF TrafficInit, Holds, Idle
<1> QED BY <1>1 DEF OneOwner

\* A storage in use loses no byte while the report handles it.
LEMMA BytesGrow ==
    ASSUME Shape, NEW c \in Conns, Connection(c), rep.store \in Stores
    PROVE  up[rep.store] <= up'[rep.store] /\ down[rep.store] <= down'[rep.store]
<1> USE DEF Shape
<1>1. up \in [Stores -> Nat] /\ down \in [Stores -> Nat]
  BY DEF CounterTypes
<1>2. CASE Transfer(c)
  BY <1>1, <1>2 DEF Transfer, Add
<1>3. CASE GetCounter(c)
  <2>1. CASE UNCHANGED <<up, down>>
    BY <1>1, <2>1
  <2>2. CASE /\ Free # {}
             /\ LET new == CHOOSE n \in Free : TRUE
                IN  up' = [up EXCEPT ![new] = 0] /\ down' = [down EXCEPT ![new] = 0]
    <3>1. PICK new \in Free : up' = [up EXCEPT ![new] = 0] /\ down' = [down EXCEPT ![new] = 0]
      BY <2>2
    <3>2. new # rep.store
      BY DEF Free, Referred
    <3> QED BY <1>1, <3>1, <3>2
  <2> QED BY <1>3, <2>1, <2>2 DEF GetCounter
<1>4. CASE UNCHANGED <<up, down>>
  BY <1>1, <1>4
<1> QED BY <1>2, <1>3, <1>4 DEF Connection, Admit, LoadManager, StoreManager, AddLink, LogTraffic, LoadCounter,
           StoreCounter, Disconnect, counters

LEMMA PendingStep == Shape /\ Pending /\ [TrafficNext]_trafficVars => Pending'
<1> SUFFICES ASSUME Shape, Pending, [TrafficNext]_trafficVars PROVE Pending'
  OBVIOUS
<1> USE DEF Shape, Handling, Ranging
<1>0. rep \in Reports /\ (rep.at \in Handling => rep.store \in Stores /\ rep.user \in Users)
  BY DEF RepTypes, Reports
<1>s. slice \in [Users -> Nat] /\ up \in [Stores -> Nat] /\ down \in [Stores -> Nat]
  BY DEF HistoryTypes, CounterTypes
<1>1. CASE UNCHANGED <<rep, slice, up, down>>
  BY <1>1 DEF Pending
<1>2. ASSUME NEW c \in Conns, Connection(c) PROVE Pending'
  <2>1. UNCHANGED <<rep, slice>>
    BY <1>2 DEF Connection, Admit, LoadManager, StoreManager, AddLink, LogTraffic, LoadCounter, StoreCounter,
           GetCounter, Transfer, Disconnect, report
  <2>2. rep.store \in Stores => up[rep.store] <= up'[rep.store] /\ down[rep.store] <= down'[rep.store]
    BY <1>2, BytesGrow
  <2>3. up' \in [Stores -> Nat] /\ down' \in [Stores -> Nat]
    BY <1>2, ConnectionShape DEF CounterTypes
  <2>4. rep.up \in Nat
    BY <1>0 DEF Reports
  <2>5. rep.at \in {"down", "resetUp"} => rep.up <= up'[rep.store]
    BY <1>0, <1>s, <2>2, <2>3, <2>4 DEF Pending
  <2>6. rep.at \in {"resetUp", "resetDown"} => slice[rep.user] <= rep.up + down'[rep.store]
    BY <1>0, <1>s, <2>2, <2>3, <2>4 DEF Pending
  <2> QED BY <2>1, <2>5, <2>6 DEF Pending
<1>3. CASE BeginReport
  <2>1. slice' = Zero
    BY <1>3 DEF BeginReport, Pending
  <2>2. rep'.at \in {"push", "range"}
    BY <1>3 DEF BeginReport, Idle
  <2>3. \A u \in Users : slice'[u] = 0
    BY <2>1 DEF Zero
  <2>4. rep'.left \subseteq Users
    BY <1>3 DEF BeginReport, Idle
  <2> QED BY <2>2, <2>3, <2>4 DEF Pending
<1>4. ASSUME NEW u \in Users, LoadUp(u) PROVE Pending'
  <2>0. rep.ctr \in Conns /\ rep.at = "range" /\ u \in rep.left /\ UNCHANGED <<slice, up>>
    BY <1>0, <1>4 DEF LoadUp, Reports, RepTypes, report, counters
  <2>1. CASE entry[rep.ctr][u] = None
    <3>1. rep'.at = "range" /\ rep'.left \subseteq rep.left
      BY <1>0, <1>4, <2>1 DEF LoadUp, Reports
    <3> QED BY <2>0, <3>1 DEF Pending
  <2>2. CASE entry[rep.ctr][u] # None
    <3>1. /\ rep'.at = "down" /\ rep'.left = rep.left \ {u} /\ rep'.user = u
          /\ rep'.store = entry[rep.ctr][u] /\ rep'.up = up[entry[rep.ctr][u]]
      BY <1>0, <1>4, <2>2 DEF LoadUp, Reports
    <3>2. entry[rep.ctr][u] \in Stores
      BY <2>0, <2>2 DEF CounterTypes
    <3> QED BY <1>s, <2>0, <3>1, <3>2 DEF Pending
  <2> QED BY <2>1, <2>2
<1>5. CASE LoadDown
  <2>1. rep'.left = rep.left /\ rep'.user = rep.user /\ rep'.store = rep.store /\ rep'.up = rep.up
        /\ rep.at = "down" /\ UNCHANGED <<up, down>> /\ rep'.at \in {"resetUp", "range"}
    BY <1>0, <1>5 DEF LoadDown, Reports, counters
  <2>2. CASE rep'.at = "resetUp"
    <3>1. slice' = [slice EXCEPT ![rep.user] = rep.up + down[rep.store]]
      BY <1>0, <1>5, <2>2 DEF LoadDown, Reports
    <3>2. down[rep.store] \in Nat /\ rep.up \in Nat
      BY <1>0, <1>s, <2>1 DEF Reports
    <3>3. rep.left \subseteq Users
      BY <1>0 DEF Reports
    <3>4. slice'[rep.user] = rep.up + down[rep.store] /\ \A u \in Users : u # rep.user => slice'[u] = slice[u]
      BY <1>0, <1>s, <2>1, <3>1
    <3> HIDE <3>1
    <3>5. rep.up <= slice'[rep.user] /\ slice'[rep.user] <= rep.up + down'[rep.store]
      BY <2>1, <3>2, <3>4
    <3> QED BY <1>0, <2>1, <2>2, <3>3, <3>4, <3>5 DEF Pending
  <2>3. CASE rep'.at = "range"
    <3>1. slice' = slice
      BY <1>0, <1>5, <2>3 DEF LoadDown, Reports
    <3> QED BY <2>1, <2>3, <3>1 DEF Pending
  <2> QED BY <2>1, <2>2, <2>3
<1>6. CASE ResetUp
  BY <1>0, <1>6 DEF ResetUp, Reports, Pending
<1>7. CASE ResetDown
  <2>1. rep'.left = rep.left /\ rep'.at = "range" /\ rep.at = "resetDown"
    BY <1>0, <1>7 DEF ResetDown, Reports
  <2>2. \A u \in Users : slice'[u] \in {slice[u], 0}
    BY <1>0, <1>s, <1>7 DEF ResetDown
  <2>3. rep.left \subseteq Users
    BY <1>0 DEF Reports
  <2> QED BY <2>1, <2>2, <2>3 DEF Pending
<1>8. CASE EndRange \/ ReportUserTraffic
  BY <1>8 DEF EndRange, ReportUserTraffic, Idle, Pending
<1>9. CASE ReportOnline
  BY <1>9 DEF ReportOnline, Idle, Pending
<1>10. CASE Changes
  BY <1>1, <1>10 DEF Changes, XrayDelUsers, SingDelUsers, Hy2DelCounter, Hy2DelAuth, AddUsers, Reload, report, counters
<1>11. CASE UNCHANGED trafficVars
  BY <1>1, <1>11 DEF trafficVars, report, counters
<1> QED BY <1>2, <1>3, <1>4, <1>5, <1>6, <1>7, <1>8, <1>9, <1>10, <1>11 DEF TrafficNext, Report

LEMMA PendingInit == TrafficInit => Pending
BY DEF TrafficInit, Pending, Idle, Ranging, Handling

LEMMA DebtType ==
    ASSUME Shape, Pending, NEW u \in Users, NEW s \in Stores
    PROVE  Debt(u, s) \in Nat /\ Taken(u) \in Nat
<1>1. slice[u] \in Nat /\ rep.up \in Nat
  BY DEF Shape, HistoryTypes, RepTypes, Reports
<1>2. rep.at = "resetDown" /\ rep.user = u => rep.up <= slice[u]
  BY DEF Pending
<1> QED BY <1>1, <1>2 DEF Debt, Taken

\* The totals still cover u if nothing of u's has grown but by what u has
\* produced, or in debt.
LEMMA SameTotals ==
    ASSUME Shape, Pending, Shape', Pending',
           NEW u \in Users, NEW total \in Totals, Covers(total, u),
           \A s \in Stores : Holds(u, s)' =>
                \/ /\ Holds(u, s)
                   /\ up'[s] + down'[s] + Debt(u, s) <= up[s] + down[s] + Debt(u, s)'
                \/ up'[s] = 0 /\ down'[s] = 0,
           billed'[u] + Taken(u)' + produced[u] <= produced'[u] + billed[u] + Taken(u)
    PROVE  Covers(total, u)'
<1>1. ASSUME NEW s \in Stores, Holds(u, s)' PROVE up'[s] + down'[s] + total[s - 1] <= total[s] + Debt(u, s)'
  <2>1. /\ up[s] \in Nat /\ down[s] \in Nat /\ up'[s] \in Nat /\ down'[s] \in Nat
        /\ Debt(u, s) \in Nat
    BY DebtType DEF Shape, CounterTypes
  <2>2. Debt(u, s)' \in Nat
    <3>1. slice'[u] \in Nat /\ rep'.up \in Nat
      BY DEF Shape, HistoryTypes, RepTypes, Reports
    <3>2. rep'.at = "resetDown" /\ rep'.user = u => rep'.up <= slice'[u]
      BY DEF Pending
    <3> QED BY <3>1, <3>2 DEF Debt
  <2>3. s - 1 \in 0..MaxStores /\ s \in 0..MaxStores /\ s - 1 <= s
    BY TrafficBounds DEF Stores
  <2>4. total[s - 1] \in Nat /\ total[s] \in Nat /\ total[s - 1] <= total[s]
    BY <2>3 DEF Totals, Covers
  <2>5. CASE up'[s] = 0 /\ down'[s] = 0
    BY <2>2, <2>4, <2>5
  <2>6. CASE Holds(u, s) /\ up'[s] + down'[s] + Debt(u, s) <= up[s] + down[s] + Debt(u, s)'
    <3>1. up[s] + down[s] + total[s - 1] <= total[s] + Debt(u, s)
      BY <2>6 DEF Covers
    <3> QED BY <2>1, <2>2, <2>4, <2>6, <3>1
  <2> QED BY <1>1, <2>5, <2>6
<1>2. billed'[u] + Taken(u)' + total[MaxStores] <= produced'[u]
  <2>1. billed[u] \in Nat /\ billed'[u] \in Nat /\ produced[u] \in Nat /\ produced'[u] \in Nat
    BY TrafficBounds DEF Shape, HistoryTypes
  <2>2. Taken(u) \in Nat /\ Taken(u)' \in Nat
    BY DEF Taken, Shape, HistoryTypes
  <2>3. total[MaxStores] \in Nat
    BY TrafficBounds DEF Totals
  <2>4. billed[u] + Taken(u) + total[MaxStores] <= produced[u]
    BY DEF Covers
  <2> QED BY <2>1, <2>2, <2>3, <2>4
<1>3. \A m, n \in 0..MaxStores : m <= n => total[m] <= total[n]
  BY DEF Covers
<1> QED BY <1>1, <1>2, <1>3 DEF Covers

\* A byte carried is one more in a storage, and one more produced.
LEMMA TransferBudget ==
    ASSUME Shape, OneOwner, Pending, Budget, Shape', Pending', NEW c \in Conns, Transfer(c)
    PROVE  Budget'
<1> USE DEF Shape
<1>0. store[c] \in Stores /\ user[c] \in Users
  <2>1. store[c] # None
    BY DEF Transfer, ConnTypes
  <2> QED BY <2>1 DEF ConnTypes
<1>s. PICK s \in Stores : s = store[c]
  BY <1>0
<1>w. PICK w \in Users : w = user[c]
  BY <1>0
<1>2. UNCHANGED <<rep, slice, billed, user>> /\ TrafficNext /\ Connection(c) /\ \A d \in Conns : ~GetCounter(d)
  <2>1. UNCHANGED <<rep, slice, billed, user>>
    BY DEF Transfer, report
  <2>2. TrafficNext /\ Connection(c)
    BY DEF TrafficNext, Connection
  <2>3. \A d \in Conns : ~GetCounter(d)
    <3>1. produced' # produced
      BY <1>w, TrafficBounds DEF Transfer, Add, HistoryTypes
    <3> QED BY <3>1 DEF GetCounter, history
  <2> QED BY <2>1, <2>2, <2>3
<1>3. /\ up' \in [Stores -> Nat] /\ down' \in [Stores -> Nat] /\ up \in [Stores -> Nat] /\ down \in [Stores -> Nat]
      /\ produced \in [Users -> 0..MaxBytes] /\ produced' \in [Users -> 0..MaxBytes]
      /\ billed \in [Users -> Nat] /\ slice \in [Users -> Nat]
  BY DEF CounterTypes, HistoryTypes
<1>4. up'[s] + down'[s] = up[s] + down[s] + 1 /\ \A r \in Stores : r # s => up'[r] = up[r] /\ down'[r] = down[r]
  BY <1>s, <1>w, <1>3 DEF Transfer, Add
<1>5. produced'[w] = produced[w] + 1 /\ \A u \in Users : u # w => produced'[u] = produced[u]
  BY <1>s, <1>w, <1>3 DEF Transfer, Add
<1>6. \A u \in Users : Taken(u)' = Taken(u) /\ \A r \in Stores : Debt(u, r)' = Debt(u, r)
  BY <1>2 DEF Taken, Debt
<1>7. \A u \in Users, r \in Stores : Holds(u, r)' => Holds(u, r)
  BY <1>2, HoldsLess
<1>8. Holds(w, s)
  BY <1>s, <1>w DEF Holds
<1>9. ASSUME NEW u \in Users, u # w PROVE \E total \in Totals : Covers(total, u)'
  <2>1. PICK total \in Totals : Covers(total, u)
    BY DEF Budget
  <2>2. ASSUME NEW r \in Stores, Holds(u, r)'
        PROVE  \/ Holds(u, r) /\ up'[r] + down'[r] + Debt(u, r) <= up[r] + down[r] + Debt(u, r)'
               \/ up'[r] = 0 /\ down'[r] = 0
    <3>1. Holds(u, r)
      BY <1>7, <2>2
    <3>2. r # s
      BY <1>8, <1>9, <3>1 DEF OneOwner
    <3>3. up'[r] = up[r] /\ down'[r] = down[r] /\ Debt(u, r)' = Debt(u, r)
      BY <1>4, <1>6, <3>2
    <3>4. Debt(u, r) \in Nat /\ up[r] \in Nat /\ down[r] \in Nat
      BY <1>3, DebtType
    <3> QED BY <3>1, <3>3, <3>4
  <2>3. billed'[u] + Taken(u)' + produced[u] <= produced'[u] + billed[u] + Taken(u)
    <3>1. billed[u] \in Nat /\ produced[u] \in Nat /\ Taken(u) \in Nat
      BY <1>3, TrafficBounds DEF Taken
    <3> QED BY <1>2, <1>5, <1>6, <1>9, <3>1
  <2>4. Covers(total, u)'
    BY <2>1, <2>2, <2>3, SameTotals
  <2> QED BY <2>4
<1>10. \E total \in Totals : Covers(total, w)'
  <2>1. PICK total \in Totals : Covers(total, w)
    BY DEF Budget
  <2> DEFINE more == [n \in 0..MaxStores |-> IF n < s THEN total[n] ELSE total[n] + 1]
  <2>2. \A n \in 0..MaxStores : total[n] \in Nat
    BY DEF Totals
  <2>3. more \in Totals
    BY <2>2 DEF Totals
  <2>4. \A n \in 0..MaxStores : more[n] = IF n < s THEN total[n] ELSE total[n] + 1
    OBVIOUS
  <2> HIDE DEF more
  <2>5. s \in 1..MaxStores
    BY DEF Stores
  <2>6. ASSUME NEW m \in 0..MaxStores, NEW n \in 0..MaxStores, m <= n PROVE more[m] <= more[n]
    <3>1. total[m] <= total[n]
      BY <2>1, <2>6 DEF Covers
    <3> QED BY <2>2, <2>4, <2>5, <2>6, <3>1
  <2>7. ASSUME NEW r \in Stores, Holds(w, r)' PROVE up'[r] + down'[r] + more[r - 1] <= more[r] + Debt(w, r)'
    <3>1. up[r] + down[r] + total[r - 1] <= total[r] + Debt(w, r)
      BY <1>7, <2>1, <2>7 DEF Covers
    <3>2. Debt(w, r) \in Nat /\ up[r] \in Nat /\ down[r] \in Nat /\ up'[r] \in Nat /\ down'[r] \in Nat
      BY <1>3, DebtType
    <3>3. Debt(w, r)' = Debt(w, r)
      BY <1>6
    <3>4. r \in 0..MaxStores /\ r - 1 \in 0..MaxStores /\ r - 1 < r
      BY TrafficBounds DEF Stores
    <3>5. CASE r = s
      <4>1. more[r] = total[r] + 1 /\ more[r - 1] = total[r - 1]
        BY <2>4, <3>4, <3>5
      <4> QED BY <1>4, <2>2, <3>1, <3>2, <3>3, <3>4, <3>5, <4>1
    <3>6. CASE r # s
      <4>1. up'[r] = up[r] /\ down'[r] = down[r]
        BY <1>4, <3>6
      <4>2. \/ more[r] = total[r] /\ more[r - 1] = total[r - 1]
            \/ more[r] = total[r] + 1 /\ more[r - 1] = total[r - 1] + 1
        <5>1. r \in Nat /\ s \in Nat
          BY <2>5, <3>4
        <5> QED BY <2>4, <3>4, <3>6, <5>1
      <4> QED BY <2>2, <3>1, <3>2, <3>3, <3>4, <4>1, <4>2
    <3> QED BY <3>5, <3>6
  <2>8. billed'[w] + Taken(w)' + more[MaxStores] <= produced'[w]
    <3>1. billed[w] + Taken(w) + total[MaxStores] <= produced[w]
      BY <2>1 DEF Covers
    <3>2. billed[w] \in Nat /\ produced[w] \in Nat /\ Taken(w) \in Nat
      BY <1>3, TrafficBounds DEF Taken
    <3>3. MaxStores \in 0..MaxStores /\ more[MaxStores] = total[MaxStores] + 1
      BY <2>4, <2>5, TrafficBounds
    <3>4. billed'[w] = billed[w] /\ Taken(w)' = Taken(w)
      BY <1>2, <1>6
    <3> QED BY <1>5, <2>2, <3>1, <3>2, <3>3, <3>4
  <2>9. Covers(more, w)'
    BY <2>6, <2>7, <2>8 DEF Covers
  <2> QED BY <2>3, <2>9
<1>11. \A u \in Users : \E total \in Totals : Covers(total, u)'
  BY <1>9, <1>10
<1> QED BY <1>11 DEF Budget

\* What the report takes of a storage leaves the totals from there on, and
\* is in debt.
LEMMA LoadDownBudget ==
    ASSUME Shape, OneOwner, Pending, Budget, Shape', Pending', LoadDown
    PROVE  Budget'
<1> USE DEF Shape
<1>0. rep \in Reports /\ rep.at = "down" /\ rep.user \in Users /\ rep.store \in Stores
  BY DEF LoadDown, RepTypes, Reports, Handling
<1>s. PICK s \in Stores : s = rep.store
  BY <1>0
<1>w. PICK w \in Users : w = rep.user
  BY <1>0
<1>1. UNCHANGED <<up, down, entry, store, user, produced, billed>>
  BY DEF LoadDown, counters, conns, history
<1>2. /\ up \in [Stores -> Nat] /\ down \in [Stores -> Nat]
      /\ produced \in [Users -> 0..MaxBytes] /\ billed \in [Users -> Nat]
      /\ slice \in [Users -> Nat] /\ rep.up \in Nat
  BY <1>0 DEF CounterTypes, HistoryTypes, Reports
<1>3. rep'.user = w /\ rep'.store = s /\ rep'.up = rep.up
  BY <1>0, <1>s, <1>w DEF LoadDown, Reports
<1>4. PICK sum \in Nat : sum = rep.up + down[s]
  BY <1>2
<1>5. sum <= up[s] + down[s]
  BY <1>0, <1>2, <1>4, <1>s DEF Pending
<1>6. /\ \A u \in Users, r \in Stores : Debt(u, r) = 0
      /\ \A u \in Users : Taken(u) = slice[u]
  BY <1>0 DEF Debt, Taken
<1>7. \A u \in Users, r \in Stores : Holds(u, r)' => Holds(u, r)
  BY <1>1, <1>3, <1>s, <1>w DEF Holds
<1>8. Holds(w, s)
  BY <1>s, <1>w DEF Holds
<1>9. slice[w] = 0
  BY <1>0, <1>w DEF Pending
<1>10. CASE ~(sum > MinReport)
  <2>1. rep'.at = "range" /\ UNCHANGED slice
    BY <1>0, <1>4, <1>s, <1>10 DEF LoadDown, Reports
  <2>2. /\ \A u \in Users, r \in Stores : Debt(u, r)' = 0
        /\ \A u \in Users : Taken(u)' = slice[u]
    BY <2>1 DEF Debt, Taken
  <2>3. ASSUME NEW u \in Users PROVE \E total \in Totals : Covers(total, u)'
    <3>1. PICK total \in Totals : Covers(total, u)
      BY DEF Budget
    <3>2. \A m, n \in 0..MaxStores : m <= n => total[m] <= total[n]
      BY <3>1 DEF Covers
    <3>3. \A r \in Stores : Holds(u, r)' => up'[r] + down'[r] + total[r - 1] <= total[r] + Debt(u, r)'
      BY <1>1, <1>6, <1>7, <2>2, <3>1 DEF Covers
    <3>4. billed'[u] + Taken(u)' + total[MaxStores] <= produced'[u]
      BY <1>1, <1>6, <2>2, <3>1 DEF Covers
    <3>5. Covers(total, u)'
      BY <3>2, <3>3, <3>4 DEF Covers
    <3> QED BY <3>5
  <2> QED BY <2>3 DEF Budget
<1>11. CASE sum > MinReport
  <2>1. rep'.at = "resetUp" /\ slice' = [slice EXCEPT ![w] = sum]
    BY <1>0, <1>4, <1>s, <1>w, <1>11 DEF LoadDown, Reports
  <2>2. slice'[w] = sum /\ \A u \in Users : u # w => slice'[u] = slice[u]
    BY <1>2, <2>1
  <2>3. /\ Debt(w, s)' = sum
        /\ \A u \in Users, r \in Stores : u # w \/ r # s => Debt(u, r)' = 0
        /\ \A u \in Users : Taken(u)' = slice'[u]
    BY <1>3, <2>1, <2>2 DEF Debt, Taken
  <2>4. ASSUME NEW u \in Users, u # w PROVE \E total \in Totals : Covers(total, u)'
    <3>1. PICK total \in Totals : Covers(total, u)
      BY DEF Budget
    <3>2. \A m, n \in 0..MaxStores : m <= n => total[m] <= total[n]
      BY <3>1 DEF Covers
    <3>3. \A r \in Stores : Holds(u, r)' => up'[r] + down'[r] + total[r - 1] <= total[r] + Debt(u, r)'
      BY <1>1, <1>6, <1>7, <2>3, <2>4, <3>1 DEF Covers
    <3>4. billed'[u] + Taken(u)' + total[MaxStores] <= produced'[u]
      BY <1>1, <1>6, <2>2, <2>3, <2>4, <3>1 DEF Covers
    <3>5. Covers(total, u)'
      BY <3>2, <3>3, <3>4 DEF Covers
    <3> QED BY <3>5
  <2>5. \E total \in Totals : Covers(total, w)'
    <3>1. PICK total \in Totals : Covers(total, w)
      BY DEF Budget
    <3>2. \A n \in 0..MaxStores : total[n] \in Nat
      BY DEF Totals
    <3>3. s \in 1..MaxStores /\ s \in 0..MaxStores /\ s - 1 \in 0..MaxStores /\ s - 1 < s /\ MaxStores \in Nat
      BY TrafficBounds DEF Stores
    <3>4. up[s] \in Nat /\ down[s] \in Nat /\ up[s] + down[s] + total[s - 1] <= total[s]
      <4>1. up[s] + down[s] + total[s - 1] <= total[s] + Debt(w, s)
        BY <1>8, <3>1 DEF Covers
      <4> QED BY <1>2, <1>6, <3>2, <3>3, <4>1
    <3>5. total[s - 1] + sum <= total[s]
      BY <1>5, <3>2, <3>3, <3>4
    <3>6. \A n \in 0..MaxStores : n >= s => total[s - 1] + sum <= total[n]
      <4>1. \A n \in 0..MaxStores : n >= s => total[s] <= total[n]
        BY <3>1, <3>3 DEF Covers
      <4> QED BY <3>2, <3>3, <3>5, <4>1
    <3> DEFINE less == [n \in 0..MaxStores |-> IF n < s THEN total[n] ELSE total[n] - sum]
    <3>7. less \in Totals
      <4>1. ASSUME NEW n \in 0..MaxStores PROVE (IF n < s THEN total[n] ELSE total[n] - sum) \in Nat
        BY <3>2, <3>3, <3>6
      <4> QED BY <4>1 DEF Totals
    <3>8. \A n \in 0..MaxStores : less[n] = IF n < s THEN total[n] ELSE total[n] - sum
      OBVIOUS
    <3> HIDE DEF less
    <3>9. ASSUME NEW m \in 0..MaxStores, NEW n \in 0..MaxStores, m <= n PROVE less[m] <= less[n]
      <4>1. total[m] <= total[n]
        BY <3>1, <3>9 DEF Covers
      <4>2. m < s => total[m] <= total[s - 1]
        <5>1. m < s => m <= s - 1
          BY <3>3
        <5> QED BY <3>1, <3>3, <5>1 DEF Covers
      <4> QED BY <3>2, <3>3, <3>6, <3>8, <3>9, <4>1, <4>2
    <3>10. ASSUME NEW r \in Stores, Holds(w, r)' PROVE up'[r] + down'[r] + less[r - 1] <= less[r] + Debt(w, r)'
      <4>1. r \in 1..MaxStores /\ up[r] \in Nat /\ down[r] \in Nat
        BY <1>2 DEF Stores
      <4>2. up[r] + down[r] + total[r - 1] <= total[r]
        <5>1. up[r] + down[r] + total[r - 1] <= total[r] + Debt(w, r)
          BY <1>7, <3>1, <3>10 DEF Covers
        <5> QED BY <1>6, <3>2, <4>1, <5>1
      <4>3. r - 1 \in 0..MaxStores /\ r \in 0..MaxStores
        BY <3>3, <4>1
      <4>4. CASE r = s
        <5>1. less[r] = total[r] - sum /\ less[r - 1] = total[r - 1]
          BY <3>8, <4>3, <4>4
        <5> QED BY <1>1, <2>3, <3>2, <4>1, <4>2, <4>3, <4>4, <5>1
      <4>5. CASE r # s
        <5>1. \/ less[r] = total[r] /\ less[r - 1] = total[r - 1]
              \/ less[r] = total[r] - sum /\ less[r - 1] = total[r - 1] - sum
          BY <3>3, <3>8, <4>1, <4>3, <4>5
        <5>2. Debt(w, r)' = 0
          BY <2>3, <4>5
        <5> QED BY <1>1, <3>2, <4>1, <4>2, <4>3, <5>1, <5>2
      <4> QED BY <4>4, <4>5
    <3>11. billed'[w] + Taken(w)' + less[MaxStores] <= produced'[w]
      <4>1. billed[w] + Taken(w) + total[MaxStores] <= produced[w]
        BY <3>1 DEF Covers
      <4>2. billed[w] \in Nat /\ produced[w] \in Nat
        BY <1>2, TrafficBounds
      <4>3. MaxStores \in 0..MaxStores /\ less[MaxStores] = total[MaxStores] - sum
        BY <3>3, <3>8, TrafficBounds
      <4>4. Taken(w) = 0 /\ Taken(w)' = sum
        BY <1>6, <1>9, <2>2, <2>3
      <4> QED BY <1>1, <3>2, <4>1, <4>2, <4>3, <4>4
    <3>12. Covers(less, w)'
      BY <3>9, <3>10, <3>11 DEF Covers
    <3> QED BY <3>7, <3>12
  <2>6. \A u \in Users : \E total \in Totals : Covers(total, u)'
    BY <2>4, <2>5
  <2> QED BY <2>6 DEF Budget
<1> QED BY <1>10, <1>11

\* No other step takes more than the totals cover.
LEMMA OtherBudget ==
    ASSUME Shape, OneOwner, Pending, Budget, Shape', Pending', TrafficNext,
           \A c \in Conns : ~Transfer(c), ~LoadDown
    PROVE  Budget'
<1> USE DEF Shape
<1>1. /\ up \in [Stores -> Nat] /\ down \in [Stores -> Nat] /\ up' \in [Stores -> Nat] /\ down' \in [Stores -> Nat]
      /\ produced \in [Users -> Nat] /\ produced' \in [Users -> Nat] /\ billed \in [Users -> Nat]
      /\ billed' \in [Users -> Nat] /\ slice \in [Users -> Nat] /\ slice' \in [Users -> Nat]
      /\ rep \in Reports /\ rep.up \in Nat
  BY TrafficBounds DEF CounterTypes, HistoryTypes, RepTypes, Reports
<1>d. ASSUME NEW u \in Users, NEW s \in Stores PROVE Debt(u, s) \in Nat /\ Debt(u, s)' \in Nat
  <2>1. Debt(u, s) \in Nat
    BY DebtType
  <2>2. rep'.up \in Nat /\ (rep'.at = "resetDown" /\ rep'.user = u => rep'.up <= slice'[u])
    BY DEF RepTypes, Reports, Pending
  <2>3. Debt(u, s)' \in Nat
    BY <1>1, <2>2 DEF Debt
  <2> QED BY <2>1, <2>3
<1> SUFFICES ASSUME NEW u \in Users PROVE \E total \in Totals : Covers(total, u)'
  BY DEF Budget
<1>2. PICK total \in Totals : Covers(total, u)
  BY DEF Budget
<1>3. billed'[u] + Taken(u)' + produced[u] <= produced'[u] + billed[u] + Taken(u)
  <2>1. CASE ReportUserTraffic
    <3>1. billed'[u] \in {billed[u], billed[u] + slice[u]} /\ UNCHANGED produced /\ rep.at = "push" /\ rep'.at = "online"
      BY <2>1 DEF ReportUserTraffic, Idle
    <3> QED BY <1>1, <3>1 DEF Taken
  <2>2. CASE ReportOnline
    <3>1. UNCHANGED <<produced, billed>> /\ rep.at = "online" /\ rep'.at = "idle" /\ slice' = Zero
      BY <2>2 DEF ReportOnline, Idle
    <3> QED BY <1>1, <3>1 DEF Taken, Zero
  <2>3. CASE ResetDown
    <3>1. UNCHANGED <<produced, billed>> /\ rep.at = "resetDown" /\ rep'.at = "range" /\ slice'[u] \in {slice[u], 0}
      BY <1>1, <2>3 DEF ResetDown, Reports
    <3> QED BY <1>1, <3>1 DEF Taken
  <2>4. CASE BeginReport \/ EndRange \/ ResetUp \/ \E v \in Users : LoadUp(v)
    <3>1. UNCHANGED <<produced, billed, slice>> /\ rep.at # "online"
      BY <2>4 DEF BeginReport, EndRange, ResetUp, LoadUp, history
    <3>2. rep'.at # "online"
      <4>1. CASE BeginReport
        BY <4>1 DEF BeginReport, Idle
      <4>2. CASE EndRange \/ ResetUp
        BY <1>1, <4>2 DEF EndRange, ResetUp, Reports, Idle
      <4>3. ASSUME NEW v \in Users, LoadUp(v) PROVE rep'.at # "online"
        BY <1>1, <4>3 DEF LoadUp, Reports
      <4> QED BY <2>4, <4>1, <4>2, <4>3
    <3> QED BY <1>1, <3>1, <3>2 DEF Taken
  <2>5. CASE UNCHANGED <<produced, billed, slice, rep>>
    BY <1>1, <2>5 DEF Taken
  <2>6. ASSUME NEW c \in Conns, Connection(c) PROVE UNCHANGED <<produced, billed, slice, rep>>
    BY <2>6 DEF Connection, Admit, LoadManager, StoreManager, AddLink, LogTraffic, LoadCounter, StoreCounter,
           GetCounter, Disconnect, history, report
  <2>7. ASSUME Changes PROVE UNCHANGED <<produced, billed, slice, rep>>
    BY <2>7 DEF Changes, XrayDelUsers, SingDelUsers, Hy2DelCounter, Hy2DelAuth, AddUsers, Reload, history, report
  <2> QED BY <2>1, <2>2, <2>3, <2>4, <2>5, <2>6, <2>7 DEF TrafficNext, Report
<1>4. ASSUME NEW s \in Stores, Holds(u, s)'
      PROVE  \/ Holds(u, s) /\ up'[s] + down'[s] + Debt(u, s) <= up[s] + down[s] + Debt(u, s)'
             \/ up'[s] = 0 /\ down'[s] = 0
  <2> DEFINE Goal == \/ Holds(u, s) /\ up'[s] + down'[s] + Debt(u, s) <= up[s] + down[s] + Debt(u, s)'
                     \/ up'[s] = 0 /\ down'[s] = 0
  <2>0. up[s] \in Nat /\ down[s] \in Nat /\ up'[s] \in Nat /\ down'[s] \in Nat /\ Debt(u, s) \in Nat /\ Debt(u, s)' \in Nat
    BY <1>1, <1>d
  <2>1. ASSUME NEW c \in Conns, GetCounter(c) PROVE Goal
    <3>1. \/ Holds(u, s) /\ up'[s] = up[s] /\ down'[s] = down[s]
          \/ up'[s] = 0 /\ down'[s] = 0
      BY <1>4, <2>1, HoldsMore
    <3>2. UNCHANGED <<rep, slice>>
      BY <2>1 DEF GetCounter, report
    <3>3. Debt(u, s)' = Debt(u, s)
      BY <3>2 DEF Debt
    <3> QED BY <2>0, <3>1, <3>3
  <2>2. CASE \A c \in Conns : ~GetCounter(c)
    <3>1. Holds(u, s)
      BY <1>4, <2>2, HoldsLess
    <3>2. CASE ResetUp
      <4>1. /\ rep.at = "resetUp" /\ rep'.at = "resetDown" /\ rep'.store = rep.store /\ rep'.user = rep.user
            /\ rep'.up = rep.up /\ UNCHANGED <<slice, down>> /\ up' = [up EXCEPT ![rep.store] = 0]
        BY <1>1, <3>2 DEF ResetUp, Reports
      <4>2. CASE s = rep.store
        <5>1. up'[s] = 0 /\ down'[s] = down[s] /\ rep.up <= up[s]
          BY <1>1, <4>1, <4>2 DEF Pending
        <5>2. CASE rep.user = u
          <6>1. Debt(u, s) = slice[u] /\ Debt(u, s)' = slice[u] - rep.up
            BY <4>1, <4>2, <5>2 DEF Debt
          <6> QED BY <1>1, <2>0, <3>1, <5>1, <6>1
        <5>3. CASE rep.user # u
          <6>1. Debt(u, s) = 0 /\ Debt(u, s)' = 0
            BY <4>1, <5>3 DEF Debt
          <6> QED BY <1>1, <2>0, <3>1, <5>1, <6>1
        <5> QED BY <5>2, <5>3
      <4>3. CASE s # rep.store
        <5>1. Debt(u, s) = 0 /\ Debt(u, s)' = 0
          BY <4>1, <4>3 DEF Debt
        <5>2. up'[s] = up[s] /\ down'[s] = down[s]
          BY <1>1, <4>1, <4>3
        <5> QED BY <2>0, <3>1, <5>1, <5>2
      <4> QED BY <4>2, <4>3
    <3>3. CASE ResetDown
      <4>1. rep.at = "resetDown" /\ rep'.at = "range" /\ UNCHANGED up /\ down' = [down EXCEPT ![rep.store] = 0]
        BY <1>1, <3>3 DEF ResetDown, Reports
      <4>2. Debt(u, s)' = 0
        BY <4>1 DEF Debt
      <4>3. CASE s = rep.store
        <5>1. up'[s] = up[s] /\ down'[s] = 0
          BY <1>1, <4>1, <4>3
        <5>2. Debt(u, s) <= down[s]
          <6>1. CASE rep.user = u
            <7>1. Debt(u, s) = slice[u] - rep.up /\ rep.up <= slice[u] /\ slice[u] <= rep.up + down[s]
              BY <4>1, <4>3, <6>1 DEF Debt, Pending
            <7> QED BY <1>1, <2>0, <7>1
          <6>2. CASE rep.user # u
            BY <2>0, <4>1, <6>2 DEF Debt
          <6> QED BY <6>1, <6>2
        <5> QED BY <2>0, <3>1, <4>2, <5>1, <5>2
      <4>4. CASE s # rep.store
        <5>1. Debt(u, s) = 0
          BY <4>1, <4>4 DEF Debt
        <5>2. up'[s] = up[s] /\ down'[s] = down[s]
          BY <1>1, <4>1, <4>4
        <5> QED BY <2>0, <3>1, <4>2, <5>1, <5>2
      <4> QED BY <4>3, <4>4
    <3>4. CASE BeginReport \/ EndRange \/ ReportUserTraffic \/ ReportOnline \/ \E v \in Users : LoadUp(v)
      <4>1. UNCHANGED <<up, down>> /\ rep.at \notin {"resetUp", "resetDown"}
        BY <3>4 DEF BeginReport, EndRange, ReportUserTraffic, ReportOnline, LoadUp, counters
      <4>2. Debt(u, s) = 0
        BY <4>1 DEF Debt
      <4> QED BY <2>0, <3>1, <4>1, <4>2
    <3>5. CASE UNCHANGED <<up, down, rep, slice>>
      <4>1. Debt(u, s)' = Debt(u, s)
        BY <3>5 DEF Debt
      <4> QED BY <2>0, <3>1, <3>5, <4>1
    <3>6. ASSUME NEW c \in Conns, Connection(c) PROVE UNCHANGED <<up, down, rep, slice>>
      BY <2>2, <3>6 DEF Connection, Admit, LoadManager, StoreManager, AddLink, LogTraffic, LoadCounter, StoreCounter,
             Disconnect, counters, report
    <3>7. ASSUME Changes PROVE UNCHANGED <<up, down, rep, slice>>
      BY <3>7 DEF Changes, XrayDelUsers, SingDelUsers, Hy2DelCounter, Hy2DelAuth, AddUsers, Reload, counters, report
    <3> QED BY <3>2, <3>3, <3>4, <3>5, <3>6, <3>7 DEF TrafficNext, Report
  <2> QED BY <2>1, <2>2
<1>5. Covers(total, u)'
  BY <1>2, <1>3, <1>4, SameTotals
<1> QED BY <1>5

LEMMA BudgetInit == TrafficInit => Budget
<1> SUFFICES ASSUME TrafficInit, NEW u \in Users PROVE \E total \in Totals : Covers(total, u)
  BY DEF Budget
<1> DEFINE none == [n \in 0..MaxStores |-> 0]
<1>1. none \in Totals /\ \A n \in 0..MaxStores : none[n] = 0
  BY DEF Totals
<1> HIDE DEF none
<1>2. /\ \A s \in Stores : up[s] = 0 /\ down[s] = 0 /\ Debt(u, s) = 0
      /\ billed[u] = 0 /\ produced[u] = 0 /\ Taken(u) = 0
  BY DEF TrafficInit, Zero, Debt, Taken, Idle
<1>3. \A s \in Stores : s \in 0..MaxStores /\ s - 1 \in 0..MaxStores
  BY TrafficBounds DEF Stores
<1>4. MaxStores \in 0..MaxStores
  BY TrafficBounds
<1>5. Covers(none, u)
  BY <1>1, <1>2, <1>3, <1>4 DEF Covers
<1> QED BY <1>1, <1>5

Billing == Shape /\ OneOwner /\ Pending /\ Budget

LEMMA BillingStep == Billing /\ [TrafficNext]_trafficVars => Billing'
<1> SUFFICES ASSUME Billing, [TrafficNext]_trafficVars PROVE Billing'
  OBVIOUS
<1> USE DEF Billing
<1>1. Shape' /\ OneOwner' /\ Pending'
  BY ShapeStep, OneOwnerStep, PendingStep
<1>2. CASE UNCHANGED trafficVars
  <2>1. UNCHANGED <<entry, up, down, store, user, rep, slice, billed, produced>>
    BY <1>2 DEF trafficVars, counters, conns, report, history
  <2>2. Budget'
    BY <2>1 DEF Budget, Covers, Holds, Debt, Taken
  <2> QED BY <1>1, <2>2
<1>3. CASE TrafficNext
  BY <1>1, <1>3, TransferBudget, LoadDownBudget, OtherBudget
<1> QED BY <1>2, <1>3

\* What is billed or about to be was produced; so were the bytes that the
\* report is about to read.
LEMMA WithinBudget ==
    Billing => \A u \in Users :
        /\ billed[u] + Taken(u) <= produced[u]
        /\ rep.at = "range" => \A s \in Stores : Holds(u, s) => up[s] <= produced[u]
<1> SUFFICES ASSUME Billing, NEW u \in Users
             PROVE  /\ billed[u] + Taken(u) <= produced[u]
                    /\ rep.at = "range" => \A s \in Stores : Holds(u, s) => up[s] <= produced[u]
  OBVIOUS
<1> USE DEF Billing, Shape
<1>1. PICK total \in Totals : Covers(total, u)
  BY DEF Budget
<1>2. billed[u] \in Nat /\ Taken(u) \in Nat /\ produced[u] \in Nat
  BY TrafficBounds DEF HistoryTypes, Taken
<1>3. \A n \in 0..MaxStores : total[n] \in Nat
  BY DEF Totals
<1>4. MaxStores \in 0..MaxStores
  BY TrafficBounds
<1>5. billed[u] + Taken(u) + total[MaxStores] <= produced[u]
  BY <1>1 DEF Covers
<1>6. ASSUME rep.at = "range", NEW s \in Stores, Holds(u, s) PROVE up[s] <= produced[u]
  <2>1. up[s] + down[s] + total[s - 1] <= total[s] + Debt(u, s)
    BY <1>1, <1>6 DEF Covers
  <2>2. Debt(u, s) = 0
    BY <1>6 DEF Debt
  <2>3. s \in 0..MaxStores /\ s - 1 \in 0..MaxStores /\ s <= MaxStores
    BY TrafficBounds DEF Stores
  <2>4. total[s] <= total[MaxStores]
    BY <1>1, <1>4, <2>3 DEF Covers
  <2>5. up[s] \in Nat /\ down[s] \in Nat
    BY DEF CounterTypes
  <2> QED BY <1>2, <1>3, <1>4, <1>5, <2>1, <2>2, <2>3, <2>4, <2>5
<1> QED BY <1>2, <1>3, <1>4, <1>5, <1>6

\* What is billed or about to be was produced.
Paid == \A u \in Users : billed[u] + Taken(u) <= produced[u]

LEMMA PaidHolds == Billing => Paid
BY WithinBudget DEF Paid

\* The report's numbers stay within the bound on what is produced.
Small == (\A u \in Users : slice[u] <= MaxBytes) /\ rep.up <= MaxBytes

LEMMA SmallStep == Billing /\ Small /\ [TrafficNext]_trafficVars => Small'
<1> SUFFICES ASSUME Billing, Small, [TrafficNext]_trafficVars PROVE Small'
  OBVIOUS
<1> USE TrafficBounds
<1>1. Billing'
  BY BillingStep
<1>2. \A u \in Users : billed'[u] + Taken(u)' <= produced'[u]
  <2>1. (Billing => Paid)'
    BY PaidHolds, PTL
  <2> QED BY <1>1, <2>1 DEF Paid
<1>3. rep \in Reports /\ Shape /\ Shape'
  BY <1>1 DEF Billing, Shape, RepTypes
<1>4. ASSUME NEW u \in Users PROVE slice'[u] <= MaxBytes
  <2>1. CASE rep'.at # "online"
    <3>1. Taken(u)' = slice'[u]
      BY <2>1 DEF Taken
    <3>2. billed'[u] \in Nat /\ slice'[u] \in Nat /\ produced'[u] \in 0..MaxBytes
      BY <1>3 DEF Shape, HistoryTypes
    <3> QED BY <1>2, <3>1, <3>2
  <2>2. CASE rep'.at = "online"
    <3>1. ASSUME Report PROVE UNCHANGED slice
      <4>1. CASE LoadDown \/ ResetDown
        BY <1>3, <2>2, <4>1 DEF LoadDown, ResetDown, Reports
      <4>2. CASE ReportOnline
        BY <2>2, <4>2 DEF ReportOnline, Idle
      <4> QED BY <3>1, <4>1, <4>2 DEF Report, BeginReport, LoadUp, ResetUp, EndRange, ReportUserTraffic
    <3>2. ASSUME NEW c \in Conns, Connection(c) PROVE UNCHANGED slice
      BY <3>2 DEF Connection, Admit, LoadManager, StoreManager, AddLink, LogTraffic, LoadCounter, StoreCounter,
         GetCounter, Transfer, Disconnect, report
    <3>3. ASSUME Changes PROVE UNCHANGED slice
      BY <3>3 DEF Changes, XrayDelUsers, SingDelUsers, Hy2DelCounter, Hy2DelAuth, AddUsers, Reload, report
    <3>4. UNCHANGED slice
      BY <3>1, <3>2, <3>3 DEF TrafficNext, trafficVars, report
    <3> QED BY <3>4 DEF Small
  <2> QED BY <2>1, <2>2
<1>5. rep'.up <= MaxBytes
  <2>1. ASSUME NEW u \in Users, LoadUp(u) PROVE rep'.up <= MaxBytes
    <3>1. rep.ctr \in Conns /\ rep.at = "range"
      BY <1>3, <2>1 DEF LoadUp, Reports, Shape, RepTypes, Ranging
    <3>2. CASE entry[rep.ctr][u] = None
      BY <1>3, <2>1, <3>2 DEF LoadUp, Reports, Small
    <3>3. CASE entry[rep.ctr][u] # None
      <4>1. entry[rep.ctr][u] \in Stores
        BY <1>3, <3>1, <3>3 DEF Shape, CounterTypes
      <4>2. PICK s \in Stores : s = entry[rep.ctr][u]
        BY <4>1
      <4>3. Holds(u, s)
        BY <3>1, <4>2 DEF Holds
      <4>4. up[s] <= produced[u]
        BY <3>1, <4>3, WithinBudget
      <4>5. rep'.up = up[s]
        BY <1>3, <2>1, <3>3, <4>2 DEF LoadUp, Reports
      <4>6. up[s] \in Nat /\ produced[u] \in 0..MaxBytes
        BY <1>3 DEF Shape, CounterTypes, HistoryTypes
      <4> QED BY <4>4, <4>5, <4>6
    <3> QED BY <3>2, <3>3
  <2>2. CASE LoadDown \/ ResetUp \/ ResetDown
    BY <1>3, <2>2 DEF LoadDown, ResetUp, ResetDown, Reports, Small
  <2>3. CASE BeginReport \/ EndRange \/ ReportUserTraffic \/ ReportOnline
    <3>1. rep'.up = 0
      <4>1. CASE BeginReport
        BY <4>1 DEF BeginReport, Idle
      <4>2. CASE EndRange \/ ReportUserTraffic
        BY <4>2 DEF EndRange, ReportUserTraffic, Idle
      <4>3. CASE ReportOnline
        BY <4>3 DEF ReportOnline, Idle
      <4> QED BY <2>3, <4>1, <4>2, <4>3
    <3> QED BY <3>1
  <2>4. CASE UNCHANGED rep
    BY <2>4 DEF Small
  <2>5. ASSUME NEW c \in Conns, Connection(c) PROVE UNCHANGED rep
    BY <2>5 DEF Connection, Admit, LoadManager, StoreManager, AddLink, LogTraffic, LoadCounter, StoreCounter,
       GetCounter, Transfer, Disconnect, report
  <2>6. ASSUME Changes PROVE UNCHANGED rep
    BY <2>6 DEF Changes, XrayDelUsers, SingDelUsers, Hy2DelCounter, Hy2DelAuth, AddUsers, Reload, report
  <2> QED BY <2>1, <2>2, <2>3, <2>4, <2>5, <2>6 DEF TrafficNext, Report, trafficVars, report
<1> QED BY <1>4, <1>5 DEF Small

LEMMA BillingAlways == TrafficSpec => [](Billing /\ Small)
<1>1. TrafficInit => Billing
  BY ShapeInit, OneOwnerInit, PendingInit, BudgetInit DEF Billing
<1>2. TrafficInit => Small
  BY TrafficBounds DEF TrafficInit, Small, Zero, Idle
<1> QED BY <1>1, <1>2, BillingStep, SmallStep, PTL DEF TrafficSpec

\* A connection that uses a manager, a counter or a storage has found it,
\* whatever edits and reports come in between, and no more bytes are taken than
\* were produced.
THEOREM TrafficTypeCorrect == TrafficSpec => []TrafficTypeOK
<1>1. Billing /\ Small => TrafficTypeOK
  <2> SUFFICES ASSUME Billing, Small PROVE TrafficTypeOK
    OBVIOUS
  <2> USE DEF Billing, Shape
  <2>1. \A c \in Conns :
          /\ stage[c] \in Resting \cup Finding \cup {"manager", "newManager", "link", "counter", "newCounter"}
          /\ mgr[c] \in Conns \/ (mgr[c] = None /\ stage[c] # "link")
          /\ ctr[c] \in Conns \/ (ctr[c] = None /\ stage[c] \notin Finding)
          /\ store[c] \in Stores \/ (store[c] = None /\ stage[c] # "add")
    BY DEF ConnTypes, Anywhere
  <2>2. rep \in [at : {"idle", "range", "down", "resetUp", "resetDown", "push", "online"},
                 left : SUBSET Users, ctr : Conns \cup {None}, user : Users \cup {None},
                 store : Stores \cup {None}, up : 0..MaxBytes]
    BY TrafficBounds DEF RepTypes, Reports, Small
  <2>3. slice \in [Users -> 0..MaxBytes]
    BY TrafficBounds DEF HistoryTypes, Small
  <2> QED BY <2>1, <2>2, <2>3 DEF TrafficTypeOK, MapTypes, CounterTypes, ConnTypes, HistoryTypes
<1> QED BY <1>1, BillingAlways, PTL

\* However bytes, deletions, reloads and reports overlap, the panel is not told
\* of a byte twice: LoadDown takes from the storage what Reset* clears.
LEMMA NoByteTwice == Billing => NoByteBilledTwice
<1> SUFFICES ASSUME Billing, NEW u \in Users PROVE billed[u] <= produced[u]
  BY DEF NoByteBilledTwice
<1>1. billed[u] \in Nat /\ Taken(u) \in Nat /\ produced[u] \in Nat
  BY TrafficBounds DEF Billing, Shape, HistoryTypes, Taken
<1> QED BY <1>1, WithinBudget

\* Where nothing overlaps, a connection's step finds no other connection, no
\* report and no deletion under way;
LEMMA ConnectionTurn ==
    ASSUME Shape, Turns, serial, NEW c \in Conns, Connection(c)
    PROVE  /\ Connecting \subseteq {c} /\ rep.at = "idle" /\ forgetting = None
           /\ UNCHANGED <<rep, slice, forgetting>>
           /\ \A d \in Conns : d # c => stage'[d] = stage[d] /\ stage[d] \in Resting
<1>1. UNCHANGED <<rep, slice, forgetting>>
  BY DEF Connection, Admit, LoadManager, StoreManager, AddLink, LogTraffic, LoadCounter, StoreCounter,
     GetCounter, Transfer, Disconnect, report, userMaps
<1>2. Alone(c) \/ c \in Connecting
  BY DEF Connection, Admit, LoadManager, StoreManager, AddLink, LogTraffic, LoadCounter, StoreCounter,
     GetCounter, Transfer, Disconnect, Connecting, Resting
<1>3. Connecting \subseteq {c} /\ rep.at = "idle" /\ forgetting = None
  <2>1. CASE Alone(c)
    BY <2>1 DEF Alone
  <2>2. CASE c \in Connecting
    <3>1. \A d \in Connecting : d = c
      BY <2>2 DEF Turns
    <3> QED BY <2>2, <3>1 DEF Turns
  <2> QED BY <1>2, <2>1, <2>2
<1>4. \A d \in Conns : d # c => stage'[d] = stage[d]
  BY DEF Connection, Admit, LoadManager, StoreManager, AddLink, LogTraffic, LoadCounter, StoreCounter,
     GetCounter, Transfer, Disconnect, Enter, Shape, ConnTypes
<1> QED BY <1>1, <1>3, <1>4 DEF Connecting

\* a report's step finds no connection and no deletion under way,
LEMMA ReportTurn ==
    ASSUME Turns, serial, Report
    PROVE  /\ Connecting = {} /\ forgetting = None
           /\ UNCHANGED <<fixed, userMaps, linkMaps, counter, conns>>
<1> USE DEF Report, BeginReport, LoadUp, LoadDown, ResetUp, ResetDown, EndRange, ReportUserTraffic, ReportOnline
<1>1. UNCHANGED <<fixed, userMaps, linkMaps, counter, conns>>
  BY DEF counters
<1>2. BeginReport \/ rep.at # "idle"
  OBVIOUS
<1> QED BY <1>1, <1>2 DEF Turns

\* and an edit nothing at all.
LEMMA ChangesTurn ==
    ASSUME Shape, Turns, serial, Changes
    PROVE  /\ Connecting = {} /\ rep.at = "idle" /\ UNCHANGED <<rep, slice, up, down, user, produced, billed>>
           /\ \A d \in Conns : stage'[d] = stage[d] /\ stage[d] \in Resting
<1>1. UNCHANGED <<rep, slice, up, down, user, produced, billed>>
  BY DEF Changes, XrayDelUsers, SingDelUsers, Hy2DelCounter, Hy2DelAuth, AddUsers, Reload, report, counters, conns, history
<1>2. Edit \/ forgetting # None
  BY DEF Changes, XrayDelUsers, SingDelUsers, Hy2DelCounter, Hy2DelAuth, AddUsers, Reload
<1>3. Connecting = {} /\ rep.at = "idle"
  BY <1>2 DEF Edit, Turns
<1>4. \A d \in Conns : stage[d] \in Resting
  BY <1>3 DEF Connecting
<1>5. \A d \in Conns : stage'[d] = stage[d]
  BY <1>3 DEF Changes, XrayDelUsers, SingDelUsers, Hy2DelCounter, Hy2DelAuth, AddUsers, Reload, conns
<1> QED BY <1>1, <1>3, <1>4, <1>5

LEMMA TurnsStep ==
    ASSUME Shape, Turns, serial, TrafficNext
    PROVE  Turns'
<1>1. ASSUME NEW c \in Conns, Connection(c) PROVE Turns'
  <2>1. /\ rep.at = "idle" /\ forgetting = None /\ UNCHANGED <<rep, forgetting>>
        /\ \A d \in Conns : d # c => stage'[d] = stage[d] /\ stage[d] \in Resting
    BY <1>1, ConnectionTurn
  <2>2. Connecting' \subseteq {c}
    BY <2>1 DEF Connecting
  <2> QED BY <2>1, <2>2 DEF Turns
<1>2. CASE Report
  <2>1. Connecting = {} /\ forgetting = None /\ UNCHANGED <<forgetting, stage>>
    BY <1>2, ReportTurn DEF userMaps, conns
  <2>2. Connecting' = {}
    BY <2>1 DEF Connecting
  <2> QED BY <2>1, <2>2 DEF Turns
<1>3. CASE Changes
  <2>1. /\ rep.at = "idle" /\ UNCHANGED rep
        /\ \A d \in Conns : stage'[d] = stage[d] /\ stage[d] \in Resting
    BY <1>3, ChangesTurn
  <2>2. Connecting' = {}
    BY <2>1 DEF Connecting
  <2> QED BY <2>1, <2>2 DEF Turns
<1> QED BY <1>1, <1>2, <1>3 DEF TrafficNext

\* A link is in the manager that the maps hold, from AddLink on, unless its user
\* is raced; and where nothing overlaps nobody is.
LEMMA LinkStep ==
    ASSUME Shape, Shape', serial => Turns, kind = "xray", LinkInv, TrafficNext
    PROVE  LinkInv'
<1> USE DEF Shape
<1>0. /\ managers \in [Users -> Conns \cup {None}] /\ links \in [Conns -> SUBSET Conns] /\ raced \subseteq Users
      /\ stage \in [Conns -> Anywhere] /\ mgr \in [Conns -> Conns \cup {None}] /\ user \in [Conns -> Users]
  BY DEF MapTypes, ConnTypes
<1>1. ASSUME NEW c \in Conns, Connection(c) PROVE LinkInv'
  <2>1. \A d \in Conns : d # c => stage'[d] = stage[d] /\ mgr'[d] = mgr[d]
    BY <1>0, <1>1 DEF Connection, Admit, LoadManager, StoreManager, AddLink, LogTraffic, LoadCounter, StoreCounter,
       GetCounter, Transfer, Disconnect, Enter, conns
  <2>2. UNCHANGED <<known, cut, user, serial>>
    BY <1>1 DEF Connection, Admit, LoadManager, StoreManager, AddLink, LogTraffic, LoadCounter, StoreCounter,
       GetCounter, Transfer, Disconnect, userMaps, linkMaps, conns, fixed
  <2>3. serial => \A d \in Conns : d # c => stage[d] \in Resting
    BY <1>1, ConnectionTurn
  <2>4. \A d \in Conns : user[d] \in Users
    BY <1>0
  <2>5. ASSUME UNCHANGED <<managers, links, raced>>, user[c] \notin raced => Linked(c)',
               stage'[c] = "newManager" => managers[user[c]] = None
        PROVE  LinkInv'
    <3>1. \A d \in Conns : d # c => (Linked(d) => Linked(d)')
      BY <2>1, <2>2, <2>5 DEF Linked, Managed
    <3>2. serial => \A d \in Conns : stage'[d] = "newManager" => managers'[user'[d]] = None
      BY <2>1, <2>2, <2>5 DEF LinkInv
    <3> QED BY <2>2, <2>5, <3>1, <3>2 DEF LinkInv
  <2>6. CASE Admit(c)
    <3>1. stage'[c] = "manager" /\ user[c] \in known /\ UNCHANGED <<managers, links, raced>>
      BY <1>0, <2>6 DEF Admit, Enter, MapTypes, linkMaps
    <3>2. Linked(c)'
      BY <2>2, <3>1 DEF Linked
    <3> QED BY <2>5, <3>1, <3>2
  <2>7. CASE LoadManager(c)
    <3>1. /\ stage[c] = "manager" /\ mgr'[c] = managers[user[c]] /\ UNCHANGED <<managers, links, raced>>
          /\ stage'[c] = IF managers[user[c]] = None THEN "newManager" ELSE "link"
      BY <1>0, <2>7 DEF LoadManager, Enter, linkMaps
    <3>2. user[c] \notin raced => Linked(c)'
      BY <2>2, <3>1 DEF LinkInv, Linked
    <3> QED BY <2>5, <3>1, <3>2
  <2>8. CASE LoadCounter(c) \/ StoreCounter(c) \/ GetCounter(c) \/ Transfer(c)
    <3>1. UNCHANGED <<managers, links, raced>> /\ stage'[c] \in {"newCounter", "storage", "open"}
      BY <1>0, <2>8 DEF LoadCounter, StoreCounter, GetCounter, Transfer, Enter, linkMaps
    <3>2. /\ stage[c] \in {"counter", "newCounter", "storage", "open", "add"}
      BY <2>8 DEF LoadCounter, StoreCounter, GetCounter, Transfer
    <3>3. stage[c] # "add"
      BY DEF ConnTypes
    <3>4. user[c] \notin raced => Linked(c)'
      BY <2>2, <3>1, <3>2, <3>3 DEF LinkInv, Linked, Managed
    <3> QED BY <2>5, <3>1, <3>4
  <2>9. CASE StoreManager(c)
    <3>1. PICK w \in Users : w = user[c]
      BY <1>0
    <3>2. /\ stage[c] = "newManager" /\ stage'[c] = "link" /\ mgr'[c] = c /\ UNCHANGED links
          /\ raced' = IF managers[w] = None THEN raced ELSE raced \cup {w}
      BY <1>0, <2>9, <3>1 DEF StoreManager, Enter
    <3>3. managers'[w] = c /\ \A u \in Users : u # w => managers'[u] = managers[u]
      BY <1>0, <2>9, <3>1 DEF StoreManager
    <3>4. \A u \in Users : managers'[u] # None => user'[managers'[u]] = u
      BY <2>2, <3>1, <3>3 DEF LinkInv
    <3>5. raced \subseteq raced'
      BY <3>2
    <3>6. ASSUME NEW d \in Conns, user[d] \notin raced' PROVE Linked(d)'
      <4>1. user[d] \notin raced /\ Linked(d)
        BY <3>5, <3>6 DEF LinkInv
      <4>2. CASE user[d] # w
        <5>1. d # c /\ managers'[user[d]] = managers[user[d]]
          BY <2>4, <3>1, <3>3, <4>2
        <5> QED BY <2>1, <2>2, <3>2, <4>1, <5>1 DEF Linked, Managed
      <4>3. CASE user[d] = w /\ d # c
        <5>1. managers[w] = None
          BY <3>2, <3>6, <4>3
        <5>2. stage[d] # "link"
          BY <4>1, <4>3, <5>1 DEF Linked, ConnTypes
        <5>3. ~Managed(d)
          BY <4>3, <5>1 DEF Managed
        <5> QED BY <2>1, <2>2, <4>1, <4>3, <5>2, <5>3 DEF Linked
      <4>4. CASE d = c
        BY <2>2, <3>1, <3>2, <3>3, <4>1, <4>4 DEF Linked
      <4> QED BY <4>2, <4>3, <4>4
    <3>7. serial => raced' = {} /\ \A d \in Conns : stage'[d] = "newManager" => managers'[user'[d]] = None
      <4>1. serial => \A d \in Conns : stage'[d] # "newManager"
        BY <2>1, <2>3, <3>2 DEF Resting
      <4> QED BY <3>1, <3>2, <4>1 DEF LinkInv
    <3> QED BY <2>2, <3>4, <3>6, <3>7 DEF LinkInv
  <2>10. CASE AddLink(c)
    <3>1. /\ stage[c] = "link" /\ stage'[c] = "counter" /\ mgr[c] \in Conns /\ UNCHANGED <<managers, raced>>
      BY <1>0, <2>10 DEF AddLink, Enter, ConnTypes
    <3>2. c \in links'[mgr[c]] /\ \A m \in Conns : links[m] \subseteq links'[m]
      BY <1>0, <2>10, <3>1 DEF AddLink
    <3>3. ASSUME NEW d \in Conns, Managed(d) PROVE Managed(d)'
      <4>1. managers[user[d]] \in Conns
        BY <1>0, <3>3 DEF Managed
      <4> QED BY <2>2, <3>1, <3>2, <3>3, <4>1 DEF Managed
    <3>4. ASSUME NEW d \in Conns, user[d] \notin raced PROVE Linked(d)'
      <4>1. CASE d # c
        BY <2>1, <2>2, <3>1, <3>3, <3>4, <4>1 DEF LinkInv, Linked
      <4>2. CASE d = c
        <5>1. mgr[c] = managers[user[c]] /\ user[c] \in known
          BY <3>1, <3>4, <4>2 DEF LinkInv, Linked
        <5>2. Managed(c)'
          BY <2>2, <3>1, <3>2, <5>1, NoneIsNew DEF Managed
        <5> QED BY <3>1, <4>2, <5>2 DEF Linked
      <4> QED BY <4>1, <4>2
    <3>5. serial => \A d \in Conns : stage'[d] = "newManager" => managers'[user'[d]] = None
      BY <2>1, <2>2, <3>1 DEF LinkInv
    <3> QED BY <2>2, <3>1, <3>4, <3>5 DEF LinkInv
  <2>11. CASE Disconnect(c)
    <3>1. stage'[c] = "closed" /\ UNCHANGED <<managers, raced>>
      BY <1>0, <2>11 DEF Disconnect, Enter
    <3>2. \A m \in Conns : links[m] \ {c} \subseteq links'[m]
      BY <1>0, <2>11 DEF Disconnect
    <3>3. ASSUME NEW d \in Conns, d # c, Managed(d) PROVE Managed(d)'
      <4>1. managers[user[d]] \in Conns
        BY <1>0, <3>3 DEF Managed
      <4> QED BY <2>2, <3>1, <3>2, <3>3, <4>1 DEF Managed
    <3>4. ASSUME NEW d \in Conns, user[d] \notin raced PROVE Linked(d)'
      BY <2>1, <2>2, <3>1, <3>3, <3>4 DEF LinkInv, Linked
    <3>5. serial => \A d \in Conns : stage'[d] = "newManager" => managers'[user'[d]] = None
      BY <2>1, <2>2, <3>1 DEF LinkInv
    <3> QED BY <2>2, <3>1, <3>4, <3>5 DEF LinkInv
  <2> QED BY <1>1, <2>6, <2>7, <2>8, <2>9, <2>10, <2>11 DEF Connection, LogTraffic
<1>2. CASE Report
  <2>1. UNCHANGED <<known, managers, links, cut, raced, stage, user, mgr, serial>>
    BY <1>2 DEF Report, BeginReport, LoadUp, LoadDown, ResetUp, ResetDown, EndRange, ReportUserTraffic, ReportOnline,
       userMaps, linkMaps, conns, fixed
  <2> QED BY <2>1 DEF LinkInv, Linked, Managed
<1>3. CASE Changes
  <2>1. UNCHANGED <<user, stage, mgr, serial>>
    BY <1>3 DEF Changes, XrayDelUsers, SingDelUsers, Hy2DelCounter, Hy2DelAuth, AddUsers, Reload, conns, fixed
  <2>2. ASSUME NEW u \in Users, XrayDelUsers(u) PROVE LinkInv'
    <3>1. /\ known' = known \ {u} /\ managers'[u] = None /\ cut \subseteq cut' /\ raced \subseteq raced'
          /\ managers[u] # None => links[managers[u]] \subseteq cut'
          /\ (\E d \in Linking : user[d] = u) => u \in raced'
      BY <1>0, <2>2 DEF XrayDelUsers, MeetsLinking
    <3>2. \A v \in Users : v # u => managers'[v] = managers[v]
      BY <1>0, <2>2 DEF XrayDelUsers
    <3>3. \A v \in Users : managers'[v] # None => user'[managers'[v]] = v
      BY <2>1, <3>1, <3>2 DEF LinkInv
    <3>4. ASSUME NEW d \in Conns, user[d] \notin raced' PROVE Linked(d)'
      <4>1. user[d] \in Users /\ Linked(d)
        BY <1>0, <3>1, <3>4 DEF LinkInv
      <4>2. CASE user[d] = u
        <5>1. d \notin Linking
          BY <3>1, <3>4, <4>2
        <5>2. Managed(d) => d \in cut'
          BY <3>1, <4>2 DEF Managed
        <5> QED BY <2>1, <3>1, <4>1, <5>1, <5>2 DEF Linked, Linking
      <4>3. CASE user[d] # u
        <5>1. managers'[user[d]] = managers[user[d]] /\ (user[d] \in known => user[d] \in known')
          BY <3>1, <3>2, <4>1, <4>3
        <5>2. ASSUME Managed(d) PROVE links'[managers[user[d]]] = links[managers[user[d]]]
          <6>1. CASE managers[u] = None
            BY <2>2, <6>1 DEF XrayDelUsers
          <6>2. CASE managers[u] # None
            <7>1. links' = [links EXCEPT ![managers[u]] = {}]
              BY <2>2, <6>2 DEF XrayDelUsers
            <7>2. managers[user[d]] # managers[u] /\ managers[user[d]] \in Conns
              BY <1>0, <4>1, <4>3, <5>2, <6>2 DEF Managed, LinkInv
            <7> QED BY <1>0, <7>1, <7>2
          <6> QED BY <6>1, <6>2
        <5>3. Managed(d) => Managed(d)'
          BY <2>1, <5>1, <5>2 DEF Managed
        <5> QED BY <2>1, <3>1, <4>1, <5>1, <5>3 DEF Linked
      <4> QED BY <4>2, <4>3
    <3>5. serial => raced' = {} /\ \A d \in Conns : stage'[d] = "newManager" => managers'[user'[d]] = None
      <4>1. serial => Linking = {}
        BY <2>2 DEF XrayDelUsers, Edit, Connecting, Linking, Resting
      <4>2. Linking = {} => raced' = raced
        BY <2>2 DEF XrayDelUsers, MeetsLinking
      <4> QED BY <2>1, <4>1, <4>2 DEF LinkInv, Linking
    <3> QED BY <2>1, <3>3, <3>4, <3>5 DEF LinkInv
  <2>3. ASSUME Reload \/ \E u \in Users : AddUsers(u) PROVE LinkInv'
    <3>1. UNCHANGED <<managers, links, cut, raced>> /\ known \subseteq known'
      BY <2>3 DEF AddUsers, Reload, linkMaps
    <3>2. \A d \in Conns : Linked(d) => Linked(d)'
      BY <2>1, <3>1 DEF Linked, Managed
    <3> QED BY <2>1, <3>1, <3>2 DEF LinkInv
  <2>4. forgetting = None
    BY DEF MapTypes
  <2> QED BY <1>3, <2>2, <2>3, <2>4 DEF Changes, SingDelUsers, Hy2DelCounter, Hy2DelAuth
<1> QED BY <1>1, <1>2, <1>3 DEF TrafficNext

\* What the accounts need of a state
InTurn == /\ Shape /\ OneOwner /\ Pending /\ serial /\ kind # "sing" /\ Turns
          /\ CounterTurn /\ AccountTurn
          /\ (kind = "xray" => LinkInv)

\* In such a state the next report finds different storages for different users.
LEMMA OwnStorage ==
    ASSUME InTurn, NEW u \in Users, NEW v \in Users, u # v, StorageOf(u) # None
    PROVE  StorageOf(u) # StorageOf(v) /\ StorageOf(u) \in Stores
<1>1. counter \in Conns /\ StorageOf(u) \in Stores
  BY DEF InTurn, Shape, CounterTypes, StorageOf
<1>2. PICK s \in Stores : s = StorageOf(u)
  BY <1>1
<1>3. StorageOf(u) = StorageOf(v) => Holds(u, s) /\ Holds(v, s)
  BY <1>1, <1>2 DEF Holds, StorageOf
<1> QED BY <1>1, <1>3 DEF InTurn, OneOwner

\* A connection's step moves no byte but Transfer, which puts one where the
\* next report finds it.
LEMMA ConnectionAccounts ==
    ASSUME InTurn, Shape', NEW c \in Conns, Connection(c)
    PROVE  CounterTurn' /\ AccountTurn'
<1> USE DEF InTurn, Shape
<1>0. /\ counter \in Conns \cup {None} /\ entry \in [Conns -> [Users -> Stores \cup {None}]]
      /\ up \in [Stores -> Nat] /\ down \in [Stores -> Nat] /\ store \in [Conns -> Stores \cup {None}]
      /\ stage \in [Conns -> Anywhere] /\ ctr \in [Conns -> Conns \cup {None}] /\ user \in [Conns -> Users]
  BY DEF CounterTypes, ConnTypes
<1>h. /\ produced \in [Users -> Nat] /\ billed \in [Users -> Nat] /\ dropped \in [Users -> Nat]
  BY TrafficBounds DEF HistoryTypes
<1>1. /\ rep.at = "idle" /\ UNCHANGED <<rep, slice>> /\ slice = Zero
      /\ \A d \in Conns : d # c => stage'[d] = stage[d] /\ stage[d] \in Resting
  BY ConnectionTurn DEF Pending
<1>2. UNCHANGED <<kind, cut, user, billed, dropped>>
  BY DEF Connection, Admit, LoadManager, StoreManager, AddLink, LogTraffic, LoadCounter, StoreCounter,
     GetCounter, Transfer, Disconnect, fixed, linkMaps, conns, history
<1>3. \A u \in Users : produced[u] = billed[u] + dropped[u] + Unreported(u)
  BY <1>1, <1>h, UnreportedType DEF AccountTurn, Accounted, Reading, Handling, Zero
<1>4. ASSUME \A u \in Users : produced'[u] = billed[u] + dropped[u] + Unreported(u)' PROVE AccountTurn'
  <2>1. \A u \in Users : Unreported(u)' \in Nat /\ slice'[u] = 0 /\ ~Reading(u)'
    <3>1. ASSUME NEW u \in Users PROVE Unreported(u)' \in Nat
      BY DEF Unreported, StorageOf, CounterTypes
    <3> QED BY <1>1, <3>1 DEF Zero, Reading, Handling
  <2>2. rep'.at = "idle"
    BY <1>1
  <2>3. ASSUME NEW u \in Users PROVE produced'[u] = billed'[u] + dropped'[u] + slice'[u] + Unreported(u)'
    BY <1>2, <1>4, <1>h, <2>1
  <2> QED BY <2>1, <2>2, <2>3 DEF AccountTurn, Accounted
<1>5. ASSUME \A d \in Conns : d # c /\ kind = "xray" /\ Carries(d) => store'[d] = StorageOf(user[d])',
             stage'[c] = "newCounter" => counter' = None,
             stage'[c] = "storage" => ctr'[c] = counter',
             stage'[c] = "add" \/ (kind = "xray" /\ Carries(c)') => store'[c] = StorageOf(user[c])'
      PROVE  CounterTurn'
  <2>1. ASSUME NEW d \in Conns, d # c
        PROVE  /\ stage'[d] \notin {"newCounter", "storage", "add"}
               /\ kind = "xray" /\ Carries(d)' => store'[d] = StorageOf(user[d])'
    BY <1>1, <1>2, <1>5, <2>1 DEF Resting, Carries
  <2>2. rep'.at = "idle"
    BY <1>1
  <2> QED BY <1>2, <1>5, <2>1, <2>2 DEF CounterTurn, Ranging, Handling
<1>6. \A d \in Conns : kind = "xray" /\ Carries(d) => store[d] = StorageOf(user[d]) /\ store[d] \in Stores
  BY <1>0, NoneIsNew DEF CounterTurn, Carries, ConnTypes
<1>w. PICK w \in Users : w = user[c]
  BY <1>0
<1>7. CASE UNCHANGED counters
  <2>0. UNCHANGED <<counter, entry, up, down>>
    BY <1>7 DEF counters
  <2>1. \A u \in Users : StorageOf(u)' = StorageOf(u) /\ Unreported(u)' = Unreported(u)
    BY <2>0 DEF StorageOf, Unreported
  <2>2. ~Transfer(c)
    <3>1. Transfer(c) => store[c] \in Stores
      BY <1>0, NoneIsNew DEF Transfer, ConnTypes
    <3>2. Transfer(c) => up' # up \/ down' # down
      BY <1>0, <3>1 DEF Transfer, Add
    <3> QED BY <2>0, <3>2
  <2>3. UNCHANGED produced
    BY <2>2 DEF Connection, Admit, LoadManager, StoreManager, AddLink, LogTraffic, LoadCounter, StoreCounter,
       GetCounter, Disconnect, history
  <2>4. AccountTurn'
    BY <1>3, <1>4, <2>1, <2>3
  <2>5. \A d \in Conns : d # c => store'[d] = store[d]
    BY <1>0, <2>2 DEF Connection, Admit, LoadManager, StoreManager, AddLink, LogTraffic, LoadCounter, StoreCounter,
       GetCounter, Disconnect
  <2>6. /\ stage'[c] = "newCounter" => counter' = None
        /\ stage'[c] = "storage" => ctr'[c] = counter'
        /\ stage'[c] = "add" \/ (kind = "xray" /\ Carries(c)') => store'[c] = StorageOf(w)'
    <3>1. CASE LoadCounter(c)
      BY <1>0, <2>0, <3>1 DEF LoadCounter, Enter, Carries
    <3>2. CASE StoreCounter(c)
      BY <1>0, <2>0, <3>2 DEF StoreCounter, Enter, Carries
    <3>3. CASE GetCounter(c)
      <4>1. stage'[c] \in {"add", "open"} /\ stage[c] = "storage" /\ ctr[c] = counter /\ ctr[c] # None
        BY <1>0, <3>3 DEF GetCounter, Enter, CounterTurn, ConnTypes, Finding
      <4>2. CASE entry[ctr[c]][w] # None /\ store' = [store EXCEPT ![c] = entry[ctr[c]][w]]
        <5>1. store'[c] = StorageOf(w)
          BY <1>0, <4>1, <4>2 DEF StorageOf
        <5> QED BY <2>1, <4>1, <5>1
      <4>3. CASE entry[ctr[c]][w] = None /\ Free # {} /\
                 entry' = [entry EXCEPT ![ctr[c]][w] = CHOOSE n \in Free : TRUE]
        <5>1. PICK new \in Free : entry' = [entry EXCEPT ![ctr[c]][w] = new]
          BY <4>3
        <5>2. new # None
          BY NoneIsNew DEF Free, Stores
        <5>3. entry'[ctr[c]][w] = new
          BY <1>0, <4>1, <5>1
        <5> QED BY <2>0, <4>3, <5>2, <5>3
      <4> QED BY <1>w, <3>3, <4>2, <4>3 DEF GetCounter
    <3>4. CASE Admit(c)
      BY <1>0, <3>4, KindsAssumption DEF Admit, Enter, MapTypes, Carries
    <3>5. CASE LoadManager(c) \/ StoreManager(c) \/ AddLink(c) \/ LogTraffic(c) \/ Disconnect(c)
      <4>1. stage'[c] \in {"newManager", "link", "counter", "closed"}
        BY <1>0, <3>5 DEF LoadManager, StoreManager, AddLink, LogTraffic, Disconnect, Enter
      <4> QED BY <4>1 DEF Carries
    <3> QED BY <2>2, <3>1, <3>2, <3>3, <3>4, <3>5 DEF Connection
  <2>7. \A d \in Conns : d # c /\ kind = "xray" /\ Carries(d) => store'[d] = StorageOf(user[d])'
    BY <1>0, <1>2, <1>6, <2>0, <2>1, <2>5 DEF StorageOf
  <2>8. CounterTurn'
    BY <1>2, <1>5, <1>w, <2>6, <2>7 DEF StorageOf
  <2> QED BY <2>4, <2>8
<1>8. CASE StoreCounter(c)
  <2>1. /\ counter = None /\ counter' = c /\ ctr'[c] = c /\ stage'[c] = "storage"
        /\ entry'[c] = [u \in Users |-> None] /\ UNCHANGED <<up, down, store, produced>>
    BY <1>0, <1>8 DEF StoreCounter, Enter, CounterTurn, history
  <2>2. \A u \in Users : StorageOf(u) = None /\ StorageOf(u)' = None
    BY <2>1 DEF StorageOf
  <2>3. \A u \in Users : Unreported(u)' = Unreported(u)
    BY <2>2 DEF Unreported
  <2>4. AccountTurn'
    BY <1>3, <1>4, <2>1, <2>3
  <2>5. ~(\E d \in Conns : kind = "xray" /\ Carries(d))
    BY <1>0, <1>6, <2>2, NoneIsNew DEF Stores
  <2>6. CounterTurn'
    BY <1>5, <2>1, <2>5 DEF Carries
  <2> QED BY <2>4, <2>6
<1>9. CASE GetCounter(c) /\ ~UNCHANGED <<entry, up, down>>
  <2>1. /\ stage'[c] \in {"add", "open"} /\ stage[c] = "storage" /\ ctr[c] = counter /\ counter \in Conns
        /\ UNCHANGED <<counter, produced>>
    BY <1>0, <1>9 DEF GetCounter, Enter, CounterTurn, ConnTypes, Finding, history
  <2>2. Free # {} /\ LET new == CHOOSE n \in Free : TRUE
                     IN  /\ store' = [store EXCEPT ![c] = new]
                         /\ entry' = [entry EXCEPT ![ctr[c]][user[c]] = new]
                         /\ up' = [up EXCEPT ![new] = 0] /\ down' = [down EXCEPT ![new] = 0]
    BY <1>9 DEF GetCounter
  <2>3. PICK new \in Free : /\ store' = [store EXCEPT ![c] = new]
                            /\ entry' = [entry EXCEPT ![ctr[c]][user[c]] = new]
                            /\ up' = [up EXCEPT ![new] = 0] /\ down' = [down EXCEPT ![new] = 0]
    BY <2>2
  <2>4. new \in Stores /\ new # None
    BY NoneIsNew DEF Free, Stores
  <2>5. /\ StorageOf(w) = None /\ StorageOf(w)' = new
        /\ \A u \in Users : u # w => StorageOf(u)' = StorageOf(u)
    <3>1. entry[ctr[c]][user[c]] = None
      BY <1>9 DEF GetCounter
    <3> QED BY <1>0, <1>w, <2>1, <2>3, <3>1, NoneIsNew DEF StorageOf
  <2>6. up'[new] = 0 /\ down'[new] = 0 /\ \A s \in Stores : s # new => up'[s] = up[s] /\ down'[s] = down[s]
    BY <1>0, <2>3, <2>4
  <2>7. ASSUME NEW u \in Users PROVE Unreported(u)' = Unreported(u)
    <3>1. CASE u = w
      BY <2>4, <2>5, <2>6, <3>1 DEF Unreported
    <3>2. CASE u # w
      <4>1. StorageOf(u) # new
        BY <2>1, <2>3, <2>4 DEF StorageOf, Free, Referred
      <4>2. StorageOf(u) \in Stores \cup {None}
        BY UnreportedType
      <4> QED BY <2>5, <2>6, <3>2, <4>1, <4>2 DEF Unreported
    <3> QED BY <3>1, <3>2
  <2>8. AccountTurn'
    BY <1>3, <1>4, <2>1, <2>7
  <2>9. ASSUME NEW d \in Conns, d # c, kind = "xray", Carries(d) PROVE store'[d] = StorageOf(user[d])'
    <3>1. PICK v \in Users : v = user[d]
      BY <1>0
    <3>2. store[d] = StorageOf(v) /\ StorageOf(v) # None
      BY <1>6, <2>9, <3>1, NoneIsNew DEF Stores
    <3>3. store'[d] = store[d] /\ v # w
      BY <1>0, <2>3, <2>5, <2>9, <3>2
    <3>4. store'[d] = StorageOf(v)'
      BY <2>5, <3>2, <3>3
    <3> QED BY <1>2, <3>1, <3>4 DEF StorageOf
  <2>10. store'[c] = StorageOf(w)'
    BY <1>0, <2>3, <2>5
  <2>11. CounterTurn'
    BY <1>2, <1>5, <1>w, <2>1, <2>9, <2>10 DEF StorageOf
  <2> QED BY <2>8, <2>11
<1>10. CASE Transfer(c)
  <2>1. stage[c] = "add" \/ (kind = "xray" /\ Carries(c))
    BY <1>10, KindsAssumption DEF Transfer, Carries, MapTypes
  <2>2. store[c] = StorageOf(w) /\ store[c] \in Stores
    BY <1>0, <1>w, <2>1, NoneIsNew DEF CounterTurn, ConnTypes, Carries
  <2>3. PICK s \in Stores : s = store[c]
    BY <2>2
  <2>4. /\ up'[s] + down'[s] = up[s] + down[s] + 1
        /\ \A r \in Stores : r # s => up'[r] = up[r] /\ down'[r] = down[r]
    <3>1. CASE up' = [up EXCEPT ![s] = up[s] + 1] /\ UNCHANGED down
      BY <1>0, <3>1
    <3>2. CASE down' = [down EXCEPT ![s] = down[s] + 1] /\ UNCHANGED up
      BY <1>0, <3>2
    <3> QED BY <1>10, <2>3, <3>1, <3>2 DEF Transfer, Add
  <2>5. produced'[w] = produced[w] + 1 /\ \A u \in Users : u # w => produced'[u] = produced[u]
    BY <1>h, <1>10, <1>w DEF Transfer, Add
  <2>6. UNCHANGED <<counter, entry>> /\ \A u \in Users : StorageOf(u)' = StorageOf(u)
    BY <1>10 DEF Transfer, StorageOf
  <2>7. ASSUME NEW u \in Users PROVE produced'[u] = billed[u] + dropped[u] + Unreported(u)'
    <3>1. CASE u = w
      <4>1. Unreported(w) = up[s] + down[s] /\ Unreported(w)' = up'[s] + down'[s]
        BY <2>2, <2>3, <2>6, NoneIsNew DEF Unreported, Stores
      <4>2. produced[w] = billed[w] + dropped[w] + Unreported(w)
        BY <1>3
      <4>3. up[s] \in Nat /\ down[s] \in Nat
        BY <1>0
      <4> QED BY <1>h, <2>4, <2>5, <3>1, <4>1, <4>2, <4>3
    <3>2. CASE u # w
      <4>1. StorageOf(u) # s /\ StorageOf(u) \in Stores \cup {None}
        BY <2>2, <2>3, <3>2, OwnStorage, UnreportedType, NoneIsNew DEF Stores
      <4>2. Unreported(u)' = Unreported(u)
        BY <2>4, <2>6, <4>1 DEF Unreported
      <4> QED BY <1>3, <2>5, <3>2, <4>2
    <3> QED BY <3>1, <3>2
  <2>8. AccountTurn'
    BY <1>4, <2>7
  <2>9. ASSUME NEW d \in Conns, kind = "xray", Carries(d)
        PROVE  store'[d] = StorageOf(user[d])'
    <3>1. stage[c] # "add"
      BY <2>9 DEF ConnTypes
    <3>2. UNCHANGED store
      BY <1>10, <3>1 DEF Transfer
    <3> QED BY <1>2, <1>6, <2>6, <2>9, <3>2 DEF StorageOf
  <2>10. CounterTurn'
    <3>1. stage'[c] = "open" /\ (kind = "xray" /\ Carries(c)' => Carries(c))
      <4>1. CASE stage[c] = "add"
        BY <1>0, <1>10, <4>1 DEF Transfer, Enter, ConnTypes, Carries
      <4>2. CASE stage[c] # "add"
        BY <1>2, <1>10, <4>2 DEF Transfer, Carries
      <4> QED BY <4>1, <4>2
    <3> QED BY <1>5, <2>9, <3>1
  <2> QED BY <2>8, <2>10
<1>11. StoreCounter(c) \/ (GetCounter(c) /\ ~UNCHANGED <<entry, up, down>>) \/ Transfer(c) \/ UNCHANGED counters
  BY DEF Connection, Admit, LoadManager, StoreManager, AddLink, LogTraffic, LoadCounter, GetCounter, Disconnect, counters
<1> QED BY <1>7, <1>8, <1>9, <1>10, <1>11

\* The report finds its storage where the counter has it, and knows of each
\* byte whether it is in the slice, in the storage or in both.
LEMMA ReportAccounts ==
    ASSUME InTurn, Shape', Report
    PROVE  CounterTurn' /\ AccountTurn'
<1> USE DEF InTurn, Shape
<1>0. /\ counter \in Conns \cup {None} /\ entry \in [Conns -> [Users -> Stores \cup {None}]]
      /\ up \in [Stores -> Nat] /\ down \in [Stores -> Nat] /\ slice \in [Users -> Nat]
      /\ produced \in [Users -> Nat] /\ billed \in [Users -> Nat] /\ dropped \in [Users -> Nat]
      /\ rep \in Reports /\ rep.up \in Nat
  BY TrafficBounds DEF CounterTypes, HistoryTypes, RepTypes, Reports
<1>1. UNCHANGED <<kind, cut, counter, stage, user, store, ctr, known, produced>> /\ Connecting = {}
  <2>1. UNCHANGED produced
    BY DEF Report, BeginReport, LoadUp, LoadDown, ResetUp, ResetDown, EndRange, ReportUserTraffic, ReportOnline, history
  <2> QED BY <2>1, ReportTurn DEF fixed, linkMaps, conns, userMaps
<1>2. \A d \in Conns : stage[d] \in Resting
  BY <1>1 DEF Connecting
<1>4. ASSUME UNCHANGED entry
      PROVE  /\ \A u \in Users : StorageOf(u)' = StorageOf(u)
             /\ \A d \in Conns : stage'[d] = "add" \/ (kind' = "xray" /\ Carries(d)') => store'[d] = StorageOf(user[d])'
  BY <1>1, <1>4 DEF StorageOf, CounterTurn, Carries
<1>5. ASSUME UNCHANGED <<entry, up, down>> PROVE \A u \in Users : Unreported(u)' = Unreported(u)
  BY <1>1, <1>5 DEF Unreported, StorageOf
<1>u. \A u \in Users : Unreported(u) \in Nat
  BY UnreportedType
<1>6. CASE BeginReport
  <2>1. /\ rep.at = "idle" /\ slice = Zero /\ UNCHANGED <<entry, up, down, slice, billed, dropped>>
        /\ rep'.at \in {"range", "push"} /\ (rep'.at = "range" => rep'.ctr = counter)
    BY <1>6 DEF BeginReport, Pending, counters, history, Idle
  <2>2. CounterTurn'
    BY <1>1, <1>2, <1>4, <2>1 DEF CounterTurn, Ranging, Handling, Resting, StorageOf
  <2>3. AccountTurn'
    BY <1>1, <1>5, <1>u, <2>1 DEF AccountTurn, Accounted, Reading, Handling
  <2> QED BY <2>2, <2>3
<1>7. ASSUME NEW w \in Users, LoadUp(w) PROVE CounterTurn' /\ AccountTurn'
  <2>1. /\ rep.at = "range" /\ w \in rep.left /\ rep.ctr = counter /\ counter \in Conns
        /\ UNCHANGED <<entry, up, down, slice, billed, dropped>>
    BY <1>7 DEF LoadUp, counters, history, CounterTurn, Ranging, RepTypes, Reports
  <2>2. \A u \in Users : produced[u] = billed[u] + dropped[u] + slice[u] + Unreported(u)
    BY <2>1 DEF AccountTurn, Accounted, Reading, Handling
  <2>3. slice[w] = 0
    BY <2>1 DEF Pending, Ranging
  <2>4. CASE entry[rep.ctr][w] = None
    <3>1. rep'.at = "range" /\ rep'.ctr = counter
      BY <1>0, <1>7, <2>1, <2>4 DEF LoadUp, Reports
    <3>2. CounterTurn'
      BY <1>1, <1>2, <1>4, <2>1, <3>1 DEF CounterTurn, Ranging, Handling, Resting, StorageOf
    <3>3. AccountTurn'
      BY <1>1, <1>5, <2>1, <2>2, <3>1 DEF AccountTurn, Accounted, Reading, Handling
    <3> QED BY <3>2, <3>3
  <2>5. CASE entry[rep.ctr][w] # None
    <3>1. /\ rep'.at = "down" /\ rep'.ctr = counter /\ rep'.user = w /\ rep'.store = StorageOf(w)
          /\ rep'.up = up[StorageOf(w)]
      BY <1>0, <1>7, <2>1, <2>5, NoneIsNew DEF LoadUp, Reports, StorageOf
    <3>2. CounterTurn'
      BY <1>1, <1>2, <1>4, <2>1, <3>1 DEF CounterTurn, Ranging, Handling, Resting, StorageOf
    <3>3. AccountTurn'
      BY <1>0, <1>1, <1>5, <1>u, <2>1, <2>2, <2>3, <3>1 DEF AccountTurn, Accounted, Reading, Handling
    <3> QED BY <3>2, <3>3
  <2> QED BY <2>4, <2>5
<1>8. CASE EndRange
  <2>1. /\ rep.at = "range" /\ rep'.at = "push" /\ UNCHANGED <<entry, up, down, slice, billed, dropped>>
    BY <1>8 DEF EndRange, counters, history, Idle
  <2>2. CounterTurn'
    BY <1>1, <1>2, <1>4, <2>1 DEF CounterTurn, Ranging, Handling, Resting, StorageOf
  <2>3. AccountTurn'
    BY <1>1, <1>5, <2>1 DEF AccountTurn, Accounted, Reading, Handling
  <2> QED BY <2>2, <2>3
<1>9. CASE ReportUserTraffic
  <2>1. /\ rep.at = "push" /\ rep'.at = "online" /\ UNCHANGED <<entry, up, down, slice>>
        /\ \A u \in Users : \/ billed'[u] = billed[u] + slice[u] /\ dropped'[u] = dropped[u]
                            \/ billed'[u] = billed[u] /\ dropped'[u] = dropped[u] + slice[u]
    BY <1>0, <1>9 DEF ReportUserTraffic, counters, Idle
  <2>2. CounterTurn'
    BY <1>1, <1>2, <1>4, <2>1 DEF CounterTurn, Ranging, Handling, Resting, StorageOf
  <2>3. ASSUME NEW u \in Users PROVE produced'[u] = billed'[u] + dropped'[u] + Unreported(u)'
    <3>1. produced[u] = billed[u] + dropped[u] + slice[u] + Unreported(u)
      BY <2>1 DEF AccountTurn, Accounted, Reading, Handling
    <3>2. Unreported(u)' = Unreported(u) /\ produced'[u] = produced[u]
      BY <1>1, <1>5, <2>1
    <3> QED BY <1>0, <1>u, <2>1, <3>1, <3>2
  <2>4. AccountTurn'
    BY <2>1, <2>3 DEF AccountTurn, Accounted, Reading, Handling
  <2> QED BY <2>2, <2>4
<1>10. CASE ReportOnline
  <2>1. /\ rep.at = "online" /\ rep'.at = "idle" /\ slice' = Zero /\ UNCHANGED <<entry, up, down, billed, dropped>>
    BY <1>10 DEF ReportOnline, counters, history, Idle
  <2>2. CounterTurn'
    BY <1>1, <1>2, <1>4, <2>1 DEF CounterTurn, Ranging, Handling, Resting, StorageOf
  <2>3. \A u \in Users : produced[u] = billed[u] + dropped[u] + Unreported(u)
    BY <2>1 DEF AccountTurn, Accounted
  <2>4. AccountTurn'
    BY <1>0, <1>1, <1>5, <1>u, <2>1, <2>3 DEF AccountTurn, Accounted, Reading, Handling, Zero
  <2> QED BY <2>2, <2>4
<1>11. CASE LoadDown \/ ResetUp \/ ResetDown
  <2>1. rep.at \in Handling /\ rep.user \in Users /\ rep.store \in Stores /\ rep.ctr = counter /\ rep.store = StorageOf(rep.user)
    BY <1>11 DEF LoadDown, ResetUp, ResetDown, Handling, Ranging, RepTypes, Reports, CounterTurn
  <2>2. rep'.ctr = counter /\ rep'.user = rep.user /\ rep'.store = rep.store /\ rep'.up = rep.up
    BY <1>0, <1>11, <2>1 DEF LoadDown, ResetUp, ResetDown, Reports
  <2>s. PICK s \in Stores : s = rep.store
    BY <2>1
  <2>w. PICK w \in Users : w = rep.user
    BY <2>1
  <2>3. StorageOf(w) = s /\ s # None /\ counter \in Conns
    BY <1>0, <2>1, <2>s, <2>w, NoneIsNew DEF Stores, StorageOf
  <2>4. ASSUME NEW u \in Users, u # w PROVE StorageOf(u) \in (Stores \cup {None}) \ {s}
    BY <2>3, <2>4, OwnStorage, UnreportedType
  <2>5. \A u \in Users : u # w =>
          rep.at # "online" /\ produced[u] = billed[u] + dropped[u] + slice[u] + Unreported(u)
    BY <2>1, <2>w DEF AccountTurn, Accounted, Reading, Handling
  <2>6. Unreported(w) = up[s] + down[s]
    BY <2>3 DEF Unreported
  <2>7. Reading(w)
    BY <2>1, <2>w DEF Reading
  <2>8. CASE LoadDown
    <3>1. rep.at = "down" /\ UNCHANGED <<entry, up, down, billed, dropped>>
      BY <1>11, <2>8 DEF LoadDown, counters, history
    <3>2. produced[w] = billed[w] + dropped[w] + Unreported(w) /\ rep.up = up[s]
      BY <2>7, <2>s, <3>1 DEF AccountTurn, Accounted
    <3>3. slice[w] = 0
      BY <2>w, <3>1 DEF Pending
    <3>4. \A u \in Users : Unreported(u)' = Unreported(u)
      BY <1>5, <3>1
    <3>5. CASE rep.up + down[rep.store] > MinReport
      <4>1. rep'.at = "resetUp" /\ slice' = [slice EXCEPT ![w] = up[s] + down[s]]
        BY <1>0, <2>8, <2>s, <2>w, <3>2, <3>5 DEF LoadDown, Reports
      <4>2. CounterTurn'
        BY <1>1, <1>2, <1>4, <2>1, <2>2, <3>1 DEF CounterTurn, Ranging, Handling, Resting, StorageOf
      <4>3. slice'[w] = up[s] + down[s] /\ \A u \in Users : u # w => slice'[u] = slice[u]
        BY <1>0, <4>1
      <4>4. ASSUME NEW u \in Users, u # w PROVE Accounted(u)'
        BY <1>1, <2>2, <2>5, <2>w, <3>1, <3>4, <4>1, <4>3, <4>4 DEF Accounted, Reading, Handling
      <4>5. Accounted(w)'
        BY <1>1, <2>2, <2>6, <2>s, <2>w, <3>1, <3>2, <3>4, <4>1, <4>3 DEF Accounted, Reading, Handling
      <4>6. AccountTurn'
        BY <4>4, <4>5 DEF AccountTurn
      <4> QED BY <4>2, <4>6
    <3>6. CASE ~(rep.up + down[rep.store] > MinReport)
      <4>1. rep'.at = "range" /\ UNCHANGED slice
        BY <1>0, <2>8, <3>6 DEF LoadDown, Reports
      <4>2. CounterTurn'
        BY <1>1, <1>2, <1>4, <2>2, <3>1, <4>1 DEF CounterTurn, Ranging, Handling, Resting, StorageOf
      <4>3. \A u \in Users : produced[u] = billed[u] + dropped[u] + slice[u] + Unreported(u)
        BY <1>0, <1>u, <2>5, <3>2, <3>3
      <4>4. AccountTurn'
        BY <1>1, <3>1, <3>4, <4>1, <4>3 DEF AccountTurn, Accounted, Reading, Handling
      <4> QED BY <4>2, <4>4
    <3> QED BY <3>5, <3>6
  <2>9. CASE ResetUp
    <3>1. /\ rep.at = "resetUp" /\ rep'.at = "resetDown" /\ UNCHANGED <<entry, down, slice, billed, dropped>>
          /\ up' = [up EXCEPT ![s] = 0]
      BY <1>0, <2>9, <2>s DEF ResetUp, history, Reports
    <3>2. CounterTurn'
      BY <1>1, <1>2, <1>4, <2>1, <2>2, <3>1 DEF CounterTurn, Ranging, Handling, Resting, StorageOf
    <3>3. up'[s] = 0 /\ \A r \in Stores : r # s => up'[r] = up[r]
      BY <1>0, <3>1
    <3>4. ASSUME NEW u \in Users, u # w PROVE Accounted(u)'
      <4>1. Unreported(u)' = Unreported(u)
        BY <1>4, <2>4, <3>1, <3>3, <3>4 DEF Unreported
      <4> QED BY <1>1, <2>2, <2>5, <2>w, <3>1, <3>4, <4>1 DEF Accounted, Reading, Handling
    <3>5. Accounted(w)'
      <4>1. produced[w] = billed[w] + dropped[w] + slice[w]
        BY <2>7, <3>1 DEF AccountTurn, Accounted
      <4> QED BY <1>1, <2>2, <2>s, <2>w, <3>1, <3>3, <4>1 DEF Accounted, Reading, Handling
    <3>6. AccountTurn'
      BY <3>4, <3>5 DEF AccountTurn
    <3> QED BY <3>2, <3>6
  <2>10. CASE ResetDown
    <3>1. /\ rep.at = "resetDown" /\ rep'.at = "range" /\ UNCHANGED <<up, billed>>
          /\ down' = [down EXCEPT ![s] = 0]
      BY <1>0, <2>10, <2>s DEF ResetDown, Reports
    <3>2. down'[s] = 0 /\ \A r \in Stores : r # s => down'[r] = down[r]
      BY <1>0, <3>1
    <3>3. produced[w] = billed[w] + dropped[w] + slice[w] /\ up[s] = 0
      BY <2>7, <2>s, <3>1 DEF AccountTurn, Accounted
    <3>4. CASE w \in known
      <4>1. UNCHANGED <<entry, slice, dropped>>
        BY <2>10, <2>w, <3>4 DEF ResetDown
      <4>2. CounterTurn'
        BY <1>1, <1>2, <1>4, <2>2, <3>1, <4>1 DEF CounterTurn, Ranging, Handling, Resting, StorageOf
      <4>3. ASSUME NEW u \in Users, u # w PROVE Unreported(u)' = Unreported(u)
        BY <1>4, <2>4, <3>1, <3>2, <4>1, <4>3 DEF Unreported
      <4>4. Unreported(w)' = 0
        BY <1>4, <2>3, <3>1, <3>2, <3>3, <4>1 DEF Unreported
      <4>5. \A u \in Users : produced[u] = billed[u] + dropped[u] + slice[u] + Unreported(u)'
        BY <1>0, <2>5, <3>3, <4>3, <4>4
      <4>6. AccountTurn'
        BY <1>1, <3>1, <4>1, <4>5 DEF AccountTurn, Accounted, Reading, Handling
      <4> QED BY <4>2, <4>6
    <3>5. CASE w \notin known
      <4>1. /\ entry' = [entry EXCEPT ![counter][w] = None]
            /\ dropped' = [dropped EXCEPT ![w] = dropped[w] + slice[w]] /\ slice' = [slice EXCEPT ![w] = 0]
        BY <2>1, <2>10, <2>w, <3>5 DEF ResetDown
      <4>2. StorageOf(w)' = None /\ \A u \in Users : u # w => StorageOf(u)' = StorageOf(u)
        BY <1>0, <1>1, <2>3, <4>1, NoneIsNew DEF StorageOf
      <4>3. /\ dropped'[w] = dropped[w] + slice[w] /\ slice'[w] = 0
            /\ \A u \in Users : u # w => dropped'[u] = dropped[u] /\ slice'[u] = slice[u]
        BY <1>0, <4>1
      <4>4. ASSUME NEW u \in Users, u # w PROVE Unreported(u)' = Unreported(u)
        BY <2>4, <3>1, <3>2, <4>2, <4>4 DEF Unreported
      <4>5. Unreported(w)' = 0
        BY <4>2 DEF Unreported
      <4>6. \A u \in Users : produced[u] = billed[u] + dropped'[u] + slice'[u] + Unreported(u)'
        BY <1>0, <2>5, <3>3, <4>3, <4>4, <4>5
      <4>7. AccountTurn'
        BY <1>1, <3>1, <4>6 DEF AccountTurn, Accounted, Reading, Handling
      <4>8. ASSUME NEW d \in Conns, kind = "xray", Carries(d) PROVE store[d] = StorageOf(user[d])'
        <5>1. PICK v \in Users : v = user[d]
          BY DEF ConnTypes
        <5>2. v # w
          BY <3>5, <4>8, <5>1 DEF LinkInv, Linked, Carries, Managed, MapTypes
        <5>3. store[d] = StorageOf(v)'
          BY <4>2, <4>8, <5>1, <5>2 DEF CounterTurn
        <5> QED BY <1>1, <5>1, <5>3 DEF StorageOf
      <4>9. CounterTurn'
        BY <1>1, <1>2, <2>2, <3>1, <4>8 DEF CounterTurn, Ranging, Handling, Resting, StorageOf, Carries
      <4> QED BY <4>7, <4>9
    <3> QED BY <3>4, <3>5
  <2> QED BY <1>11, <2>8, <2>9, <2>10
<1> QED BY <1>6, <1>7, <1>8, <1>9, <1>10, <1>11 DEF Report

\* A deletion drops what its user has not been billed for, and for xray no
\* live link of the user is left.
LEMMA ChangesAccounts ==
    ASSUME InTurn, Shape', LinkInv' \/ kind # "xray", Changes
    PROVE  CounterTurn' /\ AccountTurn'
<1> USE DEF InTurn, Shape
<1>0. /\ counter \in Conns \cup {None} /\ entry \in [Conns -> [Users -> Stores \cup {None}]]
      /\ produced \in [Users -> Nat] /\ billed \in [Users -> Nat] /\ dropped \in [Users -> Nat]
  BY TrafficBounds DEF CounterTypes, HistoryTypes
<1>1. /\ rep.at = "idle" /\ UNCHANGED <<rep, slice, up, down, user, produced, billed>> /\ slice = Zero
      /\ \A d \in Conns : stage'[d] = stage[d] /\ stage[d] \in Resting
  BY ChangesTurn DEF Pending
<1>2. UNCHANGED kind
  BY UsersStay DEF TrafficNext
<1>u. \A u \in Users : Unreported(u) \in Nat
  BY UnreportedType
<1>3. \A u \in Users : produced[u] = billed[u] + dropped[u] + Unreported(u)
  BY <1>0, <1>1, <1>u DEF AccountTurn, Accounted, Reading, Handling, Zero
<1>4. ASSUME \A u \in Users : produced[u] = billed[u] + dropped'[u] + Unreported(u)' PROVE AccountTurn'
  <2>1. ASSUME NEW u \in Users PROVE Unreported(u)' \in Nat
    BY DEF Unreported, StorageOf, CounterTypes
  <2>2. dropped' \in [Users -> Nat]
    BY DEF HistoryTypes
  <2>3. \A u \in Users : produced[u] = billed[u] + dropped'[u] + slice[u] + Unreported(u)'
    BY <1>0, <1>1, <1>4, <2>1, <2>2 DEF Zero
  <2> QED BY <1>1, <2>3 DEF AccountTurn, Accounted, Reading, Handling
<1>5. ASSUME \A d \in Conns : kind = "xray" /\ Carries(d)' => store'[d] = StorageOf(user[d])' PROVE CounterTurn'
  BY <1>1, <1>2, <1>5 DEF CounterTurn, Resting, Ranging, Handling, StorageOf
<1>6. \A d \in Conns : kind = "xray" /\ Carries(d) => store[d] = StorageOf(user[d])
  BY DEF CounterTurn
<1>7. ASSUME NEW w \in Users, DropCounter(w), UNCHANGED <<counter, store>>,
             kind = "xray" => cut \subseteq cut' /\ \A d \in Conns : Carries(d)' => user[d] # w
      PROVE  CounterTurn' /\ AccountTurn'
  <2>1. StorageOf(w)' = None /\ \A u \in Users : u # w => StorageOf(u)' = StorageOf(u)
    BY <1>0, <1>7, NoneIsNew DEF StorageOf, DropCounter
  <2>2. Unreported(w)' = 0 /\ \A u \in Users : u # w => Unreported(u)' = Unreported(u)
    BY <1>1, <2>1 DEF Unreported
  <2>3. dropped'[w] = dropped[w] + Unreported(w) /\ \A u \in Users : u # w => dropped'[u] = dropped[u]
    BY <1>0, <1>7 DEF DropCounter
  <2>4. \A u \in Users : produced[u] = billed[u] + dropped'[u] + Unreported(u)'
    BY <1>0, <1>3, <1>u, <2>2, <2>3
  <2>5. AccountTurn'
    BY <1>4, <2>4
  <2>6. ASSUME NEW d \in Conns, kind = "xray", Carries(d)' PROVE store'[d] = StorageOf(user[d])'
    <3>1. PICK v \in Users : v = user[d]
      BY DEF ConnTypes
    <3>2. v # w /\ Carries(d)
      BY <1>1, <1>7, <2>6, <3>1 DEF Carries
    <3>3. store'[d] = StorageOf(v)'
      BY <1>6, <1>7, <2>1, <2>6, <3>1, <3>2
    <3> QED BY <1>1, <3>1, <3>3 DEF StorageOf
  <2>7. CounterTurn'
    BY <1>5, <2>6
  <2> QED BY <2>5, <2>7
<1>8. ASSUME NEW w \in Users, XrayDelUsers(w) PROVE CounterTurn' /\ AccountTurn'
  <2>1. /\ DropCounter(w) /\ UNCHANGED <<counter, store>> /\ cut \subseteq cut'
        /\ kind = "xray" /\ known' = known \ {w} /\ UNCHANGED <<kind, serial, stage>>
    BY <1>8 DEF XrayDelUsers, conns, fixed
  <2>2. \A d \in Conns : Carries(d)' => user[d] # w
    BY <1>1, <2>1 DEF LinkInv, Linked, Carries, Managed
  <2> QED BY <1>7, <2>1, <2>2
<1>9. ASSUME NEW w \in Users, Hy2DelCounter(w) PROVE CounterTurn' /\ AccountTurn'
  <2>1. DropCounter(w) /\ UNCHANGED <<counter, store>> /\ kind = "hy2"
    BY <1>9 DEF Hy2DelCounter, conns
  <2> QED BY <1>7, <2>1
<1>10. ASSUME Hy2DelAuth \/ \E w \in Users : AddUsers(w) PROVE CounterTurn' /\ AccountTurn'
  <2>1. UNCHANGED <<counter, entry, store, cut, dropped>>
    BY <1>10 DEF Hy2DelAuth, AddUsers, counters, conns, linkMaps, history
  <2>2. \A u \in Users : Unreported(u)' = Unreported(u)
    BY <1>1, <2>1 DEF Unreported, StorageOf
  <2>3. AccountTurn'
    BY <1>3, <1>4, <2>1, <2>2
  <2>4. CounterTurn'
    BY <1>1, <1>5, <1>6, <2>1 DEF Carries, StorageOf
  <2> QED BY <2>3, <2>4
<1>11. CASE Reload /\ kind = "xray"
  <2>1. UNCHANGED <<counter, entry, store, cut, dropped>>
    BY <1>11 DEF Reload
  <2>2. \A u \in Users : Unreported(u)' = Unreported(u)
    BY <1>1, <2>1 DEF Unreported, StorageOf
  <2>3. AccountTurn'
    BY <1>3, <1>4, <2>1, <2>2
  <2>4. CounterTurn'
    BY <1>1, <1>5, <1>6, <2>1 DEF Carries, StorageOf
  <2> QED BY <2>3, <2>4
<1>12. CASE Reload /\ kind = "hy2"
  <2>1. counter' = None /\ kind = "hy2" /\ dropped' = [u \in Users |-> dropped[u] + Unreported(u)]
    BY <1>12 DEF Reload
  <2>2. \A u \in Users : Unreported(u)' = 0
    BY <2>1 DEF Unreported, StorageOf
  <2>3. \A u \in Users : produced[u] = billed[u] + dropped'[u] + Unreported(u)'
    BY <1>0, <1>3, <1>u, <2>1, <2>2
  <2>4. AccountTurn' /\ CounterTurn'
    BY <1>4, <1>5, <2>1, <2>3
  <2> QED BY <2>4
<1>13. kind \in {"xray", "hy2"}
  BY KindsAssumption DEF MapTypes
<1> QED BY <1>8, <1>9, <1>10, <1>11, <1>12, <1>13 DEF Changes, SingDelUsers

\* Every connection finds its link; and in a behaviour in which nothing overlaps,
\* connections, reports and edits take turns, and each finds the accounts as
\* it should.
TakingTurns ==
    /\ kind = "xray" => LinkInv
    /\ serial => Turns /\ (kind # "sing" => CounterTurn /\ AccountTurn)

LEMMA TakingTurnsStep == Billing /\ TakingTurns /\ [TrafficNext]_trafficVars => TakingTurns'
<1> SUFFICES ASSUME Billing, TakingTurns, [TrafficNext]_trafficVars PROVE TakingTurns'
  OBVIOUS
<1> USE DEF Billing
<1>1. Shape /\ Shape' /\ UNCHANGED <<kind, serial>>
  BY BillingStep, UsersStay DEF trafficVars, fixed
<1>2. CASE UNCHANGED trafficVars
  <2>1. UNCHANGED <<listed, known, forgetting, managers, links, cut, raced, counter, entry, up, down, stage, user, mgr, ctr,
                    store, rep, slice, produced, billed, dropped>>
    BY <1>2 DEF trafficVars, userMaps, linkMaps, counters, conns, report, history
  <2>2. Connecting' = Connecting
    BY <2>1 DEF Connecting
  <2>3. Turns => Turns'
    BY <2>1, <2>2 DEF Turns
  <2>4. LinkInv => LinkInv'
    BY <1>1, <2>1 DEF LinkInv, Linked, Managed
  <2>5. CounterTurn /\ AccountTurn => CounterTurn' /\ AccountTurn'
    BY <1>1, <2>1 DEF CounterTurn, AccountTurn, Accounted, Reading, Unreported, StorageOf, Carries
  <2> QED BY <1>1, <2>3, <2>4, <2>5 DEF TakingTurns
<1>3. CASE TrafficNext
  <2>1. serial => Turns'
    BY <1>1, <1>3, TurnsStep DEF TakingTurns
  <2>2. kind = "xray" => LinkInv'
    BY <1>1, <1>3, LinkStep DEF TakingTurns
  <2>3. ASSUME serial, kind # "sing" PROVE CounterTurn' /\ AccountTurn'
    <3>1. InTurn
      BY <1>1, <2>3 DEF TakingTurns, InTurn
    <3> QED BY <1>1, <1>3, <2>2, <3>1, ConnectionAccounts, ReportAccounts, ChangesAccounts DEF TrafficNext
  <2> QED BY <1>1, <2>1, <2>2, <2>3 DEF TakingTurns
<1> QED BY <1>2, <1>3

LEMMA TakingTurnsInit == TrafficInit => TakingTurns
<1> SUFFICES ASSUME TrafficInit PROVE Turns /\ LinkInv /\ CounterTurn /\ AccountTurn
  BY DEF TakingTurns
<1>1. \A c \in Conns : stage[c] = "new"
  BY DEF TrafficInit
<1>2. Connecting = {} /\ raced = {}
  BY <1>1 DEF TrafficInit, Connecting, Resting
<1>3. rep.at = "idle" /\ counter = None /\ \A u \in Users : managers[u] = None
  BY DEF TrafficInit, Idle
<1>4. Turns
  BY <1>2, <1>3 DEF Turns
<1>5. LinkInv
  BY <1>1, <1>2, <1>3 DEF LinkInv, Linked
<1>6. CounterTurn
  BY <1>1, <1>3 DEF CounterTurn, Carries, Ranging, Handling
<1>7. \A u \in Users : produced[u] = 0 /\ billed[u] = 0 /\ dropped[u] = 0 /\ slice[u] = 0 /\ Unreported(u) = 0
  BY <1>3 DEF TrafficInit, Zero, Unreported, StorageOf
<1>8. AccountTurn
  BY <1>3, <1>7 DEF AccountTurn, Accounted, Reading, Handling
<1> QED BY <1>4, <1>5, <1>6, <1>8

LEMMA TakingTurnsAlways == TrafficSpec => [](Billing /\ TakingTurns)
<1>1. TrafficSpec => []Billing
  BY BillingAlways, PTL
<1> QED BY <1>1, TakingTurnsInit, TakingTurnsStep, PTL DEF TrafficSpec

\* The panel is never told of a byte twice, whatever overlaps; and where nothing
\* overlaps, every byte is billed, waits where the next report finds it, or was
\* dropped where the code drops it.
THEOREM BytesAreBilledAlways == TrafficSpec => []BytesAreBilled
<1>1. Billing /\ TakingTurns => EveryByteAccounted
  <2> SUFFICES ASSUME Billing, TakingTurns, serial, kind # "sing", rep.at = "idle", NEW u \in Users
               PROVE  produced[u] = billed[u] + dropped[u] + Unreported(u)
    BY DEF EveryByteAccounted
  <2>1. produced[u] = billed[u] + dropped[u] + slice[u] + Unreported(u)
    BY DEF TakingTurns, AccountTurn, Accounted, Reading, Handling
  <2>2. slice[u] = 0
    BY DEF Billing, Pending, Zero
  <2>3. billed[u] \in Nat /\ dropped[u] \in Nat /\ Unreported(u) \in Nat
    BY UnreportedType DEF Billing, Shape, HistoryTypes
  <2> QED BY <2>1, <2>2, <2>3
<1>2. Billing /\ TakingTurns => BytesAreBilled
  BY <1>1, NoByteTwice DEF BytesAreBilled
<1> QED BY <1>2, TakingTurnsAlways, PTL

\* Whatever overlaps, deleting a user closes every link of xray that the user still
\* has, but for one who has lost a manager to a second first connection or was
\* deleted before AddLink.
THEOREM LiveLinksAlways == TrafficSpec => []LiveLinksAreManaged
<1>1. TakingTurns => LiveLinksAreManaged
  BY DEF TakingTurns, LinkInv, Linked, Managed, LiveLinksAreManaged
<1> QED BY <1>1, TakingTurnsAlways, PTL
=============================================================================
