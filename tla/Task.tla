-------------------------------- MODULE Task --------------------------------
(***************************************************************************)
(* common/task: a Task runs Execute once per Interval in a goroutine of     *)
(* its own until Close.  Start and Close hold t.access; the goroutine does  *)
(* not: it evaluates the field t.stop anew each time it enters its select,  *)
(* so what it waits on is whatever channel the latest Start has made.       *)
(*                                                                          *)
(* Each effective Start makes one channel and one goroutine; both are named *)
(* by the number of that Start (its generation), so t.stop is made[t].      *)
(* Time is abstracted: a timer may fire whenever its goroutine waits on it. *)
(***************************************************************************)
EXTENDS Naturals, FiniteSets

CONSTANTS
    Tasks,      \* the Task objects
    MaxStarts,  \* bound: effective Starts of one Task
    Failing     \* whether an Execute may return an error

ASSUME MaxStartsAssumption == MaxStarts \in Nat
ASSUME FailingAssumption == Failing \in BOOLEAN

VARIABLES
    running,    \* t.running
    made,       \* number of channels made; the last one is t.stop
    closed,     \* the channels that have been closed
    pc,         \* where each goroutine is
    waitsOn,    \* the channel a waiting goroutine's select has evaluated, else 0
    panicked    \* the process died closing a closed channel

taskVars == <<running, made, closed, pc, waitsOn, panicked>>

Gens == 1..MaxStarts
Places == {"none", "select", "wait", "exec", "done"}

Live(t) == {g \in Gens : pc[t][g] \in {"select", "wait", "exec"}}
Executing(t) == {g \in Gens : pc[t][g] = "exec"}

Init ==
    /\ running = [t \in Tasks |-> FALSE]
    /\ made = [t \in Tasks |-> 0]
    /\ closed = [t \in Tasks |-> {}]
    /\ pc = [t \in Tasks |-> [g \in Gens |-> "none"]]
    /\ waitsOn = [t \in Tasks |-> [g \in Gens |-> 0]]
    /\ panicked = FALSE

-----------------------------------------------------------------------------
\* Calls, by any goroutine at any time

\* Mutants of this section: Close only clears the flag; the select evaluates a
\* channel that is not made yet.
CloseStop_Forgotten(t) == UNCHANGED <<closed, panicked>>
EnterSelect_NextChannel(t, g) ==
    /\ pc[t][g] = "select"
    /\ waitsOn' = [waitsOn EXCEPT ![t][g] = made[t] + 1]
    /\ pc' = [pc EXCEPT ![t][g] = "wait"]
    /\ UNCHANGED <<running, made, closed, panicked>>

\* A Start with `first` set has its goroutine call Execute before it waits.
Spawn(t, first) ==
    /\ made[t] < MaxStarts
    /\ running' = [running EXCEPT ![t] = TRUE]
    /\ made' = [made EXCEPT ![t] = @ + 1]
    /\ pc' = [pc EXCEPT ![t][made[t] + 1] = IF first THEN "exec" ELSE "select"]
    /\ UNCHANGED <<closed, waitsOn, panicked>>

Start(t, first) ==
    \/ running[t] /\ UNCHANGED taskVars
    \/ ~running[t] /\ Spawn(t, first)

\* close(t.stop): closing a channel twice panics.
CloseStop(t) ==
    /\ closed' = [closed EXCEPT ![t] = @ \cup {made[t]}]
    /\ panicked' = (made[t] \in closed[t])

\* Mutant: Close leaves the flag set.
Close_KeepsFlag(t) == running[t] /\ CloseStop(t) /\ UNCHANGED <<running, made, pc, waitsOn>>

Close(t) ==
    \/ ~running[t] /\ UNCHANGED taskVars
    \/ /\ running[t]
       /\ running' = [running EXCEPT ![t] = FALSE]
       /\ CloseStop(t)
       /\ UNCHANGED <<made, pc, waitsOn>>

-----------------------------------------------------------------------------
\* Steps of goroutine g of task t

\* The select evaluates t.stop and starts a fresh timer: a channel that is
\* already closed is ready, the timer (Interval > 0) is not.
EnterSelect(t, g) ==
    /\ pc[t][g] = "select"
    /\ \/ /\ made[t] \in closed[t]
          /\ pc' = [pc EXCEPT ![t][g] = "done"]
          /\ UNCHANGED waitsOn
       \/ /\ made[t] \notin closed[t]
          /\ pc' = [pc EXCEPT ![t][g] = "wait"]
          /\ waitsOn' = [waitsOn EXCEPT ![t][g] = made[t]]
    /\ UNCHANGED <<running, made, closed, panicked>>

\* When the timer and the channel are both ready, select takes either.
TimerFires(t, g) ==
    /\ pc[t][g] = "wait"
    /\ pc' = [pc EXCEPT ![t][g] = "exec"]
    /\ waitsOn' = [waitsOn EXCEPT ![t][g] = 0]
    /\ UNCHANGED <<running, made, closed, panicked>>

StopFires(t, g) ==
    /\ pc[t][g] = "wait"
    /\ waitsOn[t][g] \in closed[t]
    /\ pc' = [pc EXCEPT ![t][g] = "done"]
    /\ waitsOn' = [waitsOn EXCEPT ![t][g] = 0]
    /\ UNCHANGED <<running, made, closed, panicked>>

ExecuteReturns(t, g) ==
    /\ pc[t][g] = "exec"
    /\ pc' = [pc EXCEPT ![t][g] = "select"]
    /\ UNCHANGED <<running, made, closed, waitsOn, panicked>>

\* The error path closes t.stop without looking at t.running.
ExecuteFails(t, g) ==
    /\ Failing
    /\ pc[t][g] = "exec"
    /\ running' = [running EXCEPT ![t] = FALSE]
    /\ CloseStop(t)
    /\ pc' = [pc EXCEPT ![t][g] = "done"]
    /\ UNCHANGED <<made, waitsOn>>

Waiting(t, g) == EnterSelect(t, g) \/ TimerFires(t, g) \/ StopFires(t, g)
LoopStep(t, g) == Waiting(t, g) \/ ExecuteReturns(t, g) \/ ExecuteFails(t, g)

Next ==
    /\ ~panicked
    /\ \E t \in Tasks :
        \/ \E first \in BOOLEAN : Start(t, first)
        \/ Close(t)
        \/ \E g \in Gens : LoopStep(t, g)

\* The Go scheduler runs every goroutine; timers fire; Execute returns (its
\* requests have a timeout).
LoopFairness == \A t \in Tasks, g \in Gens : WF_taskVars(~panicked /\ LoopStep(t, g))

Spec == Init /\ [][Next]_taskVars
FairSpec == Spec /\ LoopFairness

-----------------------------------------------------------------------------
\* Properties

TypeOK ==
    /\ running \in [Tasks -> BOOLEAN]
    /\ made \in [Tasks -> 0..MaxStarts]
    /\ closed \in [Tasks -> SUBSET Gens]
    /\ pc \in [Tasks -> [Gens -> Places]]
    /\ waitsOn \in [Tasks -> [Gens -> 0..MaxStarts]]
    /\ panicked \in BOOLEAN

\* t.running says whether t.stop is open, and every channel of an earlier
\* Start is closed: a goroutine that waits on one can always leave.
FlagTracksStop ==
    ~panicked => \A t \in Tasks :
        /\ running[t] <=> made[t] > 0 /\ made[t] \notin closed[t]
        /\ \A c \in 1..made[t] : c < made[t] => c \in closed[t]

\* A task that claims to run has a goroutine that no closed channel can stop:
\* Start never returns early on behalf of a goroutine that is about to leave.
RunningHasLoop ==
    ~panicked => \A t \in Tasks : running[t] =>
        \E g \in Gens : \/ pc[t][g] \in {"select", "exec"}
                        \/ pc[t][g] = "wait" /\ waitsOn[t][g] = made[t]

\* No interleaving of Start, Close and returning Executes closes a stop
\* channel twice (which would kill the process).
NoDoubleClose == ~panicked

\* Close is final: a task that is not started again loses every goroutine,
\* also those that a Close-and-Start during Execute has left behind.
ClosedTaskDrains ==
    \A t \in Tasks : <>[](~running[t] /\ ~panicked) => <>[](Live(t) = {})

\* A task that stays running executes again and again.
RunningTaskExecutes ==
    \A t \in Tasks : running[t] ~> (~running[t] \/ Executing(t) # {} \/ panicked)

\* The goroutines follow t.running, however often and from wherever the task is
\* closed and started: none survives the last Close, one works after a Start.
GoroutinesFollowTask == ClosedTaskDrains /\ RunningTaskExecutes
=============================================================================
